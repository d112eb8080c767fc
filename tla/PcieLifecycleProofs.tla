------------------------- MODULE PcieLifecycleProofs -------------------------
(***************************************************************************)
(* Theorems about PcieLifecycle, for every number of probes and every set  *)
(* of settings: what a device that nobody is bound to still holds, what    *)
(* the interrupt handler finds, what undefined behaviour needs, and what   *)
(* a removal finds.                                                        *)
(*                                                                         *)
(* A thread is known by the steps its list still has.  The lists of the    *)
(* source obey a few rules of order (nothing is used after it is freed,    *)
(* the interrupt goes before the mappings); what is left of a list obeys   *)
(* them too, so the invariants speak of the set of steps that remain: what *)
(* they still need, still free and still take.                             *)
(***************************************************************************)
EXTENDS PcieLifecycle, TLAPS
-----------------------------------------------------------------------------
(***************************************************************************)
(* Lists of steps.                                                         *)
(***************************************************************************)
Remaining(L) == {L[i] : i \in 1..Len(L)}
Rem(t)       == Remaining(todo[t])

\* the steps of the lists, and of all of them
ProbeSet == {"devinfo", "chip_attach", "busdev", "settings", "bus", "set_drvdata", "drvr",
             "otp", "fwreq", "get_fw", "probed"}
FailProbeSet == {"rel_resource", "chip_detach", "free_settings", "free_busdev",
                 "free_devinfo", "unprobed"}
FailBrcmfSet == {"free_drvr", "free_bus"} \union FailProbeSet
SetupSet == {"attach", "raminfo", "download", "set_up", "rings", "scratch", "ringupd", "irq",
             "flowrings", "waitqueue", "cfg80211", "timer_on"}
Setup4360Set == {"attach", "raminfo", "download"}
DetachSet == {"bus_stop", "cfg_detach"}
FailSetupSet == {"console", "crashed", "release_driver"}
ShortSet == DetachSet \union
  {"free_drvr", "free_busdev", "free_bus", "rel_resource", "chip_detach", "free_settings",
   "free_devinfo", "clear_drvdata"}
RemoveSet == ShortSet \union
  {"console", "timer_off", "set_down", "intr_off", "free_flowrings", "rel_irq", "irq_sync",
   "rel_scratch", "rel_rings", "reset_device"}
ResetSet == DetachSet \union
  {"intr_off", "console", "rel_irq", "irq_sync", "rel_scratch", "rel_rings", "reset_device",
   "fwreq", "get_fw"}
StepNames == ProbeSet \union FailBrcmfSet \union SetupSet \union FailSetupSet \union RemoveSet
             \union ResetSet \union {"unbound", "reprobe"}

\* what a step frees, and what it takes
Gives(s) ==
  CASE s = "rel_scratch" -> Scratch
    [] s = "rel_irq"     -> {"irq"}
    [] s = "attach"      -> {"fwreq"}
    [] s = "download"    -> {"fw"}
    [] OTHER             -> Frees(s)

Gains(s) ==
  CASE s = "chip_attach" -> {"map", "ci"}
    [] s = "attach"      -> {"fw"}
    [] s \in Taken \union Scratch \union {"cfg80211"} -> {s}
    [] OTHER             -> {}

\* steps that end a list, and steps after which the handler has nothing to read
Ends == {"probed", "unprobed", "unbound", "reprobe", "release_driver"}
Goes == {"rel_resource", "free_devinfo"}

\* x must not come before y
Clash(x, y) ==
  \/ x = y
  \/ Gives(x) \intersect Needs(y) # {}
  \/ Needs(x) \intersect Gains(y) # {}
  \/ x \in Goes /\ y \in {"rel_irq", "irq_sync", "set_down", "bus_stop"}
  \/ x = "bus_stop" /\ y = "set_down"
  \/ x \in Ends
  \/ x = "get_fw" /\ y # "probed"
  \/ x = "clear_drvdata" /\ y \notin {"unbound", "reprobe"}
  \/ y = "attach"
  \/ y = "download" /\ x \notin {"attach", "raminfo"}
  \/ Gains(x) # {} /\ y \in Goes
  \/ x = "cfg80211" /\ y # "timer_on"

\* the steps that come after s wherever s is
Awaits(s) ==
  CASE s = "devinfo"     -> {"chip_attach", "busdev", "settings", "bus", "drvr", "fwreq"}
    [] s = "chip_attach" -> {"busdev", "settings", "bus", "drvr", "fwreq"}
    [] s = "busdev"      -> {"settings", "bus", "drvr", "fwreq"}
    [] s = "settings"    -> {"bus", "drvr", "fwreq"}
    [] s = "bus"         -> {"drvr", "fwreq"}
    [] s \in {"drvr", "otp"} -> {"fwreq"}
    [] s = "fwreq"       -> {"get_fw"}
    [] s = "attach"      -> {"download"}
    [] s = "rel_irq"     -> {"irq_sync"}
    [] s = "set_down"    -> {"bus_stop"}
    [] OTHER             -> {}

InOrder(L) == \A i, j \in 1..Len(L) : i < j => ~Clash(L[i], L[j])

\* what the steps of L await comes later in L or is in S
Promised(L, S) ==
  \A i \in 1..Len(L) : \A b \in Awaits(L[i]) :
     b \in S \/ \E j \in (i + 1)..Len(L) : L[j] = b

Plan(L) == L \in Seq(StepNames) /\ InOrder(L) /\ Promised(L, {})

\* What is left of a list after its first step.
LEMMA TailSteps ==
  ASSUME NEW L \in Seq(StepNames), L # <<>>
  PROVE  /\ Head(L) \in Remaining(L) /\ Tail(L) \in Seq(StepNames)
         /\ Remaining(L) = {Head(L)} \union Remaining(Tail(L))
BY DEF Remaining

LEMMA TailInOrder ==
  ASSUME NEW L \in Seq(StepNames), L # <<>>, InOrder(L)
  PROVE  /\ InOrder(Tail(L))
         /\ \A s \in Remaining(Tail(L)) : ~Clash(Head(L), s)
BY DEF InOrder, Remaining

LEMMA TailPromised ==
  ASSUME NEW L \in Seq(StepNames), L # <<>>, Promised(L, {})
  PROVE  /\ Promised(Tail(L), {})
         /\ Awaits(Head(L)) \subseteq Remaining(Tail(L))
<1>1. Len(Tail(L)) = Len(L) - 1 /\ (\A i \in 1..Len(Tail(L)) : Tail(L)[i] = L[i + 1]) /\ Len(L) \in Nat
      /\ Len(L) # 0
  OBVIOUS
<1>2. ASSUME NEW i \in 1..Len(Tail(L)), NEW b \in Awaits(Tail(L)[i])
      PROVE  \E j \in (i + 1)..Len(Tail(L)) : Tail(L)[j] = b
  <2>1. i + 1 \in 1..Len(L) /\ b \in Awaits(L[i + 1])
    BY <1>1
  <2>2. PICK j \in ((i + 1) + 1)..Len(L) : L[j] = b
    BY <2>1 DEF Promised
  <2>3. j - 1 \in (i + 1)..Len(Tail(L)) /\ Tail(L)[j - 1] = L[(j - 1) + 1] /\ (j - 1) + 1 = j
    BY <1>1, <2>2
  <2> QED
    BY <2>2, <2>3
<1>3. ASSUME NEW b \in Awaits(Head(L))
      PROVE  b \in Remaining(Tail(L))
  <2>1. 1 \in 1..Len(L) /\ Head(L) = L[1]
    BY <1>1
  <2>2. PICK j \in (1 + 1)..Len(L) : L[j] = b
    BY <2>1, <1>3 DEF Promised
  <2>3. j - 1 \in 1..Len(Tail(L)) /\ Tail(L)[j - 1] = L[(j - 1) + 1] /\ (j - 1) + 1 = j
    BY <1>1, <2>2
  <2> QED
    BY <2>2, <2>3 DEF Remaining
<1> QED
  BY <1>2, <1>3 DEF Promised

\* A list is empty when no step remains.
LEMMA NothingRemains ==
  ASSUME NEW L \in Seq(StepNames)
  PROVE  L = <<>> <=> Remaining(L) = {}
<1>1. L # <<>> => Head(L) \in Remaining(L)
  BY TailSteps
<1>2. L = <<>> => Remaining(L) = {}
  BY DEF Remaining
<1> QED
  BY <1>1, <1>2

\* A list in order with one step left is that step.
LEMMA OneRemains ==
  ASSUME NEW L \in Seq(StepNames), InOrder(L), NEW s, Remaining(L) = {s}
  PROVE  L = <<s>>
<1>1. \A i \in 1..Len(L) : L[i] = s
  BY DEF Remaining
<1>2. Len(L) \in Nat /\ Len(L) # 0
  BY DEF Remaining
<1>3. ~(Len(L) > 1)
  <2>1. ASSUME Len(L) > 1
        PROVE  FALSE
    <3>1. 1 \in 1..Len(L) /\ 2 \in 1..Len(L) /\ 1 < 2
      BY <1>2, <2>1
    <3>2. L[1] = s /\ L[2] = s
      BY <1>1, <3>1
    <3> QED
      BY <3>1, <3>2 DEF InOrder, Clash
  <2> QED
    BY <2>1
<1>4. \A n \in Nat : n # 0 /\ ~(n > 1) => n = 1
  OBVIOUS
<1>5. Len(L) = 1
  BY <1>2, <1>3, <1>4
<1> QED
  BY <1>1, <1>5

\* Two lists one after the other.
LEMMA JoinSteps ==
  ASSUME NEW A \in Seq(StepNames), NEW B \in Seq(StepNames)
  PROVE  /\ A \o B \in Seq(StepNames)
         /\ Remaining(A \o B) = Remaining(A) \union Remaining(B)
<1>1. Len(A) \in Nat /\ Len(B) \in Nat /\ Len(A \o B) = Len(A) + Len(B) /\ A \o B \in Seq(StepNames)
  OBVIOUS
<1>2. \A k \in 1..Len(A \o B) :
        \/ k \in 1..Len(A) /\ (A \o B)[k] = A[k]
        \/ k - Len(A) \in 1..Len(B) /\ (A \o B)[k] = B[k - Len(A)]
  BY <1>1
<1>3. \A k \in 1..Len(A) : k \in 1..Len(A \o B) /\ (A \o B)[k] = A[k]
  BY <1>1
<1>4. \A k \in 1..Len(B) : k + Len(A) \in 1..Len(A \o B) /\ (A \o B)[k + Len(A)] = B[k]
  BY <1>1
<1>5. Remaining(A \o B) \subseteq Remaining(A) \union Remaining(B)
  BY <1>2 DEF Remaining
<1>6. Remaining(A) \subseteq Remaining(A \o B)
  BY <1>3 DEF Remaining
<1>7. Remaining(B) \subseteq Remaining(A \o B)
  BY <1>4 DEF Remaining
<1> QED
  BY <1>1, <1>5, <1>6, <1>7

LEMMA JoinInOrder ==
  ASSUME NEW A \in Seq(StepNames), NEW B \in Seq(StepNames), InOrder(A), InOrder(B),
         \A a \in Remaining(A), b \in Remaining(B) : ~Clash(a, b)
  PROVE  InOrder(A \o B)
<1>1. Len(A) \in Nat /\ Len(B) \in Nat /\ Len(A \o B) = Len(A) + Len(B)
  OBVIOUS
<1>2. \A k \in 1..Len(A \o B) :
        \/ k \in 1..Len(A) /\ (A \o B)[k] = A[k]
        \/ k > Len(A) /\ k - Len(A) \in 1..Len(B) /\ (A \o B)[k] = B[k - Len(A)]
  BY <1>1
<1> SUFFICES ASSUME NEW i \in 1..Len(A \o B), NEW j \in 1..Len(A \o B), i < j
             PROVE  ~Clash((A \o B)[i], (A \o B)[j])
  BY DEF InOrder
<1>3. CASE i \in 1..Len(A) /\ j \in 1..Len(A)
  <2>1. (A \o B)[i] = A[i] /\ (A \o B)[j] = A[j]
    BY <1>1, <1>3
  <2> QED
    BY <1>3, <2>1 DEF InOrder
<1>4. CASE i \in 1..Len(A) /\ j \notin 1..Len(A)
  <2>1. (A \o B)[i] = A[i] /\ j - Len(A) \in 1..Len(B) /\ (A \o B)[j] = B[j - Len(A)]
    BY <1>1, <1>2, <1>4
  <2>2. A[i] \in Remaining(A) /\ B[j - Len(A)] \in Remaining(B)
    BY <1>4, <2>1 DEF Remaining
  <2> QED
    BY <2>1, <2>2
<1>5. CASE i \notin 1..Len(A)
  <2>1. i - Len(A) \in 1..Len(B) /\ (A \o B)[i] = B[i - Len(A)]
    BY <1>1, <1>2, <1>5
  <2>2. j - Len(A) \in 1..Len(B) /\ (A \o B)[j] = B[j - Len(A)] /\ i - Len(A) < j - Len(A)
    BY <1>1, <1>2, <1>5
  <2> QED
    BY <2>1, <2>2 DEF InOrder
<1> QED
  BY <1>3, <1>4, <1>5

LEMMA JoinPromised ==
  ASSUME NEW A \in Seq(StepNames), NEW B \in Seq(StepNames), Promised(A, Remaining(B)), Promised(B, {})
  PROVE  Promised(A \o B, {})
<1>1. Len(A) \in Nat /\ Len(B) \in Nat /\ Len(A \o B) = Len(A) + Len(B)
  OBVIOUS
<1> SUFFICES ASSUME NEW i \in 1..Len(A \o B), NEW b \in Awaits((A \o B)[i])
             PROVE  \E j \in (i + 1)..Len(A \o B) : (A \o B)[j] = b
  BY DEF Promised
<1>2. CASE i <= Len(A)
  <2>1. i \in 1..Len(A) /\ (A \o B)[i] = A[i]
    BY <1>1, <1>2
  <2>2. CASE b \in Remaining(B)
    <3>1. PICK j \in 1..Len(B) : B[j] = b
      BY <2>2 DEF Remaining
    <3>2. j + Len(A) \in (i + 1)..Len(A \o B) /\ (A \o B)[j + Len(A)] = B[j]
      BY <1>1, <2>1, <3>1
    <3> QED
      BY <3>1, <3>2
  <2>3. CASE b \notin Remaining(B)
    <3>1. PICK j \in (i + 1)..Len(A) : A[j] = b
      BY <2>1, <2>3 DEF Promised
    <3>2. j \in (i + 1)..Len(A \o B) /\ (A \o B)[j] = A[j]
      BY <1>1, <2>1, <3>1
    <3> QED
      BY <3>1, <3>2
  <2> QED
    BY <2>2, <2>3
<1>3. CASE i > Len(A)
  <2>1. i - Len(A) \in 1..Len(B) /\ (A \o B)[i] = B[i - Len(A)]
    BY <1>1, <1>3
  <2>2. PICK j \in ((i - Len(A)) + 1)..Len(B) : B[j] = b
    BY <2>1 DEF Promised
  <2>3. j + Len(A) \in (i + 1)..Len(A \o B) /\ (A \o B)[j + Len(A)] = B[j]
    BY <1>1, <2>1, <2>2
  <2> QED
    BY <2>2, <2>3
<1> QED
  BY <1>1, <1>2, <1>3

\* A with the steps S may stand before a list with the steps T.
Piece(A, S, T) ==
  /\ A \in Seq(StepNames) /\ Remaining(A) = S /\ InOrder(A) /\ Promised(A, T)
  /\ \A a \in S, b \in T : ~Clash(a, b)

LEMMA JoinPlan ==
  ASSUME NEW A, NEW S, NEW B, NEW T, Piece(A, S, T), Plan(B), Remaining(B) = T
  PROVE  Plan(A \o B) /\ Remaining(A \o B) = S \union T
BY JoinSteps, JoinInOrder, JoinPromised DEF Plan, Piece

LEMMA LastPiece ==
  ASSUME NEW A, NEW S, Piece(A, S, {})
  PROVE  Plan(A) /\ Remaining(A) = S
BY DEF Plan, Piece

\* What is left of a plan is a plan.
LEMMA TailPlan ==
  ASSUME NEW L, Plan(L), L # <<>>
  PROVE  /\ Plan(Tail(L))
         /\ Head(L) \in Remaining(L) /\ Head(L) \notin Remaining(Tail(L))
         /\ Remaining(L) = {Head(L)} \union Remaining(Tail(L))
         /\ \A s \in Remaining(Tail(L)) : ~Clash(Head(L), s)
         /\ Awaits(Head(L)) \subseteq Remaining(Tail(L))
<1>1. \A s \in Remaining(Tail(L)) : ~Clash(Head(L), s)
  BY TailInOrder DEF Plan
<1>2. Head(L) \notin Remaining(Tail(L))
  BY <1>1 DEF Clash
<1> QED
  BY <1>1, <1>2, TailSteps, TailInOrder, TailPromised DEF Plan
-----------------------------------------------------------------------------
(***************************************************************************)
(* The lists of the source are plans.                                      *)
(***************************************************************************)
LEMMA EmptyPlan == Plan(<<>>) /\ Remaining(<<>>) = {}
BY DEF Plan, InOrder, Promised, Remaining

LEMMA OnePlan ==
  ASSUME NEW s \in StepNames, Awaits(s) = {}
  PROVE  Plan(<<s>>) /\ Remaining(<<s>>) = {s}
<1>1. <<s>> \in Seq(StepNames)
  OBVIOUS
<1>2. Len(<<s>>) = 1 /\ <<s>>[1] = s
  OBVIOUS
<1>3. \A i \in 1..1 : i = 1
  OBVIOUS
<1>4. \A i, j \in 1..1 : ~(i < j)
  OBVIOUS
<1>5. Remaining(<<s>>) = {s}
  BY <1>2, <1>3 DEF Remaining
<1>6. InOrder(<<s>>)
  BY <1>2, <1>4 DEF InOrder
<1>7. Promised(<<s>>, {})
  BY <1>2, <1>3 DEF Promised
<1> QED
  BY <1>1, <1>5, <1>6, <1>7 DEF Plan
LEMMA ProbePlan == Plan(ProbeSteps) /\ Remaining(ProbeSteps) = ProbeSet
<1> DEFINE A == <<"devinfo", "chip_attach", "busdev", "settings">>
           B == <<"bus", "set_drvdata", "drvr", "otp">>
           C == <<"fwreq", "get_fw", "probed">>
           InC == {"fwreq", "get_fw", "probed"}
           InB == {"bus", "set_drvdata", "drvr", "otp"} \union InC
           InA == {"devinfo", "chip_attach", "busdev", "settings"} \union InB
<1>1. Piece(A, {"devinfo", "chip_attach", "busdev", "settings"}, InB)
  <2>1. A \in Seq(StepNames)
    BY DEF StepNames, ProbeSet, FailBrcmfSet, FailProbeSet, SetupSet, FailSetupSet, RemoveSet,
           ShortSet, DetachSet, ResetSet
  <2>2. Remaining(A) = {"devinfo", "chip_attach", "busdev", "settings"}
    BY DEF Remaining
  <2>3. InOrder(A)
    BY DEF InOrder, Clash, Gives, Gains, Needs, Frees, Taken, Scratch, Ends, Goes
  <2>4. Promised(A, InB)
    BY DEF Promised, Awaits
  <2>5. \A a \in {"devinfo", "chip_attach", "busdev", "settings"}, b \in InB : ~Clash(a, b)
    BY DEF Clash, Gives, Gains, Needs, Frees, Taken, Scratch, Ends, Goes
  <2> QED
    BY <2>1, <2>2, <2>3, <2>4, <2>5 DEF Piece
<1>2. Piece(B, {"bus", "set_drvdata", "drvr", "otp"}, InC)
  <2>1. B \in Seq(StepNames)
    BY DEF StepNames, ProbeSet, FailBrcmfSet, FailProbeSet, SetupSet, FailSetupSet, RemoveSet,
           ShortSet, DetachSet, ResetSet
  <2>2. Remaining(B) = {"bus", "set_drvdata", "drvr", "otp"}
    BY DEF Remaining
  <2>3. InOrder(B)
    BY DEF InOrder, Clash, Gives, Gains, Needs, Frees, Taken, Scratch, Ends, Goes
  <2>4. Promised(B, InC)
    BY DEF Promised, Awaits
  <2>5. \A a \in {"bus", "set_drvdata", "drvr", "otp"}, b \in InC : ~Clash(a, b)
    BY DEF Clash, Gives, Gains, Needs, Frees, Taken, Scratch, Ends, Goes
  <2> QED
    BY <2>1, <2>2, <2>3, <2>4, <2>5 DEF Piece
<1>3. Piece(C, {"fwreq", "get_fw", "probed"}, {})
  <2>1. C \in Seq(StepNames)
    BY DEF StepNames, ProbeSet, FailBrcmfSet, FailProbeSet, SetupSet, FailSetupSet, RemoveSet,
           ShortSet, DetachSet, ResetSet
  <2>2. Remaining(C) = {"fwreq", "get_fw", "probed"}
    BY DEF Remaining
  <2>3. InOrder(C)
    BY DEF InOrder, Clash, Gives, Gains, Needs, Frees, Taken, Scratch, Ends, Goes
  <2>4. Promised(C, {})
    BY DEF Promised, Awaits
  <2>5. \A a \in {"fwreq", "get_fw", "probed"}, b \in {} : ~Clash(a, b)
    BY DEF Clash, Gives, Gains, Needs, Frees, Taken, Scratch, Ends, Goes
  <2> QED
    BY <2>1, <2>2, <2>3, <2>4, <2>5 DEF Piece
<1>4. ProbeSteps = A \o (B \o C)
  BY DEF ProbeSteps
<1>5. InA = ProbeSet
  BY DEF ProbeSet
<1> HIDE DEF A, B, C
<1>6. Plan(C) /\ Remaining(C) = InC
  BY <1>3, LastPiece
<1>7. Plan(B \o C) /\ Remaining(B \o C) = InB
  <2> HIDE DEF InC
  <2> QED
    BY <1>2, <1>6, JoinPlan
<1>8. Plan(A \o (B \o C)) /\ Remaining(A \o (B \o C)) = InA
  <2> HIDE DEF InB
  <2> QED
    BY <1>1, <1>7, JoinPlan
<1> QED
  BY <1>4, <1>5, <1>8

LEMMA FailProbePlan == Plan(FailProbe) /\ Remaining(FailProbe) = FailProbeSet
<1> DEFINE A == <<"rel_resource", "chip_detach", "free_settings">>
           B == <<"free_busdev", "free_devinfo", "unprobed">>
           InB == {"free_busdev", "free_devinfo", "unprobed"}
           InA == {"rel_resource", "chip_detach", "free_settings"} \union InB
<1>1. Piece(A, {"rel_resource", "chip_detach", "free_settings"}, InB)
  <2>1. A \in Seq(StepNames)
    BY DEF StepNames, ProbeSet, FailBrcmfSet, FailProbeSet, SetupSet, FailSetupSet, RemoveSet,
           ShortSet, DetachSet, ResetSet
  <2>2. Remaining(A) = {"rel_resource", "chip_detach", "free_settings"}
    BY DEF Remaining
  <2>3. InOrder(A)
    BY DEF InOrder, Clash, Gives, Gains, Needs, Frees, Taken, Scratch, Ends, Goes
  <2>4. Promised(A, InB)
    BY DEF Promised, Awaits
  <2>5. \A a \in {"rel_resource", "chip_detach", "free_settings"}, b \in InB : ~Clash(a, b)
    BY DEF Clash, Gives, Gains, Needs, Frees, Taken, Scratch, Ends, Goes
  <2> QED
    BY <2>1, <2>2, <2>3, <2>4, <2>5 DEF Piece
<1>2. Piece(B, {"free_busdev", "free_devinfo", "unprobed"}, {})
  <2>1. B \in Seq(StepNames)
    BY DEF StepNames, ProbeSet, FailBrcmfSet, FailProbeSet, SetupSet, FailSetupSet, RemoveSet,
           ShortSet, DetachSet, ResetSet
  <2>2. Remaining(B) = {"free_busdev", "free_devinfo", "unprobed"}
    BY DEF Remaining
  <2>3. InOrder(B)
    BY DEF InOrder, Clash, Gives, Gains, Needs, Frees, Taken, Scratch, Ends, Goes
  <2>4. Promised(B, {})
    BY DEF Promised, Awaits
  <2>5. \A a \in {"free_busdev", "free_devinfo", "unprobed"}, b \in {} : ~Clash(a, b)
    BY DEF Clash, Gives, Gains, Needs, Frees, Taken, Scratch, Ends, Goes
  <2> QED
    BY <2>1, <2>2, <2>3, <2>4, <2>5 DEF Piece
<1>3. FailProbe = A \o B
  BY DEF FailProbe
<1>4. InA = FailProbeSet
  BY DEF FailProbeSet
<1> HIDE DEF A, B
<1>5. Plan(B) /\ Remaining(B) = InB
  BY <1>2, LastPiece
<1>6. Plan(A \o B) /\ Remaining(A \o B) = InA
  <2> HIDE DEF InB
  <2> QED
    BY <1>1, <1>5, JoinPlan
<1> QED
  BY <1>3, <1>4, <1>6

LEMMA FailBusPlan == Plan(FailBus) /\ Remaining(FailBus) = {"free_bus"} \union FailProbeSet
<1> DEFINE A == <<"free_bus">>
           InA == {"free_bus"} \union FailProbeSet
<1>1. Piece(A, {"free_bus"}, FailProbeSet)
  <2>1. A \in Seq(StepNames)
    BY DEF StepNames, ProbeSet, FailBrcmfSet, FailProbeSet, SetupSet, FailSetupSet, RemoveSet,
           ShortSet, DetachSet, ResetSet
  <2>2. Remaining(A) = {"free_bus"}
    BY DEF Remaining
  <2>3. InOrder(A)
    BY DEF InOrder, Clash, Gives, Gains, Needs, Frees, Taken, Scratch, Ends, Goes
  <2>4. Promised(A, FailProbeSet)
    BY DEF Promised, Awaits, FailProbeSet
  <2>5. \A a \in {"free_bus"}, b \in FailProbeSet : ~Clash(a, b)
    BY DEF Clash, Gives, Gains, Needs, Frees, Taken, Scratch, Ends, Goes, FailProbeSet
  <2> QED
    BY <2>1, <2>2, <2>3, <2>4, <2>5 DEF Piece
<1>2. FailBus = A \o FailProbe
  BY DEF FailBus
<1>3. InA = {"free_bus"} \union FailProbeSet
  BY DEF FailProbeSet
<1> HIDE DEF A
<1>4. Plan(A \o FailProbe) /\ Remaining(A \o FailProbe) = InA
  BY <1>1, FailProbePlan, JoinPlan
<1> QED
  BY <1>2, <1>3, <1>4

LEMMA FailBrcmfPlan == Plan(FailBrcmf) /\ Remaining(FailBrcmf) = FailBrcmfSet
<1> DEFINE A == <<"free_drvr">>
           InA == {"free_drvr"} \union {"free_bus"} \union FailProbeSet
<1>1. Piece(A, {"free_drvr"}, {"free_bus"} \union FailProbeSet)
  <2>1. A \in Seq(StepNames)
    BY DEF StepNames, ProbeSet, FailBrcmfSet, FailProbeSet, SetupSet, FailSetupSet, RemoveSet,
           ShortSet, DetachSet, ResetSet
  <2>2. Remaining(A) = {"free_drvr"}
    BY DEF Remaining
  <2>3. InOrder(A)
    BY DEF InOrder, Clash, Gives, Gains, Needs, Frees, Taken, Scratch, Ends, Goes
  <2>4. Promised(A, {"free_bus"} \union FailProbeSet)
    BY DEF Promised, Awaits, FailProbeSet
  <2>5. \A a \in {"free_drvr"}, b \in {"free_bus"} \union FailProbeSet : ~Clash(a, b)
    BY DEF Clash, Gives, Gains, Needs, Frees, Taken, Scratch, Ends, Goes, FailProbeSet
  <2> QED
    BY <2>1, <2>2, <2>3, <2>4, <2>5 DEF Piece
<1>2. FailBrcmf = A \o FailBus
  BY DEF FailBrcmf
<1>3. InA = FailBrcmfSet
  BY DEF FailBrcmfSet, FailProbeSet
<1> HIDE DEF A
<1>4. Plan(A \o FailBus) /\ Remaining(A \o FailBus) = InA
  BY <1>1, FailBusPlan, JoinPlan
<1> QED
  BY <1>2, <1>3, <1>4

LEMMA SetupPlan == Plan(Tail(SetupSteps)) /\ Remaining(Tail(SetupSteps)) = SetupSet
<1> DEFINE A == <<"attach", "raminfo", "download", "set_up">>
           B == <<"rings", "scratch", "ringupd", "irq">>
           C == <<"flowrings", "waitqueue", "cfg80211", "timer_on">>
           InC == {"flowrings", "waitqueue", "cfg80211", "timer_on"}
           InB == {"rings", "scratch", "ringupd", "irq"} \union InC
           InA == {"attach", "raminfo", "download", "set_up"} \union InB
<1>1. Piece(A, {"attach", "raminfo", "download", "set_up"}, InB)
  <2>1. A \in Seq(StepNames)
    BY DEF StepNames, ProbeSet, FailBrcmfSet, FailProbeSet, SetupSet, FailSetupSet, RemoveSet,
           ShortSet, DetachSet, ResetSet
  <2>2. Remaining(A) = {"attach", "raminfo", "download", "set_up"}
    BY DEF Remaining
  <2>3. InOrder(A)
    BY DEF InOrder, Clash, Gives, Gains, Needs, Frees, Taken, Scratch, Ends, Goes
  <2>4. Promised(A, InB)
    BY DEF Promised, Awaits
  <2>5. \A a \in {"attach", "raminfo", "download", "set_up"}, b \in InB : ~Clash(a, b)
    BY DEF Clash, Gives, Gains, Needs, Frees, Taken, Scratch, Ends, Goes
  <2> QED
    BY <2>1, <2>2, <2>3, <2>4, <2>5 DEF Piece
<1>2. Piece(B, {"rings", "scratch", "ringupd", "irq"}, InC)
  <2>1. B \in Seq(StepNames)
    BY DEF StepNames, ProbeSet, FailBrcmfSet, FailProbeSet, SetupSet, FailSetupSet, RemoveSet,
           ShortSet, DetachSet, ResetSet
  <2>2. Remaining(B) = {"rings", "scratch", "ringupd", "irq"}
    BY DEF Remaining
  <2>3. InOrder(B)
    BY DEF InOrder, Clash, Gives, Gains, Needs, Frees, Taken, Scratch, Ends, Goes
  <2>4. Promised(B, InC)
    BY DEF Promised, Awaits
  <2>5. \A a \in {"rings", "scratch", "ringupd", "irq"}, b \in InC : ~Clash(a, b)
    BY DEF Clash, Gives, Gains, Needs, Frees, Taken, Scratch, Ends, Goes
  <2> QED
    BY <2>1, <2>2, <2>3, <2>4, <2>5 DEF Piece
<1>3. Piece(C, {"flowrings", "waitqueue", "cfg80211", "timer_on"}, {})
  <2>1. C \in Seq(StepNames)
    BY DEF StepNames, ProbeSet, FailBrcmfSet, FailProbeSet, SetupSet, FailSetupSet, RemoveSet,
           ShortSet, DetachSet, ResetSet
  <2>2. Remaining(C) = {"flowrings", "waitqueue", "cfg80211", "timer_on"}
    BY DEF Remaining
  <2>3. InOrder(C)
    BY DEF InOrder, Clash, Gives, Gains, Needs, Frees, Taken, Scratch, Ends, Goes
  <2>4. Promised(C, {})
    BY DEF Promised, Awaits
  <2>5. \A a \in {"flowrings", "waitqueue", "cfg80211", "timer_on"}, b \in {} : ~Clash(a, b)
    BY DEF Clash, Gives, Gains, Needs, Frees, Taken, Scratch, Ends, Goes
  <2> QED
    BY <2>1, <2>2, <2>3, <2>4, <2>5 DEF Piece
<1>4. Tail(SetupSteps) = A \o (B \o C)
  BY DEF SetupSteps
<1>5. InA = SetupSet
  BY DEF SetupSet
<1> HIDE DEF A, B, C
<1>6. Plan(C) /\ Remaining(C) = InC
  BY <1>3, LastPiece
<1>7. Plan(B \o C) /\ Remaining(B \o C) = InB
  <2> HIDE DEF InC
  <2> QED
    BY <1>2, <1>6, JoinPlan
<1>8. Plan(A \o (B \o C)) /\ Remaining(A \o (B \o C)) = InA
  <2> HIDE DEF InB
  <2> QED
    BY <1>1, <1>7, JoinPlan
<1> QED
  BY <1>4, <1>5, <1>8

LEMMA Setup4360Plan == Plan(Tail(SetupSteps4360)) /\ Remaining(Tail(SetupSteps4360)) = Setup4360Set
<1> DEFINE A == <<"attach", "raminfo", "download">>
           InA == {"attach", "raminfo", "download"}
<1>1. Piece(A, {"attach", "raminfo", "download"}, {})
  <2>1. A \in Seq(StepNames)
    BY DEF StepNames, ProbeSet, FailBrcmfSet, FailProbeSet, SetupSet, FailSetupSet, RemoveSet,
           ShortSet, DetachSet, ResetSet
  <2>2. Remaining(A) = {"attach", "raminfo", "download"}
    BY DEF Remaining
  <2>3. InOrder(A)
    BY DEF InOrder, Clash, Gives, Gains, Needs, Frees, Taken, Scratch, Ends, Goes
  <2>4. Promised(A, {})
    BY DEF Promised, Awaits
  <2>5. \A a \in {"attach", "raminfo", "download"}, b \in {} : ~Clash(a, b)
    BY DEF Clash, Gives, Gains, Needs, Frees, Taken, Scratch, Ends, Goes
  <2> QED
    BY <2>1, <2>2, <2>3, <2>4, <2>5 DEF Piece
<1>2. Tail(SetupSteps4360) = A
  BY DEF SetupSteps4360
<1>3. InA = Setup4360Set
  BY DEF Setup4360Set
<1> HIDE DEF A
<1>4. Plan(A) /\ Remaining(A) = InA
  BY <1>1, LastPiece
<1> QED
  BY <1>2, <1>3, <1>4

LEMMA FailSetupPlan == Plan(FailSetup) /\ Remaining(FailSetup) = FailSetupSet
<1> DEFINE A == <<"console", "crashed", "release_driver">>
           InA == {"console", "crashed", "release_driver"}
<1>1. Piece(A, {"console", "crashed", "release_driver"}, {})
  <2>1. A \in Seq(StepNames)
    BY DEF StepNames, ProbeSet, FailBrcmfSet, FailProbeSet, SetupSet, FailSetupSet, RemoveSet,
           ShortSet, DetachSet, ResetSet
  <2>2. Remaining(A) = {"console", "crashed", "release_driver"}
    BY DEF Remaining
  <2>3. InOrder(A)
    BY DEF InOrder, Clash, Gives, Gains, Needs, Frees, Taken, Scratch, Ends, Goes
  <2>4. Promised(A, {})
    BY DEF Promised, Awaits
  <2>5. \A a \in {"console", "crashed", "release_driver"}, b \in {} : ~Clash(a, b)
    BY DEF Clash, Gives, Gains, Needs, Frees, Taken, Scratch, Ends, Goes
  <2> QED
    BY <2>1, <2>2, <2>3, <2>4, <2>5 DEF Piece
<1>2. FailSetup = A
  BY DEF FailSetup
<1>3. InA = FailSetupSet
  BY DEF FailSetupSet
<1> HIDE DEF A
<1>4. Plan(A) /\ Remaining(A) = InA
  BY <1>1, LastPiece
<1> QED
  BY <1>2, <1>3, <1>4

LEMMA DetachFailPlan == Plan(Detach \o FailSetup) /\ Remaining(Detach \o FailSetup) = DetachSet \union FailSetupSet
<1> DEFINE A == <<"bus_stop", "cfg_detach">>
           InA == {"bus_stop", "cfg_detach"} \union FailSetupSet
<1>1. Piece(A, {"bus_stop", "cfg_detach"}, FailSetupSet)
  <2>1. A \in Seq(StepNames)
    BY DEF StepNames, ProbeSet, FailBrcmfSet, FailProbeSet, SetupSet, FailSetupSet, RemoveSet,
           ShortSet, DetachSet, ResetSet
  <2>2. Remaining(A) = {"bus_stop", "cfg_detach"}
    BY DEF Remaining
  <2>3. InOrder(A)
    BY DEF InOrder, Clash, Gives, Gains, Needs, Frees, Taken, Scratch, Ends, Goes
  <2>4. Promised(A, FailSetupSet)
    BY DEF Promised, Awaits, FailSetupSet
  <2>5. \A a \in {"bus_stop", "cfg_detach"}, b \in FailSetupSet : ~Clash(a, b)
    BY DEF Clash, Gives, Gains, Needs, Frees, Taken, Scratch, Ends, Goes, FailSetupSet
  <2> QED
    BY <2>1, <2>2, <2>3, <2>4, <2>5 DEF Piece
<1>2. Detach \o FailSetup = A \o FailSetup
  BY DEF Detach, DetachSet
<1>3. InA = DetachSet \union FailSetupSet
  BY DEF DetachSet, FailSetupSet
<1> HIDE DEF A
<1>4. Plan(A \o FailSetup) /\ Remaining(A \o FailSetup) = InA
  BY <1>1, FailSetupPlan, JoinPlan
<1> QED
  BY <1>2, <1>3, <1>4

LEMMA ResetPlan == Plan(ResetSteps) /\ Remaining(ResetSteps) = ResetSet
<1> DEFINE A == <<"intr_off", "console", "bus_stop", "cfg_detach">>
           B == <<"rel_irq", "irq_sync", "rel_scratch", "rel_rings">>
           C == <<"reset_device", "fwreq", "get_fw">>
           InC == {"reset_device", "fwreq", "get_fw"}
           InB == {"rel_irq", "irq_sync", "rel_scratch", "rel_rings"} \union InC
           InA == {"intr_off", "console", "bus_stop", "cfg_detach"} \union InB
<1>1. Piece(A, {"intr_off", "console", "bus_stop", "cfg_detach"}, InB)
  <2>1. A \in Seq(StepNames)
    BY DEF StepNames, ProbeSet, FailBrcmfSet, FailProbeSet, SetupSet, FailSetupSet, RemoveSet,
           ShortSet, DetachSet, ResetSet
  <2>2. Remaining(A) = {"intr_off", "console", "bus_stop", "cfg_detach"}
    BY DEF Remaining
  <2>3. InOrder(A)
    BY DEF InOrder, Clash, Gives, Gains, Needs, Frees, Taken, Scratch, Ends, Goes
  <2>4. Promised(A, InB)
    BY DEF Promised, Awaits, DetachSet
  <2>5. \A a \in {"intr_off", "console", "bus_stop", "cfg_detach"}, b \in InB : ~Clash(a, b)
    BY DEF Clash, Gives, Gains, Needs, Frees, Taken, Scratch, Ends, Goes, DetachSet
  <2> QED
    BY <2>1, <2>2, <2>3, <2>4, <2>5 DEF Piece
<1>2. Piece(B, {"rel_irq", "irq_sync", "rel_scratch", "rel_rings"}, InC)
  <2>1. B \in Seq(StepNames)
    BY DEF StepNames, ProbeSet, FailBrcmfSet, FailProbeSet, SetupSet, FailSetupSet, RemoveSet,
           ShortSet, DetachSet, ResetSet
  <2>2. Remaining(B) = {"rel_irq", "irq_sync", "rel_scratch", "rel_rings"}
    BY DEF Remaining
  <2>3. InOrder(B)
    BY DEF InOrder, Clash, Gives, Gains, Needs, Frees, Taken, Scratch, Ends, Goes
  <2>4. Promised(B, InC)
    BY DEF Promised, Awaits, DetachSet
  <2>5. \A a \in {"rel_irq", "irq_sync", "rel_scratch", "rel_rings"}, b \in InC : ~Clash(a, b)
    BY DEF Clash, Gives, Gains, Needs, Frees, Taken, Scratch, Ends, Goes, DetachSet
  <2> QED
    BY <2>1, <2>2, <2>3, <2>4, <2>5 DEF Piece
<1>3. Piece(C, {"reset_device", "fwreq", "get_fw"}, {})
  <2>1. C \in Seq(StepNames)
    BY DEF StepNames, ProbeSet, FailBrcmfSet, FailProbeSet, SetupSet, FailSetupSet, RemoveSet,
           ShortSet, DetachSet, ResetSet
  <2>2. Remaining(C) = {"reset_device", "fwreq", "get_fw"}
    BY DEF Remaining
  <2>3. InOrder(C)
    BY DEF InOrder, Clash, Gives, Gains, Needs, Frees, Taken, Scratch, Ends, Goes
  <2>4. Promised(C, {})
    BY DEF Promised, Awaits, DetachSet
  <2>5. \A a \in {"reset_device", "fwreq", "get_fw"}, b \in {} : ~Clash(a, b)
    BY DEF Clash, Gives, Gains, Needs, Frees, Taken, Scratch, Ends, Goes, DetachSet
  <2> QED
    BY <2>1, <2>2, <2>3, <2>4, <2>5 DEF Piece
<1>4. ResetSteps = A \o (B \o C)
  BY DEF ResetSteps, Detach, FreeIrq
<1>5. InA = ResetSet
  BY DEF ResetSet, DetachSet
<1> HIDE DEF A, B, C
<1>6. Plan(C) /\ Remaining(C) = InC
  BY <1>3, LastPiece
<1>7. Plan(B \o C) /\ Remaining(B \o C) = InB
  <2> HIDE DEF InC
  <2> QED
    BY <1>2, <1>6, JoinPlan
<1>8. Plan(A \o (B \o C)) /\ Remaining(A \o (B \o C)) = InA
  <2> HIDE DEF InB
  <2> QED
    BY <1>1, <1>7, JoinPlan
<1> QED
  BY <1>4, <1>5, <1>8

LEMMA ShortPlan ==
  ASSUME NEW last \in {"unbound", "reprobe"}
  PROVE  Plan(ShortRemoveSteps \o <<last>>) /\ Remaining(ShortRemoveSteps \o <<last>>) = ShortSet \union {last}
<1> DEFINE A == <<"bus_stop", "cfg_detach", "free_drvr", "free_busdev">>
           B == <<"free_bus", "rel_resource", "chip_detach">>
           C == <<"free_settings", "free_devinfo", "clear_drvdata">>
           InC == {"free_settings", "free_devinfo", "clear_drvdata"} \union {last}
           InB == {"free_bus", "rel_resource", "chip_detach"} \union InC
           InA == {"bus_stop", "cfg_detach", "free_drvr", "free_busdev"} \union InB
<1>0. Plan(<<last>>) /\ Remaining(<<last>>) = {last}
  <2>1. last \in StepNames
    BY DEF StepNames
  <2>2. Awaits(last) = {}
    BY DEF Awaits
  <2> QED
    BY <2>1, <2>2, OnePlan
<1>1. Piece(A, {"bus_stop", "cfg_detach", "free_drvr", "free_busdev"}, InB)
  <2>1. A \in Seq(StepNames)
    BY DEF StepNames, ProbeSet, FailBrcmfSet, FailProbeSet, SetupSet, FailSetupSet, RemoveSet,
           ShortSet, DetachSet, ResetSet
  <2>2. Remaining(A) = {"bus_stop", "cfg_detach", "free_drvr", "free_busdev"}
    BY DEF Remaining
  <2>3. InOrder(A)
    BY DEF InOrder, Clash, Gives, Gains, Needs, Frees, Taken, Scratch, Ends, Goes
  <2>4. Promised(A, InB)
    BY DEF Promised, Awaits, DetachSet
  <2>5. \A a \in {"bus_stop", "cfg_detach", "free_drvr", "free_busdev"}, b \in InB : ~Clash(a, b)
    BY DEF Clash, Gives, Gains, Needs, Frees, Taken, Scratch, Ends, Goes, DetachSet
  <2> QED
    BY <2>1, <2>2, <2>3, <2>4, <2>5 DEF Piece
<1>2. Piece(B, {"free_bus", "rel_resource", "chip_detach"}, InC)
  <2>1. B \in Seq(StepNames)
    BY DEF StepNames, ProbeSet, FailBrcmfSet, FailProbeSet, SetupSet, FailSetupSet, RemoveSet,
           ShortSet, DetachSet, ResetSet
  <2>2. Remaining(B) = {"free_bus", "rel_resource", "chip_detach"}
    BY DEF Remaining
  <2>3. InOrder(B)
    BY DEF InOrder, Clash, Gives, Gains, Needs, Frees, Taken, Scratch, Ends, Goes
  <2>4. Promised(B, InC)
    BY DEF Promised, Awaits, DetachSet
  <2>5. \A a \in {"free_bus", "rel_resource", "chip_detach"}, b \in InC : ~Clash(a, b)
    BY DEF Clash, Gives, Gains, Needs, Frees, Taken, Scratch, Ends, Goes, DetachSet
  <2> QED
    BY <2>1, <2>2, <2>3, <2>4, <2>5 DEF Piece
<1>3. Piece(C, {"free_settings", "free_devinfo", "clear_drvdata"}, {last})
  <2>1. C \in Seq(StepNames)
    BY DEF StepNames, ProbeSet, FailBrcmfSet, FailProbeSet, SetupSet, FailSetupSet, RemoveSet,
           ShortSet, DetachSet, ResetSet
  <2>2. Remaining(C) = {"free_settings", "free_devinfo", "clear_drvdata"}
    BY DEF Remaining
  <2>3. InOrder(C)
    BY DEF InOrder, Clash, Gives, Gains, Needs, Frees, Taken, Scratch, Ends, Goes
  <2>4. Promised(C, {last})
    BY DEF Promised, Awaits, DetachSet
  <2>5. \A a \in {"free_settings", "free_devinfo", "clear_drvdata"}, b \in {last} : ~Clash(a, b)
    BY DEF Clash, Gives, Gains, Needs, Frees, Taken, Scratch, Ends, Goes, DetachSet
  <2> QED
    BY <2>1, <2>2, <2>3, <2>4, <2>5 DEF Piece
<1>4. ShortRemoveSteps \o <<last>> = A \o (B \o (C \o <<last>>))
  BY DEF ShortRemoveSteps, Detach
<1>5. InA = ShortSet \union {last}
  BY DEF ShortSet, DetachSet
<1> HIDE DEF A, B, C
<1>6. Plan(C \o <<last>>) /\ Remaining(C \o <<last>>) = InC
  BY <1>3, <1>0, JoinPlan
<1>7. Plan(B \o (C \o <<last>>)) /\ Remaining(B \o (C \o <<last>>)) = InB
  <2> HIDE DEF InC
  <2> QED
    BY <1>2, <1>6, JoinPlan
<1>8. Plan(A \o (B \o (C \o <<last>>))) /\ Remaining(A \o (B \o (C \o <<last>>))) = InA
  <2> HIDE DEF InB
  <2> QED
    BY <1>1, <1>7, JoinPlan
<1> QED
  BY <1>4, <1>5, <1>8

LEMMA RemovePlan ==
  ASSUME NEW last \in {"unbound", "reprobe"}
  PROVE  Plan(RemoveSteps \o <<last>>) /\ Remaining(RemoveSteps \o <<last>>) = RemoveSet \union {last}
<1> DEFINE A == <<"console", "timer_off", "set_down", "intr_off">>
           B == <<"bus_stop", "cfg_detach", "free_drvr", "free_busdev">>
           C == <<"free_flowrings", "free_bus", "rel_irq", "irq_sync">>
           D == <<"rel_scratch", "rel_rings", "reset_device", "rel_resource">>
           E == <<"chip_detach", "free_settings", "free_devinfo", "clear_drvdata">>
           InE == {"chip_detach", "free_settings", "free_devinfo", "clear_drvdata"} \union {last}
           InD == {"rel_scratch", "rel_rings", "reset_device", "rel_resource"} \union InE
           InC == {"free_flowrings", "free_bus", "rel_irq", "irq_sync"} \union InD
           InB == {"bus_stop", "cfg_detach", "free_drvr", "free_busdev"} \union InC
           InA == {"console", "timer_off", "set_down", "intr_off"} \union InB
<1>0. Plan(<<last>>) /\ Remaining(<<last>>) = {last}
  <2>1. last \in StepNames
    BY DEF StepNames
  <2>2. Awaits(last) = {}
    BY DEF Awaits
  <2> QED
    BY <2>1, <2>2, OnePlan
<1>1. Piece(A, {"console", "timer_off", "set_down", "intr_off"}, InB)
  <2>1. A \in Seq(StepNames)
    BY DEF StepNames, ProbeSet, FailBrcmfSet, FailProbeSet, SetupSet, FailSetupSet, RemoveSet,
           ShortSet, DetachSet, ResetSet
  <2>2. Remaining(A) = {"console", "timer_off", "set_down", "intr_off"}
    BY DEF Remaining
  <2>3. InOrder(A)
    BY DEF InOrder, Clash, Gives, Gains, Needs, Frees, Taken, Scratch, Ends, Goes
  <2>4. Promised(A, InB)
    BY DEF Promised, Awaits, ShortSet, DetachSet
  <2>5. \A a \in {"console", "timer_off", "set_down", "intr_off"}, b \in InB : ~Clash(a, b)
    BY DEF Clash, Gives, Gains, Needs, Frees, Taken, Scratch, Ends, Goes, ShortSet, DetachSet
  <2> QED
    BY <2>1, <2>2, <2>3, <2>4, <2>5 DEF Piece
<1>2. Piece(B, {"bus_stop", "cfg_detach", "free_drvr", "free_busdev"}, InC)
  <2>1. B \in Seq(StepNames)
    BY DEF StepNames, ProbeSet, FailBrcmfSet, FailProbeSet, SetupSet, FailSetupSet, RemoveSet,
           ShortSet, DetachSet, ResetSet
  <2>2. Remaining(B) = {"bus_stop", "cfg_detach", "free_drvr", "free_busdev"}
    BY DEF Remaining
  <2>3. InOrder(B)
    BY DEF InOrder, Clash, Gives, Gains, Needs, Frees, Taken, Scratch, Ends, Goes
  <2>4. Promised(B, InC)
    BY DEF Promised, Awaits, ShortSet, DetachSet
  <2>5. \A a \in {"bus_stop", "cfg_detach", "free_drvr", "free_busdev"}, b \in InC : ~Clash(a, b)
    BY DEF Clash, Gives, Gains, Needs, Frees, Taken, Scratch, Ends, Goes, ShortSet, DetachSet
  <2> QED
    BY <2>1, <2>2, <2>3, <2>4, <2>5 DEF Piece
<1>3. Piece(C, {"free_flowrings", "free_bus", "rel_irq", "irq_sync"}, InD)
  <2>1. C \in Seq(StepNames)
    BY DEF StepNames, ProbeSet, FailBrcmfSet, FailProbeSet, SetupSet, FailSetupSet, RemoveSet,
           ShortSet, DetachSet, ResetSet
  <2>2. Remaining(C) = {"free_flowrings", "free_bus", "rel_irq", "irq_sync"}
    BY DEF Remaining
  <2>3. InOrder(C)
    BY DEF InOrder, Clash, Gives, Gains, Needs, Frees, Taken, Scratch, Ends, Goes
  <2>4. Promised(C, InD)
    BY DEF Promised, Awaits, ShortSet, DetachSet
  <2>5. \A a \in {"free_flowrings", "free_bus", "rel_irq", "irq_sync"}, b \in InD : ~Clash(a, b)
    BY DEF Clash, Gives, Gains, Needs, Frees, Taken, Scratch, Ends, Goes, ShortSet, DetachSet
  <2> QED
    BY <2>1, <2>2, <2>3, <2>4, <2>5 DEF Piece
<1>4. Piece(D, {"rel_scratch", "rel_rings", "reset_device", "rel_resource"}, InE)
  <2>1. D \in Seq(StepNames)
    BY DEF StepNames, ProbeSet, FailBrcmfSet, FailProbeSet, SetupSet, FailSetupSet, RemoveSet,
           ShortSet, DetachSet, ResetSet
  <2>2. Remaining(D) = {"rel_scratch", "rel_rings", "reset_device", "rel_resource"}
    BY DEF Remaining
  <2>3. InOrder(D)
    BY DEF InOrder, Clash, Gives, Gains, Needs, Frees, Taken, Scratch, Ends, Goes
  <2>4. Promised(D, InE)
    BY DEF Promised, Awaits, ShortSet, DetachSet
  <2>5. \A a \in {"rel_scratch", "rel_rings", "reset_device", "rel_resource"}, b \in InE : ~Clash(a, b)
    BY DEF Clash, Gives, Gains, Needs, Frees, Taken, Scratch, Ends, Goes, ShortSet, DetachSet
  <2> QED
    BY <2>1, <2>2, <2>3, <2>4, <2>5 DEF Piece
<1>5. Piece(E, {"chip_detach", "free_settings", "free_devinfo", "clear_drvdata"}, {last})
  <2>1. E \in Seq(StepNames)
    BY DEF StepNames, ProbeSet, FailBrcmfSet, FailProbeSet, SetupSet, FailSetupSet, RemoveSet,
           ShortSet, DetachSet, ResetSet
  <2>2. Remaining(E) = {"chip_detach", "free_settings", "free_devinfo", "clear_drvdata"}
    BY DEF Remaining
  <2>3. InOrder(E)
    BY DEF InOrder, Clash, Gives, Gains, Needs, Frees, Taken, Scratch, Ends, Goes
  <2>4. Promised(E, {last})
    BY DEF Promised, Awaits, ShortSet, DetachSet
  <2>5. \A a \in {"chip_detach", "free_settings", "free_devinfo", "clear_drvdata"}, b \in {last} : ~Clash(a, b)
    BY DEF Clash, Gives, Gains, Needs, Frees, Taken, Scratch, Ends, Goes, ShortSet, DetachSet
  <2> QED
    BY <2>1, <2>2, <2>3, <2>4, <2>5 DEF Piece
<1>6. RemoveSteps \o <<last>> = A \o (B \o (C \o (D \o (E \o <<last>>))))
  BY DEF RemoveSteps, StopSteps, Detach, AfterFree, FreeIrq
<1>7. InA = RemoveSet \union {last}
  BY DEF RemoveSet, ShortSet, DetachSet
<1> HIDE DEF A, B, C, D, E
<1>8. Plan(E \o <<last>>) /\ Remaining(E \o <<last>>) = InE
  BY <1>5, <1>0, JoinPlan
<1>9. Plan(D \o (E \o <<last>>)) /\ Remaining(D \o (E \o <<last>>)) = InD
  <2> HIDE DEF InE
  <2> QED
    BY <1>4, <1>8, JoinPlan
<1>10. Plan(C \o (D \o (E \o <<last>>))) /\ Remaining(C \o (D \o (E \o <<last>>))) = InC
  <2> HIDE DEF InD
  <2> QED
    BY <1>3, <1>9, JoinPlan
<1>11. Plan(B \o (C \o (D \o (E \o <<last>>)))) /\ Remaining(B \o (C \o (D \o (E \o <<last>>)))) = InB
  <2> HIDE DEF InC
  <2> QED
    BY <1>2, <1>10, JoinPlan
<1>12. Plan(A \o (B \o (C \o (D \o (E \o <<last>>))))) /\ Remaining(A \o (B \o (C \o (D \o (E \o <<last>>))))) = InA
  <2> HIDE DEF InB
  <2> QED
    BY <1>1, <1>11, JoinPlan
<1> QED
  BY <1>6, <1>7, <1>12
-----------------------------------------------------------------------------
(***************************************************************************)
(* What the threads' steps do.                                             *)
(***************************************************************************)
DownSet == FailBrcmfSet \union RemoveSet \union {"unbound", "reprobe"}

CoreSteps == ProbeSet \union DownSet
CbSteps   == SetupSet \union DetachSet \union FailSetupSet \union RemoveSet \union {"unbound"}

\* the steps that end a list that leaves nothing, and those that end one of "core"
Closes   == {"unbound", "reprobe", "unprobed"}
CoreEnds == Closes \union {"probed"}

\* steps of "cb" that only a removal takes
Owns == RemoveSet \ (DetachSet \union FailSetupSet)

\* Every list is a plan of its thread, with its last step still to come.
Shaped ==
  /\ \A t \in Threads : Plan(todo[t])
  /\ \A t \in Threads : Rem(t) \intersect Closes # {} => Rem(t) \subseteq DownSet
  /\ Rem("core") \subseteq CoreSteps /\ Rem("cb") \subseteq CbSteps /\ Rem("work") \subseteq ResetSet
  /\ Rem("core") # {} => Rem("core") \intersect CoreEnds # {}
  /\ "get_fw" \in Rem("core") => "probed" \in Rem("core")
  /\ Rem("work") # {} => "get_fw" \in Rem("work")
  /\ Rem("cb") \intersect Owns # {} => "unbound" \in Rem("cb")

\* The generations made so far, and 0.
Ever == 0..probes

LifeTypes ==
  /\ setting \in Settings
  /\ todo \in [Threads -> Seq(StepNames)]
  /\ probes \in Nat
  /\ gen \in [Threads -> Ever] /\ drvdata \in Ever /\ isr \in Ever
  /\ bound \in BOOLEAN
  /\ live \subseteq Res \X Ever /\ dangling \subseteq Res \X Ever
  /\ pending \subseteq Ever /\ queued \subseteq Ever
  /\ up \subseteq Ever /\ waitq \subseteq Ever /\ timer \subseteq Ever /\ armed \subseteq Ever

\* the download may also allocate the olmsg buffer
Extra(h) == IF h = "download" THEN {"olmsg"} ELSE {}

Memory(h, g) ==
  /\ (live \ Of(Gives(h), g)) \union Of(Gains(h), g) \subseteq live'
  /\ live' \subseteq (live \ Of(Gives(h), g)) \union Of(Gains(h) \union Extra(h), g)
  /\ h = "rel_scratch" => dangling' = dangling \union (Of(Scratch, g) \intersect live)
  /\ h \in Scratch => dangling' = dangling \ {<<h, g>>}
  /\ h \notin Scratch \union {"rel_scratch"} => dangling' = dangling
  /\ lost' \subseteq lost \union {h}
  /\ h \notin Taken \/ <<h, g>> \notin live => lost' = lost

Binding(h, g) ==
  /\ bound' = IF h = "probed" THEN TRUE ELSE IF h = "unbound" THEN FALSE ELSE bound
  /\ lock' = IF h \in {"probed", "unprobed", "unbound"} THEN Nobody ELSE lock
  /\ drvdata' = IF h = "set_drvdata" THEN g
                ELSE IF h = "clear_drvdata" \/ (h = "unprobed" /\ ~bound) THEN 0
                ELSE drvdata

Flags(h, g) ==
  /\ up' = IF h = "set_up" THEN up \union {g} ELSE IF h = "set_down" THEN up \ {g} ELSE up
  /\ waitq' = IF h = "waitqueue" THEN waitq \union {g} ELSE waitq
  /\ armed' = IF h = "cfg80211" THEN armed \union {g}
              ELSE IF h = "free_drvr" THEN armed \ {g} ELSE armed
  /\ h \in {"timer_off", "bus_stop"} => timer' = timer \ {g}
  /\ h = "timer_on" => timer' \in {timer, timer \union ({g} \intersect up)}
  /\ h \notin {"timer_off", "bus_stop", "timer_on"} => timer' = timer

Async(h, g) ==
  /\ pending' = IF h = "get_fw" THEN pending \union {g} ELSE pending
  /\ queued' = IF h = "crashed" THEN queued \union ({g} \intersect armed) ELSE queued
  /\ isr' = isr
  /\ h = "irq_sync" => isr # g

\* thread t does its next step, h, and goes on
Does(t, h) ==
  /\ todo[t] # <<>> /\ h = Head(todo[t])
  /\ todo' = [todo EXCEPT ![t] = Tail(todo[t])] /\ gen' = gen
  /\ probes' = probes /\ fault' = fault /\ happened' = happened
  /\ h # "reprobe"
  /\ h = "irq" => Sound(t)
  /\ h = "release_driver" => ~bound /\ lock = Nobody
  /\ Memory(h, gen[t]) /\ Binding(h, gen[t]) /\ Flags(h, gen[t]) /\ Async(h, gen[t])

\* the lists a step that failed goes on with
Recovers(t, h, L) ==
  \/ t = "core" /\ h = "devinfo" /\ L = <<"unprobed">>
  \/ t = "core" /\ h \in {"chip_attach", "busdev", "settings", "bus"} /\ L = FailProbe
  \/ t = "core" /\ h = "drvr" /\ L = FailBus
  \/ t = "core" /\ h \in {"otp", "fwreq", "get_fw"} /\ L = FailBrcmf
  \/ t = "work" /\ h \in {"fwreq", "get_fw"} /\ L = <<>>
  \/ t = "cb" /\ h \in {"raminfo", "download", "rings", "irq", "flowrings", "scratch", "ringupd"}
     /\ L = FailSetup
  \/ t = "cb" /\ h = "cfg80211" /\ L = Detach \o FailSetup

\* step h of thread t fails
Breaks(t, h, L) ==
  /\ todo[t] # <<>> /\ h = Head(todo[t]) /\ Recovers(t, h, L)
  /\ todo' = [todo EXCEPT ![t] = L]
  /\ gen' = gen /\ lock' = lock /\ bound' = bound /\ probes' = probes
  /\ drvdata' = drvdata /\ lost' = lost /\ up' = up /\ waitq' = waitq /\ armed' = armed
  /\ timer' = timer /\ pending' = pending /\ queued' = queued /\ isr' = isr /\ fault' = fault
  /\ happened' = happened \union {"failure"}
  /\ live' \subseteq live \union {<<"map", gen[t]>>}
  /\ h # "chip_attach" => live' \subseteq live
  /\ \A x \in live : x \in live' \/ x[1] \in {"fwreq", "fw", "scratch", "ringupd"}
  /\ h = "get_fw" => <<"fwreq", gen[t]>> \notin live'
  /\ h \in {"raminfo", "download"} => <<"fw", gen[t]>> \notin live'
  /\ \A x \in dangling' : x \in dangling \/ (x \in live /\ x[1] \in Scratch)

\* nothing but the fault
Stops ==
  /\ todo' = todo /\ gen' = gen /\ lock' = lock /\ bound' = bound 
  /\ probes' = probes /\ drvdata' = drvdata /\ live' = live /\ dangling' = dangling
  /\ lost' = lost /\ up' = up /\ waitq' = waitq /\ armed' = armed /\ timer' = timer
  /\ pending' = pending /\ queued' = queued /\ isr' = isr

\* what may go wrong in a thread's step
Faulty ==
  /\ Stops
  /\ \/ \E t \in Threads :
          /\ happened' = happened
          /\ \/ todo[t] # <<>> /\ ~Sound(t) /\ fault' = <<t, Head(todo[t])>>
             \/ /\ At(t, "rel_scratch") /\ Of(Scratch, gen[t]) \intersect dangling # {}
                /\ fault' = <<t, "rel_scratch">>
             \/ /\ t # "cb" /\ At(t, "get_fw")
                /\ gen[t] \in pending \/ (todo["cb"] # <<>> /\ gen["cb"] = gen[t])
                /\ fault' = <<t, "get_fw">>
     \/ /\ happened' = happened /\ At("cb", "cfg80211") /\ gen["cb"] \in queued
        /\ fault' = <<"cb", "cfg80211">>
     \/ \E g \in pending :
          /\ happened' = happened /\ todo["cb"] = <<>>
          /\ drvdata # g \/ ~Has(g, {"bus", "busdev", "devinfo", "map"})
          /\ fault' = <<"cb", "entry">>
     \/ \E s \in Scratch :
          At("cb", s) /\ happened' = happened \union {"failure"} /\ fault' = <<"cb", s>>

\* the callback begins
Enters(g, L) ==
  /\ g \in pending /\ todo["cb"] = <<>> /\ drvdata = g
  /\ Has(g, {"bus", "busdev", "devinfo", "map"})
  /\ pending' = pending \ {g}
  /\ gen' = [gen EXCEPT !["cb"] = g]
  /\ todo' = [todo EXCEPT !["cb"] = L]
  /\ \/ /\ L = Tail(IF Is4360 THEN SetupSteps4360 ELSE SetupSteps)
        /\ live' = live /\ happened' = happened
     \/ /\ L = FailSetup /\ live' = live \ {<<"fwreq", g>>}
        /\ happened' = happened \union {"failure"}
  /\ lock' = lock /\ bound' = bound /\ probes' = probes
  /\ drvdata' = drvdata /\ dangling' = dangling /\ lost' = lost /\ up' = up /\ waitq' = waitq
  /\ armed' = armed /\ timer' = timer /\ queued' = queued /\ isr' = isr /\ fault' = fault

\* Each action of a thread is a step done, a step failed, a fault, or the beginning
\* of a list.
Outcome(t) ==
  \/ Does(t, Head(todo[t]))
  \/ \E L : Breaks(t, Head(todo[t]), L)
  \/ Faulty

LEMMA LookDoes ==
  ASSUME NEW t \in Threads, Look(t)
  PROVE  Does(t, Head(todo[t]))
BY DEF Look, ReadOnly, At, Advance, coreVars, memVars, flagVars, asyncVars, Does, Memory, Binding, Flags,
       Async, Gives, Frees, Gains, Taken, Scratch, Extra, Of

LEMMA FreeDoes ==
  ASSUME NEW t \in Threads, Free(t)
  PROVE  Does(t, Head(todo[t]))
BY DEF Free, At, Advance, coreVars, memVars, flagVars, asyncVars, Does, Memory, Binding, Flags,
       Async, Gives, Frees, Gains, Taken, Scratch, Extra, Of

LEMMA ReleaseIrqDoes ==
  ASSUME NEW t \in Threads, ReleaseIrq(t)
  PROVE  Does(t, Head(todo[t]))
BY DEF ReleaseIrq, At, Advance, coreVars, memVars, flagVars, asyncVars, Does, Memory, Binding, Flags,
       Async, Gives, Frees, Gains, Taken, Scratch, Extra, Of

LEMMA IrqSyncDoes ==
  ASSUME NEW t \in Threads, IrqSync(t)
  PROVE  Does(t, Head(todo[t]))
BY DEF IrqSync, At, Advance, coreVars, memVars, flagVars, asyncVars, Does, Memory, Binding, Flags,
       Async, Gives, Frees, Gains, Taken, Scratch, Extra, Of

LEMMA TimerOffDoes ==
  ASSUME NEW t \in Threads, TimerOff(t)
  PROVE  Does(t, Head(todo[t]))
BY DEF TimerOff, At, Advance, coreVars, memVars, flagVars, asyncVars, Does, Memory, Binding, Flags,
       Async, Gives, Frees, Gains, Taken, Scratch, Extra, Of

LEMMA SetDownDoes ==
  ASSUME NEW t \in Threads, SetDown(t)
  PROVE  Does(t, Head(todo[t]))
BY DEF SetDown, At, Advance, coreVars, memVars, flagVars, asyncVars, Does, Memory, Binding, Flags,
       Async, Gives, Frees, Gains, Taken, Scratch, Extra, Of

LEMMA ClearDrvdataDoes ==
  ASSUME NEW t \in Threads, ClearDrvdata(t)
  PROVE  Does(t, Head(todo[t]))
BY DEF ClearDrvdata, At, Advance, coreVars, memVars, flagVars, asyncVars, Does, Memory, Binding, Flags,
       Async, Gives, Frees, Gains, Taken, Scratch, Extra, Of

LEMMA SetDrvdataDoes ==
  ASSUME NEW t \in Threads, SetDrvdata(t)
  PROVE  Does(t, Head(todo[t]))
BY DEF SetDrvdata, At, Advance, coreVars, memVars, flagVars, asyncVars, Does, Memory, Binding, Flags,
       Async, Gives, Frees, Gains, Taken, Scratch, Extra, Of

LEMMA ProbedDoes ==
  ASSUME NEW t \in Threads, Probed(t)
  PROVE  Does(t, Head(todo[t]))
BY DEF Probed, At, Advance, coreVars, memVars, flagVars, asyncVars, Does, Memory, Binding, Flags,
       Async, Gives, Frees, Gains, Taken, Scratch, Extra, Of

LEMMA UnprobedDoes ==
  ASSUME NEW t \in Threads, Unprobed(t)
  PROVE  Does(t, Head(todo[t]))
BY DEF Unprobed, At, Advance, coreVars, memVars, flagVars, asyncVars, Does, Memory, Binding, Flags,
       Async, Gives, Frees, Gains, Taken, Scratch, Extra, Of

LEMMA UnboundDoes ==
  ASSUME NEW t \in Threads, Unbound(t)
  PROVE  Does(t, Head(todo[t]))
BY DEF Unbound, At, Advance, coreVars, memVars, flagVars, asyncVars, Does, Memory, Binding, Flags,
       Async, Gives, Frees, Gains, Taken, Scratch, Extra, Of

LEMMA SetupAttachDoes ==
  ASSUME SetupAttach
  PROVE  Does("cb", Head(todo["cb"]))
BY DEF SetupAttach, At, Advance, coreVars, memVars, flagVars, asyncVars, Does, Memory, Binding, Flags,
       Async, Gives, Frees, Gains, Taken, Scratch, Extra, Of

LEMMA SetUpDoes ==
  ASSUME SetUp
  PROVE  Does("cb", Head(todo["cb"]))
BY DEF SetUp, At, Advance, coreVars, memVars, flagVars, asyncVars, Does, Memory, Binding, Flags,
       Async, Gives, Frees, Gains, Taken, Scratch, Extra, Of

LEMMA InitWaitqueueDoes ==
  ASSUME InitWaitqueue
  PROVE  Does("cb", Head(todo["cb"]))
BY DEF InitWaitqueue, At, Advance, coreVars, memVars, flagVars, asyncVars, Does, Memory, Binding, Flags,
       Async, Gives, Frees, Gains, Taken, Scratch, Extra, Of

LEMMA TimerOnDoes ==
  ASSUME TimerOn
  PROVE  Does("cb", Head(todo["cb"]))
BY DEF TimerOn, At, Advance, coreVars, memVars, flagVars, asyncVars, Does, Memory, Binding, Flags,
       Async, Gives, Frees, Gains, Taken, Scratch, Extra, Of

LEMMA FwCrashedDoes ==
  ASSUME FwCrashed
  PROVE  Does("cb", Head(todo["cb"]))
BY DEF FwCrashed, At, Advance, coreVars, memVars, flagVars, asyncVars, Does, Memory, Binding, Flags,
       Async, Gives, Frees, Gains, Taken, Scratch, Extra, Of

LEMMA ReleaseScratchDoes ==
  ASSUME NEW t \in Threads, ReleaseScratch(t)
  PROVE  Does(t, Head(todo[t])) \/ Faulty
<1>1. CASE Of(Scratch, gen[t]) \intersect dangling # {}
  BY <1>1 DEF ReleaseScratch, Fail, Faulty, Stops, threadVars, coreVars, memVars, flagVars,
     asyncVars
<1>2. CASE Of(Scratch, gen[t]) \intersect dangling = {}
  BY <1>2 DEF ReleaseScratch, At, Advance, coreVars, memVars, flagVars, asyncVars, Does, Memory, Binding, Flags,
       Async, Gives, Frees, Gains, Taken, Scratch, Extra, Of
<1> QED
  BY <1>1, <1>2

\* the next step of a thread is one of the thread's
LEMMA HeadOf ==
  ASSUME NEW t \in Threads, Shaped, todo[t] # <<>>
  PROVE  /\ t = "core" => Head(todo[t]) \in CoreSteps
         /\ t = "cb" => Head(todo[t]) \in CbSteps
         /\ t = "work" => Head(todo[t]) \in ResetSet
<1>1. Head(todo[t]) \in Rem(t)
  BY TailPlan DEF Shaped, Rem
<1>2. /\ t = "core" => Rem(t) \subseteq CoreSteps
      /\ t = "cb" => Rem(t) \subseteq CbSteps
      /\ t = "work" => Rem(t) \subseteq ResetSet
  BY DEF Shaped
<1> QED
  BY <1>1, <1>2

LEMMA TakeDoes ==
  ASSUME NEW t \in Threads, Shaped, Take(t)
  PROVE  Outcome(t)
<1> DEFINE h == Head(todo[t])
<1>1. h \in Taken /\ todo[t] # <<>> /\ Sound(t)
  BY DEF Take, At
<1>2. CASE /\ Advance(t)
           /\ live' = live \union {<<h, gen[t]>>}
           /\ lost' = lost \union ({h} \intersect {r[1] : r \in live \intersect Of({h}, gen[t])})
           /\ UNCHANGED happened
  <2>1. <<h, gen[t]>> \notin live => lost' = lost
    BY <1>2 DEF Of
  <2>2. lost' \subseteq lost \union {h}
    BY <1>2
  <2>3. Gives(h) = {} /\ Gains(h) = {h} /\ Extra(h) = {}
    BY <1>1 DEF Taken, Gives, Gains, Frees, Extra, Scratch
  <2>4. Memory(h, gen[t])
    BY <1>1, <1>2, <2>1, <2>2, <2>3 DEF Take, Memory, Of, Taken, Scratch
  <2>5. Does(t, h)
    BY <1>1, <1>2, <2>4 DEF Take, Advance, coreVars, flagVars, asyncVars, Does, Binding, Flags,
       Async, Taken
  <2> QED
    BY <2>5 DEF Outcome
<1>3. CASE Noting("failure") /\ Divert(t, OnFailure(t, h)) /\ UNCHANGED <<live, lost>>
  <2>1. Recovers(t, h, OnFailure(t, h))
    BY <1>1, HeadOf DEF Taken, Recovers, OnFailure, Threads, CoreSteps, CbSteps, ResetSet, DownSet,
       ProbeSet, FailBrcmfSet, FailProbeSet, RemoveSet, ShortSet, DetachSet, SetupSet, FailSetupSet
  <2>2. Breaks(t, h, OnFailure(t, h))
    BY <1>1, <1>3, <2>1 DEF Take, Divert, Noting, coreVars, flagVars, asyncVars, Breaks, Taken
  <2> QED
    BY <2>2 DEF Outcome
<1> QED
  BY <1>2, <1>3 DEF Take

LEMMA ChipAttachDoes ==
  ASSUME ChipAttach("core")
  PROVE  Outcome("core")
<1> DEFINE h == Head(todo["core"])
<1>1. h = "chip_attach" /\ todo["core"] # <<>>
  BY DEF ChipAttach, At
<1>2. CASE Advance("core") /\ live' = live \union Of({"map", "ci"}, gen["core"]) /\ UNCHANGED happened
  <2>1. Does("core", h)
    BY <1>1, <1>2 DEF ChipAttach, Advance, coreVars, memVars, flagVars, asyncVars, Does, Memory,
       Binding, Flags, Async, Gives, Frees, Gains, Taken, Scratch, Extra, Of
  <2> QED
    BY <2>1 DEF Outcome
<1>3. CASE /\ Noting("failure") /\ Divert("core", FailProbe)
           /\ live' \in {live, live \union Of({"map"}, gen["core"])}
  <2>1. Breaks("core", h, FailProbe)
    BY <1>1, <1>3 DEF ChipAttach, Divert, Noting, coreVars, flagVars, asyncVars, Breaks, Recovers, Of
  <2> QED
    BY <2>1 DEF Outcome
<1> QED
  BY <1>2, <1>3 DEF ChipAttach

LEMMA ReadOtpDoes ==
  ASSUME ReadOtp("core")
  PROVE  Outcome("core")
<1> DEFINE h == Head(todo["core"])
<1>1. h = "otp" /\ todo["core"] # <<>>
  BY DEF ReadOtp, At
<1>2. CASE Advance("core") /\ UNCHANGED happened
  <2>1. Does("core", h)
    BY <1>1, <1>2 DEF ReadOtp, Advance, coreVars, memVars, flagVars, asyncVars, Does, Memory,
       Binding, Flags, Async, Gives, Frees, Gains, Taken, Scratch, Extra, Of
  <2> QED
    BY <2>1 DEF Outcome
<1>3. CASE Noting("failure") /\ Divert("core", FailBrcmf)
  <2>1. Breaks("core", h, FailBrcmf)
    BY <1>1, <1>3 DEF ReadOtp, Divert, Noting, coreVars, memVars, flagVars, asyncVars, Breaks,
       Recovers
  <2> QED
    BY <2>1 DEF Outcome
<1> QED
  BY <1>2, <1>3 DEF ReadOtp

LEMMA GetFirmwaresDoes ==
  ASSUME NEW t \in {"core", "work"}, GetFirmwares(t)
  PROVE  Outcome(t)
<1> DEFINE h == Head(todo[t])
           L == IF t = "core" THEN FailBrcmf ELSE <<>>
<1>1. h = "get_fw" /\ todo[t] # <<>>
  BY DEF GetFirmwares, At
<1>2. CASE /\ Advance(t) /\ pending' = pending \union {gen[t]}
           /\ UNCHANGED <<gen, lock, coreVars, memVars, flagVars, queued, isr, fault, happened>>
  <2>1. Does(t, h)
    BY <1>1, <1>2 DEF Advance, coreVars, memVars, flagVars, Does, Memory,
       Binding, Flags, Async, Gives, Frees, Gains, Taken, Scratch, Extra, Of
  <2> QED
    BY <2>1 DEF Outcome
<1>3. CASE (gen[t] \in pending \/ (todo["cb"] # <<>> /\ gen["cb"] = gen[t])) /\ Fail(t, "get_fw")
  <2>1. Faulty
    BY <1>1, <1>3 DEF Fail, threadVars, coreVars, memVars, flagVars, asyncVars, Faulty, Stops, At,
       Threads
  <2> QED
    BY <2>1 DEF Outcome
<1>4. CASE /\ Noting("failure") /\ Divert(t, L) /\ live' = live \ {<<"fwreq", gen[t]>>}
           /\ UNCHANGED <<gen, lock, coreVars, dangling, lost, flagVars, asyncVars, fault>>
  <2>1. Breaks(t, h, L)
    BY <1>1, <1>4 DEF Divert, Noting, coreVars, flagVars, asyncVars, Breaks, Recovers
  <2> QED
    BY <2>1 DEF Outcome
<1> QED
  BY <1>2, <1>3, <1>4 DEF GetFirmwares

LEMMA SetupRaminfoDoes ==
  ASSUME SetupRaminfo
  PROVE  Outcome("cb")
<1> DEFINE h == Head(todo["cb"])
<1>1. h = "raminfo" /\ todo["cb"] # <<>>
  BY DEF SetupRaminfo, At
<1>2. CASE Advance("cb") /\ UNCHANGED <<live, happened>>
  <2>1. Does("cb", h)
    BY <1>1, <1>2 DEF SetupRaminfo, Advance, coreVars, memVars, flagVars, asyncVars, Does, Memory,
       Binding, Flags, Async, Gives, Frees, Gains, Taken, Scratch, Extra, Of
  <2> QED
    BY <2>1 DEF Outcome
<1>3. CASE Noting("failure") /\ Divert("cb", FailSetup) /\ live' = live \ {<<"fw", gen["cb"]>>}
  <2>1. Breaks("cb", h, FailSetup)
    BY <1>1, <1>3 DEF SetupRaminfo, Divert, Noting, coreVars, flagVars, asyncVars, Breaks, Recovers
  <2> QED
    BY <2>1 DEF Outcome
<1> QED
  BY <1>2, <1>3 DEF SetupRaminfo

LEMMA SetupDownloadDoes ==
  ASSUME SetupDownload
  PROVE  Outcome("cb")
<1> DEFINE h == Head(todo["cb"])
           rest == live \ {<<"fw", gen["cb"]>>}
<1>1. h = "download" /\ todo["cb"] # <<>>
  BY DEF SetupDownload, At
<1>2. CASE /\ Advance("cb") /\ UNCHANGED happened
           /\ live' \in {rest} \union (IF Is4360 THEN {rest \union Of({"olmsg"}, gen["cb"])} ELSE {})
  <2>1. Memory(h, gen["cb"])
    BY <1>1, <1>2 DEF SetupDownload, Memory, Gives, Frees, Gains, Taken, Scratch, Extra, Of
  <2>2. Does("cb", h)
    BY <1>1, <1>2, <2>1 DEF SetupDownload, Advance, coreVars, memVars, flagVars, asyncVars, Does,
       Binding, Flags, Async
  <2> QED
    BY <2>2 DEF Outcome
<1>3. CASE Noting("failure") /\ Divert("cb", FailSetup) /\ live' = rest
  <2>1. Breaks("cb", h, FailSetup)
    BY <1>1, <1>3 DEF SetupDownload, Divert, Noting, coreVars, flagVars, asyncVars, Breaks, Recovers
  <2> QED
    BY <2>1 DEF Outcome
<1> QED
  BY <1>2, <1>3 DEF SetupDownload

LEMMA InitScratchDoes ==
  ASSUME NEW s \in Scratch, InitScratch(s)
  PROVE  Outcome("cb")
<1> DEFINE h == Head(todo["cb"])
           mine == {<<s, gen["cb"]>>}
           old  == Of(Scratch, gen["cb"]) \ mine
<1>1. h = s /\ todo["cb"] # <<>>
  BY DEF InitScratch, At
<1>2. CASE /\ Advance("cb") /\ live' = live \union mine /\ dangling' = dangling \ mine
           /\ UNCHANGED <<gen, lock, coreVars, lost, flagVars, asyncVars, fault, happened>>
  <2>1. Does("cb", h)
    BY <1>1, <1>2 DEF Advance, coreVars, flagVars, asyncVars, Does, Memory,
       Binding, Flags, Async, Gives, Frees, Gains, Taken, Scratch, Extra, Of
  <2> QED
    BY <2>1 DEF Outcome
<1>3. CASE /\ Noting("failure") /\ Divert("cb", FailSetup)
           /\ live' = live \ old /\ dangling' = (dangling \ mine) \union (old \intersect live)
           /\ UNCHANGED <<gen, lock, coreVars, lost, flagVars, asyncVars, fault>>
  <2>1. Breaks("cb", h, FailSetup)
    BY <1>1, <1>3 DEF Divert, Noting, coreVars, flagVars, asyncVars, Breaks, Recovers, Of, Scratch
  <2> QED
    BY <2>1 DEF Outcome
<1>4. CASE /\ fault' = <<"cb", s>> /\ Noting("failure")
           /\ UNCHANGED <<threadVars, coreVars, memVars, flagVars, asyncVars>>
  <2>1. Faulty
    BY <1>1, <1>4 DEF Noting, threadVars, coreVars, memVars, flagVars, asyncVars, Faulty, Stops, At
  <2> QED
    BY <2>1 DEF Outcome
<1> QED
  BY <1>2, <1>3, <1>4 DEF InitScratch

LEMMA CoreAttachDoes ==
  ASSUME CoreAttach
  PROVE  Outcome("cb")
<1> DEFINE h == Head(todo["cb"])
<1>1. h = "cfg80211" /\ todo["cb"] # <<>>
  BY DEF CoreAttach, At
<1>2. CASE /\ Advance("cb") /\ live' = live \union {<<"cfg80211", gen["cb"]>>}
           /\ armed' = armed \union {gen["cb"]}
           /\ UNCHANGED <<gen, lock, coreVars, dangling, lost, up, waitq, timer, asyncVars, fault,
                          happened>>
  <2>1. Does("cb", h)
    BY <1>1, <1>2 DEF Advance, coreVars, asyncVars, Does, Memory,
       Binding, Flags, Async, Gives, Frees, Gains, Taken, Scratch, Extra, Of
  <2> QED
    BY <2>1 DEF Outcome
<1>3. CASE gen["cb"] \in queued /\ Fail("cb", "cfg80211")
  <2>1. Faulty
    BY <1>1, <1>3 DEF Fail, threadVars, coreVars, memVars, flagVars, asyncVars, Faulty, Stops, At
  <2> QED
    BY <2>1 DEF Outcome
<1>4. CASE /\ Noting("failure") /\ Divert("cb", Detach \o FailSetup)
           /\ UNCHANGED <<gen, lock, coreVars, memVars, flagVars, asyncVars, fault>>
  <2>1. Breaks("cb", h, Detach \o FailSetup)
    BY <1>1, <1>4 DEF Divert, Noting, coreVars, memVars, flagVars, asyncVars, Breaks, Recovers
  <2> QED
    BY <2>1 DEF Outcome
<1> QED
  BY <1>2, <1>3, <1>4 DEF CoreAttach

LEMMA TouchFreedFaults ==
  ASSUME NEW t \in Threads, TouchFreed(t)
  PROVE  Faulty
BY DEF TouchFreed, Fail, threadVars, coreVars, memVars, flagVars, asyncVars, Faulty, Stops

LEMMA SetupEntryDoes ==
  ASSUME NEW g \in Gens, SetupEntry(g)
  PROVE  Faulty \/ \E L : Enters(g, L)
<1>1. g \in pending /\ todo["cb"] = <<>>
  BY DEF SetupEntry
<1>2. CASE drvdata # g \/ ~Has(g, {"bus", "busdev", "devinfo", "map"})
  BY <1>1, <1>2 DEF SetupEntry, Fail, threadVars, coreVars, memVars, flagVars, asyncVars, Faulty,
     Stops
<1>3. CASE drvdata = g /\ Has(g, {"bus", "busdev", "devinfo", "map"})
  <2>1. CASE /\ Divert("cb", Tail(IF Is4360 THEN SetupSteps4360 ELSE SetupSteps))
             /\ UNCHANGED <<live, happened>>
    <3>1. Enters(g, Tail(IF Is4360 THEN SetupSteps4360 ELSE SetupSteps))
      BY <1>1, <1>3, <2>1 DEF SetupEntry, Divert, coreVars, flagVars, Enters
    <3> QED
      BY <3>1
  <2>2. CASE Noting("failure") /\ Divert("cb", FailSetup) /\ live' = live \ {<<"fwreq", g>>}
    <3>1. Enters(g, FailSetup)
      BY <1>1, <1>3, <2>2 DEF SetupEntry, Divert, Noting, coreVars, flagVars, Enters
    <3> QED
      BY <3>1
  <2> QED
    BY <1>3, <2>1, <2>2 DEF SetupEntry
<1> QED
  BY <1>2, <1>3

LEMMA ReleaseDriverDoes ==
  ASSUME ReleaseDriver, ~bound
  PROVE  Does("cb", Head(todo["cb"]))
BY DEF ReleaseDriver, At, Advance, coreVars, memVars, flagVars, asyncVars, Does, Memory, Binding,
       Flags, Async, Gives, Frees, Gains, Taken, Scratch, Extra, Of

\* what a step of a thread comes to
LEMMA ThreadOutcome ==
  ASSUME Shaped, ThreadSteps
  PROVE  \/ \E t \in Threads : Outcome(t)
         \/ \E g \in Gens, L \in Seq(StepNames) : Enters(g, L)
         \/ (ReleaseDriver /\ bound) \/ Reprobe
<1>1. ASSUME NEW t \in Threads, TakeDown(t) \/ TouchFreed(t)
      PROVE  Outcome(t)
  BY <1>1, LookDoes, FreeDoes, ReleaseScratchDoes, ReleaseIrqDoes, IrqSyncDoes, TimerOffDoes,
     SetDownDoes, ClearDrvdataDoes, TouchFreedFaults DEF TakeDown, Outcome
<1>2. ASSUME NEW t \in {"core", "work"}, Take(t) \/ GetFirmwares(t)
      PROVE  Outcome(t)
  BY <1>2, TakeDoes, GetFirmwaresDoes DEF Threads
<1>3. ASSUME NEW t \in {"core", "cb"}, Unbound(t)
      PROVE  Outcome(t)
  BY <1>3, UnboundDoes DEF Threads, Outcome
<1>4. ASSUME ChipAttach("core") \/ SetDrvdata("core") \/ ReadOtp("core")
             \/ Probed("core") \/ Unprobed("core")
      PROVE  Outcome("core")
  <2>1. "core" \in Threads
    BY DEF Threads
  <2> QED
    BY <1>4, <2>1, ChipAttachDoes, SetDrvdataDoes, ReadOtpDoes, ProbedDoes, UnprobedDoes DEF Outcome
<1>5. ASSUME NEW g \in Gens, SetupEntry(g)
      PROVE  Faulty \/ \E L \in Seq(StepNames) : Enters(g, L)
  <2>1. ASSUME NEW L, Enters(g, L)
        PROVE  L \in Seq(StepNames)
    BY <2>1, SetupPlan, Setup4360Plan, FailSetupPlan DEF Enters, Plan
  <2> QED
    BY <1>5, <2>1, SetupEntryDoes
<1>6. ASSUME SetupAttach \/ SetupRaminfo \/ SetupDownload \/ SetUp \/ Take("cb")
             \/ (\E s \in Scratch : InitScratch(s))
             \/ InitWaitqueue \/ CoreAttach \/ TimerOn \/ FwCrashed
      PROVE  Outcome("cb")
  <2>1. "cb" \in Threads
    BY DEF Threads
  <2> QED
    BY <1>6, <2>1, SetupAttachDoes, SetupRaminfoDoes, SetupDownloadDoes, SetUpDoes, TakeDoes,
       InitScratchDoes, InitWaitqueueDoes, CoreAttachDoes, TimerOnDoes, FwCrashedDoes DEF Outcome
<1>7. ASSUME ReleaseDriver
      PROVE  Outcome("cb") \/ bound
  BY <1>7, ReleaseDriverDoes DEF Outcome
<1>8. "core" \in Threads /\ "cb" \in Threads /\ {"core", "work"} \subseteq Threads
  BY DEF Threads
<1>9. ASSUME Faulty PROVE Outcome("cb")
  BY <1>9 DEF Outcome
<1>10. ASSUME Probe
       PROVE  (\E t \in Threads : Outcome(t)) \/ Reprobe
  BY <1>10, <1>2, <1>3, <1>4, <1>8 DEF Probe, Threads
<1>11. ASSUME Setup
       PROVE  \/ \E t \in Threads : Outcome(t)
              \/ \E g \in Gens, L \in Seq(StepNames) : Enters(g, L)
              \/ (ReleaseDriver /\ bound)
  BY <1>11, <1>5, <1>6, <1>7, <1>8, <1>9 DEF Setup
<1> QED
  BY <1>1, <1>10, <1>11 DEF ThreadSteps
-----------------------------------------------------------------------------
(***************************************************************************)
(* What starts a thread, and what no thread does.                          *)
(***************************************************************************)
\* what a removal takes down: nothing without a device behind drvdata
DownOf(g, last) ==
  IF g = 0 /\ last = "unbound" THEN {}
  ELSE IF Is4360 /\ g \notin up THEN ShortSet ELSE RemoveSet

\* a thread takes the driver, or the device, away
TakesAway(t, last) ==
  /\ lock = Nobody /\ bound /\ lock' = t
  /\ \/ t = "core" /\ todo["core"] = <<>>
     \/ t = "cb" /\ At("cb", "release_driver") /\ last = "unbound"
  /\ last \in {"unbound", "reprobe"}
  /\ gen' = [gen EXCEPT ![t] = drvdata]
  /\ \E L : /\ Plan(L) /\ Remaining(L) = DownOf(drvdata, last) \union {last}
            /\ todo' = [todo EXCEPT ![t] = L]
  /\ last = "unbound" => live' = live
  /\ last = "reprobe" => live' = live \ {<<"ci", drvdata>>} /\ Has(drvdata, {"devinfo", "map"})
  /\ happened \subseteq happened' /\ happened' \subseteq happened \union {"overlap"}
  /\ t = "core" /\ "overlap" \notin happened' => ~Busy
  /\ bound' = bound /\ probes' = probes /\ drvdata' = drvdata /\ dangling' = dangling
  /\ lost' = lost /\ up' = up /\ waitq' = waitq /\ armed' = armed /\ timer' = timer
  /\ pending' = pending /\ queued' = queued /\ isr' = isr /\ fault' = fault

\* a probe begins, for the driver core or to resume
Builds ==
  /\ \/ todo["core"] = <<>> /\ lock = Nobody /\ ~bound /\ lock' = "core"
     \/ At("core", "reprobe") /\ lock' = lock
  /\ probes' = probes + 1
  /\ gen' = [gen EXCEPT !["core"] = probes + 1]
  /\ todo' = [todo EXCEPT !["core"] = ProbeSteps]
  /\ bound' = bound /\ drvdata' = drvdata /\ live' = live /\ dangling' = dangling
  /\ lost' = lost /\ up' = up /\ waitq' = waitq /\ armed' = armed /\ timer' = timer
  /\ pending' = pending /\ queued' = queued /\ isr' = isr /\ fault' = fault
  /\ happened' = happened

\* the reset work begins
Resets(g) ==
  /\ g \in queued /\ todo["work"] = <<>> /\ Has(g, {"drvr", "bus", "busdev"})
  /\ queued' = queued \ {g}
  /\ gen' = [gen EXCEPT !["work"] = g]
  /\ todo' = [todo EXCEPT !["work"] = ResetSteps]
  /\ happened \subseteq happened' /\ happened' \subseteq happened \union {"overlap"}
  /\ "overlap" \notin happened' => ~Building
  /\ lock' = lock /\ bound' = bound /\ probes' = probes /\ drvdata' = drvdata /\ live' = live
  /\ dangling' = dangling /\ lost' = lost /\ up' = up /\ waitq' = waitq /\ armed' = armed
  /\ timer' = timer /\ pending' = pending /\ isr' = isr /\ fault' = fault

\* no thread moves, nothing is taken or freed
Quiet ==
  /\ todo' = todo /\ gen' = gen /\ lock' = lock /\ bound' = bound /\ probes' = probes
  /\ drvdata' = drvdata /\ live' = live /\ dangling' = dangling /\ lost' = lost
  /\ waitq' = waitq /\ armed' = armed /\ pending' = pending
  /\ happened \subseteq happened'
  /\ up' \subseteq up \union {drvdata} /\ timer' \subseteq timer \union {drvdata} \union up
  /\ \A g \in queued' : g \in queued \/ (g \in armed /\ "crash" \in happened')
  /\ isr' \in {isr, 0} \/ <<"irq", isr'>> \in live

\* What goes on beside the threads: suspending, resuming, the interrupt, debugfs.
Sleeps == timer' \subseteq timer /\ up' \subseteq up /\ isr' = isr /\ queued' = queued
Wakes ==
  /\ todo["core"] = <<>> /\ bound
  /\ up' = up \union {drvdata} /\ timer' \subseteq timer \union {drvdata}
  /\ isr' = isr /\ queued' = queued
Interrupts ==
  /\ up' = up /\ timer' = timer
  /\ \/ <<"irq", isr'>> \in live /\ queued' = queued
     \/ isr' = 0 /\ queued' = queued
     \/ /\ isr # 0 /\ isr' = 0 /\ queued' = queued \union ({isr} \intersect armed)
        /\ "crash" \in happened' /\ ("overlap" \notin happened' => ~Building)
Debugs(g) ==
  /\ <<"cfg80211", g>> \in live /\ up' = up /\ isr' = isr
  /\ \/ timer' \subseteq timer \union ({g} \intersect up) /\ queued' = queued
     \/ /\ timer' = timer /\ g \in armed /\ queued' = queued \union {g}
        /\ "crash" \in happened' /\ ("overlap" \notin happened' => ~Building)

Beside ==
  /\ todo' = todo /\ gen' = gen /\ lock' = lock /\ bound' = bound /\ probes' = probes
  /\ drvdata' = drvdata /\ live' = live /\ dangling' = dangling /\ lost' = lost
  /\ waitq' = waitq /\ armed' = armed /\ pending' = pending /\ fault' = fault
  /\ happened \subseteq happened'
  /\ Sleeps \/ Wakes \/ Interrupts \/ \E g : Debugs(g)

\* Something touches what is not there, and the behaviour ends.
Halts ==
  /\ Stops /\ happened \subseteq happened'
  /\ \/ Faulty
     \/ /\ fault' = <<"core", "remove">> /\ todo["core"] = <<>> /\ bound
        /\ drvdata # 0 /\ ~Has(drvdata, {"bus", "busdev", "devinfo"})
     \/ /\ fault' = <<"core", "enter_D3">> /\ todo["core"] = <<>> /\ bound
        /\ "overlap" \notin happened' => ~Busy
        /\ \/ drvdata = 0 \/ drvdata \notin waitq
           \/ ~Has(drvdata, {"bus", "busdev", "devinfo", "map"})
     \/ /\ fault' = <<"work", "bus_reset">> /\ todo["work"] = <<>>
        /\ \E g \in queued : ~Has(g, {"drvr", "bus", "busdev"})
     \/ /\ fault' = <<"isr", "isr_thread">> /\ isr # 0 /\ ~Has(isr, {"devinfo", "map"})
     \/ /\ fault' = <<"isr", "fw_crashed">> /\ isr # 0 /\ ~Has(isr, {"bus", "drvr"})
        /\ "overlap" \notin happened' => ~Building
     \/ /\ fault' = <<"timer", "fwcon">>
        /\ \E g \in timer : ~Has(g, {"devinfo", "map"})

LEMMA RemovalPlan ==
  ASSUME NEW g
  PROVE  Plan(Removal(g)) /\ Remaining(Removal(g)) = DownOf(g, "unbound") \union {"unbound"}
<1>1. "unbound" \in StepNames /\ Awaits("unbound") = {}
  BY DEF StepNames, Awaits
<1>2. Plan(<<"unbound">>) /\ Remaining(<<"unbound">>) = {"unbound"}
  BY <1>1, OnePlan
<1>3. "unbound" \in {"unbound", "reprobe"}
  OBVIOUS
<1>4. Plan(RemoveSteps \o <<"unbound">>)
      /\ Remaining(RemoveSteps \o <<"unbound">>) = RemoveSet \union {"unbound"}
  BY <1>3, RemovePlan
<1>5. Plan(ShortRemoveSteps \o <<"unbound">>)
      /\ Remaining(ShortRemoveSteps \o <<"unbound">>) = ShortSet \union {"unbound"}
  BY <1>3, ShortPlan
<1>6. CASE g = 0
  BY <1>2, <1>6 DEF Removal, DownOf
<1>7. CASE g # 0 /\ Is4360 /\ g \notin up
  BY <1>5, <1>7 DEF Removal, DownOf, RemoveList
<1>8. CASE g # 0 /\ ~(Is4360 /\ g \notin up)
  BY <1>4, <1>8 DEF Removal, DownOf, RemoveList
<1> QED
  BY <1>6, <1>7, <1>8

LEMMA ReprobeListPlan ==
  ASSUME NEW g
  PROVE  /\ Plan(RemoveList(g) \o <<"reprobe">>)
         /\ Remaining(RemoveList(g) \o <<"reprobe">>) = DownOf(g, "reprobe") \union {"reprobe"}
<1>1. "reprobe" \in {"unbound", "reprobe"}
  OBVIOUS
<1>2. Plan(RemoveSteps \o <<"reprobe">>)
      /\ Remaining(RemoveSteps \o <<"reprobe">>) = RemoveSet \union {"reprobe"}
  BY <1>1, RemovePlan
<1>3. Plan(ShortRemoveSteps \o <<"reprobe">>)
      /\ Remaining(ShortRemoveSteps \o <<"reprobe">>) = ShortSet \union {"reprobe"}
  BY <1>1, ShortPlan
<1>4. CASE Is4360 /\ g \notin up
  BY <1>3, <1>4 DEF RemoveList, DownOf
<1>5. CASE ~(Is4360 /\ g \notin up)
  BY <1>2, <1>5 DEF RemoveList, DownOf
<1> QED
  BY <1>4, <1>5

LEMMA ReleaseTakes ==
  ASSUME ReleaseDriver, bound
  PROVE  TakesAway("cb", "unbound")
<1>1. At("cb", "release_driver") /\ lock = Nobody
  BY DEF ReleaseDriver
<1>2. /\ lock' = "cb" /\ gen' = [gen EXCEPT !["cb"] = drvdata]
      /\ todo' = [todo EXCEPT !["cb"] = Removal(drvdata)]
      /\ UNCHANGED <<coreVars, memVars, flagVars, asyncVars, fault, happened>>
  BY DEF ReleaseDriver, Divert
<1>3. \E L : /\ Plan(L) /\ Remaining(L) = DownOf(drvdata, "unbound") \union {"unbound"}
             /\ todo' = [todo EXCEPT !["cb"] = L]
  BY <1>2, RemovalPlan
<1> QED
  BY <1>1, <1>2, <1>3 DEF TakesAway, coreVars, memVars, flagVars, asyncVars

LEMMA UnbindTakes ==
  ASSUME Unbind
  PROVE  TakesAway("core", "unbound") \/ Halts
<1>1. todo["core"] = <<>> /\ lock = Nobody /\ bound
  BY DEF Unbind, Free4Core
<1>2. CASE drvdata # 0 /\ ~Has(drvdata, {"bus", "busdev", "devinfo"})
  BY <1>1, <1>2 DEF Unbind, Fail, Stops, threadVars, coreVars, memVars, flagVars, asyncVars, Halts
<1>3. CASE ~(drvdata # 0 /\ ~Has(drvdata, {"bus", "busdev", "devinfo"}))
  <2>1. /\ lock' = "core" /\ gen' = [gen EXCEPT !["core"] = drvdata]
        /\ todo' = [todo EXCEPT !["core"] = Removal(drvdata)]
        /\ NotingOverlap(Busy)
        /\ UNCHANGED <<coreVars, memVars, flagVars, asyncVars, fault>>
    BY <1>3 DEF Unbind, Divert
  <2>2. \E L : /\ Plan(L) /\ Remaining(L) = DownOf(drvdata, "unbound") \union {"unbound"}
               /\ todo' = [todo EXCEPT !["core"] = L]
    BY <2>1, RemovalPlan
  <2>3. /\ happened \subseteq happened' /\ happened' \subseteq happened \union {"overlap"}
        /\ "overlap" \notin happened' => ~Busy
    BY <2>1 DEF NotingOverlap, Overlap
  <2> QED
    BY <1>1, <2>1, <2>2, <2>3 DEF TakesAway, coreVars, memVars, flagVars, asyncVars
<1> QED
  BY <1>2, <1>3

LEMMA ResumeColdTakes ==
  ASSUME ResumeCold
  PROVE  TakesAway("core", "reprobe")
<1>1. todo["core"] = <<>> /\ lock = Nobody /\ bound /\ Has(drvdata, {"devinfo", "map"})
  BY DEF ResumeCold, Free4Core, Needs
<1>2. /\ lock' = "core" /\ gen' = [gen EXCEPT !["core"] = drvdata]
      /\ todo' = [todo EXCEPT !["core"] = RemoveList(drvdata) \o <<"reprobe">>]
      /\ NotingOverlap(Busy) /\ live' = live \ {<<"ci", drvdata>>}
      /\ UNCHANGED <<bound, probes, drvdata, dangling, lost, flagVars, asyncVars, fault>>
  BY DEF ResumeCold, Divert
<1>3. \E L : /\ Plan(L) /\ Remaining(L) = DownOf(drvdata, "reprobe") \union {"reprobe"}
             /\ todo' = [todo EXCEPT !["core"] = L]
  BY <1>2, ReprobeListPlan
<1>4. /\ happened \subseteq happened' /\ happened' \subseteq happened \union {"overlap"}
      /\ "overlap" \notin happened' => ~Busy
  BY <1>2 DEF NotingOverlap, Overlap
<1> QED
  BY <1>1, <1>2, <1>3, <1>4 DEF TakesAway, flagVars, asyncVars

LEMMA BindBuilds ==
  ASSUME Bind \/ Reprobe
  PROVE  Builds
BY DEF Bind, Reprobe, NewGeneration, Divert, Free4Core, Builds, coreVars, memVars, flagVars, asyncVars

LEMMA ResetWorkResets ==
  ASSUME NEW g \in Gens, ResetWork(g)
  PROVE  Resets(g) \/ Halts
<1>1. CASE ~Has(g, {"drvr", "bus", "busdev"})
  BY <1>1 DEF ResetWork, Fail, Stops, threadVars, coreVars, memVars, flagVars, asyncVars, Halts
<1>2. CASE Has(g, {"drvr", "bus", "busdev"})
  <2>1. NotingOverlap(Building)
    BY <1>2 DEF ResetWork
  <2>2. /\ happened \subseteq happened' /\ happened' \subseteq happened \union {"overlap"}
        /\ "overlap" \notin happened' => ~Building
    BY <2>1 DEF NotingOverlap, Overlap
  <2> QED
    BY <1>2, <2>2 DEF ResetWork, Divert, Resets, coreVars, memVars, flagVars
<1> QED
  BY <1>1, <1>2

LEMMA SuspendGoesBeside ==
  ASSUME Suspend
  PROVE  Beside \/ Halts
<1>1. /\ happened \subseteq happened'
      /\ "overlap" \notin happened' => ~Busy
      /\ todo["core"] = <<>> /\ bound
  BY DEF Suspend, NotingOverlap, Overlap, Free4Core
<1>2. CASE drvdata = 0 \/ ~Has(drvdata, Needs("enter_D3")) \/ drvdata \notin waitq
  <2>1. Stops /\ fault' = <<"core", "enter_D3">>
    BY <1>2 DEF Suspend, Stops, threadVars, coreVars, memVars, flagVars, asyncVars
  <2>2. Needs("enter_D3") = {"bus", "busdev", "devinfo", "map"}
    BY DEF Needs
  <2> QED
    BY <1>1, <1>2, <2>1, <2>2 DEF Halts
<1>3. CASE ~(drvdata = 0 \/ ~Has(drvdata, Needs("enter_D3")) \/ drvdata \notin waitq)
  <2>1. timer' \subseteq timer /\ up' \subseteq up /\ isr' = isr /\ queued' = queued
    BY <1>3 DEF Suspend, asyncVars
  <2> QED
    BY <1>1, <1>3, <2>1 DEF Suspend, Beside, Sleeps, threadVars, memVars, asyncVars
<1> QED
  BY <1>2, <1>3

LEMMA InterruptGoesBeside ==
  ASSUME IsrEnd \/ IsrCrash \/ \E g \in Gens : IsrBegin(g)
  PROVE  Beside \/ Halts
<1>1. ASSUME IsrEnd PROVE Beside \/ Halts
  <2>1. CASE ~Has(isr, {"devinfo", "map"})
    BY <1>1, <2>1 DEF IsrEnd, Fail, Stops, Halts, threadVars, coreVars, memVars, flagVars, asyncVars
  <2>2. CASE Has(isr, {"devinfo", "map"})
    BY <1>1, <2>2 DEF IsrEnd, Beside, Interrupts, threadVars, coreVars, memVars, flagVars
  <2> QED
    BY <2>1, <2>2
<1>2. ASSUME IsrCrash PROVE Beside \/ Halts
  <2>1. /\ happened \subseteq happened' /\ "crash" \in happened' /\ isr # 0
        /\ "overlap" \notin happened' => ~Building
    BY <1>2 DEF IsrCrash, Overlap
  <2>2. CASE ~Has(isr, {"bus", "drvr"})
    BY <1>2, <2>1, <2>2 DEF IsrCrash, Stops, Halts, threadVars, coreVars, memVars, flagVars
  <2>3. CASE Has(isr, {"bus", "drvr"})
    BY <1>2, <2>1, <2>3 DEF IsrCrash, Beside, Interrupts, threadVars, coreVars, memVars, flagVars
  <2> QED
    BY <2>2, <2>3
<1>3. ASSUME NEW g \in Gens, IsrBegin(g) PROVE Beside \/ Halts
  BY <1>3 DEF IsrBegin, Beside, Interrupts, threadVars, coreVars, memVars, flagVars
<1> QED
  BY <1>1, <1>2, <1>3

LEMMA OthersGoBeside ==
  ASSUME \/ ResumeHot \/ ResumeUnbound
         \/ \E g \in Gens : TimerFires(g) \/ ConsoleInterval(g) \/ DebugfsReset(g)
  PROVE  Beside \/ Halts
<1>1. ASSUME ResumeHot PROVE Beside \/ Halts
  BY <1>1 DEF ResumeHot, Free4Core, Beside, Wakes, threadVars, memVars, asyncVars
<1>2. ASSUME ResumeUnbound PROVE Beside \/ Halts
  BY <1>2 DEF ResumeUnbound, Beside, Sleeps, threadVars, memVars, flagVars, asyncVars
<1>3. ASSUME NEW g \in Gens, TimerFires(g) PROVE Beside \/ Halts
  BY <1>3 DEF TimerFires, Fail, Stops, Halts, threadVars, coreVars, memVars, flagVars, asyncVars
<1>4. ASSUME NEW g \in Gens, ConsoleInterval(g) PROVE Beside \/ Halts
  <2>1. Debugs(g)
    BY <1>4 DEF ConsoleInterval, Debugs, asyncVars
  <2> QED
    BY <1>4, <2>1 DEF ConsoleInterval, Beside, threadVars, coreVars, memVars, asyncVars
<1>5. ASSUME NEW g \in Gens, DebugfsReset(g) PROVE Beside \/ Halts
  <2>1. /\ happened \subseteq happened' /\ "crash" \in happened'
        /\ "overlap" \notin happened' => ~Building
    BY <1>5 DEF DebugfsReset, Overlap
  <2>2. Debugs(g)
    BY <1>5, <2>1 DEF DebugfsReset, Debugs, flagVars
  <2> QED
    BY <1>5, <2>1, <2>2 DEF DebugfsReset, Beside, threadVars, coreVars, memVars, flagVars
<1> QED
  BY <1>1, <1>2, <1>3, <1>4, <1>5

\* Every step is of one of these kinds.
Moves ==
  \/ \E t \in Threads : Does(t, Head(todo[t])) \/ \E L : Breaks(t, Head(todo[t]), L)
  \/ \E g \in Gens, L \in Seq(StepNames) : Enters(g, L)
  \/ \E t \in Threads, last \in {"unbound", "reprobe"} : TakesAway(t, last)
  \/ Builds \/ \E g \in Gens : Resets(g)

LEMMA StepCases ==
  ASSUME Shaped, [Next]_vars
  PROVE  /\ Moves \/ Beside \/ (Halts /\ fault = NoFault)
         /\ setting' = setting
<1>1. ASSUME ThreadSteps PROVE Moves \/ Halts
  <2>1. ASSUME NEW t \in Threads, Outcome(t) PROVE Moves \/ Halts
    <3>1. CASE Faulty
      <4>1. Stops /\ happened \subseteq happened'
        BY <3>1 DEF Faulty
      <4> QED
        BY <3>1, <4>1 DEF Halts
    <3> QED
      BY <2>1, <3>1 DEF Outcome, Moves
  <2>2. ASSUME ReleaseDriver, bound PROVE Moves
    BY <2>2, ReleaseTakes DEF Moves, Threads
  <2>3. ASSUME Reprobe PROVE Moves
    BY <2>3, BindBuilds DEF Moves
  <2> QED
    BY <1>1, <2>1, <2>2, <2>3, ThreadOutcome DEF Moves
<1>2. ASSUME Starts PROVE Moves \/ Beside \/ Halts
  <2>1. CASE Bind
    BY <2>1, BindBuilds DEF Moves
  <2>2. CASE Unbind
    BY <2>2, UnbindTakes DEF Moves, Threads
  <2>3. CASE ResumeCold
    BY <2>3, ResumeColdTakes DEF Moves, Threads
  <2>4. ASSUME NEW g \in Gens, ResetWork(g) PROVE Moves \/ Halts
    BY <2>4, ResetWorkResets DEF Moves
  <2> QED
    BY <1>2, <2>1, <2>2, <2>3, <2>4, SuspendGoesBeside, InterruptGoesBeside, OthersGoBeside DEF Starts
<1>3. ASSUME UNCHANGED vars PROVE Beside /\ setting' = setting
  BY <1>3 DEF vars, threadVars, coreVars, memVars, flagVars, asyncVars, Beside, Sleeps
<1>4. ASSUME Next PROVE (Moves \/ Beside \/ (Halts /\ fault = NoFault)) /\ setting' = setting
  BY <1>1, <1>2, <1>4 DEF Next
<1> QED
  BY <1>3, <1>4

\* For what the threads build, what goes on beside them is one kind.
Kinds == Moves \/ Quiet

LEMMA StepKinds ==
  ASSUME Shaped, [Next]_vars
  PROVE  Kinds /\ setting' = setting
<1>1. ASSUME Halts PROVE Quiet
  BY <1>1 DEF Halts, Stops, Quiet
<1>2. ASSUME Beside PROVE Quiet
  <2>1. CASE Sleeps
    BY <1>2, <2>1 DEF Beside, Sleeps, Quiet
  <2>2. CASE Wakes
    BY <1>2, <2>2 DEF Beside, Wakes, Quiet
  <2>3. CASE Interrupts
    BY <1>2, <2>3 DEF Beside, Interrupts, Quiet
  <2>4. ASSUME NEW g, Debugs(g) PROVE Quiet
    BY <1>2, <2>4 DEF Beside, Debugs, Quiet
  <2> QED
    BY <1>2, <2>1, <2>2, <2>3, <2>4 DEF Beside
<1> QED
  BY <1>1, <1>2, StepCases DEF Kinds
-----------------------------------------------------------------------------
(***************************************************************************)
(* The shape of the lists, types, and what the BCM4360 never has.          *)
(***************************************************************************)
\* one thread's list changes
LEMMA OthersRest ==
  ASSUME NEW t \in Threads, NEW L, todo \in [Threads -> Seq(StepNames)],
         todo' = [todo EXCEPT ![t] = L]
  PROVE  /\ todo'[t] = L /\ Rem(t)' = Remaining(L)
         /\ \A u \in Threads : u # t => todo'[u] = todo[u] /\ Rem(u)' = Rem(u)
BY DEF Rem

LEMMA EmptyRem ==
  ASSUME NEW t \in Threads, Plan(todo[t])
  PROVE  todo[t] = <<>> <=> Rem(t) = {}
BY NothingRemains DEF Plan, Rem

LEMMA DoesRests ==
  ASSUME NEW t \in Threads, NEW h, Shaped, LifeTypes, Does(t, h)
  PROVE  /\ h \in Rem(t) /\ Rem(t)' = Rem(t) \ {h} /\ Plan(todo'[t])
         /\ \A u \in Threads : u # t => todo'[u] = todo[u] /\ Rem(u)' = Rem(u)
         /\ \A s \in Rem(t)' : ~Clash(h, s)
         /\ Awaits(h) \subseteq Rem(t)'
         /\ h \in StepNames
<1>1. Plan(todo[t]) /\ todo[t] # <<>> /\ h = Head(todo[t])
      /\ todo' = [todo EXCEPT ![t] = Tail(todo[t])] /\ todo \in [Threads -> Seq(StepNames)]
  BY DEF Shaped, Does, LifeTypes
<1>2. /\ todo'[t] = Tail(todo[t]) /\ Rem(t)' = Remaining(Tail(todo[t]))
      /\ \A u \in Threads : u # t => todo'[u] = todo[u] /\ Rem(u)' = Rem(u)
  BY <1>1, OthersRest
<1>3. /\ Plan(Tail(todo[t]))
      /\ h \in Remaining(todo[t]) /\ h \notin Remaining(Tail(todo[t]))
      /\ Remaining(todo[t]) = {h} \union Remaining(Tail(todo[t]))
      /\ \A s \in Remaining(Tail(todo[t])) : ~Clash(h, s)
      /\ Awaits(h) \subseteq Remaining(Tail(todo[t]))
  BY <1>1, TailPlan
<1>4. Rem(t) = Remaining(todo[t])
  BY DEF Rem
<1>5. h \in StepNames
  BY <1>1
<1> QED
  BY <1>2, <1>3, <1>4, <1>5

\* what is left to do after a step failed
RecoverSet(t, h) ==
  IF t = "work" THEN {}
  ELSE IF t = "cb" THEN (IF h = "cfg80211" THEN DetachSet \union FailSetupSet ELSE FailSetupSet)
  ELSE IF h = "devinfo" THEN {"unprobed"}
  ELSE IF h \in {"chip_attach", "busdev", "settings", "bus"} THEN FailProbeSet
  ELSE IF h = "drvr" THEN {"free_bus"} \union FailProbeSet
  ELSE FailBrcmfSet

LEMMA RecoversPlan ==
  ASSUME NEW t, NEW h, NEW L, Recovers(t, h, L)
  PROVE  Plan(L) /\ Remaining(L) = RecoverSet(t, h)
<1>1. "unprobed" \in StepNames /\ Awaits("unprobed") = {}
  BY DEF StepNames, FailBrcmfSet, FailProbeSet, Awaits
<1>2. Plan(<<"unprobed">>) /\ Remaining(<<"unprobed">>) = {"unprobed"}
  BY <1>1, OnePlan
<1>3. CASE t = "core" /\ h = "devinfo" /\ L = <<"unprobed">>
  BY <1>2, <1>3 DEF RecoverSet
<1>4. CASE t = "core" /\ h \in {"chip_attach", "busdev", "settings", "bus"} /\ L = FailProbe
  BY <1>4, FailProbePlan DEF RecoverSet
<1>5. CASE t = "core" /\ h = "drvr" /\ L = FailBus
  BY <1>5, FailBusPlan DEF RecoverSet
<1>6. CASE t = "core" /\ h \in {"otp", "fwreq", "get_fw"} /\ L = FailBrcmf
  BY <1>6, FailBrcmfPlan DEF RecoverSet
<1>7. CASE t = "work" /\ h \in {"fwreq", "get_fw"} /\ L = <<>>
  BY <1>7, EmptyPlan DEF RecoverSet
<1>8. CASE t = "cb" /\ h \in {"raminfo", "download", "rings", "irq", "flowrings", "scratch", "ringupd"}
           /\ L = FailSetup
  BY <1>8, FailSetupPlan DEF RecoverSet
<1>9. CASE t = "cb" /\ h = "cfg80211" /\ L = Detach \o FailSetup
  BY <1>9, DetachFailPlan DEF RecoverSet
<1> QED
  BY <1>3, <1>4, <1>5, <1>6, <1>7, <1>8, <1>9 DEF Recovers

LEMMA BreaksRests ==
  ASSUME NEW t \in Threads, NEW h, NEW L, Shaped, LifeTypes, Breaks(t, h, L)
  PROVE  /\ h \in Rem(t) /\ Rem(t)' = RecoverSet(t, h) /\ Plan(todo'[t])
         /\ \A u \in Threads : u # t => todo'[u] = todo[u] /\ Rem(u)' = Rem(u)
         /\ \A s \in Rem(t) \ {h} : ~Clash(h, s)
         /\ Recovers(t, h, L)
<1>1. Plan(todo[t]) /\ todo[t] # <<>> /\ h = Head(todo[t]) /\ Recovers(t, h, L)
      /\ todo' = [todo EXCEPT ![t] = L] /\ todo \in [Threads -> Seq(StepNames)]
  BY DEF Shaped, Breaks, LifeTypes
<1>2. /\ todo'[t] = L /\ Rem(t)' = Remaining(L)
      /\ \A u \in Threads : u # t => todo'[u] = todo[u] /\ Rem(u)' = Rem(u)
  BY <1>1, OthersRest
<1>3. h \in Rem(t) /\ (\A s \in Rem(t) \ {h} : ~Clash(h, s))
  BY <1>1, TailPlan DEF Rem
<1> QED
  BY <1>1, <1>2, <1>3, RecoversPlan

\* the list a thread begins
LEMMA EntersRests ==
  ASSUME NEW g, NEW L, Shaped, LifeTypes, Enters(g, L)
  PROVE  /\ Rem("cb") = {} /\ Plan(todo'["cb"])
         /\ Rem("cb")' \in {SetupSet, Setup4360Set, FailSetupSet}
         /\ Is4360 => Rem("cb")' \in {Setup4360Set, FailSetupSet}
         /\ Rem("cb")' \in {SetupSet, Setup4360Set} <=> L # FailSetup
         /\ todo'["core"] = todo["core"] /\ Rem("core")' = Rem("core")
         /\ todo'["work"] = todo["work"] /\ Rem("work")' = Rem("work")
<1>1. Plan(todo["cb"]) /\ todo["cb"] = <<>>
      /\ todo' = [todo EXCEPT !["cb"] = L] /\ todo \in [Threads -> Seq(StepNames)]
      /\ L \in {Tail(IF Is4360 THEN SetupSteps4360 ELSE SetupSteps), FailSetup}
  BY DEF Shaped, Enters, LifeTypes, Threads
<1>2. /\ todo'["cb"] = L /\ Rem("cb")' = Remaining(L)
      /\ \A u \in Threads : u # "cb" => todo'[u] = todo[u] /\ Rem(u)' = Rem(u)
  BY <1>1, OthersRest DEF Threads
<1>3. Rem("cb") = {}
  BY <1>1, EmptyPlan DEF Rem
<1>4. Plan(L) /\ Remaining(L) \in {SetupSet, Setup4360Set, FailSetupSet}
      /\ (Is4360 => Remaining(L) \in {Setup4360Set, FailSetupSet})
      /\ (L = FailSetup => Remaining(L) = FailSetupSet)
      /\ (L # FailSetup => Remaining(L) \in {SetupSet, Setup4360Set})
  BY <1>1, SetupPlan, Setup4360Plan, FailSetupPlan
<1>5. FailSetupSet # SetupSet /\ FailSetupSet # Setup4360Set
  <2>1. "console" \in FailSetupSet /\ "console" \notin SetupSet /\ "console" \notin Setup4360Set
    BY DEF FailSetupSet, SetupSet, Setup4360Set
  <2> QED
    BY <2>1
<1> QED
  BY <1>1, <1>2, <1>3, <1>4, <1>5 DEF Threads

LEMMA TakesAwayRests ==
  ASSUME NEW t \in Threads, NEW last \in {"unbound", "reprobe"}, Shaped, LifeTypes, TakesAway(t, last)
  PROVE  /\ t = "core" => Rem(t) = {}
         /\ t = "cb" => Rem(t) = {"release_driver"} /\ last = "unbound"
         /\ t \in {"core", "cb"}
         /\ Rem(t)' = DownOf(drvdata, last) \union {last} /\ Plan(todo'[t])
         /\ \A u \in Threads : u # t => todo'[u] = todo[u] /\ Rem(u)' = Rem(u)
<1>1. PICK L : /\ Plan(L) /\ Remaining(L) = DownOf(drvdata, last) \union {last}
               /\ todo' = [todo EXCEPT ![t] = L]
  BY DEF TakesAway
<1>2. /\ todo'[t] = L /\ Rem(t)' = Remaining(L)
      /\ \A u \in Threads : u # t => todo'[u] = todo[u] /\ Rem(u)' = Rem(u)
  BY <1>1, OthersRest DEF LifeTypes
<1>3. \/ t = "core" /\ todo["core"] = <<>>
      \/ t = "cb" /\ At("cb", "release_driver") /\ last = "unbound"
  BY DEF TakesAway
<1>4. todo["core"] = <<>> => Rem("core") = {}
  BY EmptyPlan DEF Rem
<1>5. ASSUME t = "cb", At("cb", "release_driver") PROVE Rem(t) = {"release_driver"}
  <2>1. Plan(todo[t]) /\ todo[t] # <<>> /\ Head(todo[t]) = "release_driver"
    BY <1>5 DEF Shaped, At
  <2>2. /\ Rem(t) = {"release_driver"} \union Remaining(Tail(todo[t]))
        /\ \A s \in Remaining(Tail(todo[t])) : ~Clash("release_driver", s)
    BY <2>1, TailPlan DEF Rem
  <2> QED
    BY <2>2 DEF Clash, Ends
<1> QED
  BY <1>1, <1>2, <1>3, <1>4, <1>5

LEMMA BuildsRests ==
  ASSUME Shaped, LifeTypes, Builds
  PROVE  /\ Rem("core") = {} \/ Rem("core") = {"reprobe"}
         /\ Rem("core") # {"reprobe"} => lock = Nobody /\ ~bound /\ lock' = "core"
         /\ Rem("core") = {"reprobe"} => lock' = lock
         /\ Rem("core")' = ProbeSet /\ Plan(todo'["core"])
         /\ todo'["cb"] = todo["cb"] /\ Rem("cb")' = Rem("cb")
         /\ todo'["work"] = todo["work"] /\ Rem("work")' = Rem("work")
<1>1. todo' = [todo EXCEPT !["core"] = ProbeSteps] /\ todo \in [Threads -> Seq(StepNames)]
      /\ Plan(todo["core"])
      /\ \/ todo["core"] = <<>> /\ lock = Nobody /\ ~bound /\ lock' = "core"
         \/ At("core", "reprobe") /\ lock' = lock
  BY DEF Shaped, Builds, LifeTypes, Threads
<1>2. /\ todo'["core"] = ProbeSteps /\ Rem("core")' = Remaining(ProbeSteps)
      /\ \A u \in Threads : u # "core" => todo'[u] = todo[u] /\ Rem(u)' = Rem(u)
  BY <1>1, OthersRest DEF Threads
<1>3. todo["core"] = <<>> => Rem("core") = {}
  BY EmptyPlan DEF Rem
<1>4. ASSUME At("core", "reprobe") PROVE Rem("core") = {"reprobe"}
  <2>1. todo["core"] # <<>> /\ Head(todo["core"]) = "reprobe"
    BY <1>4 DEF At
  <2>2. /\ Rem("core") = {"reprobe"} \union Remaining(Tail(todo["core"]))
        /\ \A s \in Remaining(Tail(todo["core"])) : ~Clash("reprobe", s)
    BY <1>1, <2>1, TailPlan DEF Rem
  <2> QED
    BY <2>2 DEF Clash, Ends
<1> QED
  BY <1>1, <1>2, <1>3, <1>4, ProbePlan DEF Threads

LEMMA ResetsRests ==
  ASSUME NEW g, Shaped, LifeTypes, Resets(g)
  PROVE  /\ Rem("work") = {} /\ Rem("work")' = ResetSet /\ Plan(todo'["work"])
         /\ todo'["cb"] = todo["cb"] /\ Rem("cb")' = Rem("cb")
         /\ todo'["core"] = todo["core"] /\ Rem("core")' = Rem("core")
<1>1. todo' = [todo EXCEPT !["work"] = ResetSteps] /\ todo \in [Threads -> Seq(StepNames)]
      /\ todo["work"] = <<>>
  BY DEF Resets, LifeTypes
<1>2. /\ todo'["work"] = ResetSteps /\ Rem("work")' = Remaining(ResetSteps)
      /\ \A u \in Threads : u # "work" => todo'[u] = todo[u] /\ Rem(u)' = Rem(u)
  BY <1>1, OthersRest DEF Threads
<1> QED
  BY <1>1, <1>2, ResetPlan, EmptyPlan DEF Threads, Rem

LEMMA QuietRests ==
  ASSUME Quiet
  PROVE  \A t \in Threads : todo'[t] = todo[t] /\ Rem(t)' = Rem(t)
BY DEF Quiet, Rem

LEMMA ShapedByRests ==
  ASSUME Shaped, NEW t \in Threads, Plan(todo'[t]),
         \A u \in Threads : u # t => todo'[u] = todo[u] /\ Rem(u)' = Rem(u),
         Rem(t)' \intersect Closes # {} => Rem(t)' \subseteq DownSet,
         t = "core" => /\ Rem(t)' \subseteq CoreSteps
                       /\ Rem(t)' # {} => Rem(t)' \intersect CoreEnds # {}
                       /\ "get_fw" \in Rem(t)' => "probed" \in Rem(t)',
         t = "cb" => Rem(t)' \subseteq CbSteps /\ (Rem(t)' \intersect Owns # {} => "unbound" \in Rem(t)'),
         t = "work" => Rem(t)' \subseteq ResetSet /\ (Rem(t)' # {} => "get_fw" \in Rem(t)')
  PROVE  Shaped'
<1>1. \A u \in Threads : Plan(todo'[u])
  BY DEF Shaped
<1>2. \A u \in Threads : Rem(u)' \intersect Closes # {} => Rem(u)' \subseteq DownSet
  BY DEF Shaped
<1>3. /\ Rem("core")' \subseteq CoreSteps /\ (Rem("core")' # {} => Rem("core")' \intersect CoreEnds # {})
      /\ ("get_fw" \in Rem("core")' => "probed" \in Rem("core")')
  <2>1. CASE t = "core"
    BY <2>1
  <2>2. CASE t # "core"
    BY <2>2 DEF Shaped, Threads
  <2> QED
    BY <2>1, <2>2
<1>4. Rem("cb")' \subseteq CbSteps /\ (Rem("cb")' \intersect Owns # {} => "unbound" \in Rem("cb")')
  <2>1. CASE t = "cb"
    BY <2>1
  <2>2. CASE t # "cb"
    BY <2>2 DEF Shaped, Threads
  <2> QED
    BY <2>1, <2>2
<1>5. Rem("work")' \subseteq ResetSet /\ (Rem("work")' # {} => "get_fw" \in Rem("work")')
  <2>1. CASE t = "work"
    BY <2>1
  <2>2. CASE t # "work"
    BY <2>2 DEF Shaped, Threads
  <2> QED
    BY <2>1, <2>2
<1> QED
  BY <1>1, <1>2, <1>3, <1>4, <1>5 DEF Shaped

LEMMA ShapedNext ==
  ASSUME Shaped, LifeTypes, Kinds
  PROVE  Shaped'
<1>1. ASSUME NEW t \in Threads, NEW h, Does(t, h)
      PROVE  Shaped'
  <2>1. /\ h \in Rem(t) /\ Rem(t)' = Rem(t) \ {h} /\ Plan(todo'[t])
        /\ \A u \in Threads : u # t => todo'[u] = todo[u] /\ Rem(u)' = Rem(u)
        /\ \A s \in Rem(t)' : ~Clash(h, s)
    BY <1>1, DoesRests
  <2>2. h \in Ends => Rem(t)' = {}
    BY <2>1 DEF Clash
  <2>3. Rem(t)' \intersect Closes # {} => Rem(t)' \subseteq DownSet
    BY <2>1 DEF Shaped
  <2>4. t = "core" => /\ Rem(t)' \subseteq CoreSteps
                      /\ Rem(t)' # {} => Rem(t)' \intersect CoreEnds # {}
                      /\ "get_fw" \in Rem(t)' => "probed" \in Rem(t)'
    <3>1. h \in CoreEnds => Rem(t)' = {}
      BY <2>2 DEF CoreEnds, Closes, Ends
    <3>2. "probed" \in CoreEnds
      BY DEF CoreEnds
    <3> QED
      BY <2>1, <3>1, <3>2 DEF Shaped
  <2>5. t = "cb" => Rem(t)' \subseteq CbSteps /\ (Rem(t)' \intersect Owns # {} => "unbound" \in Rem(t)')
    <3>1. h = "unbound" => Rem(t)' = {}
      BY <2>2 DEF Ends
    <3> QED
      BY <2>1, <3>1 DEF Shaped
  <2>6. t = "work" => Rem(t)' \subseteq ResetSet /\ (Rem(t)' # {} => "get_fw" \in Rem(t)')
    <3>1. h = "get_fw" /\ Rem(t)' \subseteq ResetSet => Rem(t)' = {}
      <4>1. "probed" \notin ResetSet
        BY DEF ResetSet, DetachSet
      <4> QED
        BY <2>1, <4>1 DEF Clash
    <3> QED
      BY <2>1, <3>1 DEF Shaped
  <2> QED
    BY <2>1, <2>3, <2>4, <2>5, <2>6, ShapedByRests
<1>2. ASSUME NEW t \in Threads, NEW h, NEW L, Breaks(t, h, L)
      PROVE  Shaped'
  <2>1. /\ Rem(t)' = RecoverSet(t, h) /\ Plan(todo'[t])
        /\ \A u \in Threads : u # t => todo'[u] = todo[u] /\ Rem(u)' = Rem(u)
    BY <1>2, BreaksRests
  <2>2. t = "core" => /\ RecoverSet(t, h) \subseteq FailBrcmfSet
                      /\ "unprobed" \in RecoverSet(t, h) /\ "get_fw" \notin RecoverSet(t, h)
    BY DEF RecoverSet, FailBrcmfSet, FailProbeSet
  <2>3. t = "cb" => /\ RecoverSet(t, h) \subseteq CbSteps /\ RecoverSet(t, h) \intersect Closes = {}
                    /\ RecoverSet(t, h) \intersect Owns = {}
    BY DEF RecoverSet, CbSteps, DetachSet, FailSetupSet, Closes, Owns
  <2>4. t = "work" => RecoverSet(t, h) = {}
    BY DEF RecoverSet
  <2>5. t \in {"core", "cb", "work"}
    BY DEF Threads
  <2>6. "unprobed" \in CoreEnds /\ FailBrcmfSet \subseteq DownSet /\ FailBrcmfSet \subseteq CoreSteps
    BY DEF CoreEnds, Closes, DownSet, CoreSteps
  <2> QED
    BY <2>1, <2>2, <2>3, <2>4, <2>5, <2>6, ShapedByRests
<1>3. ASSUME NEW g, NEW L, Enters(g, L)
      PROVE  Shaped'
  <2>1. /\ Plan(todo'["cb"])
        /\ Rem("cb")' \in {SetupSet, Setup4360Set, FailSetupSet}
        /\ todo'["core"] = todo["core"] /\ Rem("core")' = Rem("core")
        /\ todo'["work"] = todo["work"] /\ Rem("work")' = Rem("work")
    BY <1>3, EntersRests
  <2>2. Rem("cb")' \subseteq CbSteps /\ Rem("cb")' \intersect Closes = {} /\ Rem("cb")' \intersect Owns = {}
    <3>1. \A S \in {SetupSet, Setup4360Set, FailSetupSet} :
            S \subseteq CbSteps /\ S \intersect Closes = {} /\ S \intersect Owns = {}
      BY DEF CbSteps, SetupSet, Setup4360Set, FailSetupSet, Closes, Owns, RemoveSet, ShortSet, DetachSet
    <3> QED
      BY <2>1, <3>1
  <2>3. \A u \in Threads : u # "cb" => todo'[u] = todo[u] /\ Rem(u)' = Rem(u)
    BY <2>1 DEF Threads
  <2>4. "cb" \in Threads
    BY DEF Threads
  <2> QED
    BY <2>1, <2>2, <2>3, <2>4, ShapedByRests
<1>4. ASSUME NEW t \in Threads, NEW last \in {"unbound", "reprobe"}, TakesAway(t, last)
      PROVE  Shaped'
  <2>1. /\ Rem(t)' = DownOf(drvdata, last) \union {last} /\ Plan(todo'[t])
        /\ \A u \in Threads : u # t => todo'[u] = todo[u] /\ Rem(u)' = Rem(u)
        /\ t \in {"core", "cb"} /\ (t = "cb" => last = "unbound")
    BY <1>4, TakesAwayRests
  <2>2. DownOf(drvdata, last) \subseteq RemoveSet
    BY DEF DownOf, RemoveSet
  <2>3. RemoveSet \subseteq DownSet /\ RemoveSet \subseteq CoreSteps /\ RemoveSet \subseteq CbSteps
        /\ "get_fw" \notin RemoveSet
    BY DEF DownSet, CoreSteps, CbSteps, RemoveSet, ShortSet, DetachSet
  <2>4. {"unbound", "reprobe"} \subseteq DownSet /\ {"unbound", "reprobe"} \subseteq CoreSteps
        /\ "unbound" \in CbSteps /\ {"unbound", "reprobe"} \subseteq CoreEnds
    BY DEF DownSet, CoreSteps, CbSteps, CoreEnds, Closes
  <2> QED
    BY <2>1, <2>2, <2>3, <2>4, ShapedByRests
<1>5. ASSUME Builds PROVE Shaped'
  <2>1. /\ Rem("core")' = ProbeSet /\ Plan(todo'["core"])
        /\ todo'["cb"] = todo["cb"] /\ Rem("cb")' = Rem("cb")
        /\ todo'["work"] = todo["work"] /\ Rem("work")' = Rem("work")
    BY <1>5, BuildsRests
  <2>2. /\ ProbeSet \subseteq CoreSteps /\ ProbeSet \intersect Closes = {}
        /\ "probed" \in ProbeSet /\ "probed" \in CoreEnds
    BY DEF ProbeSet, CoreSteps, Closes, CoreEnds
  <2>3. \A u \in Threads : u # "core" => todo'[u] = todo[u] /\ Rem(u)' = Rem(u)
    BY <2>1 DEF Threads
  <2>4. "core" \in Threads
    BY DEF Threads
  <2> QED
    BY <2>1, <2>2, <2>3, <2>4, ShapedByRests
<1>6. ASSUME NEW g, Resets(g) PROVE Shaped'
  <2>1. /\ Rem("work")' = ResetSet /\ Plan(todo'["work"])
        /\ todo'["cb"] = todo["cb"] /\ Rem("cb")' = Rem("cb")
        /\ todo'["core"] = todo["core"] /\ Rem("core")' = Rem("core")
    BY <1>6, ResetsRests
  <2>2. ResetSet \intersect Closes = {} /\ "get_fw" \in ResetSet
    BY DEF ResetSet, DetachSet, Closes
  <2>3. \A u \in Threads : u # "work" => todo'[u] = todo[u] /\ Rem(u)' = Rem(u)
    BY <2>1 DEF Threads
  <2>4. "work" \in Threads
    BY DEF Threads
  <2> QED
    BY <2>1, <2>2, <2>3, <2>4, ShapedByRests
<1>7. ASSUME Quiet PROVE Shaped'
  BY <1>7, QuietRests DEF Shaped, Threads
<1> QED
  BY <1>1, <1>2, <1>3, <1>4, <1>5, <1>6, <1>7 DEF Kinds, Moves

LEMMA PlanLists ==
  ASSUME NEW L, Plan(L)
  PROVE  L \in Seq(StepNames)
BY DEF Plan

\* every pointer and flag belongs to a generation that was made
LEMMA TypesNext ==
  ASSUME Shaped, LifeTypes, Kinds, setting' = setting
  PROVE  LifeTypes'
<1>0. Shaped'
  BY ShapedNext
<1>1. \A t \in Threads : todo'[t] \in Seq(StepNames)
  BY <1>0, PlanLists DEF Shaped
<1> DEFINE Settled == /\ probes' \in Nat /\ Ever \subseteq Ever'
                      /\ gen' \in [Threads -> Ever'] /\ drvdata' \in Ever' /\ isr' \in Ever'
                      /\ bound' \in BOOLEAN
                      /\ live' \subseteq Res \X Ever' /\ dangling' \subseteq Res \X Ever'
                      /\ pending' \subseteq Ever' /\ queued' \subseteq Ever'
                      /\ up' \subseteq Ever' /\ waitq' \subseteq Ever'
                      /\ timer' \subseteq Ever' /\ armed' \subseteq Ever'
           Mapped == DOMAIN todo' = Threads /\ todo' = [t \in Threads |-> todo'[t]]
<1>2. probes' = probes => Ever' = Ever
  BY DEF Ever
<1>3. \A n \in Nat : 0..n \subseteq 0..(n + 1) /\ n + 1 \in 0..(n + 1) /\ n + 1 \in Nat /\ 0 \in 0..n
  OBVIOUS
<1>4. 0 \in Ever /\ probes \in Nat
  BY <1>3 DEF LifeTypes, Ever
<1>5. ASSUME NEW t \in Threads, NEW h, Does(t, h)
      PROVE  Settled /\ Mapped
  <2>1. gen' = gen /\ probes' = probes /\ todo' = [todo EXCEPT ![t] = Tail(todo[t])]
    BY <1>5 DEF Does
  <2>2. gen[t] \in Ever /\ Ever' = Ever
    BY <1>2, <2>1 DEF LifeTypes
  <2>3. Gains(h) \subseteq Res /\ Extra(h) \subseteq Res
    BY DEF Gains, Extra, Res, Taken, Scratch
  <2>4. live' \subseteq live \union Of(Gains(h) \union Extra(h), gen[t])
    BY <1>5 DEF Does, Memory
  <2>5. live' \subseteq Res \X Ever
    BY <2>2, <2>3, <2>4 DEF LifeTypes, Of
  <2>6. dangling' \subseteq dangling \union live
    BY <1>5 DEF Does, Memory
  <2>7. drvdata' \in {drvdata, 0, gen[t]} /\ bound' \in {bound, TRUE, FALSE}
    BY <1>5 DEF Does, Binding
  <2>8. up' \subseteq up \union {gen[t]} /\ waitq' \subseteq waitq \union {gen[t]}
        /\ armed' \subseteq armed \union {gen[t]} /\ timer' \subseteq timer \union {gen[t]}
    BY <1>5 DEF Does, Flags
  <2>9. pending' \subseteq pending \union {gen[t]} /\ queued' \subseteq queued \union {gen[t]} /\ isr' = isr
    BY <1>5 DEF Does, Async
  <2>10. Mapped
    BY <2>1 DEF LifeTypes
  <2> QED
    BY <1>4, <2>1, <2>2, <2>5, <2>6, <2>7, <2>8, <2>9, <2>10 DEF LifeTypes
<1>6. ASSUME NEW t \in Threads, NEW h, NEW L, Breaks(t, h, L)
      PROVE  Settled /\ Mapped
  <2>1. gen[t] \in Ever /\ Ever' = Ever
    BY <1>2, <1>6 DEF LifeTypes, Breaks
  <2>2. live' \subseteq live \union {<<"map", gen[t]>>} /\ dangling' \subseteq dangling \union live
    BY <1>6 DEF Breaks
  <2>3. "map" \in Res
    BY DEF Res
  <2>4. Mapped
    BY <1>6 DEF LifeTypes, Breaks
  <2>5. live' \subseteq Res \X Ever /\ dangling' \subseteq Res \X Ever
    BY <2>1, <2>2, <2>3 DEF LifeTypes
  <2>6. /\ gen' = gen /\ bound' = bound /\ probes' = probes /\ drvdata' = drvdata /\ up' = up
        /\ waitq' = waitq /\ armed' = armed /\ timer' = timer /\ pending' = pending
        /\ queued' = queued /\ isr' = isr
    BY <1>6 DEF Breaks
  <2> QED
    BY <2>1, <2>4, <2>5, <2>6 DEF LifeTypes
<1>7. ASSUME NEW g, NEW L, Enters(g, L)
      PROVE  Settled /\ Mapped
  <2>1. g \in Ever /\ Ever' = Ever
    BY <1>2, <1>7 DEF LifeTypes, Enters
  <2>2. live' \subseteq live
    BY <1>7 DEF Enters
  <2> QED
    BY <1>7, <2>1, <2>2 DEF LifeTypes, Enters
<1>8. ASSUME NEW t \in Threads, NEW last, TakesAway(t, last)
      PROVE  Settled /\ Mapped
  <2>1. Ever' = Ever /\ live' \subseteq live
    BY <1>2, <1>8 DEF TakesAway
  <2> QED
    BY <1>8, <2>1 DEF LifeTypes, TakesAway
<1>9. ASSUME Builds
      PROVE  Settled /\ Mapped
  <2>1. Ever \subseteq Ever' /\ probes + 1 \in Ever' /\ probes' \in Nat
    BY <1>3, <1>4, <1>9 DEF Builds, Ever
  <2> QED
    BY <1>9, <2>1 DEF LifeTypes, Builds
<1>10. ASSUME NEW g, Resets(g)
      PROVE  Settled /\ Mapped
  <2>1. Ever' = Ever /\ g \in Ever
    BY <1>2, <1>10 DEF LifeTypes, Resets
  <2> QED
    BY <1>10, <2>1 DEF LifeTypes, Resets
<1>11. ASSUME Quiet
      PROVE  Settled /\ Mapped
  <2>1. Ever' = Ever
    BY <1>2, <1>11 DEF Quiet
  <2>2. isr' \in Ever /\ queued' \subseteq Ever /\ up' \subseteq Ever /\ timer' \subseteq Ever
    BY <1>4, <1>11 DEF Quiet, LifeTypes
  <2> QED
    BY <1>11, <2>1, <2>2 DEF LifeTypes, Quiet
<1>12. Settled /\ Mapped
  BY <1>5, <1>6, <1>7, <1>8, <1>9, <1>10, <1>11 DEF Kinds, Moves
<1>13. todo' \in [Threads -> Seq(StepNames)]
  BY <1>1, <1>12
<1> QED
  BY <1>12, <1>13 DEF LifeTypes

\* The BCM4360's setup stops after the download: no ring, no interrupt, no reset.
Later == {"rings", "scratch", "ringupd", "irq", "flowrings", "cfg80211"}
Stays4360 ==
  Is4360 => /\ Rem("cb") \intersect Later = {} /\ Rem("work") = {}
            /\ \A x \in live : x[1] \notin Later
            /\ dangling = {} /\ armed = {} /\ queued = {}

LEMMA Stays4360Next ==
  ASSUME Shaped, LifeTypes, Kinds, setting' = setting, Stays4360
  PROVE  Stays4360'
<1> SUFFICES ASSUME Is4360
             PROVE  /\ Rem("cb")' \intersect Later = {} /\ Rem("work")' = {}
                    /\ \A x \in live' : x[1] \notin Later
                    /\ dangling' = {} /\ armed' = {} /\ queued' = {}
  BY DEF Stays4360, Is4360
<1>0. /\ Rem("cb") \intersect Later = {} /\ Rem("work") = {}
      /\ \A x \in live : x[1] \notin Later
      /\ dangling = {} /\ armed = {} /\ queued = {}
  BY DEF Stays4360
<1>1. ASSUME NEW t \in Threads, NEW h, Does(t, h)
      PROVE  /\ Rem("cb")' \intersect Later = {} /\ Rem("work")' = {}
             /\ \A x \in live' : x[1] \notin Later
             /\ dangling' = {} /\ armed' = {} /\ queued' = {}
  <2>1. /\ h \in Rem(t) /\ Rem(t)' = Rem(t) \ {h}
        /\ \A u \in Threads : u # t => Rem(u)' = Rem(u)
    BY <1>1, DoesRests
  <2>2. Rem("cb")' \subseteq Rem("cb") /\ Rem("work")' \subseteq Rem("work")
    BY <2>1 DEF Threads
  <2>3. h \notin Later
    <3>1. CoreSteps \intersect Later = {}
      BY DEF CoreSteps, DownSet, Later, ProbeSet, FailBrcmfSet, FailProbeSet, RemoveSet, ShortSet,
             DetachSet
    <3> QED
      BY <1>0, <2>1, <3>1 DEF Shaped, Threads
  <2>4. (Gains(h) \union Extra(h)) \intersect Later = {}
    BY <2>3 DEF Gains, Extra, Later, Taken, Scratch
  <2>5. live' \subseteq live \union Of(Gains(h) \union Extra(h), gen[t])
    BY <1>1 DEF Does, Memory
  <2>6. \A x \in live' : x[1] \notin Later
    BY <1>0, <2>4, <2>5 DEF Of
  <2>7. Of(Scratch, gen[t]) \intersect live = {}
    BY <1>0 DEF Of, Scratch, Later
  <2>8. dangling' = {}
    BY <1>0, <1>1, <2>7 DEF Does, Memory
  <2>9. armed' = {}
    BY <1>0, <1>1, <2>3 DEF Does, Flags, Later
  <2>10. queued' = {}
    BY <1>0, <1>1 DEF Does, Async
  <2> QED
    BY <1>0, <2>2, <2>6, <2>8, <2>9, <2>10
<1>2. ASSUME NEW t \in Threads, NEW h, NEW L, Breaks(t, h, L)
      PROVE  /\ Rem("cb")' \intersect Later = {} /\ Rem("work")' = {}
             /\ \A x \in live' : x[1] \notin Later
             /\ dangling' = {} /\ armed' = {} /\ queued' = {}
  <2>1. /\ h \in Rem(t) /\ Rem(t)' = RecoverSet(t, h)
        /\ \A u \in Threads : u # t => Rem(u)' = Rem(u)
    BY <1>2, BreaksRests
  <2>2. RecoverSet("cb", h) \intersect Later = {} /\ RecoverSet("work", h) = {}
    BY DEF RecoverSet, DetachSet, FailSetupSet, Later
  <2>3. Rem("cb")' \intersect Later = {} /\ Rem("work")' = {}
    BY <1>0, <2>1, <2>2 DEF Threads
  <2>4. live' \subseteq live \union {<<"map", gen[t]>>} /\ "map" \notin Later
    BY <1>2 DEF Breaks, Later
  <2>5. \A x \in live' : x[1] \notin Later
    BY <1>0, <2>4
  <2>6. \A x \in dangling' : x \in dangling \/ (x \in live /\ x[1] \in Scratch)
    BY <1>2 DEF Breaks
  <2>7. dangling' = {}
    BY <1>0, <2>6 DEF Scratch, Later
  <2> QED
    BY <1>0, <1>2, <2>3, <2>5, <2>7 DEF Breaks
<1>3. ASSUME NEW g, NEW L, Enters(g, L)
      PROVE  /\ Rem("cb")' \intersect Later = {} /\ Rem("work")' = {}
             /\ \A x \in live' : x[1] \notin Later
             /\ dangling' = {} /\ armed' = {} /\ queued' = {}
  <2>1. Rem("cb")' \in {Setup4360Set, FailSetupSet} /\ Rem("work")' = Rem("work")
    BY <1>3, EntersRests
  <2>2. \A S \in {Setup4360Set, FailSetupSet} : S \intersect Later = {}
    BY DEF Setup4360Set, FailSetupSet, Later
  <2>3. live' \subseteq live
    BY <1>3 DEF Enters
  <2> QED
    BY <1>0, <1>3, <2>1, <2>2, <2>3 DEF Enters
<1>4. ASSUME NEW t \in Threads, NEW last \in {"unbound", "reprobe"}, TakesAway(t, last)
      PROVE  /\ Rem("cb")' \intersect Later = {} /\ Rem("work")' = {}
             /\ \A x \in live' : x[1] \notin Later
             /\ dangling' = {} /\ armed' = {} /\ queued' = {}
  <2>1. /\ Rem(t)' = DownOf(drvdata, last) \union {last}
        /\ \A u \in Threads : u # t => Rem(u)' = Rem(u)
        /\ t \in {"core", "cb"}
    BY <1>4, TakesAwayRests
  <2>2. (DownOf(drvdata, last) \union {last}) \intersect Later = {}
    BY DEF DownOf, RemoveSet, ShortSet, DetachSet, Later
  <2>3. live' \subseteq live
    BY <1>4 DEF TakesAway
  <2>4. Rem("cb")' \intersect Later = {} /\ Rem("work")' = {}
    BY <1>0, <2>1, <2>2 DEF Threads
  <2> QED
    BY <1>0, <1>4, <2>3, <2>4 DEF TakesAway
<1>5. ASSUME Builds
      PROVE  /\ Rem("cb")' \intersect Later = {} /\ Rem("work")' = {}
             /\ \A x \in live' : x[1] \notin Later
             /\ dangling' = {} /\ armed' = {} /\ queued' = {}
  BY <1>0, <1>5, BuildsRests DEF Builds
<1>6. ASSUME NEW g, Resets(g)
      PROVE  FALSE
  BY <1>0, <1>6 DEF Resets
<1>7. ASSUME Quiet
      PROVE  /\ Rem("cb")' \intersect Later = {} /\ Rem("work")' = {}
             /\ \A x \in live' : x[1] \notin Later
             /\ dangling' = {} /\ armed' = {} /\ queued' = {}
  <2>1. queued' = {}
    BY <1>0, <1>7 DEF Quiet
  <2> QED
    BY <1>0, <1>7, <2>1, QuietRests DEF Quiet, Threads
<1> QED
  BY <1>1, <1>2, <1>3, <1>4, <1>5, <1>6, <1>7 DEF Kinds, Moves
-----------------------------------------------------------------------------
(***************************************************************************)
(* While nothing overlaps: who is at work, for which generation, and what  *)
(* exists.                                                                 *)
(***************************************************************************)
Working == \E s \in Rem("core") : s # "probed"

\* Nothing is bound, taken or under way before the first probe.
Unmade ==
  probes = 0 => /\ ~bound /\ pending = {} /\ queued = {} /\ armed = {} /\ live = {}
                /\ \A t \in Threads : Rem(t) = {}

\* one thread works at a time, but for a probe that has only to return
OneBuilds ==
  /\ Working => Rem("cb") = {} /\ Rem("work") = {} /\ pending = {}
  /\ Rem("cb") # {} => Rem("work") = {} /\ pending = {}
  /\ Rem("work") # {} => Rem("core") = {} /\ pending = {}
  /\ pending \subseteq {probes}

\* who holds the device lock, and when the driver is bound
Holders ==
  /\ Rem("core") # {} => lock = "core"
  /\ "unbound" \in Rem("cb") => lock = "cb"
  /\ Rem("cb") # {} \/ Rem("work") # {} \/ pending # {} => bound \/ Rem("core") = {"probed"}

\* everything belongs to the last generation
OneGeneration ==
  /\ \A x \in live : x[2] = probes
  /\ \A t \in Threads : Rem(t) # {} => gen[t] = probes \/ (Rem(t) = {"unbound"} /\ live = {})
  /\ drvdata \in {0, probes}
  /\ ~bound /\ Rem("core") = {} => drvdata = 0
  /\ \A t \in Threads :
       Rem(t) \intersect {"unbound", "reprobe"} # {} /\ "clear_drvdata" \notin Rem(t) => drvdata = 0

Takers == {s \in StepNames : Gains(s) # {} \/ s = "download"}

\* what a list that leaves nothing still frees is all there is
Covered ==
  /\ \A t \in Threads : Rem(t) \intersect Closes # {} =>
       \A x \in live : \E s \in Rem(t) : x[1] \in Gives(s)
  /\ ~bound /\ Rem("core") = {} => live = {}
  /\ drvdata = 0 =>
       \/ live = {} /\ \A t \in Threads : Rem(t) \intersect Takers = {}
       \/ Rem("core") \intersect {"set_drvdata", "unprobed"} # {}

Base == {"devinfo", "map", "ci", "busdev", "settings", "bus", "drvr"}

\* the firmware request and the firmware exist only on their way
Passing ==
  /\ \A x \in live : x[1] = "fwreq" =>
       \/ pending # {} \/ "attach" \in Rem("cb")
       \/ "get_fw" \in Rem("core") \/ "get_fw" \in Rem("work")
  /\ \A x \in live : x[1] = "fw" => "download" \in Rem("cb")
  /\ "get_fw" \in Rem("core") => \A x \in live : x[1] \in Base \union {"fwreq"}

\* allocations whose last reference must not be overwritten
Once == {"devinfo", "map", "ci", "busdev", "settings", "bus", "drvr", "fwreq", "rings", "irq"}

\* what is to be taken is not there yet
FreshTakes ==
  /\ \A t \in Threads : \A s \in Rem(t) : \A r \in Gains(s) \intersect Once : <<r, probes>> \notin live
  /\ pending # {} => <<"rings", probes>> \notin live /\ <<"irq", probes>> \notin live
  /\ Rem("work") # {} => /\ <<"rings", probes>> \in live => "rel_rings" \in Rem("work")
                         /\ <<"irq", probes>> \in live => "rel_irq" \in Rem("work")
  /\ lost \subseteq {"flowrings"}

\* the interrupt is given back before what its handler reads
HandlerFirst ==
  <<"irq", probes>> \in live =>
    /\ Has(probes, {"devinfo", "map"})
    /\ \A t \in Threads : Rem(t) \intersect Goes # {} => "rel_irq" \in Rem(t)

SerialInv ==
  OneBuilds /\ Holders /\ OneGeneration /\ Covered /\ Passing /\ FreshTakes /\ HandlerFirst

IInv == LifeTypes /\ Shaped /\ Stays4360 /\ Unmade /\ (Serial => SerialInv)

\* What is awaited is on the list.
LEMMA AwaitedIsListed ==
  ASSUME NEW L, Plan(L), NEW s \in Remaining(L)
  PROVE  Awaits(s) \subseteq Remaining(L)
<1>1. L \in Seq(StepNames) /\ Promised(L, {})
  BY DEF Plan
<1>2. PICK i \in 1..Len(L) : L[i] = s
  BY DEF Remaining
<1>3. Len(L) \in Nat
  BY <1>1
<1>4. ASSUME NEW b \in Awaits(s) PROVE b \in Remaining(L)
  <2>1. PICK j \in (i + 1)..Len(L) : L[j] = b
    BY <1>1, <1>2, <1>4 DEF Promised
  <2>2. j \in 1..Len(L)
    BY <1>2, <1>3, <2>1
  <2> QED
    BY <2>1, <2>2 DEF Remaining
<1> QED
  BY <1>4

\* Sets of steps.
LEMMA DownTakesNothing ==
  ASSUME NEW s \in DownSet \union DetachSet \union FailSetupSet
  PROVE  Gains(s) = {} /\ Extra(s) = {} /\ s \notin Takers /\ s \notin {"set_drvdata", "get_fw", "probed"}
BY DEF DownSet, FailBrcmfSet, FailProbeSet, RemoveSet, ShortSet, DetachSet, FailSetupSet, Gains, Extra,
       Taken, Scratch, Takers

LEMMA CoreTakes ==
  ASSUME NEW s \in CoreSteps
  PROVE  Gains(s) \subseteq Base \union {"fwreq"} /\ Extra(s) = {} /\ s # "crashed"
BY DEF CoreSteps, ProbeSet, DownSet, FailBrcmfSet, FailProbeSet, RemoveSet, ShortSet, DetachSet, Gains,
       Extra, Taken, Scratch, Base

LEMMA WorkTakes ==
  ASSUME NEW s \in ResetSet
  PROVE  /\ Gains(s) \subseteq {"fwreq"} /\ Extra(s) = {} /\ s \notin Closes /\ s \notin Goes
         /\ s \notin {"probed", "set_drvdata", "clear_drvdata", "crashed"}
BY DEF ResetSet, DetachSet, Gains, Extra, Taken, Scratch, Closes, Goes

LEMMA CbTakes ==
  ASSUME NEW s \in CbSteps
  PROVE  /\ s \notin {"probed", "unprobed", "reprobe", "set_drvdata", "get_fw", "fwreq"}
         /\ Gains(s) \intersect Base = {} /\ "fwreq" \notin Gains(s)
BY DEF CbSteps, SetupSet, DetachSet, FailSetupSet, RemoveSet, ShortSet, Gains, Taken, Scratch, Base

\* two steps take different things, what is taken is not freed by the same step
LEMMA TakesApart ==
  /\ \A x, y \in StepNames : x # y => Gains(x) \intersect Gains(y) = {}
  /\ \A x, y \in StepNames : Extra(x) \intersect Gains(y) = {}
  /\ \A x \in StepNames : Gains(x) \intersect Gives(x) = {}
  /\ \A x \in StepNames : Extra(x) \subseteq {"olmsg"}
BY DEF Gains, Extra, Gives, Frees, Taken, Scratch

LEMMA FreesAnother ==
  /\ \A s \in StepNames : "devinfo" \in Gives(s) \/ "map" \in Gives(s) => s \in Goes
  /\ \A s \in StepNames : "irq" \in Gives(s) <=> s = "rel_irq"
  /\ \A s \in StepNames : "fwreq" \in Gives(s) <=> s = "attach"
  /\ \A s \in StepNames : "fw" \in Gives(s) <=> s = "download"
  /\ \A s \in StepNames : "rings" \in Gives(s) <=> s = "rel_rings"
  /\ \A s \in StepNames : "irq" \in Gains(s) => s = "irq"
  /\ \A s \in StepNames : "fwreq" \in Gains(s) => s = "fwreq"
  /\ \A s \in StepNames : "fw" \in Gains(s) => s = "attach"
  /\ \A s \in Closes \union {"clear_drvdata"} : Gives(s) = {}
BY DEF StepNames, ProbeSet, FailBrcmfSet, FailProbeSet, SetupSet, FailSetupSet, RemoveSet, ShortSet,
       DetachSet, ResetSet, Gives, Gains, Frees, Taken, Scratch, Goes, Closes

LEMMA UnmadeNext ==
  ASSUME Shaped, LifeTypes, Kinds, Unmade
  PROVE  Unmade'
<1> SUFFICES ASSUME probes' = 0
             PROVE  /\ ~bound' /\ pending' = {} /\ queued' = {} /\ armed' = {} /\ live' = {}
                    /\ \A t \in Threads : Rem(t)' = {}
  BY DEF Unmade
<1>1. ASSUME NEW t \in Threads, NEW h, Does(t, h) PROVE FALSE
  BY <1>1, DoesRests DEF Unmade, Does
<1>2. ASSUME NEW t \in Threads, NEW h, NEW L, Breaks(t, h, L) PROVE FALSE
  BY <1>2, BreaksRests DEF Unmade, Breaks
<1>3. ASSUME NEW g, NEW L, Enters(g, L) PROVE FALSE
  BY <1>3 DEF Unmade, Enters
<1>4. ASSUME NEW t, NEW last, TakesAway(t, last) PROVE FALSE
  BY <1>4 DEF Unmade, TakesAway
<1>5. ASSUME Builds PROVE FALSE
  <2>1. \A n \in Nat : n + 1 # 0
    OBVIOUS
  <2> QED
    BY <1>5, <2>1 DEF Builds, LifeTypes
<1>6. ASSUME NEW g, Resets(g) PROVE FALSE
  BY <1>6 DEF Unmade, Resets
<1>7. ASSUME Quiet
      PROVE  /\ ~bound' /\ pending' = {} /\ queued' = {} /\ armed' = {} /\ live' = {}
             /\ \A t \in Threads : Rem(t)' = {}
  BY <1>7, QuietRests DEF Unmade, Quiet
<1> QED
  BY <1>1, <1>2, <1>3, <1>4, <1>5, <1>6, <1>7 DEF Kinds, Moves

\* the others while thread t works
LEMMA Alone ==
  ASSUME Shaped, OneBuilds, NEW t \in Threads, NEW h \in Rem(t), NEW u \in Threads, u # t, Rem(u) # {}
  PROVE  \/ t = "core" /\ h = "probed" /\ Rem("core") = {"probed"} /\ u = "cb" /\ Rem("work") = {}
         \/ t = "cb" /\ u = "core" /\ Rem("core") = {"probed"} /\ Rem("work") = {}
<1>1. /\ (\E s \in Rem("core") : s # "probed") => Rem("cb") = {} /\ Rem("work") = {}
      /\ Rem("cb") # {} => Rem("work") = {}
      /\ Rem("work") # {} => Rem("core") = {}
  BY DEF OneBuilds, Working
<1>2. t \in {"core", "cb", "work"} /\ u \in {"core", "cb", "work"}
  BY DEF Threads
<1>3. Rem("work") = {}
  BY <1>1, <1>2
<1>4. (t = "core" /\ u = "cb") \/ (t = "cb" /\ u = "core")
  BY <1>2, <1>3
<1>5. Rem("core") # {} /\ Rem("cb") # {}
  BY <1>4
<1>6. Rem("core") = {"probed"}
  BY <1>1, <1>5
<1> QED
  BY <1>3, <1>4, <1>6

\* A step done, while nothing overlaps.
LEMMA DoesOneBuilds ==
  ASSUME IInv, SerialInv, NEW t \in Threads, NEW h, Does(t, h)
  PROVE  OneBuilds'
<1>0. Shaped /\ LifeTypes /\ OneBuilds /\ OneGeneration
  BY DEF IInv, SerialInv
<1>1. /\ h \in Rem(t) /\ Rem(t)' = Rem(t) \ {h}
      /\ \A u \in Threads : u # t => Rem(u)' = Rem(u)
      /\ \A s \in Rem(t)' : ~Clash(h, s)
  BY <1>0, DoesRests
<1>2. pending' = IF h = "get_fw" THEN pending \union {gen[t]} ELSE pending
  BY DEF Does, Async
<1>3. h = "get_fw" => Rem(t)' \subseteq {"probed"}
  BY <1>1 DEF Clash
<1>4. h = "get_fw" => (t = "core" \/ (t = "work" /\ Rem("work")' = {}))
  <2>1. \A s \in CbSteps : s # "get_fw"
    BY CbTakes
  <2>2. \A s \in ResetSet : s # "probed"
    BY WorkTakes
  <2>3. t \in {"core", "cb", "work"} /\ Rem("cb") \subseteq CbSteps /\ Rem("work") \subseteq ResetSet
    BY <1>0 DEF Threads, Shaped
  <2> QED
    BY <1>1, <1>3, <2>1, <2>2, <2>3
<1>5. Working' => h # "get_fw" \/ t # "core"
  BY <1>3 DEF Working
<1>6. ASSUME h = "get_fw" PROVE gen[t] = probes
  BY <1>0, <1>1, <1>6 DEF OneGeneration
<1>7. \A u \in Threads : Rem(u)' \subseteq Rem(u)
  BY <1>1
<1>8. Rem("core")' \subseteq Rem("core") /\ Rem("cb")' \subseteq Rem("cb") /\ Rem("work")' \subseteq Rem("work")
  BY <1>7 DEF Threads
<1>9. Working' => Working
  BY <1>8 DEF Working
<1>10. pending' \subseteq {probes'}
  BY <1>0, <1>2, <1>6 DEF OneBuilds, Does
<1>11. Working' => Rem("cb")' = {} /\ Rem("work")' = {} /\ pending' = {}
  BY <1>0, <1>2, <1>4, <1>5, <1>8, <1>9, <1>1 DEF OneBuilds
<1>12. Rem("cb")' # {} => Rem("work")' = {} /\ pending' = {}
  <2>1. ASSUME Rem("cb")' # {} PROVE h # "get_fw"
    <3>1. Rem("cb") # {}
      BY <1>8, <2>1
    <3>2. h = "get_fw" => t = "core" /\ Working
      BY <1>0, <1>1, <1>4, <3>1 DEF OneBuilds, Working
    <3> QED
      BY <1>0, <3>1, <3>2 DEF OneBuilds
  <2> QED
    BY <1>0, <1>2, <1>8, <2>1 DEF OneBuilds
<1>13. Rem("work")' # {} => Rem("core")' = {} /\ pending' = {}
  <2>1. ASSUME Rem("work")' # {} PROVE h # "get_fw"
    <3>1. Rem("work") # {}
      BY <1>8, <2>1
    <3> QED
      BY <1>0, <1>1, <1>4, <2>1, <3>1 DEF OneBuilds
  <2> QED
    BY <1>0, <1>2, <1>8, <2>1 DEF OneBuilds
<1> QED
  BY <1>10, <1>11, <1>12, <1>13 DEF OneBuilds

LEMMA DoesHolders ==
  ASSUME IInv, SerialInv, NEW t \in Threads, NEW h, Does(t, h)
  PROVE  Holders'
<1>0. Shaped /\ LifeTypes /\ OneBuilds /\ Holders /\ Covered
  BY DEF IInv, SerialInv
<1>1. /\ h \in Rem(t) /\ Rem(t)' = Rem(t) \ {h}
      /\ \A u \in Threads : u # t => Rem(u)' = Rem(u)
      /\ \A s \in Rem(t)' : ~Clash(h, s)
  BY <1>0, DoesRests
<1>2. /\ bound' = IF h = "probed" THEN TRUE ELSE IF h = "unbound" THEN FALSE ELSE bound
      /\ lock' = IF h \in {"probed", "unprobed", "unbound"} THEN Nobody ELSE lock
      /\ pending' = IF h = "get_fw" THEN pending \union {gen[t]} ELSE pending
  BY DEF Does, Binding, Async
<1>3. h \in Ends => Rem(t)' = {}
  BY <1>1 DEF Clash
<1>4. Rem("core")' \subseteq Rem("core") /\ Rem("cb")' \subseteq Rem("cb") /\ Rem("work")' \subseteq Rem("work")
  BY <1>1 DEF Threads
<1>5. {"probed", "unprobed", "unbound"} \subseteq Ends
  BY DEF Ends
<1>6. t \in {"core", "cb", "work"}
  BY DEF Threads
<1>7. h \in {"probed", "unprobed", "unbound"} =>
        t = "core" \/ (t = "cb" /\ h = "unbound")
  <2>1. \A s \in CbSteps : s \notin {"probed", "unprobed"}
    BY CbTakes
  <2>2. \A s \in ResetSet : s \notin {"probed", "unprobed", "unbound"}
    BY WorkTakes DEF Closes
  <2> QED
    BY <1>0, <1>1, <1>6, <2>1, <2>2 DEF Shaped
<1>8. Rem("core")' # {} => lock' = "core"
  <2>1. ASSUME Rem("core")' # {}, h \in {"probed", "unprobed", "unbound"} PROVE FALSE
    <3>1. t = "cb" /\ h = "unbound"
      BY <1>3, <1>5, <1>7, <2>1
    <3>2. lock = "cb" /\ lock = "core"
      BY <1>0, <1>1, <1>4, <2>1, <3>1 DEF Holders
    <3> QED
      BY <3>2
  <2> QED
    BY <1>0, <1>2, <1>4, <2>1 DEF Holders
<1>9. "unbound" \in Rem("cb")' => lock' = "cb"
  <2>1. ASSUME "unbound" \in Rem("cb")', h \in {"probed", "unprobed", "unbound"} PROVE FALSE
    <3>1. t = "core"
      BY <1>3, <1>5, <1>7, <2>1
    <3>2. lock = "cb" /\ lock = "core"
      BY <1>0, <1>1, <1>4, <2>1, <3>1 DEF Holders
    <3> QED
      BY <3>2
  <2> QED
    BY <1>0, <1>2, <1>4, <2>1 DEF Holders
<1>10. ASSUME Rem("cb")' # {} \/ Rem("work")' # {} \/ pending' # {}
       PROVE  bound' \/ Rem("core")' = {"probed"}
  <2>1. CASE h = "probed"
    BY <1>2, <2>1
  <2>2. CASE h = "get_fw"
    <3>1. Rem(t)' \subseteq {"probed"}
      BY <1>1, <2>2 DEF Clash
    <3>2. CASE t = "core"
      <4>1. "probed" \in Rem("core")'
        BY <1>0, <1>1, <2>2, <3>2 DEF Shaped
      <4> QED
        BY <3>1, <3>2, <4>1
    <3>3. CASE t = "work"
      <4>1. Rem("work") # {} /\ Rem("core") = {}
        BY <1>0, <1>1, <3>3 DEF OneBuilds
      <4>2. bound
        BY <1>0, <4>1 DEF Holders
      <4> QED
        BY <1>2, <2>2, <4>2
    <3>4. t # "cb"
      <4>1. \A s \in CbSteps : s # "get_fw"
        BY CbTakes
      <4> QED
        BY <1>0, <1>1, <2>2, <4>1 DEF Shaped
    <3> QED
      BY <1>6, <3>2, <3>3, <3>4
  <2>3. CASE h = "unbound"
    <3>1. CASE t = "core"
      <4>1. Working
        BY <1>1, <2>3, <3>1 DEF Working
      <4> QED
        BY <1>0, <1>2, <1>4, <1>10, <2>3, <4>1 DEF OneBuilds
    <3>2. CASE t = "cb"
      <4>1. Rem("cb")' = {} /\ Rem("work") = {} /\ pending = {}
        BY <1>0, <1>1, <1>3, <1>5, <2>3, <3>2 DEF OneBuilds
      <4> QED
        BY <1>2, <1>4, <1>10, <2>3, <4>1
    <3> QED
      BY <1>7, <2>3, <3>1, <3>2
  <2>4. CASE h \notin {"probed", "get_fw", "unbound"}
    <3>1. bound \/ Rem("core") = {"probed"}
      BY <1>0, <1>2, <1>4, <1>10, <2>4 DEF Holders
    <3>2. Rem("core") = {"probed"} => Rem("core")' = {"probed"}
      BY <1>1, <2>4 DEF Threads
    <3> QED
      BY <1>2, <2>4, <3>1, <3>2
  <2> QED
    BY <2>1, <2>2, <2>3, <2>4
<1> QED
  BY <1>8, <1>9, <1>10 DEF Holders

\* what exists after a step done
LEMMA DoesLive ==
  ASSUME IInv, SerialInv, NEW t \in Threads, NEW h, Does(t, h)
  PROVE  /\ \A x \in live' : \/ x \in live /\ x[1] \notin Gives(h)
                             \/ x[1] \in Gains(h) \union Extra(h) /\ x[2] = probes
         /\ \A x \in live : x \in live' \/ x[1] \in Gives(h)
         /\ \A r \in Gains(h) : <<r, probes>> \in live'
         /\ h \in Takers => gen[t] = probes
         /\ gen[t] = probes \/ (live = {} /\ h = "unbound")
         /\ probes' = probes
<1>1. h \in Rem(t) /\ h \in StepNames
  BY DoesRests DEF IInv
<1>2. gen[t] = probes \/ (Rem(t) = {"unbound"} /\ live = {})
  BY <1>1 DEF SerialInv, OneGeneration
<1>3. /\ (live \ Of(Gives(h), gen[t])) \union Of(Gains(h), gen[t]) \subseteq live'
      /\ live' \subseteq (live \ Of(Gives(h), gen[t])) \union Of(Gains(h) \union Extra(h), gen[t])
  BY DEF Does, Memory
<1>4. \A x \in live : x = <<x[1], probes>> /\ x[2] = probes
  BY DEF IInv, LifeTypes, SerialInv, OneGeneration
<1>5. probes' = probes
  BY DEF Does
<1>6. CASE gen[t] = probes
  <2>1. \A x \in live' : \/ x \in live /\ x[1] \notin Gives(h)
                         \/ x[1] \in Gains(h) \union Extra(h) /\ x[2] = probes
    BY <1>3, <1>4, <1>6 DEF Of
  <2>2. \A x \in live : x \in live' \/ x[1] \in Gives(h)
    BY <1>3, <1>4, <1>6 DEF Of
  <2>3. \A r \in Gains(h) : <<r, probes>> \in live'
    BY <1>3, <1>6 DEF Of
  <2> QED
    BY <1>5, <1>6, <2>1, <2>2, <2>3
<1>7. CASE Rem(t) = {"unbound"} /\ live = {}
  <2>1. h = "unbound" /\ "unbound" \in DownSet
    BY <1>1, <1>7 DEF DownSet
  <2>2. Gains(h) = {} /\ Extra(h) = {} /\ h \notin Takers
    BY <2>1, DownTakesNothing
  <2>3. live' = {}
    BY <1>3, <1>7, <2>2 DEF Of
  <2> QED
    BY <1>5, <1>7, <2>1, <2>2, <2>3
<1> QED
  BY <1>2, <1>6, <1>7

\* nothing is taken beside a thread that works
LEMMA AloneTakes ==
  ASSUME IInv, SerialInv, NEW t \in Threads, NEW h, Does(t, h),
         NEW u \in Threads, u # t, Rem(u) # {}, Rem(u) # {"probed"}
  PROVE  h = "probed" /\ t = "core" /\ live' \subseteq live
<1>1. h \in Rem(t) /\ Shaped /\ OneBuilds
  BY DoesRests DEF IInv, SerialInv
<1>2. t = "core" /\ h = "probed"
  BY <1>1, Alone
<1>3. Gains(h) = {} /\ Extra(h) = {}
  BY <1>2 DEF Gains, Extra, Taken, Scratch
<1>4. live' \subseteq live
  BY <1>3, DoesLive
<1> QED
  BY <1>2, <1>4

LEMMA DoesOneGeneration ==
  ASSUME IInv, SerialInv, NEW t \in Threads, NEW h, Does(t, h)
  PROVE  OneGeneration'
<1>0. Shaped /\ LifeTypes /\ OneBuilds /\ Holders /\ OneGeneration /\ Covered
  BY DEF IInv, SerialInv
<1>1. /\ h \in Rem(t) /\ Rem(t)' = Rem(t) \ {h}
      /\ \A u \in Threads : u # t => Rem(u)' = Rem(u)
      /\ \A s \in Rem(t)' : ~Clash(h, s)
      /\ h \in StepNames
  BY <1>0, DoesRests
<1>2. /\ bound' = IF h = "probed" THEN TRUE ELSE IF h = "unbound" THEN FALSE ELSE bound
      /\ drvdata' = IF h = "set_drvdata" THEN gen[t]
                    ELSE IF h = "clear_drvdata" \/ (h = "unprobed" /\ ~bound) THEN 0
                    ELSE drvdata
      /\ gen' = gen /\ probes' = probes /\ h # "reprobe"
  BY DEF Does, Binding
<1>3. h \in Ends => Rem(t)' = {}
  BY <1>1 DEF Clash
<1>4. gen[t] = probes \/ (live = {} /\ h = "unbound")
  BY DoesLive
<1>5. \A x \in live' : x[2] = probes'
  BY <1>0, <1>2, DoesLive DEF OneGeneration
<1>6. ASSUME NEW u \in Threads, Rem(u)' # {}
      PROVE  gen'[u] = probes' \/ (Rem(u)' = {"unbound"} /\ live' = {})
  <2>1. CASE u = t
    <3>1. gen[t] = probes
      BY <1>3, <1>4, <1>6, <2>1 DEF Ends
    <3> QED
      BY <1>2, <2>1, <3>1
  <2>2. CASE u # t
    <3>1. Rem(u) # {} /\ Rem(u)' = Rem(u)
      BY <1>1, <1>6, <2>2
    <3>2. gen[u] = probes \/ (Rem(u) = {"unbound"} /\ live = {})
      BY <1>0, <3>1 DEF OneGeneration
    <3>3. Rem(u) = {"unbound"} => live' \subseteq live
      BY <2>2, <3>1, AloneTakes
    <3> QED
      BY <1>2, <3>1, <3>2, <3>3
  <2> QED
    BY <2>1, <2>2
<1>7. drvdata' \in {0, probes'}
  <2>1. h = "set_drvdata" => gen[t] = probes
    BY <1>4
  <2> QED
    BY <1>0, <1>2, <2>1 DEF OneGeneration
<1>8. ASSUME ~bound', Rem("core")' = {}
      PROVE  drvdata' = 0
  <2>1. CASE t = "core"
    <3>1. Rem("core") = {h} /\ h \in CoreEnds /\ h # "probed"
      BY <1>0, <1>1, <1>2, <1>8, <2>1 DEF Shaped
    <3>2. h = "unprobed" \/ h = "unbound"
      BY <1>2, <3>1 DEF CoreEnds, Closes
    <3>3. CASE h = "unprobed"
      BY <1>2, <1>8, <3>3
    <3>4. CASE h = "unbound"
      <4>1. drvdata = 0
        BY <1>0, <2>1, <3>1, <3>4 DEF OneGeneration
      <4> QED
        BY <1>2, <3>4, <4>1
    <3> QED
      BY <3>2, <3>3, <3>4
  <2>2. CASE t # "core"
    <3>1. Rem("core") = {}
      BY <1>1, <1>8, <2>2 DEF Threads
    <3>2. bound
      BY <1>0, <1>1, <2>2, <3>1 DEF Holders, Threads
    <3>3. h = "unbound"
      BY <1>2, <1>8, <3>2
    <3>4. Rem(t)' = {}
      BY <1>3, <3>3 DEF Ends
    <3>5. Rem(t) = {"unbound"}
      BY <1>1, <3>3, <3>4
    <3>6. drvdata = 0
      BY <1>0, <3>5 DEF OneGeneration
    <3> QED
      BY <1>2, <3>3, <3>6
  <2> QED
    BY <2>1, <2>2
<1>9. ASSUME NEW u \in Threads, Rem(u)' \intersect {"unbound", "reprobe"} # {}, "clear_drvdata" \notin Rem(u)'
      PROVE  drvdata' = 0
  <2>1. CASE u = t
    <3>1. Rem(t) \intersect {"unbound", "reprobe"} # {}
      BY <1>1, <1>9, <2>1
    <3>2. Rem(t) \subseteq DownSet
      BY <1>0, <3>1 DEF Shaped, Closes
    <3>3. h # "set_drvdata"
      BY <1>1, <3>2, DownTakesNothing
    <3>4. "clear_drvdata" \notin Rem(t) => drvdata = 0
      BY <1>0, <3>1 DEF OneGeneration
    <3> QED
      BY <1>1, <1>2, <1>9, <2>1, <3>3, <3>4
  <2>2. CASE u # t
    <3>1. Rem(u)' = Rem(u) /\ Rem(u) # {} /\ Rem(u) # {"probed"}
      BY <1>1, <1>9, <2>2
    <3>2. h = "probed"
      BY <2>2, <3>1, AloneTakes
    <3>3. drvdata = 0
      BY <1>0, <1>9, <3>1 DEF OneGeneration
    <3> QED
      BY <1>2, <3>2, <3>3
  <2> QED
    BY <2>1, <2>2
<1> QED
  BY <1>5, <1>6, <1>7, <1>8, <1>9 DEF OneGeneration

LEMMA DoesCovered ==
  ASSUME IInv, SerialInv, NEW t \in Threads, NEW h, Does(t, h)
  PROVE  Covered'
<1>0. Shaped /\ LifeTypes /\ OneBuilds /\ Holders /\ OneGeneration /\ Covered /\ Unmade
  BY DEF IInv, SerialInv
<1>1. /\ h \in Rem(t) /\ Rem(t)' = Rem(t) \ {h}
      /\ \A u \in Threads : u # t => Rem(u)' = Rem(u)
      /\ \A s \in Rem(t)' : ~Clash(h, s)
      /\ h \in StepNames
  BY <1>0, DoesRests
<1>2. /\ bound' = IF h = "probed" THEN TRUE ELSE IF h = "unbound" THEN FALSE ELSE bound
      /\ drvdata' = IF h = "set_drvdata" THEN gen[t]
                    ELSE IF h = "clear_drvdata" \/ (h = "unprobed" /\ ~bound) THEN 0
                    ELSE drvdata
      /\ gen' = gen /\ probes' = probes /\ h # "reprobe"
  BY DEF Does, Binding
<1>3. h \in Ends => Rem(t)' = {}
  BY <1>1 DEF Clash
<1>4. ASSUME Rem(t) \subseteq DownSet
      PROVE  /\ \A x \in live' : x \in live /\ x[1] \notin Gives(h)
             /\ Rem(t)' \intersect Takers = {} /\ h # "set_drvdata"
  <2>1. \A s \in Rem(t) : Gains(s) = {} /\ Extra(s) = {} /\ s \notin Takers /\ s # "set_drvdata"
    BY <1>4, DownTakesNothing
  <2> QED
    BY <1>1, <2>1, DoesLive
<1>5. ASSUME NEW u \in Threads, Rem(u)' \intersect Closes # {}, NEW x \in live'
      PROVE  \E s \in Rem(u)' : x[1] \in Gives(s)
  <2>1. CASE u = t
    <3>1. Rem(t) \subseteq DownSet /\ Rem(t) \intersect Closes # {}
      BY <1>0, <1>1, <1>5, <2>1 DEF Shaped
    <3>2. x \in live /\ x[1] \notin Gives(h)
      BY <1>4, <1>5, <3>1
    <3>3. PICK s \in Rem(t) : x[1] \in Gives(s)
      BY <1>0, <3>1, <3>2 DEF Covered
    <3> QED
      BY <1>1, <2>1, <3>2, <3>3
  <2>2. CASE u # t
    <3>1. Rem(u)' = Rem(u) /\ Rem(u) # {} /\ Rem(u) # {"probed"}
      BY <1>1, <1>5, <2>2 DEF Closes
    <3>2. x \in live
      BY <1>5, <2>2, <3>1, AloneTakes
    <3> QED
      BY <1>0, <1>5, <3>1, <3>2 DEF Covered
  <2> QED
    BY <2>1, <2>2
<1>6. ASSUME h \in Closes
      PROVE  live = {} /\ live' = {} /\ Rem(t)' = {}
  <2>1. Rem(t)' = {} /\ Rem(t) = {h}
    BY <1>1, <1>3, <1>6 DEF Closes, Ends
  <2>2. Gives(h) = {}
    BY <1>6, FreesAnother
  <2>3. \A x \in live : \E s \in Rem(t) : x[1] \in Gives(s)
    BY <1>0, <1>1, <1>6 DEF Covered
  <2>4. Rem(t) \subseteq DownSet
    BY <1>0, <1>1, <1>6 DEF Shaped
  <2> QED
    BY <1>4, <2>1, <2>2, <2>3, <2>4
<1>7. ASSUME ~bound', Rem("core")' = {}
      PROVE  live' = {}
  <2>1. CASE t = "core"
    <3>1. Rem("core") = {h} /\ h \in CoreEnds /\ h # "probed"
      BY <1>0, <1>1, <1>2, <1>7, <2>1 DEF Shaped
    <3> QED
      BY <1>6, <3>1 DEF CoreEnds
  <2>2. CASE t # "core"
    <3>1. Rem("core") = {}
      BY <1>1, <1>7, <2>2 DEF Threads
    <3>2. bound
      BY <1>0, <1>1, <2>2, <3>1 DEF Holders, Threads
    <3>3. h = "unbound"
      BY <1>2, <1>7, <3>2
    <3> QED
      BY <1>6, <3>3 DEF Closes
  <2> QED
    BY <2>1, <2>2
<1>8. ASSUME drvdata' = 0
      PROVE  \/ live' = {} /\ \A u \in Threads : Rem(u)' \intersect Takers = {}
             \/ Rem("core")' \intersect {"set_drvdata", "unprobed"} # {}
  <2>1. h # "set_drvdata"
    <3>1. ASSUME h = "set_drvdata" PROVE FALSE
      <4>1. gen[t] = probes
        BY <3>1, DoesLive
      <4>2. probes # 0
        BY <1>0, <1>1 DEF Unmade
      <4> QED
        BY <1>2, <1>8, <3>1, <4>1, <4>2
    <3> QED
      BY <3>1
  <2>2. ASSUME h # "probed"
        PROVE  \A u \in Threads : u # t => Rem(u)' \intersect Takers = {}
    <3>1. \A u \in Threads : u # t => Rem(u) = {} \/ Rem(u) = {"probed"}
      BY <2>2, AloneTakes
    <3>2. "probed" \notin Takers
      BY DEF Takers, Gains, Taken, Scratch
    <3> QED
      BY <1>1, <3>1, <3>2
  <2>3. CASE h = "clear_drvdata"
    <3>1. Rem(t)' \subseteq {"unbound", "reprobe"}
      BY <1>1, <2>3 DEF Clash
    <3>2. Rem(t) \intersect {"unbound", "reprobe"} # {}
      <4>1. CASE t = "core"
        BY <1>0, <1>1, <2>3, <3>1, <4>1 DEF Shaped, CoreEnds, Closes
      <4>2. CASE t = "cb"
        <5>1. "clear_drvdata" \in Owns
          BY DEF Owns, RemoveSet, ShortSet, DetachSet, FailSetupSet
        <5> QED
          BY <1>0, <1>1, <2>3, <4>2, <5>1 DEF Shaped
      <4>3. t # "work"
        BY <1>0, <1>1, <2>3, WorkTakes DEF Shaped
      <4> QED
        BY <4>1, <4>2, <4>3 DEF Threads
    <3>3. Rem(t) \subseteq DownSet
      BY <1>0, <3>2 DEF Shaped, Closes
    <3>4. \A s \in Rem(t) : Gives(s) = {}
      BY <1>1, <2>3, <3>1, FreesAnother DEF Closes
    <3>5. live = {}
      BY <1>0, <3>2, <3>4 DEF Covered, Closes
    <3> QED
      BY <1>4, <2>2, <2>3, <3>3, <3>5
  <2>4. CASE h = "unprobed"
    <3>1. live' = {} /\ Rem(t)' = {}
      BY <1>6, <2>4 DEF Closes
    <3> QED
      BY <2>2, <2>4, <3>1
  <2>5. CASE h \notin {"clear_drvdata", "unprobed"}
    <3>1. drvdata = 0
      BY <1>2, <1>8, <2>1, <2>5
    <3>2. CASE live = {} /\ \A u \in Threads : Rem(u) \intersect Takers = {}
      <4>1. h \notin Takers
        BY <1>1, <3>2
      <4>2. Gains(h) = {} /\ Extra(h) = {}
        BY <1>1, <4>1 DEF Takers, Extra
      <4>3. live' = {}
        BY <3>2, <4>2, DoesLive
      <4>4. \A u \in Threads : Rem(u)' \intersect Takers = {}
        BY <1>1, <3>2
      <4> QED
        BY <4>3, <4>4
    <3>3. CASE Rem("core") \intersect {"set_drvdata", "unprobed"} # {}
      BY <1>1, <2>1, <2>5, <3>3 DEF Threads
    <3> QED
      BY <1>0, <3>1, <3>2, <3>3 DEF Covered
  <2> QED
    BY <2>3, <2>4, <2>5
<1> QED
  BY <1>5, <1>7, <1>8 DEF Covered

LEMMA DoesPassing ==
  ASSUME IInv, SerialInv, NEW t \in Threads, NEW h, Does(t, h)
  PROVE  Passing'
<1>0. Shaped /\ LifeTypes /\ OneBuilds /\ OneGeneration /\ Passing
  BY DEF IInv, SerialInv
<1>1. /\ h \in Rem(t) /\ Rem(t)' = Rem(t) \ {h}
      /\ \A u \in Threads : u # t => Rem(u)' = Rem(u)
      /\ \A s \in Rem(t)' : ~Clash(h, s)
      /\ Awaits(h) \subseteq Rem(t)'
      /\ h \in StepNames
  BY <1>0, DoesRests
<1>2. pending' = IF h = "get_fw" THEN pending \union {gen[t]} ELSE pending
  BY DEF Does, Async
<1>3. t \in {"core", "cb", "work"} /\ {"core", "cb", "work"} \subseteq Threads
  BY DEF Threads
<1>4. \A s \in Rem("cb") : s # "get_fw" /\ s # "fwreq"
  BY <1>0, CbTakes DEF Shaped
<1>5. ASSUME NEW x \in live', x[1] = "fwreq"
      PROVE  \/ pending' # {} \/ "attach" \in Rem("cb")'
             \/ "get_fw" \in Rem("core")' \/ "get_fw" \in Rem("work")'
  <2>1. CASE "fwreq" \in Gains(h)
    <3>1. h = "fwreq"
      BY <1>1, <2>1, FreesAnother
    <3>2. "get_fw" \in Rem(t)'
      BY <1>1, <3>1 DEF Awaits
    <3> QED
      BY <1>1, <1>3, <1>4, <3>1, <3>2
  <2>2. CASE "fwreq" \notin Gains(h)
    <3>1. "fwreq" \notin Extra(h)
      BY DEF Extra
    <3>2. x \in live /\ "fwreq" \notin Gives(h)
      BY <1>5, <2>2, <3>1, DoesLive
    <3>3. h # "attach"
      BY <1>1, <3>2, FreesAnother
    <3>4. \/ pending # {} \/ "attach" \in Rem("cb")
          \/ "get_fw" \in Rem("core") \/ "get_fw" \in Rem("work")
      BY <1>0, <1>5, <3>2 DEF Passing
    <3>5. CASE h = "get_fw"
      BY <1>2, <3>5
    <3>6. CASE h # "get_fw"
      BY <1>1, <1>2, <1>3, <3>3, <3>4, <3>6
    <3> QED
      BY <3>5, <3>6
  <2> QED
    BY <2>1, <2>2
<1>6. ASSUME NEW x \in live', x[1] = "fw"
      PROVE  "download" \in Rem("cb")'
  <2>1. CASE "fw" \in Gains(h)
    <3>1. h = "attach"
      BY <1>1, <2>1, FreesAnother
    <3>2. "download" \in Rem(t)'
      BY <1>1, <3>1 DEF Awaits
    <3>3. t = "cb"
      <4>1. "attach" \notin CoreSteps /\ "attach" \notin ResetSet
        BY DEF CoreSteps, ProbeSet, DownSet, FailBrcmfSet, FailProbeSet, RemoveSet, ShortSet, DetachSet,
               ResetSet
      <4> QED
        BY <1>0, <1>1, <1>3, <3>1, <4>1 DEF Shaped
    <3> QED
      BY <3>2, <3>3
  <2>2. CASE "fw" \notin Gains(h)
    <3>1. "fw" \notin Extra(h)
      BY DEF Extra
    <3>2. x \in live /\ "fw" \notin Gives(h)
      BY <1>6, <2>2, <3>1, DoesLive
    <3>3. h # "download"
      BY <1>1, <3>2, FreesAnother
    <3>4. "download" \in Rem("cb")
      BY <1>0, <1>6, <3>2 DEF Passing
    <3> QED
      BY <1>1, <1>3, <3>3, <3>4
  <2> QED
    BY <2>1, <2>2
<1>7. ASSUME "get_fw" \in Rem("core")', NEW x \in live'
      PROVE  x[1] \in Base \union {"fwreq"}
  <2>1. CASE t = "core"
    <3>1. Gains(h) \subseteq Base \union {"fwreq"} /\ Extra(h) = {}
      BY <1>0, <1>1, <2>1, CoreTakes DEF Shaped
    <3>2. \A y \in live : y[1] \in Base \union {"fwreq"}
      BY <1>0, <1>1, <1>7, <2>1 DEF Passing
    <3>3. x \in live \/ x[1] \in Gains(h) \union Extra(h)
      BY <1>7, DoesLive
    <3> QED
      BY <3>1, <3>2, <3>3
  <2>2. CASE t # "core"
    <3>1. "get_fw" \in Rem("core") /\ Rem("core") # {} /\ Rem("core") # {"probed"}
      BY <1>1, <1>3, <1>7, <2>2
    <3> QED
      BY <1>3, <2>2, <3>1, AloneTakes
  <2> QED
    BY <2>1, <2>2
<1> QED
  BY <1>5, <1>6, <1>7 DEF Passing

LEMMA DoesFreshTakes ==
  ASSUME IInv, SerialInv, NEW t \in Threads, NEW h, Does(t, h)
  PROVE  FreshTakes'
<1>0. Shaped /\ LifeTypes /\ OneBuilds /\ OneGeneration /\ Passing /\ FreshTakes
  BY DEF IInv, SerialInv
<1>1. /\ h \in Rem(t) /\ Rem(t)' = Rem(t) \ {h}
      /\ \A u \in Threads : u # t => Rem(u)' = Rem(u)
      /\ \A s \in Rem(t)' : ~Clash(h, s)
      /\ Awaits(h) \subseteq Rem(t)'
      /\ h \in StepNames
  BY <1>0, DoesRests
<1>2. /\ pending' = IF h = "get_fw" THEN pending \union {gen[t]} ELSE pending
      /\ probes' = probes
  BY DEF Does, Async
<1>3. t \in {"core", "cb", "work"} /\ {"core", "cb", "work"} \subseteq Threads
  BY DEF Threads
<1>4. Rem(t) \subseteq StepNames
  <2>1. Plan(todo[t])
    BY <1>0 DEF Shaped
  <2>2. todo[t] \in Seq(StepNames)
    BY <2>1, PlanLists
  <2> QED
    BY <2>2 DEF Rem, Remaining
<1>5. ASSUME NEW u \in Threads, NEW s \in Rem(u)', NEW r \in Gains(s) \intersect Once
      PROVE  <<r, probes>> \notin live'
  <2> SUFFICES ASSUME <<r, probes>> \in live'
               PROVE  FALSE
    OBVIOUS
  <2>1. s \in Rem(u) /\ <<r, probes>> \notin live
    <3>1. s \in Rem(u)
      BY <1>1, <1>5
    <3> QED
      BY <1>0, <1>5, <3>1 DEF FreshTakes
  <2>2. r \in Gains(h) \union Extra(h)
    <3>1. <<r, probes>>[1] = r
      OBVIOUS
    <3> QED
      BY <2>1, <3>1, DoesLive
  <2>3. CASE u = t
    <3>1. s # h /\ s \in StepNames
      BY <1>1, <1>4, <1>5, <2>1, <2>3
    <3> QED
      BY <1>1, <1>5, <2>2, <3>1, TakesApart DEF Once
  <2>4. CASE u # t
    <3>1. Rem(u) # {} /\ Rem(u) # {"probed"}
      <4>1. Gains("probed") = {}
        BY DEF Gains, Taken, Scratch
      <4> QED
        BY <1>5, <2>1, <4>1
    <3>2. live' \subseteq live
      BY <2>4, <3>1, AloneTakes
    <3> QED
      BY <2>1, <3>2
  <2> QED
    BY <2>3, <2>4
<1>6. ASSUME NEW r \in {"rings", "irq"}, <<r, probes>> \in live'
      PROVE  /\ pending' = {}
             /\ Rem("work")' # {} => /\ r = "rings" => "rel_rings" \in Rem("work")'
                                     /\ r = "irq" => "rel_irq" \in Rem("work")'
  <2>1. <<r, probes>>[1] = r
    OBVIOUS
  <2>2. CASE r \in Gains(h) \union Extra(h)
    <3>1. t = "cb"
      <4>1. r \notin Base \union {"fwreq"}
        BY DEF Base
      <4>2. t # "core"
        BY <1>0, <1>1, <2>2, <4>1, CoreTakes DEF Shaped
      <4>3. t # "work"
        BY <1>0, <1>1, <2>2, <4>1, WorkTakes DEF Shaped
      <4> QED
        BY <1>3, <4>2, <4>3
    <3>2. pending = {} /\ Rem("work") = {}
      BY <1>0, <1>1, <3>1 DEF OneBuilds
    <3>3. h # "get_fw"
      BY <1>0, <1>1, <3>1, CbTakes DEF Shaped
    <3> QED
      BY <1>1, <1>2, <1>3, <3>1, <3>2, <3>3
  <2>3. CASE r \notin Gains(h) \union Extra(h)
    <3>1. <<r, probes>> \in live /\ r \notin Gives(h)
      BY <1>6, <2>1, <2>3, DoesLive
    <3>2. pending = {}
      BY <1>0, <3>1 DEF FreshTakes
    <3>3. ASSUME h = "get_fw" PROVE FALSE
      <4>1. t # "core"
        <5>1. r \notin Base \union {"fwreq"}
          BY DEF Base
        <5> QED
          BY <1>0, <1>1, <2>1, <3>1, <3>3, <5>1 DEF Passing
      <4>2. t # "cb"
        BY <1>0, <1>1, <3>3, CbTakes DEF Shaped
      <4>3. t = "work" /\ Rem("work") # {}
        BY <1>1, <1>3, <4>1, <4>2
      <4>4. "rel_rings" \in Rem("work") \/ "rel_irq" \in Rem("work")
        BY <1>0, <3>1, <4>3 DEF FreshTakes
      <4>5. Clash(h, "rel_rings") /\ Clash(h, "rel_irq")
        BY <3>3 DEF Clash
      <4> QED
        BY <1>1, <3>3, <4>3, <4>4, <4>5
    <3>4. ASSUME Rem("work")' # {}
          PROVE  /\ r = "rings" => "rel_rings" \in Rem("work")'
                 /\ r = "irq" => "rel_irq" \in Rem("work")'
      <4>1. Rem("work") # {}
        BY <1>1, <1>3, <3>4
      <4>2. /\ r = "rings" => "rel_rings" \in Rem("work")
            /\ r = "irq" => "rel_irq" \in Rem("work")
        BY <1>0, <3>1, <4>1 DEF FreshTakes
      <4>3. (r = "rings" => h # "rel_rings") /\ (r = "irq" => h # "rel_irq")
        BY <1>1, <3>1, FreesAnother
      <4> QED
        BY <1>1, <1>3, <4>2, <4>3
    <3> QED
      BY <1>2, <3>2, <3>3, <3>4
  <2> QED
    BY <2>2, <2>3
<1>7. lost' \subseteq {"flowrings"}
  <2>1. lost' \subseteq lost \union {h} /\ (h \notin Taken \/ <<h, gen[t]>> \notin live => lost' = lost)
    BY DEF Does, Memory
  <2>2. ASSUME h \in Taken, h # "flowrings" PROVE <<h, gen[t]>> \notin live
    <3>1. h \in Gains(h) \intersect Once
      BY <2>2 DEF Taken, Gains, Once
    <3>2. gen[t] = probes
      BY <1>1, <3>1, DoesLive DEF Takers
    <3> QED
      BY <1>0, <1>1, <3>1, <3>2 DEF FreshTakes
  <2> QED
    BY <1>0, <2>1, <2>2 DEF FreshTakes
<1> QED
  BY <1>2, <1>5, <1>6, <1>7 DEF FreshTakes

LEMMA DoesHandlerFirst ==
  ASSUME IInv, SerialInv, NEW t \in Threads, NEW h, Does(t, h)
  PROVE  HandlerFirst'
<1>0. Shaped /\ LifeTypes /\ OneBuilds /\ OneGeneration /\ HandlerFirst
  BY DEF IInv, SerialInv
<1>1. /\ h \in Rem(t) /\ Rem(t)' = Rem(t) \ {h}
      /\ \A u \in Threads : u # t => Rem(u)' = Rem(u)
      /\ \A s \in Rem(t)' : ~Clash(h, s)
      /\ h \in StepNames
  BY <1>0, DoesRests
<1>2. probes' = probes
  BY DEF Does
<1>3. <<"irq", probes>>[1] = "irq" /\ <<"devinfo", probes>>[1] = "devinfo" /\ <<"map", probes>>[1] = "map"
  OBVIOUS
<1> SUFFICES ASSUME <<"irq", probes>> \in live'
             PROVE  /\ <<"devinfo", probes>> \in live' /\ <<"map", probes>> \in live'
                    /\ \A u \in Threads : Rem(u)' \intersect Goes # {} => "rel_irq" \in Rem(u)'
  BY <1>2 DEF HandlerFirst, Has
<1>4. CASE "irq" \in Gains(h)
  <2>1. h = "irq"
    BY <1>1, <1>4, FreesAnother
  <2>2. gen[t] = probes /\ Sound(t) /\ h = Head(todo[t])
    BY <2>1, DoesLive DEF Does
  <2>3. <<"devinfo", probes>> \in live /\ <<"map", probes>> \in live
    BY <2>1, <2>2 DEF Sound, Has, Needs
  <2>4. "devinfo" \notin Gives(h) /\ "map" \notin Gives(h)
    BY <2>1 DEF Gives, Frees
  <2>5. <<"devinfo", probes>> \in live' /\ <<"map", probes>> \in live'
    BY <1>3, <2>3, <2>4, DoesLive
  <2>6. Rem(t)' \intersect Goes = {}
    BY <1>1, <1>4 DEF Clash
  <2>7. ASSUME NEW u \in Threads, u # t PROVE Rem(u)' \intersect Goes = {}
    <3>1. Rem(u) = {} \/ Rem(u) = {"probed"}
      BY <2>1, <2>7, AloneTakes
    <3> QED
      BY <1>1, <2>7, <3>1 DEF Goes
  <2> QED
    BY <2>5, <2>6, <2>7
<1>5. CASE "irq" \notin Gains(h)
  <2>1. "irq" \notin Extra(h)
    BY DEF Extra
  <2>2. <<"irq", probes>> \in live /\ "irq" \notin Gives(h)
    BY <1>3, <1>5, <2>1, DoesLive
  <2>3. /\ <<"devinfo", probes>> \in live /\ <<"map", probes>> \in live
        /\ \A u \in Threads : Rem(u) \intersect Goes # {} => "rel_irq" \in Rem(u)
    BY <1>0, <2>2 DEF HandlerFirst, Has
  <2>4. h # "rel_irq"
    BY <1>1, <2>2, FreesAnother
  <2>5. h \notin Goes
    <3>1. ASSUME h \in Goes PROVE FALSE
      <4>1. "rel_irq" \in Rem(t)'
        BY <1>1, <2>3, <2>4, <3>1
      <4>2. Clash(h, "rel_irq")
        BY <3>1 DEF Clash
      <4> QED
        BY <1>1, <4>1, <4>2
    <3> QED
      BY <3>1
  <2>6. <<"devinfo", probes>> \in live' /\ <<"map", probes>> \in live'
    BY <1>1, <1>3, <2>3, <2>5, DoesLive, FreesAnother
  <2>7. \A u \in Threads : Rem(u)' \intersect Goes # {} => "rel_irq" \in Rem(u)'
    BY <1>1, <2>3, <2>4
  <2> QED
    BY <2>6, <2>7
<1> QED
  BY <1>4, <1>5

LEMMA DoesSerial ==
  ASSUME IInv, SerialInv, NEW t \in Threads, NEW h, Does(t, h)
  PROVE  SerialInv'
BY DoesOneBuilds, DoesHolders, DoesOneGeneration, DoesCovered, DoesPassing, DoesFreshTakes,
   DoesHandlerFirst DEF SerialInv

\* A step that failed, while nothing overlaps.
LEMMA BreaksAlone ==
  ASSUME IInv, SerialInv, NEW t \in Threads, NEW h, NEW L, Breaks(t, h, L)
  PROVE  /\ h \in Rem(t) /\ Rem(t)' = RecoverSet(t, h)
         /\ \A u \in Threads : u # t => Rem(u)' = Rem(u)
         /\ gen[t] = probes /\ probes' = probes /\ gen' = gen /\ drvdata' = drvdata
         /\ bound' = bound /\ lock' = lock /\ pending' = pending /\ lost' = lost
         /\ \A u \in Threads : u # t => Rem(u) = {} \/ (u = "core" /\ t = "cb" /\ Rem(u) = {"probed"})
         /\ \A s \in Takers : s \notin Rem(t)'
         /\ \A s \in Rem(t)' : Gains(s) = {}
         /\ t = "core" => Working /\ Rem("cb") = {} /\ Rem("work") = {} /\ "unprobed" \in Rem(t)'
                          /\ Rem(t)' \subseteq DownSet
         /\ t = "cb" => Rem("work") = {} /\ Rem(t)' \intersect Closes = {}
         /\ t = "work" => Rem("core") = {} /\ Rem("cb") = {} /\ Rem(t)' = {}
         /\ pending = {}
         /\ t \in {"core", "cb", "work"}
<1>0. Shaped /\ LifeTypes /\ OneBuilds /\ OneGeneration
  BY DEF IInv, SerialInv
<1>1. /\ h \in Rem(t) /\ Rem(t)' = RecoverSet(t, h)
      /\ \A u \in Threads : u # t => Rem(u)' = Rem(u)
      /\ Recovers(t, h, L)
  BY <1>0, BreaksRests
<1>2. h \notin {"unbound", "probed"} /\ t \in {"core", "cb", "work"}
  BY <1>1 DEF Recovers
<1>3. gen[t] = probes
  BY <1>0, <1>1, <1>2 DEF OneGeneration
<1>4. \A s \in DownSet \union DetachSet \union FailSetupSet : Gains(s) = {} /\ s \notin Takers
  BY DownTakesNothing
<1>5. RecoverSet(t, h) \subseteq DownSet \union DetachSet \union FailSetupSet
  BY DEF RecoverSet, DownSet, FailBrcmfSet, FailProbeSet
<1>6. \A u \in Threads : u # t => Rem(u) = {} \/ (u = "core" /\ t = "cb" /\ Rem(u) = {"probed"})
  BY <1>0, <1>1, <1>2, Alone
<1>7. t = "core" => Working /\ Rem("cb") = {} /\ Rem("work") = {} /\ "unprobed" \in Rem(t)'
                    /\ Rem(t)' \subseteq DownSet
  <2>1. t = "core" => Working
    BY <1>1, <1>2 DEF Working
  <2>2. t = "core" => "unprobed" \in RecoverSet(t, h) /\ RecoverSet(t, h) \subseteq DownSet
    BY DEF RecoverSet, FailBrcmfSet, FailProbeSet, DownSet
  <2> QED
    BY <1>0, <1>1, <2>1, <2>2 DEF OneBuilds
<1>8. t = "cb" => Rem("work") = {} /\ Rem(t)' \intersect Closes = {}
  <2>1. t = "cb" => RecoverSet(t, h) \intersect Closes = {}
    BY DEF RecoverSet, DetachSet, FailSetupSet, Closes
  <2> QED
    BY <1>0, <1>1, <2>1 DEF OneBuilds
<1>9. t = "work" => Rem("core") = {} /\ Rem("cb") = {} /\ Rem(t)' = {}
  BY <1>0, <1>1, <1>6 DEF OneBuilds, RecoverSet, Threads
<1>10. pending = {}
  BY <1>0, <1>1, <1>2, <1>7 DEF OneBuilds
<1>11. /\ gen' = gen /\ probes' = probes /\ drvdata' = drvdata /\ bound' = bound /\ lock' = lock
       /\ pending' = pending /\ lost' = lost
  BY DEF Breaks
<1>12. (\A s \in Takers : s \notin Rem(t)') /\ (\A s \in Rem(t)' : Gains(s) = {})
  BY <1>1, <1>4, <1>5
<1> QED
  BY <1>1, <1>2, <1>3, <1>6, <1>7, <1>8, <1>9, <1>10, <1>11, <1>12

LEMMA BreaksLive ==
  ASSUME IInv, SerialInv, NEW t \in Threads, NEW h, NEW L, Breaks(t, h, L)
  PROVE  /\ live' \subseteq live \union {<<"map", probes>>}
         /\ \A x \in live' : x \in live \/ (x = <<"map", probes>> /\ h = "chip_attach" /\ t = "core")
         /\ \A x \in live : x \in live' \/ x[1] \in {"fwreq", "fw", "scratch", "ringupd"}
         /\ h = "get_fw" => <<"fwreq", probes>> \notin live'
         /\ h \in {"raminfo", "download"} => <<"fw", probes>> \notin live'
         /\ \A x \in live' : x[2] = probes /\ x = <<x[1], probes>>
<1>1. gen[t] = probes
  BY BreaksAlone
<1>2. /\ live' \subseteq live \union {<<"map", gen[t]>>}
      /\ h # "chip_attach" => live' \subseteq live
      /\ \A x \in live : x \in live' \/ x[1] \in {"fwreq", "fw", "scratch", "ringupd"}
      /\ h = "get_fw" => <<"fwreq", gen[t]>> \notin live'
      /\ h \in {"raminfo", "download"} => <<"fw", gen[t]>> \notin live'
      /\ Recovers(t, h, L)
  BY DEF Breaks
<1>3. h = "chip_attach" => t = "core"
  BY <1>2 DEF Recovers
<1>4. \A x \in live : x[2] = probes /\ x = <<x[1], probes>>
  BY DEF IInv, LifeTypes, SerialInv, OneGeneration
<1>5. <<"map", probes>>[2] = probes /\ <<"map", probes>>[1] = "map"
  OBVIOUS
<1>6. \A x \in live' : x \in live \/ (x = <<"map", probes>> /\ h = "chip_attach" /\ t = "core")
  BY <1>1, <1>2, <1>3
<1>7. \A x \in live' : x[2] = probes /\ x = <<x[1], probes>>
  BY <1>4, <1>5, <1>6
<1> QED
  BY <1>1, <1>2, <1>6, <1>7

\* what the firmware request awaits
LEMMA ProbeGoesOn ==
  ASSUME Shaped, NEW t \in Threads, NEW h \in Rem(t),
         h \in {"devinfo", "chip_attach", "busdev", "settings", "bus", "drvr", "otp", "fwreq"}
  PROVE  /\ h # "fwreq" => "fwreq" \in Rem(t)
         /\ "get_fw" \in Rem(t)
         /\ Awaits(h) \subseteq Rem(t)
<1>1. \A s \in Rem(t) : Awaits(s) \subseteq Rem(t)
  BY AwaitedIsListed DEF Shaped, Rem
<1>2. h # "fwreq" => "fwreq" \in Rem(t)
  BY <1>1 DEF Awaits
<1>3. "fwreq" \in Rem(t)
  BY <1>2
<1>4. "get_fw" \in Rem(t)
  BY <1>1, <1>3 DEF Awaits
<1> QED
  BY <1>1, <1>2, <1>4

LEMMA BreaksCoreLive ==
  ASSUME IInv, SerialInv, NEW h, NEW L, Breaks("core", h, L), NEW x \in live'
  PROVE  \E s \in RecoverSet("core", h) : x[1] \in Gives(s)
<1>0. Shaped /\ LifeTypes /\ Passing /\ FreshTakes
  BY DEF IInv, SerialInv
<1>1. "core" \in Threads
  BY DEF Threads
<1>2. /\ h \in Rem("core") /\ Recovers("core", h, L)
  BY <1>0, <1>1, BreaksRests
<1>3. /\ x \in live \/ (x = <<"map", probes>> /\ h = "chip_attach")
      /\ h = "get_fw" => <<"fwreq", probes>> \notin live'
      /\ x = <<x[1], probes>>
  BY <1>1, BreaksLive
<1>4. h \in {"devinfo", "chip_attach", "busdev", "settings", "bus", "drvr", "otp", "fwreq", "get_fw"}
  BY <1>2 DEF Recovers
<1>5. "get_fw" \in Rem("core")
  BY <1>0, <1>1, <1>2, <1>4, ProbeGoesOn
<1>6. \A y \in live : y[1] \in Base \union {"fwreq"}
  BY <1>0, <1>5 DEF Passing
<1>7. h # "get_fw" => "fwreq" \in Rem("core") /\ Awaits(h) \subseteq Rem("core")
  BY <1>0, <1>1, <1>2, <1>4, ProbeGoesOn
<1>8. \A s \in Rem("core") : \A r \in Gains(s) \intersect Once : <<r, probes>> \notin live
  BY <1>0, <1>1 DEF FreshTakes
<1>9. x[1] # "fwreq"
  <2>1. CASE h = "get_fw"
    BY <1>3, <2>1
  <2>2. CASE h # "get_fw"
    <3>1. "fwreq" \in Gains("fwreq") \intersect Once
      BY DEF Gains, Taken, Once
    <3>2. <<"fwreq", probes>> \notin live
      BY <1>7, <1>8, <2>2, <3>1
    <3> QED
      BY <1>3, <3>2
  <2> QED
    BY <2>1, <2>2
<1>10. <<"map", probes>>[1] = "map"
  OBVIOUS
<1>11. x[1] \in Base
  BY <1>3, <1>6, <1>9, <1>10 DEF Base
<1>12. \A s \in Rem("core") : s \in Taken \ {"flowrings"} => x[1] # s
  <2>1. ASSUME NEW s \in Rem("core"), s \in Taken \ {"flowrings"}, x[1] = s PROVE FALSE
    <3>1. s \in Gains(s) \intersect Once
      BY <2>1 DEF Gains, Taken, Once
    <3>2. x \notin live
      BY <1>3, <1>8, <2>1, <3>1
    <3>3. x[1] = "map"
      BY <1>3, <1>10, <3>2
    <3> QED
      BY <2>1, <3>3 DEF Taken
  <2> QED
    BY <2>1
<1>13. /\ \A r \in Base \ {"drvr", "bus"} : \E s \in FailProbeSet : r \in Gives(s)
       /\ \A r \in Base \ {"drvr"} : \E s \in {"free_bus"} \union FailProbeSet : r \in Gives(s)
       /\ \A r \in Base : \E s \in FailBrcmfSet : r \in Gives(s)
  <2>1. "map" \in Gives("rel_resource") /\ "ci" \in Gives("chip_detach")
        /\ "settings" \in Gives("free_settings") /\ "busdev" \in Gives("free_busdev")
        /\ "devinfo" \in Gives("free_devinfo") /\ "bus" \in Gives("free_bus")
        /\ "drvr" \in Gives("free_drvr")
    BY DEF Gives, Frees
  <2>2. {"rel_resource", "chip_detach", "free_settings", "free_busdev", "free_devinfo"} \subseteq FailProbeSet
        /\ {"free_drvr", "free_bus"} \subseteq FailBrcmfSet /\ FailProbeSet \subseteq FailBrcmfSet
    BY DEF FailProbeSet, FailBrcmfSet
  <2>3. \A r \in Base \ {"drvr", "bus"} : \E s \in FailProbeSet : r \in Gives(s)
    BY <2>1, <2>2 DEF Base
  <2>4. \A r \in Base \ {"drvr"} : \E s \in {"free_bus"} \union FailProbeSet : r \in Gives(s)
    BY <2>1, <2>3
  <2>5. \A r \in Base : \E s \in FailBrcmfSet : r \in Gives(s)
    BY <2>1, <2>2, <2>3
  <2> QED
    BY <2>3, <2>4, <2>5
<1>14. CASE h = "devinfo"
  <2>1. {"chip_attach", "busdev", "settings", "bus", "drvr"} \subseteq Rem("core")
    BY <1>7, <1>14 DEF Awaits
  <2>2. x[1] \in {"map", "ci"}
    BY <1>2, <1>11, <1>12, <1>14, <2>1 DEF Base, Taken
  <2>3. {"map", "ci"} \subseteq Gains("chip_attach") \intersect Once
    BY DEF Gains, Once
  <2>4. x \notin live
    BY <1>3, <1>8, <2>1, <2>2, <2>3
  <2> QED
    BY <1>3, <1>14, <2>4
<1>15. CASE h \in {"chip_attach", "busdev", "settings", "bus"}
  <2>1. {"bus", "drvr"} \subseteq Rem("core")
    BY <1>2, <1>7, <1>15 DEF Awaits
  <2>2. x[1] \in Base \ {"drvr", "bus"}
    BY <1>11, <1>12, <2>1 DEF Taken
  <2> QED
    BY <1>13, <1>15, <2>2 DEF RecoverSet
<1>16. CASE h = "drvr"
  <2>1. x[1] \in Base \ {"drvr"}
    BY <1>2, <1>11, <1>12, <1>16 DEF Taken
  <2> QED
    BY <1>13, <1>16, <2>1 DEF RecoverSet
<1>17. CASE h \in {"otp", "fwreq", "get_fw"}
  BY <1>11, <1>13, <1>17 DEF RecoverSet
<1> QED
  BY <1>4, <1>14, <1>15, <1>16, <1>17

LEMMA BreaksSerial1 ==
  ASSUME IInv, SerialInv, NEW t \in Threads, NEW h, NEW L, Breaks(t, h, L)
  PROVE  OneBuilds' /\ Holders' /\ OneGeneration' /\ Covered'
<1>0. Shaped /\ LifeTypes /\ OneBuilds /\ Holders /\ OneGeneration /\ Covered
  BY DEF IInv, SerialInv
<1>1. /\ h \in Rem(t) /\ Rem(t)' = RecoverSet(t, h)
      /\ \A u \in Threads : u # t => Rem(u)' = Rem(u)
      /\ gen[t] = probes /\ probes' = probes /\ gen' = gen /\ drvdata' = drvdata
      /\ bound' = bound /\ lock' = lock /\ pending' = pending /\ lost' = lost
      /\ \A u \in Threads : u # t => Rem(u) = {} \/ (u = "core" /\ t = "cb" /\ Rem(u) = {"probed"})
      /\ \A s \in Takers : s \notin Rem(t)'
      /\ t = "core" => Working /\ Rem("cb") = {} /\ Rem("work") = {} /\ "unprobed" \in Rem(t)'
                       /\ Rem(t)' \subseteq DownSet
      /\ t = "cb" => Rem("work") = {} /\ Rem(t)' \intersect Closes = {}
      /\ t = "work" => Rem("core") = {} /\ Rem("cb") = {} /\ Rem(t)' = {}
      /\ pending = {}
      /\ t \in {"core", "cb", "work"}
  BY BreaksAlone
<1>2. {"core", "cb", "work"} \subseteq Threads
  BY DEF Threads
<1>3. t # "core" => (Working' <=> Working) /\ Rem("core")' = Rem("core")
  BY <1>1, <1>2 DEF Working
<1>4. OneBuilds'
  <2>1. t = "core" => Rem("cb")' = {} /\ Rem("work")' = {}
    BY <1>1, <1>2
  <2>2. t = "cb" => Rem("work")' = {} /\ ~Working'
    BY <1>0, <1>1, <1>2, <1>3 DEF OneBuilds
  <2>3. t = "work" => Rem("work")' = {} /\ Rem("cb")' = {} /\ ~Working'
    BY <1>0, <1>1, <1>2, <1>3 DEF OneBuilds
  <2> QED
    BY <1>1, <2>1, <2>2, <2>3 DEF OneBuilds
<1>5. Holders'
  <2>1. Rem("core")' # {} => lock' = "core"
    BY <1>0, <1>1, <1>2 DEF Holders
  <2>2. "unbound" \in Rem("cb")' => lock' = "cb"
    BY <1>0, <1>1, <1>2 DEF Holders, Closes
  <2>3. Rem("cb")' # {} \/ Rem("work")' # {} \/ pending' # {} => bound' \/ Rem("core")' = {"probed"}
    BY <1>0, <1>1, <1>2 DEF Holders
  <2> QED
    BY <2>1, <2>2, <2>3 DEF Holders
<1>6. OneGeneration'
  <2>1. \A x \in live' : x[2] = probes'
    BY <1>1, BreaksLive
  <2>2. ASSUME NEW u \in Threads, Rem(u)' # {}
        PROVE  gen'[u] = probes' \/ (Rem(u)' = {"unbound"} /\ live' = {})
    <3>1. CASE u = t
      BY <1>1, <3>1
    <3>2. CASE u # t
      <4>1. Rem(u) = {"probed"}
        BY <1>1, <2>2, <3>2
      <4>2. gen[u] = probes
        BY <1>0, <4>1 DEF OneGeneration
      <4> QED
        BY <1>1, <4>2
    <3> QED
      BY <3>1, <3>2
  <2>3. ~bound' /\ Rem("core")' = {} => drvdata' = 0
    <3>1. t = "core" => Rem("core")' # {}
      BY <1>1
    <3> QED
      BY <1>0, <1>1, <1>3, <3>1 DEF OneGeneration
  <2>4. ASSUME NEW u \in Threads, Rem(u)' \intersect {"unbound", "reprobe"} # {}
        PROVE  FALSE
    <3>1. u = t
      BY <1>1, <2>4
    <3>2. RecoverSet(t, h) \intersect {"unbound", "reprobe"} = {}
      BY DEF RecoverSet, FailBrcmfSet, FailProbeSet, DetachSet, FailSetupSet
    <3> QED
      BY <1>1, <2>4, <3>1, <3>2
  <2> QED
    BY <1>0, <1>1, <2>1, <2>2, <2>3, <2>4 DEF OneGeneration
<1>7. Covered'
  <2>1. ASSUME NEW u \in Threads, Rem(u)' \intersect Closes # {}, NEW x \in live'
        PROVE  \E s \in Rem(u)' : x[1] \in Gives(s)
    <3>1. u = t /\ t = "core"
      <4>1. u = t
        <5>1. "probed" \notin Closes
          BY DEF Closes
        <5> QED
          BY <1>1, <2>1, <5>1
      <4> QED
        BY <1>1, <2>1, <4>1
    <3> QED
      BY <1>1, <3>1, BreaksCoreLive
  <2>2. ASSUME ~bound', Rem("core")' = {}
        PROVE  FALSE
    <3>1. t # "core"
      BY <1>1, <2>2
    <3>2. bound
      BY <1>0, <1>1, <1>2, <1>3, <2>2, <3>1 DEF Holders
    <3> QED
      BY <1>1, <2>2, <3>2
  <2>3. ASSUME drvdata' = 0
        PROVE  \/ live' = {} /\ \A u \in Threads : Rem(u)' \intersect Takers = {}
               \/ Rem("core")' \intersect {"set_drvdata", "unprobed"} # {}
    <3>1. CASE t = "core"
      BY <1>1, <3>1
    <3>2. CASE t # "core"
      <4>1. live' \subseteq live
        BY <3>2, BreaksLive
      <4>2. CASE live = {} /\ \A u \in Threads : Rem(u) \intersect Takers = {}
        BY <1>1, <4>1, <4>2
      <4>3. CASE Rem("core") \intersect {"set_drvdata", "unprobed"} # {}
        BY <1>3, <3>2, <4>3
      <4> QED
        BY <1>0, <1>1, <2>3, <4>2, <4>3 DEF Covered
    <3> QED
      BY <3>1, <3>2
  <2> QED
    BY <2>1, <2>2, <2>3 DEF Covered
<1> QED
  BY <1>4, <1>5, <1>6, <1>7

LEMMA BreaksSerial2 ==
  ASSUME IInv, SerialInv, NEW t \in Threads, NEW h, NEW L, Breaks(t, h, L)
  PROVE  Passing' /\ FreshTakes' /\ HandlerFirst'
<1>0. Shaped /\ LifeTypes /\ OneBuilds /\ OneGeneration /\ Passing /\ FreshTakes /\ HandlerFirst
  BY DEF IInv, SerialInv
<1>1. /\ h \in Rem(t) /\ Rem(t)' = RecoverSet(t, h)
      /\ \A u \in Threads : u # t => Rem(u)' = Rem(u)
      /\ probes' = probes /\ pending' = pending /\ lost' = lost
      /\ \A u \in Threads : u # t => Rem(u) = {} \/ (u = "core" /\ t = "cb" /\ Rem(u) = {"probed"})
      /\ \A s \in Rem(t)' : Gains(s) = {}
      /\ t = "core" => Working /\ Rem("cb") = {} /\ Rem("work") = {}
      /\ t = "cb" => Rem("work") = {}
      /\ t = "work" => Rem("core") = {} /\ Rem("cb") = {} /\ Rem(t)' = {}
      /\ pending = {}
      /\ t \in {"core", "cb", "work"}
  BY BreaksAlone
<1>2. /\ \A x \in live' : x \in live \/ (x = <<"map", probes>> /\ h = "chip_attach" /\ t = "core")
      /\ \A x \in live : x \in live' \/ x[1] \in {"fwreq", "fw", "scratch", "ringupd"}
      /\ h = "get_fw" => <<"fwreq", probes>> \notin live'
      /\ h \in {"raminfo", "download"} => <<"fw", probes>> \notin live'
      /\ \A x \in live' : x = <<x[1], probes>>
  BY BreaksLive
<1>3. {"core", "cb", "work"} \subseteq Threads /\ <<"map", probes>>[1] = "map"
  BY DEF Threads
<1>4. Recovers(t, h, L) /\ \A s \in Rem(t) \ {h} : ~Clash(h, s)
  BY <1>0, BreaksRests
<1>5. \A s \in Rem(t) : \A r \in Gains(s) \intersect Once : <<r, probes>> \notin live
  BY <1>0 DEF FreshTakes
<1>6. ASSUME NEW x \in live', x[1] = "fwreq" PROVE FALSE
  <2>1. x \in live /\ x = <<"fwreq", probes>>
    BY <1>2, <1>3, <1>6
  <2>2. \/ "attach" \in Rem("cb") \/ "get_fw" \in Rem("core") \/ "get_fw" \in Rem("work")
    BY <1>0, <1>1, <1>6, <2>1 DEF Passing
  <2>3. h # "get_fw"
    BY <1>2, <2>1
  <2>4. "fwreq" \in Gains("fwreq") \intersect Once
    BY DEF Gains, Taken, Once
  <2>5. CASE t \in {"core", "work"}
    <3>1. h \in {"devinfo", "chip_attach", "busdev", "settings", "bus", "drvr", "otp", "fwreq"}
      BY <1>4, <2>3, <2>5 DEF Recovers
    <3>2. "fwreq" \in Rem(t)
      BY <1>0, <1>1, <3>1, ProbeGoesOn
    <3> QED
      BY <1>5, <2>1, <2>4, <3>2
  <2>6. CASE t = "cb"
    <3>1. "attach" \in Rem("cb")
      BY <1>1, <1>3, <2>2, <2>6
    <3>2. h # "attach"
      BY <1>4, <2>6 DEF Recovers
    <3> QED
      BY <1>4, <2>6, <3>1, <3>2 DEF Clash
  <2> QED
    BY <1>1, <2>5, <2>6
<1>7. ASSUME NEW x \in live', x[1] = "fw" PROVE FALSE
  <2>1. x \in live /\ x = <<"fw", probes>>
    BY <1>2, <1>3, <1>7
  <2>2. "download" \in Rem("cb")
    BY <1>0, <1>7, <2>1 DEF Passing
  <2>3. t = "cb"
    BY <1>1, <2>2
  <2>4. h \notin {"raminfo", "download", "attach"}
    BY <1>2, <1>4, <2>1, <2>3 DEF Recovers
  <2> QED
    BY <1>4, <2>2, <2>3, <2>4 DEF Clash
<1>8. "get_fw" \notin Rem("core")'
  <2>1. t = "core" => "get_fw" \notin RecoverSet(t, h)
    BY DEF RecoverSet, FailBrcmfSet, FailProbeSet
  <2> QED
    BY <1>1, <1>3, <2>1
<1>9. Passing'
  BY <1>6, <1>7, <1>8 DEF Passing
<1>10. FreshTakes'
  <2>1. ASSUME NEW u \in Threads, NEW s \in Rem(u)', NEW r \in Gains(s) \intersect Once
        PROVE  FALSE
    <3>1. Gains("probed") = {}
      BY DEF Gains, Taken, Scratch
    <3> QED
      BY <1>1, <2>1, <3>1
  <2>2. \A r \in {"rings", "irq"} : <<r, probes>> \in live' => <<r, probes>> \in live
    BY <1>2
  <2>3. Rem("work")' = {} \/ (t # "work" /\ Rem("work")' = Rem("work"))
    BY <1>1, <1>3
  <2> QED
    BY <1>0, <1>1, <2>1, <2>2, <2>3 DEF FreshTakes
<1>11. HandlerFirst'
  <2> SUFFICES ASSUME <<"irq", probes>> \in live'
               PROVE  /\ <<"devinfo", probes>> \in live' /\ <<"map", probes>> \in live'
                      /\ \A u \in Threads : Rem(u)' \intersect Goes # {} => "rel_irq" \in Rem(u)'
    BY <1>1 DEF HandlerFirst, Has
  <2>1. <<"irq", probes>> \in live /\ <<"irq", probes>>[1] = "irq"
    BY <1>2
  <2>2. <<"devinfo", probes>> \in live /\ <<"map", probes>> \in live
    BY <1>0, <2>1 DEF HandlerFirst, Has
  <2>3. <<"devinfo", probes>> \in live' /\ <<"map", probes>> \in live'
    BY <1>2, <2>2
  <2>4. t # "core"
    <3>1. ASSUME t = "core" PROVE FALSE
      <4>1. h \in {"devinfo", "chip_attach", "busdev", "settings", "bus", "drvr", "otp", "fwreq", "get_fw"}
        BY <1>4, <3>1 DEF Recovers
      <4>2. "get_fw" \in Rem("core")
        BY <1>0, <1>1, <3>1, <4>1, ProbeGoesOn
      <4>3. "irq" \in Base \union {"fwreq"}
        BY <1>0, <2>1, <4>2 DEF Passing
      <4> QED
        BY <4>3 DEF Base
    <3> QED
      BY <3>1
  <2>5. ASSUME NEW u \in Threads PROVE Rem(u)' \intersect Goes = {}
    <3>1. "probed" \notin Goes
      BY DEF Goes
    <3>2. t = "cb" => RecoverSet(t, h) \intersect Goes = {}
      BY DEF RecoverSet, DetachSet, FailSetupSet, Goes
    <3> QED
      BY <1>1, <2>4, <3>1, <3>2
  <2> QED
    BY <2>3, <2>5
<1> QED
  BY <1>9, <1>10, <1>11

LEMMA BreaksSerial ==
  ASSUME IInv, SerialInv, NEW t \in Threads, NEW h, NEW L, Breaks(t, h, L)
  PROVE  SerialInv'
BY BreaksSerial1, BreaksSerial2 DEF SerialInv

\* The callback begins, while nothing overlaps.
LEMMA EntersSerial ==
  ASSUME IInv, SerialInv, NEW g, NEW L, Enters(g, L)
  PROVE  SerialInv'
<1>0. Shaped /\ LifeTypes /\ OneBuilds /\ Holders /\ OneGeneration /\ Covered /\ Passing /\ FreshTakes
      /\ HandlerFirst /\ Unmade
  BY DEF IInv, SerialInv
<1>1. /\ Rem("cb") = {}
      /\ Rem("cb")' \in {SetupSet, Setup4360Set, FailSetupSet}
      /\ Rem("cb")' \in {SetupSet, Setup4360Set} <=> L # FailSetup
      /\ Rem("core")' = Rem("core") /\ Rem("work")' = Rem("work")
  BY <1>0, EntersRests
<1>2. /\ g \in pending /\ drvdata = g
      /\ pending' = pending \ {g} /\ gen' = [gen EXCEPT !["cb"] = g]
      /\ lock' = lock /\ bound' = bound /\ probes' = probes /\ drvdata' = drvdata /\ lost' = lost
      /\ live' \subseteq live /\ live \ {<<"fwreq", g>>} \subseteq live'
      /\ L = FailSetup => live' = live \ {<<"fwreq", g>>}
  <2>1. /\ g \in pending /\ drvdata = g
        /\ pending' = pending \ {g} /\ gen' = [gen EXCEPT !["cb"] = g]
        /\ lock' = lock /\ bound' = bound /\ probes' = probes /\ drvdata' = drvdata /\ lost' = lost
    BY DEF Enters
  <2>2. \/ L = Tail(IF Is4360 THEN SetupSteps4360 ELSE SetupSteps) /\ live' = live
        \/ L = FailSetup /\ live' = live \ {<<"fwreq", g>>}
    BY DEF Enters
  <2>3. Tail(IF Is4360 THEN SetupSteps4360 ELSE SetupSteps) # FailSetup
    <3>1. Remaining(Tail(IF Is4360 THEN SetupSteps4360 ELSE SetupSteps)) \in {SetupSet, Setup4360Set}
      BY SetupPlan, Setup4360Plan
    <3>2. "console" \in FailSetupSet /\ "console" \notin SetupSet /\ "console" \notin Setup4360Set
      BY DEF FailSetupSet, SetupSet, Setup4360Set
    <3> QED
      BY <3>1, <3>2, FailSetupPlan
  <2>4. live' \subseteq live /\ live \ {<<"fwreq", g>>} \subseteq live'
    BY <2>2
  <2>5. L = FailSetup => live' = live \ {<<"fwreq", g>>}
    BY <2>2, <2>3
  <2> QED
    BY <2>1, <2>4, <2>5
<1>3. g = probes /\ pending' = {} /\ Rem("work") = {} /\ ~Working /\ Rem("cb") = {}
  BY <1>0, <1>2 DEF OneBuilds
<1>4. probes # 0
  BY <1>0, <1>2 DEF Unmade
<1>5. Threads = {"core", "cb", "work"}
  BY DEF Threads
<1>6. gen'["cb"] = probes /\ gen'["core"] = gen["core"] /\ gen'["work"] = gen["work"]
  BY <1>0, <1>2, <1>3 DEF LifeTypes, Threads
<1>7. ~Working'
  BY <1>1, <1>3 DEF Working
<1>8. /\ \A s \in Rem("cb")' : Gains(s) \intersect Once \subseteq {"rings", "irq"}
      /\ Rem("cb")' \intersect Closes = {} /\ Rem("cb")' \intersect Goes = {}
      /\ L # FailSetup => {"attach", "download"} \subseteq Rem("cb")'
  <2>1. \A S \in {SetupSet, Setup4360Set, FailSetupSet} :
          /\ \A s \in S : Gains(s) \intersect Once \subseteq {"rings", "irq"}
          /\ S \intersect Closes = {} /\ S \intersect Goes = {}
    BY DEF SetupSet, Setup4360Set, FailSetupSet, Gains, Taken, Scratch, Once, Closes, Goes
  <2>2. \A S \in {SetupSet, Setup4360Set} : {"attach", "download"} \subseteq S
    BY DEF SetupSet, Setup4360Set
  <2> QED
    BY <1>1, <2>1, <2>2
<1>9. \A x \in live : x = <<x[1], probes>>
  BY <1>0 DEF LifeTypes, OneGeneration
<1>10. OneBuilds'
  BY <1>1, <1>2, <1>3, <1>7 DEF OneBuilds
<1>11. Holders'
  BY <1>0, <1>1, <1>2, <1>8 DEF Holders, Closes
<1>12. OneGeneration'
  <2>1. \A x \in live' : x[2] = probes'
    BY <1>0, <1>2 DEF OneGeneration
  <2>2. ASSUME NEW u \in Threads, Rem(u)' # {}
        PROVE  gen'[u] = probes' \/ (Rem(u)' = {"unbound"} /\ live' = {})
    <3>1. CASE u = "cb"
      BY <1>2, <1>6, <3>1
    <3>2. CASE u # "cb"
      <4>1. Rem(u)' = Rem(u) /\ gen'[u] = gen[u]
        BY <1>1, <1>5, <1>6, <3>2
      <4> QED
        BY <1>0, <1>2, <2>2, <4>1 DEF OneGeneration
    <3> QED
      BY <3>1, <3>2
  <2>3. ASSUME NEW u \in Threads, Rem(u)' \intersect {"unbound", "reprobe"} # {}, "clear_drvdata" \notin Rem(u)'
        PROVE  drvdata' = 0
    <3>1. u # "cb"
      BY <1>8, <2>3 DEF Closes
    <3>2. Rem(u)' = Rem(u)
      BY <1>1, <1>5, <3>1
    <3> QED
      BY <1>0, <1>2, <2>3, <3>2 DEF OneGeneration
  <2> QED
    BY <1>0, <1>1, <1>2, <2>1, <2>2, <2>3 DEF OneGeneration
<1>13. Covered'
  <2>1. ASSUME NEW u \in Threads, Rem(u)' \intersect Closes # {}, NEW x \in live'
        PROVE  \E s \in Rem(u)' : x[1] \in Gives(s)
    <3>1. u # "cb"
      BY <1>8, <2>1
    <3>2. Rem(u)' = Rem(u)
      BY <1>1, <1>5, <3>1
    <3> QED
      BY <1>0, <1>2, <2>1, <3>2 DEF Covered
  <2> QED
    BY <1>0, <1>1, <1>2, <1>3, <1>4, <2>1 DEF Covered
<1>14. Passing'
  <2>1. ASSUME NEW x \in live', x[1] = "fwreq"
        PROVE  "attach" \in Rem("cb")'
    <3>1. x = <<"fwreq", g>>
      BY <1>2, <1>3, <1>9, <2>1
    <3>2. L # FailSetup
      BY <1>2, <2>1, <3>1
    <3> QED
      BY <1>8, <3>2
  <2>2. ASSUME NEW x \in live', x[1] = "fw"
        PROVE  FALSE
    BY <1>0, <1>1, <1>2, <2>2 DEF Passing
  <2>3. "get_fw" \notin Rem("core")'
    BY <1>7 DEF Working
  <2> QED
    BY <2>1, <2>2, <2>3 DEF Passing
<1>15. FreshTakes'
  <2>1. ASSUME NEW u \in Threads, NEW s \in Rem(u)', NEW r \in Gains(s) \intersect Once
        PROVE  <<r, probes>> \notin live'
    <3>1. CASE u = "cb"
      <4>1. r \in {"rings", "irq"}
        BY <1>8, <2>1, <3>1
      <4> QED
        BY <1>0, <1>2, <4>1 DEF FreshTakes
    <3>2. CASE u # "cb"
      <4>1. s \in Rem(u)
        BY <1>1, <1>5, <2>1, <3>2
      <4> QED
        BY <1>0, <1>2, <2>1, <4>1 DEF FreshTakes
    <3> QED
      BY <3>1, <3>2
  <2>2. Rem("work")' = {}
    BY <1>1, <1>3
  <2> QED
    BY <1>0, <1>2, <1>3, <2>1, <2>2 DEF FreshTakes
<1>16. HandlerFirst'
  <2> SUFFICES ASSUME <<"irq", probes>> \in live'
               PROVE  /\ <<"devinfo", probes>> \in live' /\ <<"map", probes>> \in live'
                      /\ \A u \in Threads : Rem(u)' \intersect Goes # {} => "rel_irq" \in Rem(u)'
    BY <1>2 DEF HandlerFirst, Has
  <2>1. /\ <<"devinfo", probes>> \in live /\ <<"map", probes>> \in live
        /\ \A u \in Threads : Rem(u) \intersect Goes # {} => "rel_irq" \in Rem(u)
    BY <1>0, <1>2 DEF HandlerFirst, Has
  <2>2. <<"devinfo", probes>> \in live' /\ <<"map", probes>> \in live'
    BY <1>2, <2>1
  <2>3. ASSUME NEW u \in Threads, Rem(u)' \intersect Goes # {}
        PROVE  "rel_irq" \in Rem(u)'
    <3>1. u # "cb"
      BY <1>8, <2>3
    <3> QED
      BY <1>1, <1>5, <2>1, <2>3, <3>1
  <2> QED
    BY <2>2, <2>3
<1> QED
  BY <1>10, <1>11, <1>12, <1>13, <1>14, <1>15, <1>16 DEF SerialInv

\* A removal begins, while nothing overlaps.
LEMMA TakesAwayAlone ==
  ASSUME IInv, SerialInv, NEW t \in Threads, NEW last \in {"unbound", "reprobe"}, TakesAway(t, last),
         Serial'
  PROVE  /\ Rem("core") = {} /\ Rem("work") = {} /\ pending = {} /\ Rem("cb") \subseteq {"release_driver"}
         /\ Rem("core")' # {} => t = "core"
         /\ t \in {"core", "cb"} /\ bound /\ bound' = bound /\ lock' = t
         /\ Rem(t)' = DownOf(drvdata, last) \union {last}
         /\ \A u \in Threads : u # t => Rem(u)' = {}
         /\ t = "core" => queued = {}
<1>0. Shaped /\ LifeTypes /\ OneBuilds /\ Holders
  BY DEF IInv, SerialInv
<1>1. /\ t = "core" => Rem(t) = {}
      /\ t = "cb" => Rem(t) = {"release_driver"} /\ last = "unbound"
      /\ t \in {"core", "cb"}
      /\ Rem(t)' = DownOf(drvdata, last) \union {last}
      /\ \A u \in Threads : u # t => Rem(u)' = Rem(u)
  BY <1>0, TakesAwayRests
<1>2. lock = Nobody /\ bound /\ lock' = t /\ bound' = bound
      /\ (t = "core" => ~Busy)
  BY DEF TakesAway, Serial
<1>3. Rem("core") = {}
  BY <1>0, <1>2 DEF Holders, Nobody
<1>4. t = "core" => queued = {} /\ pending = {} /\ \A u \in Threads : todo[u] = <<>>
  BY <1>2 DEF Busy, Building
<1>5. t = "core" => Rem("cb") = {} /\ Rem("work") = {}
  BY <1>4, EmptyPlan DEF Rem, Threads
<1>6. t = "cb" => Rem("work") = {} /\ pending = {}
  BY <1>0, <1>1 DEF OneBuilds
<1>7. \A u \in Threads : u # t => Rem(u) = {}
  BY <1>1, <1>3, <1>5, <1>6 DEF Threads
<1> QED
  BY <1>1, <1>2, <1>3, <1>4, <1>5, <1>6, <1>7 DEF Threads

LEMMA TakesAwaySerial ==
  ASSUME IInv, SerialInv, NEW t \in Threads, NEW last \in {"unbound", "reprobe"}, TakesAway(t, last),
         Serial'
  PROVE  SerialInv'
<1>0. Shaped /\ LifeTypes /\ Stays4360 /\ OneBuilds /\ Holders /\ OneGeneration /\ Covered /\ Passing
      /\ FreshTakes /\ HandlerFirst
  BY DEF IInv, SerialInv
<1>1. /\ Rem("core") = {} /\ Rem("work") = {} /\ pending = {} /\ Rem("cb") \subseteq {"release_driver"}
      /\ t \in {"core", "cb"} /\ bound /\ bound' = bound /\ lock' = t
      /\ Rem(t)' = DownOf(drvdata, last) \union {last}
      /\ \A u \in Threads : u # t => Rem(u)' = {}
  BY TakesAwayAlone
<1>2. /\ gen' = [gen EXCEPT ![t] = drvdata] /\ probes' = probes /\ drvdata' = drvdata
      /\ lost' = lost /\ pending' = pending
      /\ last = "unbound" => live' = live
      /\ last = "reprobe" => live' = live \ {<<"ci", drvdata>>} /\ Has(drvdata, {"devinfo", "map"})
  BY DEF TakesAway
<1>3. live' \subseteq live /\ \A x \in live : x \in live' \/ x[1] = "ci"
  BY <1>2
<1>4. Threads = {"core", "cb", "work"}
  BY DEF Threads
<1>5. gen'[t] = drvdata
  BY <1>0, <1>2 DEF LifeTypes
<1>6. \A x \in live : x = <<x[1], probes>> /\ x[2] = probes /\ x[1] \in Res
  BY <1>0 DEF LifeTypes, OneGeneration
<1>7. DownOf(drvdata, last) \subseteq RemoveSet
  BY DEF DownOf, RemoveSet
<1>8. /\ \A s \in Rem(t)' : Gains(s) = {}
      /\ Rem(t)' \intersect {"get_fw", "probed"} = {}
  <2>1. RemoveSet \subseteq DownSet /\ {"unbound", "reprobe"} \subseteq DownSet
    BY DEF DownSet
  <2>2. \A s \in DownSet : Gains(s) = {} /\ s \notin {"get_fw", "probed"}
    BY DownTakesNothing
  <2> QED
    BY <1>1, <1>7, <2>1, <2>2
<1>9. drvdata = 0 => live = {}
  BY <1>0, <1>1 DEF Covered
<1>10. last = "reprobe" => drvdata = probes
  <2>1. last = "reprobe" => <<"devinfo", drvdata>> \in live
    BY <1>2 DEF Has
  <2> QED
    BY <1>6, <2>1
<1>11. \A x \in live : x[1] \notin {"fwreq", "fw"}
  <2>1. "attach" \notin Rem("cb") /\ "download" \notin Rem("cb")
    BY <1>1
  <2> QED
    BY <1>0, <1>1, <2>1 DEF Passing
<1>12. ASSUME NEW x \in live
       PROVE  \E s \in DownOf(drvdata, last) : x[1] \in Gives(s)
  <2>1. drvdata # 0
    BY <1>9, <1>12
  <2>2. CASE Is4360 /\ drvdata \notin up
    <3>1. x[1] \in (Res \ (Later \union {"fwreq", "fw"})) \union {"cfg80211"}
      BY <1>0, <1>6, <1>11, <1>12, <2>2 DEF Stays4360
    <3>2. \E s \in ShortSet : x[1] \in Gives(s)
      <4>1. {"free_drvr", "free_busdev", "free_bus", "rel_resource", "chip_detach", "free_settings",
             "free_devinfo", "cfg_detach"} \subseteq ShortSet
        BY DEF ShortSet, DetachSet
      <4>2. "drvr" \in Gives("free_drvr") /\ "busdev" \in Gives("free_busdev")
            /\ "bus" \in Gives("free_bus") /\ "map" \in Gives("rel_resource")
            /\ "olmsg" \in Gives("rel_resource") /\ "ci" \in Gives("chip_detach")
            /\ "settings" \in Gives("free_settings") /\ "devinfo" \in Gives("free_devinfo")
            /\ "cfg80211" \in Gives("cfg_detach")
        BY DEF Gives, Frees
      <4>3. x[1] \in {"drvr", "busdev", "bus", "map", "olmsg", "ci", "settings", "devinfo", "cfg80211"}
        BY <3>1 DEF Res, Later
      <4> QED
        BY <4>1, <4>2, <4>3
    <3> QED
      BY <2>1, <2>2, <3>2 DEF DownOf
  <2>3. CASE ~(Is4360 /\ drvdata \notin up)
    <3>1. {"free_drvr", "free_busdev", "free_bus", "rel_resource", "chip_detach", "free_settings",
           "free_devinfo", "cfg_detach", "rel_scratch", "rel_irq", "rel_rings", "free_flowrings"}
            \subseteq RemoveSet
      BY DEF RemoveSet, ShortSet, DetachSet
    <3>2. "drvr" \in Gives("free_drvr") /\ "busdev" \in Gives("free_busdev")
          /\ "bus" \in Gives("free_bus") /\ "map" \in Gives("rel_resource")
          /\ "olmsg" \in Gives("rel_resource") /\ "ci" \in Gives("chip_detach")
          /\ "settings" \in Gives("free_settings") /\ "devinfo" \in Gives("free_devinfo")
          /\ "cfg80211" \in Gives("cfg_detach") /\ "scratch" \in Gives("rel_scratch")
          /\ "ringupd" \in Gives("rel_scratch") /\ "irq" \in Gives("rel_irq")
          /\ "rings" \in Gives("rel_rings") /\ "flowrings" \in Gives("free_flowrings")
      BY DEF Gives, Frees, Scratch
    <3>3. x[1] \in {"drvr", "busdev", "bus", "map", "olmsg", "ci", "settings", "devinfo", "cfg80211",
                    "scratch", "ringupd", "irq", "rings", "flowrings"}
      BY <1>6, <1>11, <1>12 DEF Res
    <3>4. \E s \in RemoveSet : x[1] \in Gives(s)
      BY <3>1, <3>2, <3>3
    <3> QED
      BY <2>1, <2>3, <3>4 DEF DownOf
  <2> QED
    BY <2>2, <2>3
<1>13. OneBuilds'
  BY <1>0, <1>1, <1>2, <1>4 DEF OneBuilds, Working
<1>14. Holders'
  <2>1. t = "core" => Rem("cb")' = {} /\ Rem("work")' = {}
    BY <1>1, <1>4
  <2>2. t = "cb" => Rem("core")' = {}
    BY <1>1, <1>4
  <2> QED
    BY <1>1, <2>1, <2>2 DEF Holders
<1>15. OneGeneration'
  <2>1. \A x \in live' : x[2] = probes'
    BY <1>2, <1>3, <1>6
  <2>2. ASSUME NEW u \in Threads, Rem(u)' # {}
        PROVE  gen'[u] = probes' \/ (Rem(u)' = {"unbound"} /\ live' = {})
    <3>1. u = t
      BY <1>1, <2>2
    <3>2. CASE drvdata = probes
      BY <1>2, <1>5, <3>1, <3>2
    <3>3. CASE drvdata # probes
      <4>1. drvdata = 0 /\ last = "unbound"
        BY <1>0, <1>10, <3>3 DEF OneGeneration
      <4>2. live' = {} /\ Rem(t)' = {"unbound"}
        BY <1>1, <1>3, <1>9, <4>1 DEF DownOf
      <4> QED
        BY <3>1, <4>2
    <3> QED
      BY <3>2, <3>3
  <2>3. ASSUME NEW u \in Threads, Rem(u)' \intersect {"unbound", "reprobe"} # {}, "clear_drvdata" \notin Rem(u)'
        PROVE  drvdata' = 0
    <3>1. u = t
      BY <1>1, <2>3
    <3>2. "clear_drvdata" \in ShortSet /\ "clear_drvdata" \in RemoveSet
      BY DEF ShortSet, RemoveSet
    <3> QED
      BY <1>1, <1>2, <2>3, <3>1, <3>2 DEF DownOf
  <2> QED
    BY <1>0, <1>1, <1>2, <2>1, <2>2, <2>3 DEF OneGeneration
<1>16. Covered'
  <2>1. ASSUME NEW u \in Threads, Rem(u)' \intersect Closes # {}, NEW x \in live'
        PROVE  \E s \in Rem(u)' : x[1] \in Gives(s)
    <3>1. u = t
      BY <1>1, <2>1
    <3> QED
      BY <1>1, <1>3, <1>12, <2>1, <3>1
  <2>2. drvdata' = 0 => live' = {} /\ \A u \in Threads : Rem(u)' \intersect Takers = {}
    <3>1. \A u \in Threads : Rem(u)' \intersect Takers = {}
      <4>1. "download" \notin Rem(t)'
        <5>1. "download" \notin RemoveSet
          BY DEF RemoveSet, ShortSet, DetachSet
        <5> QED
          BY <1>1, <1>7, <5>1
      <4>2. \A s \in Rem(t)' : s \notin Takers
        BY <1>8, <4>1 DEF Takers
      <4> QED
        BY <1>1, <4>2
    <3> QED
      BY <1>2, <1>3, <1>9, <3>1
  <2> QED
    BY <1>1, <2>1, <2>2 DEF Covered
<1>17. Passing'
  <2>1. \A x \in live' : x[1] \notin {"fwreq", "fw"}
    BY <1>3, <1>11
  <2>2. "get_fw" \notin Rem("core")'
    BY <1>1, <1>4, <1>8
  <2> QED
    BY <2>1, <2>2 DEF Passing
<1>18. FreshTakes'
  <2>1. ASSUME NEW u \in Threads, NEW s \in Rem(u)', NEW r \in Gains(s) \intersect Once
        PROVE  FALSE
    BY <1>1, <1>8, <2>1
  <2>2. Rem("work")' = {} /\ pending' = {}
    BY <1>1, <1>2, <1>4
  <2> QED
    BY <1>0, <1>2, <2>1, <2>2 DEF FreshTakes
<1>19. HandlerFirst'
  <2> SUFFICES ASSUME <<"irq", probes>> \in live'
               PROVE  /\ <<"devinfo", probes>> \in live' /\ <<"map", probes>> \in live'
                      /\ \A u \in Threads : Rem(u)' \intersect Goes # {} => "rel_irq" \in Rem(u)'
    BY <1>2 DEF HandlerFirst, Has
  <2>1. /\ <<"irq", probes>> \in live /\ <<"irq", probes>>[1] = "irq"
        /\ <<"devinfo", probes>>[1] = "devinfo" /\ <<"map", probes>>[1] = "map"
    BY <1>3
  <2>2. <<"devinfo", probes>> \in live' /\ <<"map", probes>> \in live'
    BY <1>0, <1>3, <2>1 DEF HandlerFirst, Has
  <2>3. ~Is4360
    BY <1>0, <2>1 DEF Stays4360, Later
  <2>4. drvdata # 0
    BY <1>9, <2>1
  <2>5. DownOf(drvdata, last) = RemoveSet
    BY <2>3, <2>4 DEF DownOf
  <2>6. "rel_irq" \in RemoveSet
    BY DEF RemoveSet
  <2> QED
    BY <1>1, <2>2, <2>5, <2>6
<1> QED
  BY <1>13, <1>14, <1>15, <1>16, <1>17, <1>18, <1>19 DEF SerialInv

\* A probe begins, while nothing overlaps.
LEMMA BuildsSerial ==
  ASSUME IInv, SerialInv, Builds
  PROVE  SerialInv' /\ live = {} /\ Rem("cb") = {} /\ Rem("work") = {} /\ pending = {} /\ drvdata = 0
<1>0. Shaped /\ LifeTypes /\ OneBuilds /\ Holders /\ OneGeneration /\ Covered /\ Passing /\ FreshTakes
  BY DEF IInv, SerialInv
<1>1. /\ Rem("core") = {} \/ Rem("core") = {"reprobe"}
      /\ Rem("core") # {"reprobe"} => lock = Nobody /\ ~bound /\ lock' = "core"
      /\ Rem("core") = {"reprobe"} => lock' = lock
      /\ Rem("core")' = ProbeSet
      /\ Rem("cb")' = Rem("cb") /\ Rem("work")' = Rem("work")
  BY <1>0, BuildsRests
<1>2. /\ probes' = probes + 1 /\ gen' = [gen EXCEPT !["core"] = probes + 1]
      /\ bound' = bound /\ drvdata' = drvdata /\ live' = live /\ lost' = lost /\ pending' = pending
  BY DEF Builds
<1>3. Threads = {"core", "cb", "work"}
  BY DEF Threads
<1>4. Gives("reprobe") = {} /\ "reprobe" \in Closes
  BY DEF Gives, Frees, Closes
<1>5. live = {}
  <2>1. Rem("core") = {"reprobe"} => live = {}
    BY <1>0, <1>3, <1>4 DEF Covered
  <2>2. Rem("core") = {} => live = {}
    BY <1>0, <1>1 DEF Covered
  <2> QED
    BY <1>1, <2>1, <2>2
<1>6. Rem("cb") = {} /\ Rem("work") = {} /\ pending = {}
  <2>1. Rem("core") = {"reprobe"} => Working
    BY DEF Working
  <2> QED
    BY <1>0, <1>1, <2>1 DEF OneBuilds, Holders
<1>7. drvdata = 0
  BY <1>0, <1>1, <1>3 DEF OneGeneration
<1>8. gen'["core"] = probes'
  BY <1>0, <1>2 DEF LifeTypes, Threads
<1>9. "set_drvdata" \in ProbeSet /\ ProbeSet \intersect Closes = {} /\ "unbound" \notin ProbeSet
      /\ "reprobe" \notin ProbeSet
  BY DEF ProbeSet, Closes
<1>10. lock' = "core"
  BY <1>0, <1>1 DEF Holders
<1>11. OneBuilds'
  BY <1>1, <1>2, <1>6 DEF OneBuilds
<1>12. Holders'
  BY <1>1, <1>2, <1>6, <1>10 DEF Holders
<1>13. OneGeneration'
  <2>1. ASSUME NEW u \in Threads, Rem(u)' # {} PROVE u = "core"
    BY <1>1, <1>3, <1>6, <2>1
  <2>2. Rem("core")' # {} /\ Rem("core")' \intersect {"unbound", "reprobe"} = {}
    BY <1>1, <1>9
  <2> QED
    BY <1>2, <1>5, <1>7, <1>8, <2>1, <2>2 DEF OneGeneration
<1>14. Covered'
  BY <1>1, <1>2, <1>5, <1>9 DEF Covered
<1>15. Passing'
  BY <1>2, <1>5 DEF Passing
<1>16. FreshTakes'
  BY <1>0, <1>2, <1>5 DEF FreshTakes
<1>17. HandlerFirst'
  BY <1>2, <1>5 DEF HandlerFirst
<1> QED
  BY <1>5, <1>6, <1>7, <1>11, <1>12, <1>13, <1>14, <1>15, <1>16, <1>17 DEF SerialInv

\* The reset work begins, while nothing overlaps.
LEMMA ResetsSerial ==
  ASSUME IInv, SerialInv, NEW g, Resets(g), Serial'
  PROVE  /\ SerialInv' /\ g = probes /\ bound
         /\ Rem("core") = {} /\ Rem("cb") = {} /\ Rem("work") = {} /\ pending = {}
<1>0. Shaped /\ LifeTypes /\ OneBuilds /\ Holders /\ OneGeneration /\ Covered /\ Passing /\ FreshTakes
      /\ HandlerFirst
  BY DEF IInv, SerialInv
<1>1. /\ Rem("work") = {} /\ Rem("work")' = ResetSet
      /\ Rem("cb")' = Rem("cb") /\ Rem("core")' = Rem("core")
  BY <1>0, ResetsRests
<1>2. /\ Has(g, {"drvr", "bus", "busdev"}) /\ gen' = [gen EXCEPT !["work"] = g]
      /\ lock' = lock /\ bound' = bound /\ probes' = probes /\ drvdata' = drvdata /\ live' = live
      /\ lost' = lost /\ pending' = pending /\ ~Building
  BY DEF Resets, Serial
<1>3. pending = {} /\ todo["core"] = <<>> /\ todo["cb"] = <<>>
  BY <1>2 DEF Building, Threads
<1>4. Rem("core") = {} /\ Rem("cb") = {}
  BY <1>3, EmptyPlan DEF Rem
<1>5. <<"drvr", g>> \in live
  BY <1>2 DEF Has
<1>6. g = probes /\ bound
  <2>1. <<"drvr", g>>[2] = g
    OBVIOUS
  <2> QED
    BY <1>0, <1>4, <1>5, <2>1 DEF OneGeneration, Covered
<1>7. Threads = {"core", "cb", "work"}
  BY DEF Threads
<1>8. gen'["work"] = probes
  BY <1>0, <1>2, <1>6 DEF LifeTypes, Threads
<1>9. /\ ResetSet \intersect Closes = {} /\ ResetSet \intersect Goes = {}
      /\ {"get_fw", "rel_rings", "rel_irq"} \subseteq ResetSet
      /\ ResetSet \intersect {"unbound", "reprobe"} = {}
      /\ \A s \in ResetSet : Gains(s) \subseteq {"fwreq"}
  BY DEF ResetSet, DetachSet, Closes, Goes, Gains, Taken, Scratch
<1>10. \A x \in live : x[1] # "fwreq"
  BY <1>0, <1>1, <1>3, <1>4 DEF Passing
<1>11. OneBuilds'
  BY <1>1, <1>2, <1>3, <1>4 DEF OneBuilds, Working
<1>12. Holders'
  BY <1>1, <1>2, <1>4, <1>6 DEF Holders
<1>13. OneGeneration'
  <2>1. ASSUME NEW u \in Threads, Rem(u)' # {} PROVE u = "work"
    BY <1>1, <1>4, <1>7, <2>1
  <2>2. Rem("work")' \intersect {"unbound", "reprobe"} = {}
    BY <1>1, <1>9
  <2>3. \A u \in Threads : Rem(u)' \intersect {"unbound", "reprobe"} = {}
    BY <2>1, <2>2
  <2> QED
    BY <1>0, <1>1, <1>2, <1>6, <1>8, <2>1, <2>3 DEF OneGeneration
<1>14. Covered'
  <2>1. \A u \in Threads : Rem(u)' \intersect Closes = {}
    BY <1>1, <1>4, <1>7, <1>9
  <2>2. drvdata # 0
    BY <1>0, <1>4, <1>5 DEF Covered
  <2> QED
    BY <1>2, <1>6, <2>1, <2>2 DEF Covered
<1>15. Passing'
  BY <1>0, <1>1, <1>2, <1>9 DEF Passing
<1>16. FreshTakes'
  <2>1. ASSUME NEW u \in Threads, NEW s \in Rem(u)', NEW r \in Gains(s) \intersect Once
        PROVE  <<r, probes>> \notin live
    <3>1. r = "fwreq"
      BY <1>1, <1>4, <1>7, <1>9, <2>1
    <3>2. <<r, probes>>[1] = r
      OBVIOUS
    <3> QED
      BY <1>10, <3>1, <3>2
  <2> QED
    BY <1>0, <1>1, <1>2, <1>3, <1>9, <2>1 DEF FreshTakes
<1>17. HandlerFirst'
  <2>1. \A u \in Threads : Rem(u)' \intersect Goes = {}
    BY <1>1, <1>4, <1>7, <1>9
  <2> QED
    BY <1>0, <1>2, <2>1 DEF HandlerFirst, Has
<1> QED
  BY <1>1, <1>3, <1>4, <1>6, <1>11, <1>12, <1>13, <1>14, <1>15, <1>16, <1>17 DEF SerialInv

LEMMA QuietSerial ==
  ASSUME SerialInv, Quiet
  PROVE  SerialInv'
<1>1. \A t \in Threads : Rem(t)' = Rem(t)
  BY QuietRests
<1>2. Rem("core")' = Rem("core") /\ Rem("cb")' = Rem("cb") /\ Rem("work")' = Rem("work")
  BY <1>1 DEF Threads
<1>3. /\ gen' = gen /\ lock' = lock /\ bound' = bound /\ probes' = probes
      /\ drvdata' = drvdata /\ live' = live /\ lost' = lost /\ pending' = pending
  BY DEF Quiet
<1>4. OneBuilds' /\ Holders'
  BY <1>2, <1>3 DEF SerialInv, OneBuilds, Holders, Working
<1>5. OneGeneration'
  BY <1>1, <1>2, <1>3 DEF SerialInv, OneGeneration
<1>6. Covered'
  BY <1>1, <1>2, <1>3 DEF SerialInv, Covered
<1>7. Passing'
  BY <1>2, <1>3 DEF SerialInv, Passing
<1>8. FreshTakes'
  BY <1>1, <1>2, <1>3 DEF SerialInv, FreshTakes
<1>9. HandlerFirst'
  BY <1>1, <1>2, <1>3 DEF SerialInv, HandlerFirst, Has
<1> QED
  BY <1>4, <1>5, <1>6, <1>7, <1>8, <1>9 DEF SerialInv

\* While nothing overlaps, every step keeps the invariant.
LEMMA SerialNext ==
  ASSUME IInv, Kinds, Serial'
  PROVE  SerialInv' /\ Serial
<1>1. happened \subseteq happened'
  BY DEF Kinds, Moves, Does, Breaks, Enters, TakesAway, Builds, Resets, Quiet
<1>2. Serial
  BY <1>1 DEF Serial
<1>3. SerialInv
  BY <1>2 DEF IInv
<1>4. ASSUME NEW t \in Threads, Does(t, Head(todo[t])) PROVE SerialInv'
  BY <1>3, <1>4, DoesSerial
<1>5. ASSUME NEW t \in Threads, NEW L, Breaks(t, Head(todo[t]), L) PROVE SerialInv'
  BY <1>3, <1>5, BreaksSerial
<1>6. ASSUME NEW g \in Gens, NEW L \in Seq(StepNames), Enters(g, L) PROVE SerialInv'
  BY <1>3, <1>6, EntersSerial
<1>7. ASSUME NEW t \in Threads, NEW last \in {"unbound", "reprobe"}, TakesAway(t, last) PROVE SerialInv'
  BY <1>3, <1>7, TakesAwaySerial
<1>8. ASSUME Builds PROVE SerialInv'
  BY <1>3, <1>8, BuildsSerial
<1>9. ASSUME NEW g \in Gens, Resets(g) PROVE SerialInv'
  BY <1>3, <1>9, ResetsSerial
<1>10. ASSUME Quiet PROVE SerialInv'
  BY <1>3, <1>10, QuietSerial
<1> QED
  BY <1>2, <1>4, <1>5, <1>6, <1>7, <1>8, <1>9, <1>10 DEF Kinds, Moves

LEMMA IInit ==
  ASSUME Init
  PROVE  IInv
<1>1. /\ setting \in Settings
      /\ todo = [t \in Threads |-> <<>>] /\ gen = [t \in Threads |-> 0] /\ lock = Nobody
      /\ bound = FALSE /\ probes = 0 /\ drvdata = 0
      /\ live = {} /\ dangling = {} /\ lost = {}
      /\ up = {} /\ waitq = {} /\ armed = {} /\ timer = {}
      /\ pending = {} /\ queued = {} /\ isr = 0
  BY DEF Init
<1>2. \A t \in Threads : Plan(todo[t]) /\ Rem(t) = {}
  BY <1>1, EmptyPlan DEF Rem
<1>3. Rem("core") = {} /\ Rem("cb") = {} /\ Rem("work") = {}
  BY <1>2 DEF Threads
<1>4. Shaped
  BY <1>2, <1>3 DEF Shaped
<1>5. 0 \in 0..0 /\ 0 \in Nat
  OBVIOUS
<1>6. LifeTypes
  <2>1. <<>> \in Seq(StepNames)
    OBVIOUS
  <2>2. todo \in [Threads -> Seq(StepNames)]
    BY <1>1, <2>1
  <2>3. gen \in [Threads -> 0..0]
    BY <1>1, <1>5
  <2> QED
    BY <1>1, <1>5, <2>2, <2>3 DEF LifeTypes, Ever
<1>7. Stays4360
  BY <1>1, <1>3 DEF Stays4360
<1>8. Unmade
  BY <1>1, <1>2 DEF Unmade
<1>9. SerialInv
  <2>1. OneBuilds /\ Holders
    BY <1>1, <1>3 DEF OneBuilds, Holders, Working
  <2>2. OneGeneration /\ Covered
    BY <1>1, <1>2, <1>3 DEF OneGeneration, Covered
  <2>3. Passing /\ FreshTakes /\ HandlerFirst
    BY <1>1, <1>2, <1>3 DEF Passing, FreshTakes, HandlerFirst
  <2> QED
    BY <2>1, <2>2, <2>3 DEF SerialInv
<1> QED
  BY <1>4, <1>6, <1>7, <1>8, <1>9 DEF IInv

LEMMA Inductive ==
  ASSUME IInv, [Next]_vars
  PROVE  IInv'
<1>1. Shaped /\ LifeTypes /\ Stays4360 /\ Unmade
  BY DEF IInv
<1>2. Kinds /\ setting' = setting
  BY <1>1, StepKinds
<1>3. Shaped' /\ LifeTypes' /\ Stays4360' /\ Unmade'
  BY <1>1, <1>2, ShapedNext, TypesNext, Stays4360Next, UnmadeNext
<1>4. Serial' => SerialInv'
  BY <1>2, SerialNext
<1> QED
  BY <1>3, <1>4 DEF IInv
-----------------------------------------------------------------------------
(***************************************************************************)
(* Without a reset, a generation is set up once, whatever overlaps.        *)
(***************************************************************************)
Rings == {"rings", "irq", "flowrings"}

\* a generation whose setup has not begun
Plain(g) == g \notin armed /\ \A r \in Rings : <<r, g>> \notin live

\* the steps of "cb" up to the one that arms the reset, and the one that asks for it
Arms == (SetupSet \ {"timer_on"}) \union {"crashed"}

Unreset ==
  /\ Rem("work") = {} /\ queued = {} /\ lost = {}
  /\ Rem("core") # {} => lock = "core"
  /\ "unbound" \in Rem("cb") => lock = "cb"
  /\ "get_fw" \in Rem("core") =>
       gen["core"] = probes /\ probes \notin pending /\ gen["cb"] # probes /\ Plain(probes)
  /\ \A g \in pending : Plain(g) /\ (gen["cb"] = g => Rem("cb") \intersect SetupSet = {})
  /\ \A s \in Rem("core") \intersect Taken : <<s, gen["core"]>> \notin live
  /\ \A s \in Rem("cb") \intersect Taken : <<s, gen["cb"]>> \notin live
  /\ Rem("cb") \intersect Arms # {} => gen["cb"] \notin armed

LEMMA SetupArms ==
  /\ \A s \in CbSteps \ SetupSet : Gains(s) = {} /\ Extra(s) = {} /\ s # "cfg80211"
  /\ CbSteps \intersect Taken \subseteq Rings
  /\ (CoreSteps \intersect Taken) \intersect Rings = {} /\ "cfg80211" \notin CoreSteps
  /\ \A s \in CoreSteps : Gains(s) \intersect Rings = {}
  /\ SetupSet \ {"timer_on"} \subseteq Arms /\ "crashed" \in Arms
<1>1. \A s \in CbSteps \ SetupSet : Gains(s) = {} /\ Extra(s) = {} /\ s # "cfg80211"
  BY DEF CbSteps, SetupSet, DetachSet, FailSetupSet, RemoveSet, ShortSet, Gains, Extra, Taken, Scratch
<1>2. CbSteps \intersect Taken \subseteq Rings
  BY DEF CbSteps, SetupSet, DetachSet, FailSetupSet, RemoveSet, ShortSet, Taken, Rings
<1>3. (CoreSteps \intersect Taken) \intersect Rings = {} /\ "cfg80211" \notin CoreSteps
  BY DEF CoreSteps, ProbeSet, DownSet, FailBrcmfSet, FailProbeSet, RemoveSet, ShortSet, DetachSet, Rings
<1>4. \A s \in CoreSteps : Gains(s) \intersect Rings = {}
  BY CoreTakes DEF Base, Rings
<1> QED
  BY <1>1, <1>2, <1>3, <1>4 DEF Arms

LEMMA TakenGains ==
  \A s \in Taken : s \in Gains(s) /\ s \in StepNames
BY DEF Taken, Gains, StepNames, ProbeSet, SetupSet

LEMMA DoesUnreset ==
  ASSUME Shaped, LifeTypes, Unreset, NEW t \in Threads, NEW h, Does(t, h)
  PROVE  Unreset'
<1>1. /\ h \in Rem(t) /\ Rem(t)' = Rem(t) \ {h} /\ h \in StepNames
      /\ \A u \in Threads : u # t => Rem(u)' = Rem(u)
      /\ \A s \in Rem(t)' : ~Clash(h, s)
  BY DoesRests
<1>2. /\ gen' = gen /\ probes' = probes
      /\ live' \subseteq live \union Of(Gains(h) \union Extra(h), gen[t])
      /\ lost' \subseteq lost \union {h} /\ (h \notin Taken \/ <<h, gen[t]>> \notin live => lost' = lost)
      /\ armed' \subseteq armed \union (IF h = "cfg80211" THEN {gen[t]} ELSE {})
      /\ pending' = IF h = "get_fw" THEN pending \union {gen[t]} ELSE pending
      /\ queued' = IF h = "crashed" THEN queued \union ({gen[t]} \intersect armed) ELSE queued
      /\ lock' = IF h \in {"probed", "unprobed", "unbound"} THEN Nobody ELSE lock
  BY DEF Does, Memory, Flags, Async, Binding
<1>3. Threads = {"core", "cb", "work"} /\ t \in {"core", "cb"}
  BY <1>1 DEF Threads, Unreset
<1>4. /\ t = "core" => h \in CoreSteps /\ Gains(h) \subseteq Base \union {"fwreq"} /\ Extra(h) = {}
      /\ t = "cb" => h \in CbSteps /\ Extra(h) \subseteq {"olmsg"} /\ Gains(h) \intersect Base = {}
                     /\ "fwreq" \notin Gains(h)
      /\ h = "get_fw" => t = "core"
  BY <1>1, <1>3, CoreTakes, CbTakes, TakesApart DEF Shaped
<1>5. \A s \in Rem(t)' : s # h /\ (h \in Ends => FALSE)
  BY <1>1 DEF Clash
<1>6. \A x \in live' : x \in live \/ (x[1] \in Gains(h) \union Extra(h) /\ x[2] = gen[t])
  BY <1>2 DEF Of
<1>7. \A r, g : <<r, g>>[1] = r /\ <<r, g>>[2] = g
  OBVIOUS
<1>8. ASSUME NEW g, Plain(g), t = "core" \/ gen[t] # g \/ h \notin SetupSet
      PROVE  Plain(g)'
  <2>1. g \notin armed'
    BY <1>2, <1>3, <1>4, <1>8, SetupArms DEF Plain
  <2>2. ASSUME NEW r \in Rings PROVE <<r, g>> \notin live'
    <3>1. CASE t = "core"
      BY <1>4, <1>6, <1>7, <1>8, <2>2, <3>1, SetupArms DEF Plain
    <3>2. CASE gen[t] # g
      BY <1>6, <1>7, <1>8, <2>2, <3>2 DEF Plain
    <3>3. CASE t = "cb" /\ h \notin SetupSet
      <4>1. Gains(h) = {} /\ Extra(h) = {}
        BY <1>4, <3>3, SetupArms
      <4> QED
        BY <1>6, <1>8, <2>2, <4>1 DEF Plain
    <3> QED
      BY <1>3, <1>8, <3>1, <3>2, <3>3
  <2> QED
    BY <2>1, <2>2 DEF Plain
<1>9. Rem("work")' = {} /\ queued' = {}
  <2>1. h = "crashed" => t = "cb"
    BY <1>3, <1>4, CoreTakes
  <2>2. h = "crashed" => gen[t] \notin armed
    BY <1>1, <2>1, SetupArms DEF Unreset
  <2> QED
    BY <1>1, <1>2, <1>3, <2>2 DEF Unreset
<1>10. lost' = {}
  BY <1>1, <1>2, <1>3 DEF Unreset
<1>11. /\ Rem("core")' # {} => lock' = "core"
       /\ "unbound" \in Rem("cb")' => lock' = "cb"
  <2>1. CASE h \in {"probed", "unprobed", "unbound"}
    <3>1. Rem(t)' = {}
      BY <1>5, <2>1 DEF Ends
    <3>2. CASE t = "core"
      BY <1>1, <1>3, <3>1, <3>2 DEF Unreset
    <3>3. CASE t = "cb"
      <4>1. h = "unbound"
        BY <1>4, <2>1, <3>3, CbTakes
      <4>2. lock = "cb"
        BY <1>1, <3>3, <4>1 DEF Unreset
      <4>3. Rem("core")' = {}
        BY <1>1, <1>3, <3>3, <4>2 DEF Unreset
      <4> QED
        BY <3>1, <3>3, <4>3
    <3> QED
      BY <1>3, <3>2, <3>3
  <2>2. CASE h \notin {"probed", "unprobed", "unbound"}
    BY <1>1, <1>2, <1>3, <2>2 DEF Unreset
  <2> QED
    BY <2>1, <2>2
<1>12. ASSUME "get_fw" \in Rem("core")'
       PROVE  gen'["core"] = probes' /\ probes' \notin pending' /\ gen'["cb"] # probes' /\ Plain(probes)'
  <2>1. "get_fw" \in Rem("core")
    BY <1>1, <1>3, <1>12
  <2>2. gen["core"] = probes /\ probes \notin pending /\ gen["cb"] # probes /\ Plain(probes)
    BY <2>1 DEF Unreset
  <2>3. h # "get_fw"
    BY <1>4, <1>5, <1>12
  <2>4. Plain(probes)'
    BY <1>2, <1>3, <1>8, <2>2 DEF Plain
  <2> QED
    BY <1>2, <2>2, <2>3, <2>4
<1>13. ASSUME NEW g \in pending'
       PROVE  Plain(g)' /\ (gen'["cb"] = g => Rem("cb")' \intersect SetupSet = {})
  <2>1. CASE g \in pending
    <3>1. Plain(g) /\ (gen["cb"] = g => Rem("cb") \intersect SetupSet = {})
      BY <2>1 DEF Unreset
    <3>2. t = "core" \/ gen[t] # g \/ h \notin SetupSet
      BY <1>1, <1>3, <3>1
    <3>3. Plain(g)'
      BY <1>8, <3>1, <3>2
    <3> QED
      BY <1>1, <1>2, <1>3, <3>1, <3>3
  <2>2. CASE g \notin pending
    <3>1. h = "get_fw" /\ t = "core" /\ g = gen["core"]
      BY <1>2, <1>4, <1>13, <2>2
    <3>2. g = probes /\ gen["cb"] # probes /\ Plain(probes)
      BY <1>1, <3>1 DEF Unreset
    <3>3. Plain(g)'
      BY <1>8, <3>1, <3>2
    <3> QED
      BY <1>2, <3>2, <3>3
  <2> QED
    BY <2>1, <2>2
<1>14. ASSUME NEW s \in Rem("core")' \intersect Taken
       PROVE  <<s, gen["core"]>> \notin live'
  <2>1. s \in Rem("core") /\ s \in CoreSteps /\ <<s, gen["core"]>> \notin live
    BY <1>1, <1>3 DEF Unreset, Shaped
  <2>2. CASE t = "core"
    <3>1. s # h /\ s \in StepNames /\ s \in Gains(s)
      BY <1>5, <2>2, TakenGains
    <3>2. s \notin Gains(h) \union Extra(h)
      BY <1>1, <1>4, <2>2, <3>1, TakesApart
    <3> QED
      BY <1>6, <1>7, <2>1, <3>2
  <2>3. CASE t = "cb"
    <3>1. s \notin Gains(h) \union Extra(h)
      <4>1. s \in Gains(s) /\ s # "olmsg"
        BY TakenGains DEF Taken
      <4>2. s \in Base \union {"fwreq"}
        BY <2>1, <4>1, CoreTakes
      <4> QED
        BY <1>4, <2>3, <4>1, <4>2
    <3> QED
      BY <1>6, <1>7, <2>1, <3>1
  <2> QED
    BY <1>3, <2>2, <2>3
<1>15. ASSUME NEW s \in Rem("cb")' \intersect Taken
       PROVE  <<s, gen["cb"]>> \notin live'
  <2>1. s \in Rem("cb") /\ s \in CbSteps /\ <<s, gen["cb"]>> \notin live /\ s \in Rings
    BY <1>1, <1>3, SetupArms DEF Unreset, Shaped
  <2>2. CASE t = "core"
    BY <1>4, <1>6, <1>7, <2>1, <2>2, SetupArms
  <2>3. CASE t = "cb"
    <3>1. s # h /\ s \in StepNames /\ s \in Gains(s) /\ s # "olmsg"
      BY <1>5, <2>3, TakenGains DEF Taken
    <3>2. s \notin Gains(h) \union Extra(h)
      BY <1>1, <1>4, <2>3, <3>1, TakesApart
    <3> QED
      BY <1>6, <1>7, <2>1, <3>2
  <2> QED
    BY <1>3, <2>2, <2>3
<1>16. ASSUME Rem("cb")' \intersect Arms # {}
       PROVE  gen["cb"] \notin armed'
  <2>1. Rem("cb") \intersect Arms # {}
    BY <1>1, <1>3, <1>16
  <2>2. gen["cb"] \notin armed
    BY <2>1 DEF Unreset
  <2>3. ASSUME t = "cb", h = "cfg80211" PROVE FALSE
    <3>1. \A s \in Rem("cb")' : s = "timer_on"
      BY <1>1, <2>3 DEF Clash
    <3>2. "timer_on" \notin Arms
      BY DEF Arms
    <3> QED
      BY <1>16, <3>1, <3>2
  <2>4. t = "core" => h # "cfg80211"
    BY <1>4, SetupArms
  <2> QED
    BY <1>2, <1>3, <2>2, <2>3, <2>4
<1> QED
  BY <1>2, <1>9, <1>10, <1>11, <1>12, <1>13, <1>14, <1>15, <1>16 DEF Unreset

LEMMA BreaksUnreset ==
  ASSUME Shaped, LifeTypes, Unreset, Stays4360, NEW t \in Threads, NEW h, NEW L, Breaks(t, h, L)
  PROVE  Unreset'
<1>1. /\ h \in Rem(t) /\ Rem(t)' = RecoverSet(t, h) /\ Recovers(t, h, L)
      /\ \A u \in Threads : u # t => Rem(u)' = Rem(u)
  BY BreaksRests
<1>2. /\ gen' = gen /\ probes' = probes /\ lost' = lost /\ armed' = armed /\ lock' = lock
      /\ pending' = pending /\ queued' = queued
      /\ \A x \in live' : x \in live \/ x[1] = "map"
  BY DEF Breaks
<1>3. Threads = {"core", "cb", "work"} /\ t \in {"core", "cb"}
  BY <1>1 DEF Threads, Unreset
<1>4. /\ t = "core" => Rem(t)' \subseteq DownSet
      /\ t = "cb" => Rem(t)' \subseteq DetachSet \union FailSetupSet
      /\ t = "cb" => h \in Arms
  <2>1. t = "core" => Rem(t)' \subseteq DownSet
    BY <1>1 DEF Recovers, RecoverSet, DownSet, FailBrcmfSet, FailProbeSet
  <2>2. t = "cb" => Rem(t)' \subseteq DetachSet \union FailSetupSet
    BY <1>1 DEF Recovers, RecoverSet
  <2>3. t = "cb" => h \in Arms
    BY <1>1 DEF Recovers, Arms, SetupSet
  <2> QED
    BY <2>1, <2>2, <2>3
<1>5. t = "cb" => \A s \in Rem(t)' : s \notin Taken /\ s # "get_fw" /\ s \notin SetupSet /\ s # "unbound"
  <2>1. \A s \in DetachSet \union FailSetupSet : s \notin Taken /\ s # "get_fw" /\ s \notin SetupSet
                                                 /\ s # "unbound"
    BY DEF DetachSet, FailSetupSet, SetupSet, Taken
  <2> QED
    BY <1>3, <1>4, <2>1
<1>6. t = "core" => \A s \in Rem(t)' : s \notin Taken /\ s # "get_fw"
  <2>1. \A s \in DownSet : s \notin Taken /\ s # "get_fw"
    BY DEF DownSet, FailBrcmfSet, FailProbeSet, RemoveSet, ShortSet, DetachSet, Taken
  <2> QED
    BY <1>4, <2>1
<1>7. \A r, g : <<r, g>>[1] = r /\ <<r, g>>[2] = g
  OBVIOUS
<1>8. "map" \notin Taken /\ "map" \notin Rings
  BY DEF Taken, Rings
<1>9. ASSUME NEW g, Plain(g) PROVE Plain(g)'
  BY <1>2, <1>7, <1>8, <1>9 DEF Plain
<1>10. /\ Rem("core")' # {} => lock' = "core"
       /\ "unbound" \in Rem("cb")' => lock' = "cb"
  <2>1. t = "core" => Rem("core") # {}
    BY <1>1
  <2> QED
    BY <1>1, <1>2, <1>3, <1>5, <2>1 DEF Unreset
<1>11. ASSUME "get_fw" \in Rem("core")'
       PROVE  gen'["core"] = probes' /\ probes' \notin pending' /\ gen'["cb"] # probes' /\ Plain(probes)'
  BY <1>1, <1>2, <1>3, <1>6, <1>9, <1>11 DEF Unreset
<1>12. ASSUME NEW g \in pending'
       PROVE  Plain(g)' /\ (gen'["cb"] = g => Rem("cb")' \intersect SetupSet = {})
  <2>1. Plain(g) /\ (gen["cb"] = g => Rem("cb") \intersect SetupSet = {})
    BY <1>2, <1>12 DEF Unreset
  <2>2. gen["cb"] = g => Rem("cb")' \intersect SetupSet = {}
    BY <1>1, <1>3, <1>5, <2>1
  <2> QED
    BY <1>2, <1>9, <2>1, <2>2
<1>13. ASSUME NEW s \in Rem("core")' \intersect Taken
       PROVE  <<s, gen["core"]>> \notin live'
  BY <1>1, <1>2, <1>3, <1>6, <1>7, <1>8, <1>13 DEF Unreset
<1>14. ASSUME NEW s \in Rem("cb")' \intersect Taken
       PROVE  <<s, gen["cb"]>> \notin live'
  BY <1>1, <1>2, <1>3, <1>5, <1>7, <1>8, <1>14 DEF Unreset
<1>15. ASSUME Rem("cb")' \intersect Arms # {}
       PROVE  gen["cb"] \notin armed'
  BY <1>1, <1>2, <1>3, <1>4, <1>15 DEF Unreset
<1>16. Rem("work")' = {} /\ queued' = {} /\ lost' = {}
  BY <1>1, <1>2, <1>3 DEF Unreset
<1> QED
  BY <1>2, <1>10, <1>11, <1>12, <1>13, <1>14, <1>15, <1>16 DEF Unreset

LEMMA EntersUnreset ==
  ASSUME Shaped, LifeTypes, Unreset, NEW g, NEW L, Enters(g, L)
  PROVE  Unreset'
<1>1. /\ Rem("core")' = Rem("core") /\ Rem("work")' = Rem("work")
      /\ Rem("cb")' \in {SetupSet, Setup4360Set, FailSetupSet}
  BY EntersRests
<1>2. /\ g \in pending /\ pending' = pending \ {g} /\ gen' = [gen EXCEPT !["cb"] = g]
      /\ lock' = lock /\ probes' = probes /\ lost' = lost /\ armed' = armed /\ queued' = queued
      /\ live' \subseteq live
  BY DEF Enters
<1>3. gen'["cb"] = g /\ gen'["core"] = gen["core"]
  BY <1>2 DEF LifeTypes, Threads
<1>4. Plain(g)
  BY <1>2 DEF Unreset
<1>5. "unbound" \notin Rem("cb")' /\ Rem("cb")' \intersect Taken \subseteq Rings
  BY <1>1 DEF SetupSet, Setup4360Set, FailSetupSet, Taken, Rings
<1>6. ASSUME NEW i, Plain(i) PROVE Plain(i)'
  BY <1>2, <1>6 DEF Plain
<1>7. "get_fw" \in Rem("core")' =>
        gen'["core"] = probes' /\ probes' \notin pending' /\ gen'["cb"] # probes' /\ Plain(probes)'
  BY <1>1, <1>2, <1>3, <1>6 DEF Unreset
<1>8. ASSUME NEW i \in pending'
      PROVE  Plain(i)' /\ (gen'["cb"] = i => Rem("cb")' \intersect SetupSet = {})
  BY <1>2, <1>3, <1>6, <1>8 DEF Unreset
<1>9. \A s \in Rem("cb")' \intersect Taken : <<s, gen'["cb"]>> \notin live'
  BY <1>2, <1>3, <1>4, <1>5 DEF Plain
<1>10. \A s \in Rem("core")' \intersect Taken : <<s, gen'["core"]>> \notin live'
  BY <1>1, <1>2, <1>3 DEF Unreset
<1>11. gen'["cb"] \notin armed'
  BY <1>2, <1>3, <1>4 DEF Plain
<1>12. Rem("work")' = {} /\ queued' = {} /\ lost' = {} /\ (Rem("core")' # {} => lock' = "core")
  BY <1>1, <1>2 DEF Unreset
<1> QED
  BY <1>5, <1>7, <1>8, <1>9, <1>10, <1>11, <1>12 DEF Unreset

LEMMA TakesAwayUnreset ==
  ASSUME Shaped, LifeTypes, Unreset, NEW t \in Threads, NEW last \in {"unbound", "reprobe"},
         TakesAway(t, last)
  PROVE  Unreset'
<1>1. /\ t = "core" => Rem(t) = {}
      /\ t = "cb" => Rem(t) = {"release_driver"} /\ last = "unbound"
      /\ t \in {"core", "cb"} /\ Rem(t)' = DownOf(drvdata, last) \union {last}
      /\ \A u \in Threads : u # t => Rem(u)' = Rem(u)
  BY TakesAwayRests
<1>2. /\ lock = Nobody /\ lock' = t /\ gen' = [gen EXCEPT ![t] = drvdata]
      /\ probes' = probes /\ lost' = lost /\ armed' = armed /\ queued' = queued /\ pending' = pending
      /\ live' \subseteq live
  BY DEF TakesAway
<1>3. Threads = {"core", "cb", "work"}
  BY DEF Threads
<1>4. \A u \in Threads : u # t => gen'[u] = gen[u]
  BY <1>2 DEF LifeTypes
<1>5. Rem("core") = {}
  BY <1>2 DEF Unreset, Nobody
<1>6. \A s \in Rem(t)' : s \notin Taken /\ s # "get_fw" /\ s \notin SetupSet /\ s \notin Arms
  <2>1. Rem(t)' \subseteq RemoveSet \union {"unbound", "reprobe"}
    BY <1>1 DEF DownOf, RemoveSet
  <2>2. \A s \in RemoveSet \union {"unbound", "reprobe"} :
          s \notin Taken /\ s # "get_fw" /\ s \notin SetupSet /\ s \notin Arms
    BY DEF RemoveSet, ShortSet, DetachSet, Taken, SetupSet, Arms
  <2> QED
    BY <2>1, <2>2
<1>7. ASSUME NEW i, Plain(i) PROVE Plain(i)'
  BY <1>2, <1>7 DEF Plain
<1>8. /\ Rem("core")' # {} => lock' = "core"
      /\ "unbound" \in Rem("cb")' => lock' = "cb"
  <2>1. Nobody # "cb"
    BY DEF Nobody
  <2> QED
    BY <1>1, <1>2, <1>3, <1>5, <2>1 DEF Unreset
<1>9. "get_fw" \notin Rem("core")'
  BY <1>1, <1>3, <1>5, <1>6
<1>10. ASSUME NEW i \in pending'
       PROVE  Plain(i)' /\ (gen'["cb"] = i => Rem("cb")' \intersect SetupSet = {})
  BY <1>1, <1>2, <1>3, <1>4, <1>6, <1>7, <1>10 DEF Unreset
<1>11. \A s \in Rem("core")' \intersect Taken : <<s, gen'["core"]>> \notin live'
  BY <1>1, <1>3, <1>5, <1>6
<1>12. ASSUME NEW s \in Rem("cb")' \intersect Taken PROVE <<s, gen'["cb"]>> \notin live'
  BY <1>1, <1>2, <1>3, <1>4, <1>6, <1>12 DEF Unreset
<1>13. Rem("cb")' \intersect Arms # {} => gen'["cb"] \notin armed'
  BY <1>1, <1>2, <1>3, <1>4, <1>6 DEF Unreset
<1>14. Rem("work")' = {} /\ queued' = {} /\ lost' = {}
  BY <1>1, <1>2, <1>3 DEF Unreset
<1> QED
  BY <1>8, <1>9, <1>10, <1>11, <1>12, <1>13, <1>14 DEF Unreset

LEMMA BuildsUnreset ==
  ASSUME Shaped, LifeTypes, Unreset, Builds
  PROVE  Unreset'
<1>1. /\ Rem("core") = {} \/ Rem("core") = {"reprobe"}
      /\ Rem("core") # {"reprobe"} => lock = Nobody /\ lock' = "core"
      /\ Rem("core") = {"reprobe"} => lock' = lock
      /\ Rem("core")' = ProbeSet
      /\ Rem("cb")' = Rem("cb") /\ Rem("work")' = Rem("work")
  BY BuildsRests
<1>2. /\ probes' = probes + 1 /\ gen' = [gen EXCEPT !["core"] = probes + 1]
      /\ live' = live /\ lost' = lost /\ pending' = pending /\ armed' = armed /\ queued' = queued
  BY DEF Builds
<1>3. gen'["core"] = probes + 1 /\ gen'["cb"] = gen["cb"]
  BY <1>2 DEF LifeTypes, Threads
<1>4. /\ probes + 1 \notin pending /\ gen["cb"] # probes + 1 /\ probes + 1 \notin armed
      /\ \A r : <<r, probes + 1>> \notin live
  <2>1. probes \in Nat /\ gen["cb"] \in 0..probes /\ pending \subseteq 0..probes /\ armed \subseteq 0..probes
        /\ live \subseteq Res \X (0..probes)
    BY DEF LifeTypes, Threads, Ever
  <2>2. probes + 1 \notin 0..probes
    BY <2>1
  <2> QED
    BY <2>1, <2>2
<1>5. ASSUME NEW i, Plain(i) PROVE Plain(i)'
  BY <1>2, <1>5 DEF Plain
<1>6. Plain(probes)'
  BY <1>2, <1>4 DEF Plain
<1>7. gen'["core"] = probes' /\ probes' \notin pending' /\ gen'["cb"] # probes' /\ Plain(probes)'
  BY <1>2, <1>3, <1>4, <1>6
<1>8. lock' = "core" /\ ~("unbound" \in Rem("cb")')
  BY <1>1 DEF Unreset, Nobody
<1>9. \A i \in pending' : Plain(i)' /\ (gen'["cb"] = i => Rem("cb")' \intersect SetupSet = {})
  BY <1>1, <1>2, <1>3, <1>5 DEF Unreset
<1>10. \A s \in Rem("core")' \intersect Taken : <<s, gen'["core"]>> \notin live'
  BY <1>2, <1>3, <1>4
<1>11. /\ \A s \in Rem("cb")' \intersect Taken : <<s, gen'["cb"]>> \notin live'
       /\ Rem("cb")' \intersect Arms # {} => gen'["cb"] \notin armed'
       /\ Rem("work")' = {} /\ queued' = {} /\ lost' = {}
  BY <1>1, <1>2, <1>3 DEF Unreset
<1> QED
  BY <1>7, <1>8, <1>9, <1>10, <1>11 DEF Unreset

LEMMA QuietUnreset ==
  ASSUME Unreset, Stays4360, Quiet, NoReset', setting' = setting
  PROVE  Unreset'
<1>1. \A t \in Threads : Rem(t)' = Rem(t)
  BY QuietRests
<1>2. Rem("core")' = Rem("core") /\ Rem("cb")' = Rem("cb") /\ Rem("work")' = Rem("work")
  BY <1>1 DEF Threads
<1>3. /\ gen' = gen /\ lock' = lock /\ probes' = probes /\ live' = live /\ lost' = lost
      /\ armed' = armed /\ pending' = pending
  BY DEF Quiet
<1>4. queued' = {}
  <2>1. \A g \in queued' : g \in queued \/ (g \in armed /\ "crash" \in happened')
    BY DEF Quiet
  <2>2. "crash" \in happened' => armed = {}
    BY DEF NoReset, Stays4360, Is4360
  <2> QED
    BY <2>1, <2>2 DEF Unreset
<1> QED
  BY <1>2, <1>3, <1>4 DEF Unreset, Plain

LEMMA UnresetNext ==
  ASSUME Shaped, LifeTypes, Stays4360, Kinds, setting' = setting, NoReset => Unreset, NoReset'
  PROVE  Unreset'
<1>1. happened \subseteq happened'
  BY DEF Kinds, Moves, Does, Breaks, Enters, TakesAway, Builds, Resets, Quiet
<1>2. NoReset
  BY <1>1 DEF NoReset, Is4360
<1>3. ASSUME NEW g, Resets(g) PROVE FALSE
  BY <1>2, <1>3 DEF Resets, Unreset
<1> QED
  BY <1>2, <1>3, DoesUnreset, BreaksUnreset, EntersUnreset, TakesAwayUnreset, BuildsUnreset, QuietUnreset
     DEF Kinds, Moves
-----------------------------------------------------------------------------
(***************************************************************************)
(* As long as no step fails, "core" finds what it needs, whatever overlaps *)
(* and however often the device is reset.                                  *)
(***************************************************************************)
Smooth == "failure" \notin happened

\* what thread t still needs exists, or is taken on the way
Stocked(t) ==
  \A s \in Rem(t) : \A r \in Needs(s) :
    <<r, gen[t]>> \in live \/ \E s2 \in Rem(t) : r \in Gains(s2)

\* no list is that of a failure, and a probe only builds
Unfailed ==
  /\ Rem("cb") \subseteq SetupSet /\ "unprobed" \notin Rem("core")
  /\ "probed" \in Rem("core") => Rem("core") \subseteq ProbeSet

\* a bound device that "core" leaves alone is whole, and one that is probed gets so
Stands ==
  /\ bound /\ Rem("core") = {} => drvdata # 0 /\ Has(drvdata, Base)
  /\ "probed" \in Rem("core") =>
       /\ gen["core"] # 0
       /\ drvdata = gen["core"] \/ "set_drvdata" \in Rem("core")
       /\ \A r \in Base : <<r, gen["core"]>> \in live \/ \E s \in Rem("core") : r \in Gains(s)

SmoothInv == Unfailed /\ Stocked("core") /\ Stands

LEMMA NeedsOfLists ==
  /\ \A s \in CoreSteps : Needs(s) \subseteq Base
  /\ \A s \in RemoveSet \union {"unbound", "reprobe"} : Needs(s) \subseteq {"devinfo", "map", "bus", "busdev"}
  /\ \A s \in SetupSet \union ResetSet : Gives(s) \intersect Base = {}
  /\ \A s \in ProbeSet : Gives(s) = {}
  /\ \A s \in StepNames : Needs(s) \intersect Gains(s) = {}
<1>1. \A s \in CoreSteps : Needs(s) \subseteq Base
  BY DEF CoreSteps, ProbeSet, DownSet, FailBrcmfSet, FailProbeSet, RemoveSet, ShortSet, DetachSet, Needs, Base
<1>2. \A s \in RemoveSet \union {"unbound", "reprobe"} : Needs(s) \subseteq {"devinfo", "map", "bus", "busdev"}
  BY DEF RemoveSet, ShortSet, DetachSet, Needs
<1>3. \A s \in SetupSet \union ResetSet : Gives(s) \intersect Base = {}
  BY DEF SetupSet, ResetSet, DetachSet, Gives, Frees, Scratch, Base
<1>4. \A s \in ProbeSet : Gives(s) = {}
  BY DEF ProbeSet, Gives, Frees
<1>5. \A s \in StepNames : Needs(s) \intersect Gains(s) = {}
  BY DEF Needs, Gains, Taken, Scratch
<1> QED
  BY <1>1, <1>2, <1>3, <1>4, <1>5

LEMMA ProbeTakesAll ==
  /\ \A r \in Base \union {"fwreq"} : \E s \in ProbeSet : r \in Gains(s)
  /\ ProbeSet \subseteq CoreSteps
<1>1. /\ "devinfo" \in Gains("devinfo") /\ "map" \in Gains("chip_attach") /\ "ci" \in Gains("chip_attach")
      /\ "busdev" \in Gains("busdev") /\ "settings" \in Gains("settings") /\ "bus" \in Gains("bus")
      /\ "drvr" \in Gains("drvr") /\ "fwreq" \in Gains("fwreq")
  BY DEF Gains, Taken, Scratch
<1>2. {"devinfo", "chip_attach", "busdev", "settings", "bus", "drvr", "fwreq"} \subseteq ProbeSet
  BY DEF ProbeSet
<1> QED
  BY <1>1, <1>2 DEF Base, CoreSteps

\* what exists after a step of a list
LEMMA DoesMemory ==
  ASSUME NEW t \in Threads, NEW h, Does(t, h)
  PROVE  /\ \A r, g : <<r, g>> \in live /\ (g # gen[t] \/ r \notin Gives(h)) => <<r, g>> \in live'
         /\ \A r \in Gains(h) : <<r, gen[t]>> \in live'
         /\ gen' = gen /\ probes' = probes
<1>1. /\ (live \ Of(Gives(h), gen[t])) \union Of(Gains(h), gen[t]) \subseteq live'
      /\ gen' = gen /\ probes' = probes
  BY DEF Does, Memory
<1>2. \A r, g : <<r, g>> \in Of(Gives(h), gen[t]) => g = gen[t] /\ r \in Gives(h)
  BY DEF Of
<1>3. \A r \in Gains(h) : <<r, gen[t]>> \in Of(Gains(h), gen[t])
  BY DEF Of
<1> QED
  BY <1>1, <1>2, <1>3

\* what is stocked stays so, and suffices for the step that comes
LEMMA DoesStocked ==
  ASSUME Shaped, LifeTypes, NEW t \in Threads, NEW h, Does(t, h), Stocked(t)
  PROVE  Stocked(t)'
<1>1. /\ h \in Rem(t) /\ Rem(t)' = Rem(t) \ {h} /\ \A s \in Rem(t)' : ~Clash(h, s)
  BY DoesRests
<1>2. ASSUME NEW s \in Rem(t)', NEW r \in Needs(s)
      PROVE  <<r, gen[t]>> \in live' \/ \E s2 \in Rem(t)' : r \in Gains(s2)
  <2>1. s \in Rem(t) /\ r \notin Gives(h)
    BY <1>1, <1>2 DEF Clash
  <2>2. CASE <<r, gen[t]>> \in live
    BY <2>1, <2>2, DoesMemory
  <2>3. ASSUME NEW s2 \in Rem(t), r \in Gains(s2)
        PROVE  <<r, gen[t]>> \in live' \/ \E s3 \in Rem(t)' : r \in Gains(s3)
    <3>1. CASE s2 = h
      BY <2>3, <3>1, DoesMemory
    <3>2. CASE s2 # h
      BY <1>1, <2>3, <3>2
    <3> QED
      BY <3>1, <3>2
  <2> QED
    BY <2>1, <2>2, <2>3 DEF Stocked
<1>3. gen' = gen
  BY DoesMemory
<1> QED
  BY <1>2, <1>3 DEF Stocked

LEMMA StockedIsSound ==
  ASSUME Shaped, NEW t \in Threads, todo[t] # <<>>, Stocked(t)
  PROVE  Sound(t)
<1> DEFINE h == Head(todo[t])
<1>1. Plan(todo[t])
  BY DEF Shaped
<1>2. /\ Rem(t) = {h} \union Remaining(Tail(todo[t]))
      /\ \A s \in Remaining(Tail(todo[t])) : ~Clash(h, s)
      /\ h \in StepNames
  BY <1>1, TailPlan DEF Rem, Plan
<1> HIDE DEF h
<1>3. ASSUME NEW r \in Needs(h) PROVE <<r, gen[t]>> \in live
  <2>1. ASSUME NEW s2 \in Rem(t), r \in Gains(s2) PROVE FALSE
    <3>1. CASE s2 = h
      BY <1>2, <1>3, <2>1, <3>1, NeedsOfLists
    <3>2. CASE s2 # h
      BY <1>2, <1>3, <2>1, <3>2 DEF Clash
    <3> QED
      BY <3>1, <3>2
  <2> QED
    BY <1>2, <1>3, <2>1 DEF Stocked
<1> QED
  BY <1>3 DEF Sound, Has, h

LEMMA DoesSmooth ==
  ASSUME Shaped, LifeTypes, SmoothInv, NEW t \in Threads, NEW h, Does(t, h)
  PROVE  SmoothInv'
<1>1. /\ h \in Rem(t) /\ Rem(t)' = Rem(t) \ {h} /\ h \in StepNames
      /\ \A u \in Threads : u # t => Rem(u)' = Rem(u)
      /\ \A s \in Rem(t)' : ~Clash(h, s)
  BY DoesRests
<1>2. /\ gen' = gen /\ probes' = probes /\ h # "reprobe"
      /\ bound' = IF h = "probed" THEN TRUE ELSE IF h = "unbound" THEN FALSE ELSE bound
      /\ drvdata' = IF h = "set_drvdata" THEN gen[t]
                    ELSE IF h = "clear_drvdata" \/ (h = "unprobed" /\ ~bound) THEN 0
                    ELSE drvdata
  BY DEF Does, Binding
<1>3. Threads = {"core", "cb", "work"}
  BY DEF Threads
<1>4. ASSUME t # "core" PROVE SmoothInv'
  <2>1. h \in SetupSet \union ResetSet
    BY <1>1, <1>3, <1>4 DEF SmoothInv, Unfailed, Shaped
  <2>2. h \notin {"probed", "unbound", "set_drvdata", "clear_drvdata", "unprobed"}
    BY <2>1 DEF SetupSet, ResetSet, DetachSet
  <2>3. \A r, g : r \in Base /\ <<r, g>> \in live => <<r, g>> \in live'
    BY <2>1, DoesMemory, NeedsOfLists
  <2>4. Rem("core")' = Rem("core") /\ Rem("cb")' \subseteq Rem("cb")
    BY <1>1, <1>3, <1>4
  <2>5. Unfailed'
    BY <2>4 DEF SmoothInv, Unfailed
  <2>6. Stocked("core")'
    <3>1. ASSUME NEW s \in Rem("core"), NEW r \in Needs(s)
          PROVE  <<r, gen["core"]>> \in live' \/ \E s2 \in Rem("core") : r \in Gains(s2)
      <4>1. r \in Base
        BY NeedsOfLists DEF Shaped
      <4> QED
        BY <2>3, <4>1 DEF SmoothInv, Stocked
    <3> QED
      BY <1>2, <2>4, <3>1 DEF Stocked
  <2>7. Stands'
    BY <1>2, <2>2, <2>3, <2>4 DEF SmoothInv, Stands, Has
  <2> QED
    BY <2>5, <2>6, <2>7 DEF SmoothInv
<1>5. ASSUME t = "core" PROVE SmoothInv'
  <2>1. Rem("core")' = Rem("core") \ {h} /\ Rem("cb")' = Rem("cb") /\ Rem("work")' = Rem("work")
    BY <1>1, <1>3, <1>5
  <2>2. Unfailed'
    BY <2>1 DEF SmoothInv, Unfailed
  <2>3. Stocked("core")'
    BY <1>5, DoesStocked DEF SmoothInv
  <2>4. h \in {"probed", "unbound"} \/ Rem("core")' # {}
    <3>1. Rem("core") \intersect CoreEnds # {} /\ "unprobed" \notin Rem("core")
      BY <1>1, <1>5 DEF Shaped, SmoothInv, Unfailed
    <3> QED
      BY <1>1, <1>2, <1>5, <3>1 DEF CoreEnds, Closes
  <2>5. ASSUME "probed" \in Rem("core")
        PROVE  /\ gen["core"] # 0
               /\ drvdata' = gen["core"] \/ "set_drvdata" \in Rem("core")'
               /\ \A r \in Base : <<r, gen["core"]>> \in live' \/ \E s \in Rem("core")' : r \in Gains(s)
    <3>1. h \in ProbeSet /\ Gives(h) = {} /\ h # "clear_drvdata" /\ h # "unprobed"
      <4>1. h \in ProbeSet
        BY <1>1, <1>5, <2>5 DEF SmoothInv, Unfailed
      <4>2. "clear_drvdata" \notin ProbeSet /\ "unprobed" \notin ProbeSet
        BY DEF ProbeSet
      <4> QED
        BY <4>1, <4>2, NeedsOfLists
    <3>2. drvdata' = gen["core"] \/ "set_drvdata" \in Rem("core")'
      BY <1>2, <1>5, <2>1, <2>5, <3>1 DEF SmoothInv, Stands
    <3>3. ASSUME NEW r \in Base
          PROVE  <<r, gen["core"]>> \in live' \/ \E s \in Rem("core")' : r \in Gains(s)
      <4>1. CASE <<r, gen["core"]>> \in live
        BY <3>1, <4>1, DoesMemory
      <4>2. ASSUME NEW s \in Rem("core"), r \in Gains(s)
            PROVE  <<r, gen["core"]>> \in live' \/ \E s2 \in Rem("core")' : r \in Gains(s2)
        <5>1. CASE s = h
          BY <1>5, <4>2, <5>1, DoesMemory
        <5>2. CASE s # h
          BY <2>1, <4>2, <5>2
        <5> QED
          BY <5>1, <5>2
      <4> QED
        BY <2>5, <4>1, <4>2 DEF SmoothInv, Stands
    <3> QED
      BY <2>5, <3>2, <3>3 DEF SmoothInv, Stands
  <2>6. ASSUME bound', Rem("core")' = {}
        PROVE  drvdata' # 0 /\ Has(drvdata, Base)'
    <3>1. h = "probed"
      BY <1>2, <2>4, <2>6
    <3>2. drvdata' = gen["core"] /\ gen["core"] # 0 /\ \A r \in Base : <<r, gen["core"]>> \in live'
      BY <1>1, <1>5, <2>5, <2>6, <3>1
    <3> QED
      BY <3>2 DEF Has
  <2>7. Stands'
    BY <1>2, <2>1, <2>5, <2>6 DEF Stands
  <2> QED
    BY <2>2, <2>3, <2>7 DEF SmoothInv
<1> QED
  BY <1>4, <1>5

LEMMA EntersSmooth ==
  ASSUME Shaped, LifeTypes, SmoothInv, NEW g, NEW L, Enters(g, L), Smooth'
  PROVE  /\ SmoothInv' /\ Rem("cb")' \in {SetupSet, Setup4360Set} /\ live' = live
         /\ ~Is4360 => Rem("cb")' = SetupSet
<1>1. L = FailSetup => "failure" \in happened' \/ L = Tail(IF Is4360 THEN SetupSteps4360 ELSE SetupSteps)
  BY DEF Enters
<1>2. Tail(IF Is4360 THEN SetupSteps4360 ELSE SetupSteps) # FailSetup
  <2>1. Remaining(Tail(IF Is4360 THEN SetupSteps4360 ELSE SetupSteps)) \in {SetupSet, Setup4360Set}
    BY SetupPlan, Setup4360Plan
  <2>2. "console" \in FailSetupSet /\ "console" \notin SetupSet /\ "console" \notin Setup4360Set
    BY DEF FailSetupSet, SetupSet, Setup4360Set
  <2> QED
    BY <2>1, <2>2, FailSetupPlan
<1>3. L # FailSetup
  BY <1>1, <1>2 DEF Smooth
<1>4. /\ Rem("cb")' \in {SetupSet, Setup4360Set} /\ Rem("core")' = Rem("core")
  BY <1>3, EntersRests
<1>5. live' = live /\ bound' = bound /\ drvdata' = drvdata /\ gen'["core"] = gen["core"]
  BY <1>3 DEF Enters, LifeTypes, Threads
<1>6. Setup4360Set \subseteq SetupSet
  BY DEF Setup4360Set, SetupSet
<1>7. Unfailed' /\ Stocked("core")' /\ Stands'
  BY <1>4, <1>5, <1>6 DEF SmoothInv, Unfailed, Stocked, Stands, Has
<1>8. ~Is4360 => Rem("cb")' = SetupSet
  <2>1. ASSUME ~Is4360 PROVE L = Tail(SetupSteps)
    BY <1>3, <2>1 DEF Enters
  <2>2. todo'["cb"] = L
    BY DEF Enters, LifeTypes, Threads
  <2> QED
    BY <2>1, <2>2, SetupPlan DEF Rem
<1> QED
  BY <1>4, <1>5, <1>7, <1>8 DEF SmoothInv

LEMMA TakesAwaySmooth ==
  ASSUME Shaped, LifeTypes, SmoothInv, NEW t \in Threads, NEW last \in {"unbound", "reprobe"},
         TakesAway(t, last)
  PROVE  /\ SmoothInv' /\ t = "core" /\ Rem("core") = {} /\ bound
         /\ Rem("core")' = DownOf(drvdata, last) \union {last}
         /\ "probed" \notin Rem("core")' /\ Rem("core")' # {} /\ gen'["core"] = drvdata /\ drvdata # 0
         /\ \A r \in Base \ {"ci"} : <<r, drvdata>> \in live'
<1>1. /\ t = "core" => Rem(t) = {}
      /\ t = "cb" => Rem(t) = {"release_driver"}
      /\ t \in {"core", "cb"} /\ Rem(t)' = DownOf(drvdata, last) \union {last}
      /\ \A u \in Threads : u # t => Rem(u)' = Rem(u)
  BY TakesAwayRests
<1>2. t = "core"
  <2>1. "release_driver" \notin SetupSet
    BY DEF SetupSet
  <2> QED
    BY <1>1, <2>1 DEF SmoothInv, Unfailed
<1>3. /\ bound /\ bound' = bound /\ drvdata' = drvdata /\ gen' = [gen EXCEPT ![t] = drvdata]
      /\ live \ {<<"ci", drvdata>>} \subseteq live'
  BY DEF TakesAway
<1>4. Rem("cb")' = Rem("cb") /\ gen'["core"] = drvdata
  BY <1>1, <1>2, <1>3 DEF LifeTypes, Threads
<1>5. Rem("core")' \subseteq RemoveSet \union {"unbound", "reprobe"} /\ Rem("core")' # {}
  BY <1>1, <1>2 DEF DownOf, RemoveSet
<1>6. "unprobed" \notin RemoveSet \union {"unbound", "reprobe"}
      /\ "probed" \notin RemoveSet \union {"unbound", "reprobe"}
  BY DEF RemoveSet, ShortSet, DetachSet
<1>7. drvdata # 0 /\ \A r \in Base : <<r, drvdata>> \in live
  BY <1>1, <1>2, <1>3 DEF SmoothInv, Stands, Has
<1>8. \A r \in Base \ {"ci"} : <<r, drvdata>> \in live'
  <2>1. ASSUME NEW r \in Base \ {"ci"} PROVE <<r, drvdata>> # <<"ci", drvdata>>
    OBVIOUS
  <2> QED
    BY <1>3, <1>7, <2>1
<1>9. Unfailed'
  BY <1>4, <1>5, <1>6 DEF SmoothInv, Unfailed
<1>10. Stocked("core")'
  <2>1. ASSUME NEW s \in Rem("core")', NEW r \in Needs(s) PROVE <<r, gen'["core"]>> \in live'
    <3>1. r \in {"devinfo", "map", "bus", "busdev"}
      BY <1>5, <2>1, NeedsOfLists
    <3> QED
      BY <1>4, <1>8, <3>1 DEF Base
  <2> QED
    BY <2>1 DEF Stocked
<1>11. Stands'
  BY <1>5, <1>6 DEF Stands
<1> QED
  BY <1>1, <1>2, <1>3, <1>4, <1>5, <1>6, <1>7, <1>8, <1>9, <1>10, <1>11 DEF SmoothInv

LEMMA BuildsSmooth ==
  ASSUME Shaped, LifeTypes, SmoothInv, Builds
  PROVE  SmoothInv'
<1>1. Rem("core")' = ProbeSet /\ Rem("cb")' = Rem("cb")
  BY BuildsRests
<1>2. gen' = [gen EXCEPT !["core"] = probes + 1]
  BY DEF Builds
<1>3. gen'["core"] # 0
  <2>1. probes + 1 # 0
    BY DEF LifeTypes
  <2> QED
    BY <1>2, <2>1 DEF LifeTypes, Threads
<1>4. "probed" \in ProbeSet /\ "set_drvdata" \in ProbeSet /\ "unprobed" \notin ProbeSet
  BY DEF ProbeSet
<1>5. Unfailed'
  BY <1>1, <1>4 DEF SmoothInv, Unfailed
<1>6. \A r \in Base : \E s \in Rem("core")' : r \in Gains(s)
  BY <1>1, ProbeTakesAll
<1>7. Stocked("core")'
  <2>1. ASSUME NEW s \in Rem("core")', NEW r \in Needs(s) PROVE r \in Base
    BY <1>1, <2>1, ProbeTakesAll, NeedsOfLists
  <2> QED
    BY <1>6, <2>1 DEF Stocked
<1>8. Stands'
  BY <1>1, <1>3, <1>4, <1>6 DEF Stands
<1> QED
  BY <1>5, <1>7, <1>8 DEF SmoothInv

LEMMA ResetsSmooth ==
  ASSUME Shaped, LifeTypes, SmoothInv, NEW g, Resets(g)
  PROVE  SmoothInv'
<1>1. Rem("core")' = Rem("core") /\ Rem("cb")' = Rem("cb")
  BY ResetsRests
<1>2. bound' = bound /\ drvdata' = drvdata /\ live' = live /\ gen'["core"] = gen["core"]
  BY DEF Resets, LifeTypes, Threads
<1> QED
  BY <1>1, <1>2 DEF SmoothInv, Unfailed, Stocked, Stands, Has

LEMMA QuietSmooth ==
  ASSUME SmoothInv, Quiet
  PROVE  SmoothInv'
<1>1. Rem("core")' = Rem("core") /\ Rem("cb")' = Rem("cb")
  BY QuietRests DEF Threads
<1>2. bound' = bound /\ drvdata' = drvdata /\ live' = live /\ gen' = gen
  BY DEF Quiet
<1> QED
  BY <1>1, <1>2 DEF SmoothInv, Unfailed, Stocked, Stands, Has

LEMMA SmoothNext ==
  ASSUME Shaped, LifeTypes, Kinds, Smooth => SmoothInv, Smooth'
  PROVE  Smooth /\ SmoothInv'
<1>1. happened \subseteq happened'
  BY DEF Kinds, Moves, Does, Breaks, Enters, TakesAway, Builds, Resets, Quiet
<1>2. Smooth
  BY <1>1 DEF Smooth
<1>3. ASSUME NEW t, NEW h, NEW L, Breaks(t, h, L) PROVE FALSE
  BY <1>3 DEF Breaks, Smooth
<1> QED
  BY <1>2, <1>3, DoesSmooth, EntersSmooth, TakesAwaySmooth, BuildsSmooth, ResetsSmooth, QuietSmooth
     DEF Kinds, Moves
-----------------------------------------------------------------------------
(***************************************************************************)
(* Without a reset and without a failure, a removal frees nothing twice.   *)
(***************************************************************************)
Intact(g) == \A s \in Scratch : <<s, g>> \notin dangling

Undangled ==
  /\ bound /\ Rem("core") = {} => Intact(drvdata)
  /\ Rem("core") \intersect {"probed", "rel_scratch"} # {} => Intact(gen["core"])

LEMMA DoesUndangled ==
  ASSUME Shaped, LifeTypes, Unreset, SmoothInv, Undangled, NEW t \in Threads, NEW h, Does(t, h)
  PROVE  Undangled'
<1>1. /\ h \in Rem(t) /\ Rem(t)' = Rem(t) \ {h}
      /\ \A u \in Threads : u # t => Rem(u)' = Rem(u)
      /\ \A s \in Rem(t)' : ~Clash(h, s)
  BY DoesRests
<1>2. /\ gen' = gen /\ h # "reprobe"
      /\ bound' = IF h = "probed" THEN TRUE ELSE IF h = "unbound" THEN FALSE ELSE bound
      /\ drvdata' = IF h = "set_drvdata" THEN gen[t]
                    ELSE IF h = "clear_drvdata" \/ (h = "unprobed" /\ ~bound) THEN 0
                    ELSE drvdata
      /\ h # "rel_scratch" => dangling' \subseteq dangling
  BY DEF Does, Binding, Memory
<1>3. t \in {"core", "cb"} /\ "core" \in Threads
  BY <1>1 DEF Threads, Unreset
<1>4. ASSUME t = "cb" PROVE Undangled'
  <2>1. h \in SetupSet
    BY <1>1, <1>4 DEF SmoothInv, Unfailed
  <2>2. h \notin {"probed", "unbound", "set_drvdata", "clear_drvdata", "unprobed", "rel_scratch"}
    BY <2>1 DEF SetupSet
  <2>3. Rem("core")' = Rem("core")
    BY <1>1, <1>3, <1>4
  <2> QED
    BY <1>2, <2>2, <2>3 DEF Undangled, Intact
<1>5. ASSUME t = "core" PROVE Undangled'
  <2>1. h \in {"probed", "unbound"} \/ Rem("core")' # {}
    <3>1. Rem("core") \intersect CoreEnds # {} /\ "unprobed" \notin Rem("core")
      BY <1>1, <1>5 DEF Shaped, SmoothInv, Unfailed
    <3> QED
      BY <1>1, <1>2, <1>5, <3>1 DEF CoreEnds, Closes
  <2>2. ASSUME bound', Rem("core")' = {} PROVE Intact(drvdata)'
    <3>1. h = "probed"
      BY <1>2, <2>1, <2>2
    <3>2. Intact(gen["core"]) /\ drvdata' = gen["core"] /\ dangling' \subseteq dangling
      <4>1. Rem("core") = {"probed"}
        BY <1>1, <1>5, <2>2, <3>1
      <4>2. drvdata = gen["core"]
        BY <4>1 DEF SmoothInv, Stands
      <4> QED
        BY <1>2, <3>1, <4>1, <4>2 DEF Undangled
    <3> QED
      BY <3>2 DEF Intact
  <2>3. ASSUME Rem("core")' \intersect {"probed", "rel_scratch"} # {} PROVE Intact(gen["core"])'
    <3>1. Intact(gen["core"])
      BY <1>1, <1>5, <2>3 DEF Undangled
    <3>2. h # "rel_scratch"
      <4>1. ASSUME h = "rel_scratch" PROVE FALSE
        <5>1. "rel_scratch" \notin Rem("core")'
          BY <1>1, <1>5, <4>1
        <5>2. "probed" \in Rem("core")
          BY <1>1, <1>5, <2>3, <5>1
        <5>3. "rel_scratch" \in ProbeSet
          BY <1>1, <1>5, <4>1, <5>2 DEF SmoothInv, Unfailed
        <5> QED
          BY <5>3 DEF ProbeSet
      <4> QED
        BY <4>1
    <3> QED
      BY <1>2, <3>1, <3>2 DEF Intact
  <2> QED
    BY <2>2, <2>3 DEF Undangled
<1> QED
  BY <1>3, <1>4, <1>5

LEMMA UndangledNext ==
  ASSUME Shaped, LifeTypes, Unreset, Smooth => SmoothInv, Kinds, Smooth => Undangled, Smooth'
  PROVE  Undangled'
<1>1. Smooth /\ SmoothInv /\ Undangled
  BY SmoothNext
<1>2. ASSUME NEW t \in Threads, Does(t, Head(todo[t])) PROVE Undangled'
  BY <1>1, <1>2, DoesUndangled
<1>3. ASSUME NEW t, NEW h, NEW L, Breaks(t, h, L) PROVE FALSE
  BY <1>3 DEF Breaks, Smooth
<1>4. ASSUME NEW g, NEW L, Enters(g, L) PROVE Undangled'
  <2>1. Rem("core")' = Rem("core")
    BY <1>4, EntersRests
  <2>2. dangling' = dangling /\ bound' = bound /\ drvdata' = drvdata /\ gen'["core"] = gen["core"]
    BY <1>4 DEF Enters, LifeTypes, Threads
  <2> QED
    BY <1>1, <2>1, <2>2 DEF Undangled, Intact
<1>5. ASSUME NEW t \in Threads, NEW last \in {"unbound", "reprobe"}, TakesAway(t, last) PROVE Undangled'
  <2>1. /\ t = "core" /\ Rem("core") = {} /\ bound /\ Rem("core")' # {} /\ gen'["core"] = drvdata
    BY <1>1, <1>5, TakesAwaySmooth
  <2>2. dangling' = dangling
    BY <1>5 DEF TakesAway
  <2> QED
    BY <1>1, <2>1, <2>2 DEF Undangled, Intact
<1>6. ASSUME Builds PROVE Undangled'
  <2>1. Rem("core")' = ProbeSet /\ ProbeSet # {}
    BY <1>6, BuildsRests DEF ProbeSet
  <2>2. dangling' = dangling /\ gen' = [gen EXCEPT !["core"] = probes + 1]
    BY <1>6 DEF Builds
  <2>3. gen'["core"] = probes + 1
    BY <2>2 DEF LifeTypes, Threads
  <2>4. \A s : <<s, probes + 1>> \notin dangling
    <3>1. probes \in Nat /\ dangling \subseteq Res \X (0..probes)
      BY DEF LifeTypes, Ever
    <3>2. probes + 1 \notin 0..probes
      BY <3>1
    <3> QED
      BY <3>1, <3>2
  <2> QED
    BY <2>1, <2>2, <2>3, <2>4 DEF Undangled, Intact
<1>7. ASSUME NEW g, Resets(g) PROVE FALSE
  BY <1>7 DEF Resets, Unreset
<1>8. ASSUME Quiet PROVE Undangled'
  <2>1. Rem("core")' = Rem("core")
    BY <1>8, QuietRests DEF Threads
  <2>2. dangling' = dangling /\ bound' = bound /\ drvdata' = drvdata /\ gen' = gen
    BY <1>8 DEF Quiet
  <2> QED
    BY <1>1, <2>1, <2>2 DEF Undangled, Intact
<1> QED
  BY <1>2, <1>3, <1>4, <1>5, <1>6, <1>7, <1>8 DEF Kinds, Moves

\* "core" touches nothing that is gone, but for a suspend.
LEMMA CoreHalts ==
  ASSUME Shaped, LifeTypes, Unreset, SmoothInv, Undangled, Halts, fault'[1] = "core"
  PROVE  fault'[2] = "enter_D3"
<1>1. ASSUME Faulty PROVE FALSE
  <2>1. \A a, b : <<a, b>>[1] = a
    OBVIOUS
  <2>2. "core" \in Threads /\ "core" # "cb"
    BY DEF Threads
  <2>3. ASSUME todo["core"] # <<>> PROVE Sound("core")
    BY <2>2, <2>3, StockedIsSound DEF SmoothInv
  <2>4. ASSUME todo["core"] # <<>> PROVE Head(todo["core"]) \in Rem("core")
    BY <2>2, <2>4, TailPlan DEF Shaped, Rem
  <2>5. ASSUME At("core", "rel_scratch") PROVE Of(Scratch, gen["core"]) \intersect dangling = {}
    BY <2>4, <2>5 DEF At, Undangled, Intact, Of
  <2>6. ASSUME At("core", "get_fw")
        PROVE  gen["core"] \notin pending /\ gen["cb"] # gen["core"]
    BY <2>4, <2>6 DEF At, Unreset
  <2>7. ASSUME NEW t \in Threads, t # "core", NEW s, fault' = <<t, s>> PROVE FALSE
    BY <2>1, <2>7
  <2>8. ASSUME NEW t \in Threads,
               \/ todo[t] # <<>> /\ ~Sound(t) /\ fault' = <<t, Head(todo[t])>>
               \/ /\ At(t, "rel_scratch") /\ Of(Scratch, gen[t]) \intersect dangling # {}
                  /\ fault' = <<t, "rel_scratch">>
               \/ /\ t # "cb" /\ At(t, "get_fw")
                  /\ gen[t] \in pending \/ (todo["cb"] # <<>> /\ gen["cb"] = gen[t])
                  /\ fault' = <<t, "get_fw">>
        PROVE  FALSE
    <3>1. CASE t = "core"
      BY <2>3, <2>5, <2>6, <2>8, <3>1
    <3>2. CASE t # "core"
      BY <2>1, <2>8, <3>2
    <3> QED
      BY <3>1, <3>2
  <2>9. ASSUME NEW s, fault' = <<"cb", s>> PROVE FALSE
    BY <2>1, <2>9
  <2> QED
    BY <1>1, <2>8, <2>9 DEF Faulty
<1>2. ASSUME bound, todo["core"] = <<>>, drvdata # 0, ~Has(drvdata, {"bus", "busdev", "devinfo"})
      PROVE  FALSE
  <2>1. Rem("core") = {}
    BY <1>2, EmptyPlan DEF Rem
  <2> QED
    BY <1>2, <2>1 DEF SmoothInv, Stands, Has, Base
<1>3. CASE fault' = <<"core", "enter_D3">>
  BY <1>3
<1>4. ASSUME NEW s, fault' \in {<<"work", s>>, <<"isr", s>>, <<"timer", s>>} PROVE FALSE
  BY <1>4
<1> QED
  BY <1>1, <1>2, <1>3, <1>4 DEF Halts

LEMMA RemoverNext ==
  ASSUME Shaped, LifeTypes, NoReset => Unreset, Smooth => SmoothInv, NoReset /\ Smooth => Undangled,
         RemoverIsSafe, [Next]_vars
  PROVE  RemoverIsSafe'
<1> SUFFICES ASSUME fault'[1] = "core", Smooth', NoReset' PROVE fault'[2] = "enter_D3"
  BY DEF RemoverIsSafe, Smooth
<1>1. (Moves \/ Beside \/ (Halts /\ fault = NoFault)) /\ setting' = setting
  BY StepCases
<1>2. happened \subseteq happened'
  BY <1>1 DEF Moves, Does, Breaks, Enters, TakesAway, Builds, Resets, Beside, Halts
<1>3. Smooth /\ NoReset
  BY <1>1, <1>2 DEF Smooth, NoReset, Is4360
<1>4. CASE Moves \/ Beside
  <2>1. fault' = fault
    BY <1>4 DEF Moves, Does, Breaks, Enters, TakesAway, Builds, Resets, Beside
  <2> QED
    BY <1>3, <2>1 DEF RemoverIsSafe, Smooth
<1>5. CASE Halts
  BY <1>3, <1>5, CoreHalts
<1> QED
  BY <1>1, <1>4, <1>5
-----------------------------------------------------------------------------
(***************************************************************************)
(* As long as no step fails and nothing overlaps, nothing finds what it    *)
(* needs gone.                                                             *)
(***************************************************************************)
\* a device that stands, or is being probed
Upright == (bound /\ Rem("core") = {}) \/ "probed" \in Rem("core")

\* a device that stands has its wait queue, its setup is to come or under way; and a
\* request for the firmware is there when it is sent and when it is answered
Waits ==
  /\ Upright /\ "get_fw" \notin Rem("core") /\ ~Is4360 =>
       probes \in waitq \/ pending # {} \/ "waitqueue" \in Rem("cb")
  /\ pending # {} => <<"fwreq", probes>> \in live
  /\ \A t \in Threads : "get_fw" \in Rem(t) => <<"fwreq", probes>> \in live \/ "fwreq" \in Rem(t)

\* the scratch buffers of a device that stands dangle only while it is reset
Dangles ==
  /\ Upright => \A s \in Scratch : <<s, probes>> \in dangling =>
                  pending # {} \/ s \in Rem("cb") \/ "get_fw" \in Rem("work")
  /\ \A t \in Threads : "rel_scratch" \in Rem(t) => Intact(probes)

\* a reset waits only for a device that stands
Queues ==
  queued # {} => /\ queued \subseteq {probes} /\ bound /\ pending = {}
                 /\ \A t \in Threads : Rem(t) = {}

\* the handler that runs is waited for before what it reads goes
Handles ==
  isr # 0 =>
    /\ ~Is4360 /\ isr = probes /\ Has(probes, {"devinfo", "map"})
    /\ <<"irq", probes>> \in live \/ \E t \in Threads : "irq_sync" \in Rem(t)
    /\ \A t \in Threads : Rem(t) \intersect Goes # {} => "irq_sync" \in Rem(t)

\* the timer is stopped for good before what it reads goes
Timed ==
  /\ timer \subseteq {probes}
  /\ probes \in timer \union up => Has(probes, {"devinfo", "map"})
  /\ \A t \in Threads : Rem(t) \intersect Goes # {} =>
       /\ probes \in timer => "bus_stop" \in Rem(t)
       /\ probes \in up => "set_down" \in Rem(t)

GoodInv == Stocked("cb") /\ Stocked("work") /\ Waits /\ Dangles /\ Queues /\ Handles /\ Timed

\* A device that stands is whole.
LEMMA Whole ==
  ASSUME SerialInv, SmoothInv, (bound /\ Rem("core") = {}) \/ Rem("core") = {"probed"}
  PROVE  drvdata = probes /\ probes # 0 /\ Has(probes, Base)
<1>1. CASE bound /\ Rem("core") = {}
  <2>1. drvdata # 0 /\ Has(drvdata, Base) /\ drvdata \in {0, probes}
    BY <1>1 DEF SmoothInv, Stands, SerialInv, OneGeneration
  <2> QED
    BY <2>1
<1>2. CASE Rem("core") = {"probed"}
  <2>1. gen["core"] = probes
    BY <1>2 DEF SerialInv, OneGeneration, Threads
  <2>2. Gains("probed") = {}
    BY DEF Gains, Taken, Scratch
  <2>3. /\ gen["core"] # 0 /\ drvdata = gen["core"]
        /\ \A r \in Base : <<r, gen["core"]>> \in live
    BY <1>2, <2>2 DEF SmoothInv, Stands
  <2> QED
    BY <2>1, <2>3 DEF Has
<1> QED
  BY <1>1, <1>2

\* Whose step it is, and what it leaves.
LEMMA DoesGoodFacts ==
  ASSUME IInv, SerialInv, SmoothInv, NEW t \in Threads, NEW h, Does(t, h)
  PROVE  /\ h \in Rem(t) /\ Rem(t)' = Rem(t) \ {h} /\ h \in StepNames
         /\ \A u \in Threads : u # t => Rem(u)' = Rem(u)
         /\ \A s \in Rem(t)' : ~Clash(h, s)
         /\ Awaits(h) \subseteq Rem(t)'
         /\ probes' = probes /\ gen' = gen
         /\ h # "unbound" => gen[t] = probes
         /\ t = "core" => h \in CoreSteps
         /\ t = "cb" => h \in SetupSet
         /\ t = "work" => h \in ResetSet
         /\ Upright' => Upright
         /\ \A u \in Threads : u # t /\ Rem(u) # {} =>
              \/ t = "core" /\ h = "probed" /\ u = "cb"
              \/ t = "cb" /\ u = "core" /\ Rem("core") = {"probed"}
         /\ pending # {} => t = "core" /\ h = "probed"
<1>0. Shaped /\ LifeTypes /\ OneBuilds
  BY DEF IInv, SerialInv
<1>1. /\ h \in Rem(t) /\ Rem(t)' = Rem(t) \ {h} /\ h \in StepNames
      /\ \A u \in Threads : u # t => Rem(u)' = Rem(u)
      /\ \A s \in Rem(t)' : ~Clash(h, s)
      /\ Awaits(h) \subseteq Rem(t)'
  BY <1>0, DoesRests
<1>2. /\ probes' = probes /\ gen' = gen /\ h # "reprobe"
      /\ bound' = IF h = "probed" THEN TRUE ELSE IF h = "unbound" THEN FALSE ELSE bound
  BY DEF Does, Binding
<1>3. h # "unbound" => gen[t] = probes
  BY DoesLive
<1>4. Threads = {"core", "cb", "work"}
  BY DEF Threads
<1>5. /\ t = "core" => h \in CoreSteps
      /\ t = "cb" => h \in SetupSet
      /\ t = "work" => h \in ResetSet
  BY <1>0, <1>1 DEF Shaped, SmoothInv, Unfailed
<1>6. ASSUME Upright' PROVE Upright
  <2>1. CASE t = "core"
    <3>1. Rem("core") \intersect CoreEnds # {} /\ "unprobed" \notin Rem("core")
      BY <1>0, <1>1, <2>1 DEF Shaped, SmoothInv, Unfailed
    <3>2. h \in {"probed", "unbound"} \/ Rem("core")' # {}
      BY <1>1, <1>2, <2>1, <3>1 DEF CoreEnds, Closes
    <3>3. "probed" \in Rem("core") \/ (bound' /\ Rem("core")' = {})
      BY <1>1, <1>6, <2>1 DEF Upright
    <3>4. bound' /\ Rem("core")' = {} => h = "probed"
      BY <1>2, <3>2
    <3> QED
      BY <1>1, <2>1, <3>3, <3>4 DEF Upright
  <2>2. CASE t # "core"
    <3>1. h \in SetupSet \union ResetSet
      BY <1>4, <1>5, <2>2
    <3>2. h \notin {"probed", "unbound"}
      BY <3>1 DEF SetupSet, ResetSet, DetachSet
    <3>3. bound' = bound /\ Rem("core")' = Rem("core")
      BY <1>1, <1>2, <1>4, <2>2, <3>2
    <3> QED
      BY <1>6, <3>3 DEF Upright
  <2> QED
    BY <2>1, <2>2
<1>7. \A u \in Threads : u # t /\ Rem(u) # {} =>
        \/ t = "core" /\ h = "probed" /\ u = "cb"
        \/ t = "cb" /\ u = "core" /\ Rem("core") = {"probed"}
  BY <1>0, <1>1, Alone
<1>8. pending # {} => t = "core" /\ h = "probed"
  BY <1>0, <1>1, <1>4 DEF OneBuilds, Working
<1> QED
  BY <1>1, <1>2, <1>3, <1>5, <1>6, <1>7, <1>8

LEMMA DoesOthersStocked ==
  ASSUME IInv, SerialInv, SmoothInv, NEW t \in Threads, NEW h, Does(t, h), Stocked("cb"), Stocked("work")
  PROVE  Stocked("cb")' /\ Stocked("work")'
<1>1. ASSUME NEW u \in {"cb", "work"} PROVE Stocked(u)'
  <2>1. u \in Threads /\ Stocked(u)
    BY DEF Threads
  <2>2. CASE u = t
    BY <2>1, <2>2, DoesStocked DEF IInv
  <2>3. CASE u # t
    <3>1. Rem(u)' = Rem(u) /\ gen' = gen
      BY <2>1, <2>3, DoesGoodFacts
    <3>2. CASE Rem(u) = {}
      BY <3>1, <3>2 DEF Stocked
    <3>3. CASE Rem(u) # {}
      <4>1. h = "probed"
        BY <2>1, <2>3, <3>3, DoesGoodFacts
      <4>2. Gives(h) = {}
        BY <4>1 DEF Gives, Frees
      <4>3. \A r, g : <<r, g>> \in live => <<r, g>> \in live'
        BY <4>2, DoesMemory
      <4> QED
        BY <2>1, <3>1, <4>3 DEF Stocked
    <3> QED
      BY <3>2, <3>3
  <2> QED
    BY <2>2, <2>3
<1> QED
  BY <1>1

LEMMA DoesWaits ==
  ASSUME IInv, SerialInv, SmoothInv, NEW t \in Threads, NEW h, Does(t, h), Waits, setting' = setting
  PROVE  Waits'
<1>1. /\ h \in Rem(t) /\ Rem(t)' = Rem(t) \ {h} /\ h \in StepNames
      /\ \A u \in Threads : u # t => Rem(u)' = Rem(u)
      /\ \A s \in Rem(t)' : ~Clash(h, s)
      /\ probes' = probes /\ gen' = gen
      /\ h # "unbound" => gen[t] = probes
      /\ t = "core" => h \in CoreSteps
      /\ t = "cb" => h \in SetupSet
      /\ t = "work" => h \in ResetSet
      /\ Upright' => Upright
      /\ \A u \in Threads : u # t /\ Rem(u) # {} =>
           \/ t = "core" /\ h = "probed" /\ u = "cb"
           \/ t = "cb" /\ u = "core" /\ Rem("core") = {"probed"}
      /\ pending # {} => t = "core" /\ h = "probed"
  BY DoesGoodFacts
<1>2. /\ pending' = IF h = "get_fw" THEN pending \union {gen[t]} ELSE pending
      /\ waitq' = IF h = "waitqueue" THEN waitq \union {gen[t]} ELSE waitq
  BY DEF Does, Async, Flags
<1>3. Threads = {"core", "cb", "work"}
  BY DEF Threads
<1>4. /\ \A x \in live : x \in live' \/ x[1] \in Gives(h)
      /\ \A r \in Gains(h) : <<r, probes>> \in live'
  BY DoesLive
<1>5. \A r, g : <<r, g>>[1] = r /\ <<r, g>>[2] = g
  OBVIOUS
<1>6. ASSUME Upright', "get_fw" \notin Rem("core")', ~Is4360
      PROVE  probes \in waitq' \/ pending' # {} \/ "waitqueue" \in Rem("cb")'
  <2>1. CASE h = "get_fw"
    BY <1>2, <2>1
  <2>2. CASE h # "get_fw"
    <3>1. Upright /\ "get_fw" \notin Rem("core")
      BY <1>1, <1>3, <1>6, <2>2
    <3>2. probes \in waitq \/ pending # {} \/ "waitqueue" \in Rem("cb")
      BY <1>6, <3>1 DEF Waits
    <3> QED
      BY <1>1, <1>2, <1>3, <3>2
  <2> QED
    BY <2>1, <2>2
<1>7. ASSUME pending' # {} PROVE <<"fwreq", probes>> \in live'
  <2>1. CASE pending # {}
    <3>1. h = "probed" /\ <<"fwreq", probes>> \in live
      BY <1>1, <2>1 DEF Waits
    <3>2. "fwreq" \notin Gives(h)
      BY <1>1, <3>1, FreesAnother
    <3> QED
      BY <1>4, <1>5, <3>1, <3>2
  <2>2. CASE pending = {}
    <3>1. h = "get_fw"
      BY <1>2, <1>7, <2>2
    <3>2. "fwreq" \notin Rem(t)
      <4>1. Clash("get_fw", "fwreq")
        BY DEF Clash
      <4> QED
        BY <1>1, <3>1, <4>1
    <3>3. <<"fwreq", probes>> \in live
      BY <1>1, <3>1, <3>2 DEF Waits
    <3>4. "fwreq" \notin Gives(h)
      BY <1>1, <3>1, FreesAnother
    <3> QED
      BY <1>4, <1>5, <3>3, <3>4
  <2> QED
    BY <2>1, <2>2
<1>8. ASSUME NEW u \in Threads, "get_fw" \in Rem(u)'
      PROVE  <<"fwreq", probes>> \in live' \/ "fwreq" \in Rem(u)'
  <2>1. "get_fw" \in Rem(u)
    BY <1>1, <1>8
  <2>2. CASE <<"fwreq", probes>> \in live
    <3>1. h # "attach"
      <4>1. ASSUME h = "attach" PROVE FALSE
        <5>1. "attach" \notin CoreSteps /\ "attach" \notin ResetSet /\ "get_fw" \notin SetupSet
          BY DEF CoreSteps, ProbeSet, DownSet, FailBrcmfSet, FailProbeSet, RemoveSet, ShortSet, DetachSet,
                 ResetSet, SetupSet
        <5>2. t = "cb"
          BY <1>1, <1>3, <4>1, <5>1
        <5>3. u # "cb"
          BY <2>1, <5>1 DEF SmoothInv, Unfailed
        <5>4. Rem("core") = {"probed"} /\ u = "core"
          BY <1>1, <2>1, <5>2, <5>3
        <5> QED
          BY <2>1, <5>4
      <4> QED
        BY <4>1
    <3>2. "fwreq" \notin Gives(h)
      BY <1>1, <3>1, FreesAnother
    <3> QED
      BY <1>4, <1>5, <2>2, <3>2
  <2>3. CASE "fwreq" \in Rem(u)
    <3>1. CASE h = "fwreq"
      <4>1. "fwreq" \in Gains(h)
        BY <3>1 DEF Gains, Taken
      <4> QED
        BY <1>4, <4>1
    <3>2. CASE h # "fwreq"
      BY <1>1, <2>3, <3>2
    <3> QED
      BY <3>1, <3>2
  <2> QED
    BY <2>1, <2>2, <2>3 DEF Waits
<1>9. probes' = probes /\ Is4360' = Is4360
  BY <1>1 DEF Is4360
<1> QED
  BY <1>6, <1>7, <1>8, <1>9 DEF Waits

LEMMA DoesDangles ==
  ASSUME IInv, SerialInv, SmoothInv, NEW t \in Threads, NEW h, Does(t, h), Dangles
  PROVE  Dangles'
<1>0. Shaped /\ LifeTypes
  BY DEF IInv
<1>1. /\ h \in Rem(t) /\ Rem(t)' = Rem(t) \ {h} /\ h \in StepNames
      /\ \A u \in Threads : u # t => Rem(u)' = Rem(u)
      /\ probes' = probes
      /\ h # "unbound" => gen[t] = probes
      /\ t = "core" => h \in CoreSteps
      /\ t = "cb" => h \in SetupSet
      /\ Upright' => Upright
      /\ \A u \in Threads : u # t /\ Rem(u) # {} =>
           \/ t = "core" /\ h = "probed" /\ u = "cb"
           \/ t = "cb" /\ u = "core" /\ Rem("core") = {"probed"}
  BY DoesGoodFacts
<1>2. /\ pending' = IF h = "get_fw" THEN pending \union {gen[t]} ELSE pending
      /\ h = "rel_scratch" => dangling' = dangling \union (Of(Scratch, gen[t]) \intersect live)
      /\ h \in Scratch => dangling' = dangling \ {<<h, gen[t]>>}
      /\ h \notin Scratch \union {"rel_scratch"} => dangling' = dangling
  BY DEF Does, Async, Memory
<1>3. Threads = {"core", "cb", "work"}
  BY DEF Threads
<1>4. h # "rel_scratch" => dangling' \subseteq dangling
  BY <1>2
<1>5. ASSUME Upright', NEW s \in Scratch, <<s, probes>> \in dangling'
      PROVE  pending' # {} \/ s \in Rem("cb")' \/ "get_fw" \in Rem("work")'
  <2>1. CASE h = "rel_scratch"
    <3>1. t # "cb"
      BY <1>1, <2>1 DEF SetupSet
    <3>2. ASSUME t = "core" PROVE FALSE
      <4>1. Upright
        BY <1>1, <1>5
      <4>2. "probed" \in Rem("core")
        BY <1>1, <3>2, <4>1 DEF Upright
      <4>3. h \in ProbeSet
        BY <1>1, <3>2, <4>2 DEF SmoothInv, Unfailed
      <4> QED
        BY <2>1, <4>3 DEF ProbeSet
    <3>3. t = "work"
      BY <1>3, <3>1, <3>2
    <3>4. "get_fw" \in Rem("work")
      BY <1>0, <1>1, <3>3 DEF Shaped
    <3> QED
      BY <1>1, <2>1, <3>3, <3>4
  <2>2. CASE h # "rel_scratch"
    <3>1. pending # {} \/ s \in Rem("cb") \/ "get_fw" \in Rem("work")
      BY <1>1, <1>4, <1>5, <2>2 DEF Dangles
    <3>2. CASE pending # {}
      BY <1>2, <3>2
    <3>3. CASE s \in Rem("cb")
      <4>1. ASSUME h = s PROVE FALSE
        <5>1. gen[t] = probes
          BY <1>1, <4>1 DEF Scratch
        <5> QED
          BY <1>2, <1>5, <4>1, <5>1
      <4> QED
        BY <1>1, <1>3, <3>3, <4>1
    <3>4. CASE "get_fw" \in Rem("work")
      BY <1>1, <1>2, <1>3, <3>4
    <3> QED
      BY <3>1, <3>2, <3>3, <3>4
  <2> QED
    BY <2>1, <2>2
<1>6. ASSUME NEW u \in Threads, "rel_scratch" \in Rem(u)'
      PROVE  Intact(probes)'
  <2>1. "rel_scratch" \in Rem(u)
    BY <1>1, <1>6
  <2>2. Intact(probes)
    BY <2>1 DEF Dangles
  <2>3. h # "rel_scratch"
    <3>1. ASSUME h = "rel_scratch" PROVE FALSE
      <4>1. u # t
        BY <1>1, <1>6, <3>1
      <4> QED
        BY <1>1, <2>1, <3>1, <4>1
    <3> QED
      BY <3>1
  <2> QED
    BY <1>1, <1>4, <2>2, <2>3 DEF Intact
<1> QED
  BY <1>1, <1>5, <1>6 DEF Dangles

LEMMA DoesQueues ==
  ASSUME IInv, SerialInv, SmoothInv, NEW t \in Threads, NEW h, Does(t, h), Queues
  PROVE  Queues'
<1>1. /\ h \in Rem(t)
      /\ t = "core" => h \in CoreSteps
      /\ t = "cb" => h \in SetupSet
      /\ t = "work" => h \in ResetSet
  BY DoesGoodFacts
<1>2. queued = {}
  BY <1>1 DEF Queues
<1>3. h # "crashed"
  <2>1. "crashed" \notin SetupSet
    BY DEF SetupSet
  <2> QED
    BY <1>1, <2>1, CoreTakes, WorkTakes DEF Threads
<1>4. queued' = {}
  BY <1>2, <1>3 DEF Does, Async
<1> QED
  BY <1>4 DEF Queues

LEMMA DoesHandles ==
  ASSUME IInv, SerialInv, SmoothInv, NEW t \in Threads, NEW h, Does(t, h), Handles, setting' = setting
  PROVE  Handles'
<1>1. /\ h \in Rem(t) /\ Rem(t)' = Rem(t) \ {h} /\ h \in StepNames
      /\ \A u \in Threads : u # t => Rem(u)' = Rem(u)
      /\ \A s \in Rem(t)' : ~Clash(h, s)
      /\ Awaits(h) \subseteq Rem(t)'
      /\ probes' = probes
      /\ h # "unbound" => gen[t] = probes
  BY DoesGoodFacts
<1>2. isr' = isr /\ (h = "irq_sync" => isr # gen[t])
  BY DEF Does, Async
<1>3. /\ \A x \in live : x \in live' \/ x[1] \in Gives(h)
  BY DoesLive
<1>4. \A r, g : <<r, g>>[1] = r /\ <<r, g>>[2] = g
  OBVIOUS
<1> SUFFICES ASSUME isr # 0
             PROVE  /\ ~Is4360 /\ isr = probes /\ Has(probes, {"devinfo", "map"})'
                    /\ <<"irq", probes>> \in live' \/ \E u \in Threads : "irq_sync" \in Rem(u)'
                    /\ \A u \in Threads : Rem(u)' \intersect Goes # {} => "irq_sync" \in Rem(u)'
  BY <1>1, <1>2 DEF Handles, Is4360
<1>5. /\ ~Is4360 /\ isr = probes /\ Has(probes, {"devinfo", "map"})
      /\ <<"irq", probes>> \in live \/ \E u \in Threads : "irq_sync" \in Rem(u)
      /\ \A u \in Threads : Rem(u) \intersect Goes # {} => "irq_sync" \in Rem(u)
  BY DEF Handles
<1>6. h # "irq_sync"
  <2>1. h = "irq_sync" => gen[t] = probes
    BY <1>1
  <2> QED
    BY <1>2, <1>5, <2>1
<1>7. h \notin Goes
  <2>1. ASSUME h \in Goes PROVE FALSE
    <3>1. "irq_sync" \in Rem(t)'
      BY <1>1, <1>5, <1>6, <2>1
    <3> QED
      BY <1>1, <2>1, <3>1 DEF Clash
  <2> QED
    BY <2>1
<1>8. Has(probes, {"devinfo", "map"})'
  <2>1. "devinfo" \notin Gives(h) /\ "map" \notin Gives(h)
    BY <1>1, <1>7, FreesAnother
  <2> QED
    BY <1>1, <1>3, <1>4, <1>5, <2>1 DEF Has
<1>9. <<"irq", probes>> \in live' \/ \E u \in Threads : "irq_sync" \in Rem(u)'
  <2>1. CASE <<"irq", probes>> \in live
    <3>1. CASE h = "rel_irq"
      <4>1. "irq_sync" \in Awaits(h)
        BY <3>1 DEF Awaits
      <4> QED
        BY <1>1, <4>1
    <3>2. CASE h # "rel_irq"
      <4>1. "irq" \notin Gives(h)
        BY <1>1, <3>2, FreesAnother
      <4> QED
        BY <1>3, <1>4, <2>1, <4>1
    <3> QED
      BY <3>1, <3>2
  <2>2. ASSUME NEW u \in Threads, "irq_sync" \in Rem(u) PROVE "irq_sync" \in Rem(u)'
    BY <1>1, <1>6, <2>2
  <2> QED
    BY <1>5, <2>1, <2>2
<1>10. \A u \in Threads : Rem(u)' \intersect Goes # {} => "irq_sync" \in Rem(u)'
  BY <1>1, <1>5, <1>6
<1> QED
  BY <1>5, <1>8, <1>9, <1>10

LEMMA DoesTimed ==
  ASSUME IInv, SerialInv, SmoothInv, NEW t \in Threads, NEW h, Does(t, h),
         Stocked("cb"), Stocked("work"), Timed
  PROVE  Timed'
<1>0. Shaped
  BY DEF IInv
<1>1. /\ h \in Rem(t) /\ Rem(t)' = Rem(t) \ {h} /\ h \in StepNames
      /\ \A u \in Threads : u # t => Rem(u)' = Rem(u)
      /\ \A s \in Rem(t)' : ~Clash(h, s)
      /\ probes' = probes
      /\ h # "unbound" => gen[t] = probes
      /\ t = "core" => h \in CoreSteps
      /\ t = "cb" => h \in SetupSet
      /\ t = "work" => h \in ResetSet
      /\ \A u \in Threads : u # t /\ Rem(u) # {} =>
           \/ t = "core" /\ h = "probed" /\ u = "cb"
           \/ t = "cb" /\ u = "core" /\ Rem("core") = {"probed"}
  BY DoesGoodFacts
<1>2. /\ up' = IF h = "set_up" THEN up \union {gen[t]} ELSE IF h = "set_down" THEN up \ {gen[t]} ELSE up
      /\ h \in {"timer_off", "bus_stop"} => timer' = timer \ {gen[t]}
      /\ h = "timer_on" => timer' \subseteq timer \union ({gen[t]} \intersect up)
      /\ h \notin {"timer_off", "bus_stop", "timer_on"} => timer' = timer
      /\ todo[t] # <<>> /\ h = Head(todo[t])
  BY DEF Does, Flags
<1>3. Threads = {"core", "cb", "work"}
  BY DEF Threads
<1>4. \A x \in live : x \in live' \/ x[1] \in Gives(h)
  BY DoesLive
<1>5. \A r, g : <<r, g>>[1] = r /\ <<r, g>>[2] = g
  OBVIOUS
<1>6. timer' \subseteq {probes}
  <2>1. h = "timer_on" => gen[t] = probes
    BY <1>1
  <2> QED
    BY <1>2, <2>1 DEF Timed
<1>7. h \in {"set_up", "timer_on"} => t = "cb"
  <2>1. {"set_up", "timer_on"} \intersect (CoreSteps \union ResetSet) = {}
    BY DEF CoreSteps, ProbeSet, DownSet, FailBrcmfSet, FailProbeSet, RemoveSet, ShortSet, DetachSet, ResetSet
  <2> QED
    BY <1>1, <1>3, <2>1
<1>8. \A u \in Threads : h \in {"set_up", "timer_on"} => Rem(u) \intersect Goes = {}
  <2>1. SetupSet \intersect Goes = {} /\ "probed" \notin Goes
    BY DEF SetupSet, Goes
  <2>2. Rem("cb") \subseteq SetupSet
    BY DEF SmoothInv, Unfailed
  <2>3. ASSUME h \in {"set_up", "timer_on"} PROVE \A u \in Threads : Rem(u) \intersect Goes = {}
    <3>1. \A u \in Threads : u # t => Rem(u) = {} \/ Rem(u) = {"probed"}
      BY <1>1, <1>7, <2>3
    <3> QED
      BY <1>7, <2>1, <2>2, <2>3, <3>1
  <2> QED
    BY <2>3
<1>9. \A u \in Threads : Rem(u)' \subseteq Rem(u)
  BY <1>1
<1>10. ASSUME probes \in timer' \union up'
       PROVE  Has(probes, {"devinfo", "map"})'
  <2>1. Has(probes, {"devinfo", "map"})
    <3>1. CASE h = "set_up"
      <4>1. Sound(t) /\ gen[t] = probes
        BY <1>0, <1>1, <1>2, <1>7, <3>1, StockedIsSound
      <4>2. Needs(h) = {"devinfo", "map"}
        BY <3>1 DEF Needs
      <4> QED
        BY <1>2, <4>1, <4>2 DEF Sound
    <3>2. CASE h # "set_up"
      <4>1. probes \in timer \union up
        BY <1>2, <1>10, <3>2
      <4> QED
        BY <4>1 DEF Timed
    <3> QED
      BY <3>1, <3>2
  <2>2. h \notin Goes
    <3>1. ASSUME h \in Goes PROVE FALSE
      <4>1. h \notin {"set_up", "set_down", "timer_off", "bus_stop", "timer_on"}
        BY <3>1 DEF Goes
      <4>2. probes \in timer \union up
        BY <1>2, <1>10, <4>1
      <4>3. "bus_stop" \in Rem(t)' \/ "set_down" \in Rem(t)'
        <5>1. Rem(t) \intersect Goes # {}
          BY <1>1, <3>1
        <5>2. "bus_stop" \in Rem(t) \/ "set_down" \in Rem(t)
          BY <4>2, <5>1 DEF Timed
        <5> QED
          BY <1>1, <4>1, <5>2
      <4> QED
        BY <1>1, <3>1, <4>3 DEF Clash
    <3> QED
      BY <3>1
  <2>3. "devinfo" \notin Gives(h) /\ "map" \notin Gives(h)
    BY <1>1, <2>2, FreesAnother
  <2> QED
    BY <1>1, <1>4, <1>5, <2>1, <2>3 DEF Has
<1>11. ASSUME NEW u \in Threads, Rem(u)' \intersect Goes # {}
       PROVE  /\ probes \in timer' => "bus_stop" \in Rem(u)'
              /\ probes \in up' => "set_down" \in Rem(u)'
  <2>1. Rem(u) \intersect Goes # {}
    BY <1>9, <1>11
  <2>2. h \notin {"set_up", "timer_on"}
    BY <1>8, <2>1
  <2>3. /\ probes \in timer => "bus_stop" \in Rem(u)
        /\ probes \in up => "set_down" \in Rem(u)
    BY <2>1 DEF Timed
  <2>4. ASSUME probes \in timer' PROVE "bus_stop" \in Rem(u)'
    <3>1. probes \in timer /\ h # "bus_stop"
      BY <1>1, <1>2, <2>2, <2>4
    <3> QED
      BY <1>1, <2>3, <3>1
  <2>5. ASSUME probes \in up' PROVE "set_down" \in Rem(u)'
    <3>1. probes \in up /\ h # "set_down"
      BY <1>1, <1>2, <2>2, <2>5
    <3> QED
      BY <1>1, <2>3, <3>1
  <2> QED
    BY <2>4, <2>5
<1> QED
  BY <1>1, <1>6, <1>10, <1>11 DEF Timed

LEMMA DoesGood ==
  ASSUME IInv, SerialInv, SmoothInv, GoodInv, NEW t \in Threads, NEW h, Does(t, h), setting' = setting
  PROVE  GoodInv'
BY DoesOthersStocked, DoesWaits, DoesDangles, DoesQueues, DoesHandles, DoesTimed DEF GoodInv

\* The callback begins on a device that stands.
LEMMA SetupNeeds ==
  /\ \A s \in SetupSet : Needs(s) \subseteq Base \union {"fwreq", "fw"}
  /\ Setup4360Set \subseteq SetupSet /\ "attach" \in Setup4360Set /\ "fw" \in Gains("attach")
  /\ SetupSet \intersect (Goes \union {"get_fw", "rel_scratch", "irq_sync"}) = {}
  /\ Scratch \union {"waitqueue"} \subseteq SetupSet
BY DEF SetupSet, Setup4360Set, Needs, Base, Gains, Taken, Scratch, Goes

LEMMA EntersGood ==
  ASSUME IInv, SerialInv, SmoothInv, GoodInv, NEW g, NEW L, Enters(g, L), Smooth', setting' = setting
  PROVE  GoodInv'
<1>0. Shaped /\ LifeTypes /\ Stays4360 /\ OneBuilds /\ Holders
  BY DEF IInv, SerialInv
<1>1. Rem("cb") = {} /\ Rem("core")' = Rem("core") /\ Rem("work")' = Rem("work")
  BY <1>0, EntersRests
<1>2. /\ Rem("cb")' \in {SetupSet, Setup4360Set} /\ live' = live
      /\ ~Is4360 => Rem("cb")' = SetupSet
  BY <1>0, EntersSmooth
<1>3. /\ g \in pending /\ pending' = pending \ {g} /\ gen' = [gen EXCEPT !["cb"] = g]
      /\ probes' = probes /\ dangling' = dangling /\ queued' = queued /\ isr' = isr
      /\ timer' = timer /\ up' = up /\ bound' = bound
  BY DEF Enters
<1>4. g = probes /\ pending' = {} /\ Rem("work") = {} /\ (Rem("core") = {} \/ Rem("core") = {"probed"})
  BY <1>3, <1>0 DEF OneBuilds, Working
<1>5. (bound /\ Rem("core") = {}) \/ Rem("core") = {"probed"}
  BY <1>0, <1>3, <1>4 DEF Holders
<1>6. Has(probes, Base) /\ <<"fwreq", probes>> \in live
  BY <1>3, <1>5, Whole DEF GoodInv, Waits
<1>7. queued = {} /\ Threads = {"core", "cb", "work"}
  BY <1>3 DEF GoodInv, Queues, Threads
<1>8. gen'["cb"] = probes
  BY <1>0, <1>3, <1>4 DEF LifeTypes, Threads
<1>9. Rem("cb")' \subseteq SetupSet /\ "attach" \in Rem("cb")'
  BY <1>2, SetupNeeds
<1>10. \A t \in Threads : Rem(t)' \intersect (Goes \union {"get_fw", "rel_scratch", "irq_sync"}) = {}
  <2>1. "probed" \notin Goes
    BY DEF Goes
  <2> QED
    BY <1>1, <1>4, <1>7, <1>9, <2>1, SetupNeeds
<1>11. Stocked("cb")' /\ Stocked("work")'
  <2>1. ASSUME NEW s \in Rem("cb")', NEW r \in Needs(s)
        PROVE  <<r, gen'["cb"]>> \in live' \/ \E s2 \in Rem("cb")' : r \in Gains(s2)
    <3>1. r \in Base \/ r = "fwreq" \/ r = "fw"
      BY <1>9, <2>1, SetupNeeds
    <3> QED
      BY <1>2, <1>6, <1>8, <1>9, <3>1, SetupNeeds DEF Has
  <2> QED
    BY <1>1, <1>4, <2>1 DEF Stocked
<1>12. Waits'
  <2>1. ~Is4360' => "waitqueue" \in Rem("cb")'
    BY <1>2, SetupNeeds DEF Is4360
  <2> QED
    BY <1>4, <1>10, <2>1 DEF Waits
<1>13. Dangles'
  <2>1. ASSUME NEW s \in Scratch, <<s, probes>> \in dangling' PROVE s \in Rem("cb")'
    <3>1. ~Is4360
      BY <1>0, <1>3, <2>1 DEF Stays4360
    <3> QED
      BY <1>2, <3>1, SetupNeeds
  <2> QED
    BY <1>3, <1>10, <2>1 DEF Dangles
<1>14. Queues'
  BY <1>3, <1>7 DEF Queues
<1>15. Handles'
  <2> SUFFICES ASSUME isr # 0
               PROVE  ~Is4360 /\ isr = probes /\ Has(probes, {"devinfo", "map"})' /\ <<"irq", probes>> \in live'
    BY <1>3, <1>10 DEF Handles, Is4360
  <2>1. /\ ~Is4360 /\ isr = probes /\ Has(probes, {"devinfo", "map"})
        /\ <<"irq", probes>> \in live \/ \E t \in Threads : "irq_sync" \in Rem(t)
    BY DEF GoodInv, Handles
  <2>2. \A t \in Threads : "irq_sync" \notin Rem(t)
    BY <1>1, <1>4, <1>7
  <2> QED
    BY <1>2, <1>3, <2>1, <2>2 DEF Has
<1>16. Timed'
  <2>1. timer \subseteq {probes} /\ (probes \in timer \union up => Has(probes, {"devinfo", "map"}))
    BY DEF GoodInv, Timed
  <2> QED
    BY <1>2, <1>3, <1>10, <2>1 DEF Timed, Has
<1> QED
  BY <1>11, <1>12, <1>13, <1>14, <1>15, <1>16 DEF GoodInv

\* A removal begins on a device that stands.
LEMMA DownNeeds ==
  /\ \A g, last : DownOf(g, last) \subseteq RemoveSet
  /\ \A g, last : g # 0 => "bus_stop" \in DownOf(g, last)
  /\ \A g, last : g # 0 /\ (~Is4360 \/ g \in up) => DownOf(g, last) = RemoveSet
  /\ "irq_sync" \in RemoveSet /\ "set_down" \in RemoveSet
  /\ {"get_fw", "probed"} \intersect (RemoveSet \union {"unbound", "reprobe"}) = {}
<1>1. ShortSet \subseteq RemoveSet /\ "bus_stop" \in ShortSet
  BY DEF RemoveSet, ShortSet, DetachSet
<1>2. "irq_sync" \in RemoveSet /\ "set_down" \in RemoveSet
  BY DEF RemoveSet
<1>3. {"get_fw", "probed"} \intersect (RemoveSet \union {"unbound", "reprobe"}) = {}
  BY DEF RemoveSet, ShortSet, DetachSet
<1> QED
  BY <1>1, <1>2, <1>3 DEF DownOf

LEMMA TakesAwayGood ==
  ASSUME IInv, SerialInv, SmoothInv, GoodInv, NEW t \in Threads, NEW last \in {"unbound", "reprobe"},
         TakesAway(t, last), Serial', setting' = setting
  PROVE  GoodInv'
<1>0. Shaped /\ LifeTypes
  BY DEF IInv
<1>1. /\ t = "core" /\ Rem("core") = {} /\ bound /\ drvdata # 0
      /\ Rem("core")' = DownOf(drvdata, last) \union {last}
  BY <1>0, TakesAwaySmooth
<1>2. /\ pending = {} /\ queued = {} /\ \A u \in Threads : u # t => Rem(u)' = {}
  BY <1>1, TakesAwayAlone
<1>3. \A u \in Threads : Rem(u) = {}
  <2>1. \A u \in Threads : u # t => Rem(u)' = Rem(u)
    BY <1>0, TakesAwayRests
  <2> QED
    BY <1>1, <1>2, <2>1
<1>4. drvdata = probes /\ Has(probes, Base)
  BY <1>1, Whole
<1>5. /\ probes' = probes /\ dangling' = dangling /\ queued' = queued /\ isr' = isr
      /\ timer' = timer /\ up' = up /\ bound' = bound /\ pending' = pending
      /\ last = "unbound" => live' = live
      /\ last = "reprobe" => live' = live \ {<<"ci", drvdata>>}
  BY DEF TakesAway
<1>6. \A r, g : <<r, g>>[1] = r
  OBVIOUS
<1>7. \A r : <<r, probes>> \in live /\ r # "ci" => <<r, probes>> \in live'
  BY <1>5, <1>6
<1>8. Threads = {"core", "cb", "work"} /\ "ci" \notin {"devinfo", "map", "irq"}
  BY DEF Threads
<1>9. "get_fw" \notin Rem("core")' /\ "probed" \notin Rem("core")' /\ Rem("core")' # {}
  BY <1>1, DownNeeds
<1>10. ~Upright'
  BY <1>9 DEF Upright
<1>11. Stocked("cb")' /\ Stocked("work")'
  BY <1>1, <1>2, <1>8 DEF Stocked
<1>12. Waits'
  <2>1. \A u \in Threads : "get_fw" \notin Rem(u)'
    BY <1>1, <1>2, <1>9
  <2> QED
    BY <1>2, <1>5, <1>10, <2>1 DEF Waits
<1>13. Dangles'
  <2>1. Upright /\ "get_fw" \notin Rem("work") /\ Rem("cb") = {}
    BY <1>1, <1>3, <1>8 DEF Upright
  <2>2. \A s \in Scratch : <<s, probes>> \notin dangling
    BY <1>2, <2>1 DEF GoodInv, Dangles
  <2>3. Intact(probes)'
    BY <1>5, <2>2 DEF Intact
  <2> QED
    BY <1>10, <2>3 DEF Dangles
<1>14. Queues'
  BY <1>2, <1>5 DEF Queues
<1>15. Handles'
  <2> SUFFICES ASSUME isr # 0
               PROVE  /\ ~Is4360 /\ isr = probes /\ Has(probes, {"devinfo", "map"})'
                      /\ <<"irq", probes>> \in live'
                      /\ \A u \in Threads : Rem(u)' \intersect Goes # {} => "irq_sync" \in Rem(u)'
    BY <1>5 DEF Handles, Is4360
  <2>1. /\ ~Is4360 /\ isr = probes /\ Has(probes, {"devinfo", "map"})
        /\ <<"irq", probes>> \in live \/ \E u \in Threads : "irq_sync" \in Rem(u)
    BY DEF GoodInv, Handles
  <2>2. <<"irq", probes>> \in live' /\ Has(probes, {"devinfo", "map"})'
    BY <1>3, <1>5, <1>7, <1>8, <2>1 DEF Has
  <2>3. "irq_sync" \in Rem("core")'
    BY <1>1, <2>1, DownNeeds
  <2> QED
    BY <1>1, <1>2, <2>1, <2>2, <2>3
<1>16. Timed'
  <2>1. /\ timer \subseteq {probes}
        /\ probes \in timer \union up => Has(probes, {"devinfo", "map"})
    BY DEF GoodInv, Timed
  <2>2. "bus_stop" \in Rem("core")' /\ (probes \in up => "set_down" \in Rem("core")')
    BY <1>1, <1>4, DownNeeds
  <2>3. \A u \in Threads : Rem(u)' \intersect Goes # {} => u = "core"
    BY <1>1, <1>2
  <2>4. probes \in timer' \union up' => Has(probes, {"devinfo", "map"})'
    BY <1>5, <1>7, <1>8, <2>1 DEF Has
  <2> QED
    BY <1>5, <2>1, <2>2, <2>3, <2>4 DEF Timed
<1> QED
  BY <1>11, <1>12, <1>13, <1>14, <1>15, <1>16 DEF GoodInv

\* A probe begins.
LEMMA BuildsGood ==
  ASSUME IInv, SerialInv, SmoothInv, GoodInv, Builds, setting' = setting
  PROVE  GoodInv'
<1>0. Shaped /\ LifeTypes /\ OneBuilds /\ Holders
  BY DEF IInv, SerialInv
<1>1. live = {} /\ Rem("cb") = {} /\ Rem("work") = {} /\ pending = {} /\ SerialInv'
  BY BuildsSerial
<1>2. /\ probes' = probes + 1 /\ live' = live /\ dangling' = dangling /\ queued' = queued
      /\ isr' = isr /\ timer' = timer /\ up' = up /\ bound' = bound /\ pending' = pending
  BY DEF Builds
<1>3. /\ Rem("core")' = ProbeSet /\ Rem("cb")' = {} /\ Rem("work")' = {}
      /\ Rem("core") = {} \/ Rem("core") = {"reprobe"}
      /\ Rem("core") # {"reprobe"} => ~bound
  BY <1>0, <1>1, BuildsRests
<1>4. Threads = {"core", "cb", "work"}
  BY DEF Threads
<1>5. "get_fw" \in ProbeSet /\ "fwreq" \in ProbeSet /\ "probed" \in ProbeSet
      /\ ProbeSet \intersect Goes = {} /\ "rel_scratch" \notin ProbeSet
  BY DEF ProbeSet, Goes
<1>6. queued = {} /\ isr = 0 /\ timer = {}
  <2>1. queued = {}
    BY <1>3, <1>4 DEF GoodInv, Queues
  <2>2. ~Has(probes, {"devinfo", "map"})
    BY <1>1 DEF Has
  <2> QED
    BY <2>1, <2>2 DEF GoodInv, Handles, Timed
<1>7. \A n \in Nat : n + 1 \notin 0..n
  OBVIOUS
<1>8. probes + 1 \notin Ever
  BY <1>0, <1>7 DEF LifeTypes, Ever
<1>9. probes' \notin up' /\ \A s : <<s, probes'>> \notin dangling'
  BY <1>0, <1>2, <1>8 DEF LifeTypes
<1>10. Stocked("cb")' /\ Stocked("work")'
  BY <1>3 DEF Stocked
<1>11. Waits'
  <2>1. \A u \in Threads : "get_fw" \in Rem(u)' => "fwreq" \in Rem(u)'
    BY <1>3, <1>4, <1>5
  <2> QED
    BY <1>1, <1>2, <1>3, <1>5, <2>1 DEF Waits
<1>12. Dangles'
  BY <1>9 DEF Dangles, Intact
<1>13. Queues'
  BY <1>2, <1>6 DEF Queues
<1>14. Handles'
  BY <1>2, <1>6 DEF Handles
<1>15. Timed'
  <2>1. timer' = {} /\ \A u \in Threads : Rem(u)' \intersect Goes = {}
    BY <1>2, <1>3, <1>4, <1>5, <1>6
  <2> QED
    BY <1>9, <2>1 DEF Timed
<1> QED
  BY <1>10, <1>11, <1>12, <1>13, <1>14, <1>15 DEF GoodInv

\* A reset begins on a device that stands.
LEMMA ResetNeeds ==
  /\ \A s \in ResetSet : Needs(s) \subseteq Base
  /\ {"get_fw", "fwreq", "irq_sync"} \subseteq ResetSet /\ ResetSet \intersect Goes = {}
BY DEF ResetSet, DetachSet, Needs, Base, Goes

LEMMA ResetsGood ==
  ASSUME IInv, SerialInv, SmoothInv, GoodInv, NEW g, Resets(g), Serial', setting' = setting
  PROVE  GoodInv'
<1>0. Shaped /\ LifeTypes
  BY DEF IInv
<1>1. g = probes /\ bound /\ Rem("core") = {} /\ Rem("cb") = {} /\ Rem("work") = {} /\ pending = {}
  BY ResetsSerial
<1>2. /\ g \in queued /\ queued' = queued \ {g} /\ gen' = [gen EXCEPT !["work"] = g]
      /\ probes' = probes /\ live' = live /\ dangling' = dangling /\ isr' = isr
      /\ timer' = timer /\ up' = up /\ waitq' = waitq /\ bound' = bound /\ pending' = pending
  BY DEF Resets
<1>3. Rem("work")' = ResetSet /\ Rem("cb")' = {} /\ Rem("core")' = {}
  BY <1>0, <1>1, ResetsRests
<1>4. Threads = {"core", "cb", "work"}
  BY DEF Threads
<1>5. Has(probes, Base)
  BY <1>1, Whole
<1>6. gen'["work"] = probes
  BY <1>0, <1>1, <1>2, <1>4 DEF LifeTypes
<1>7. Upright /\ queued \subseteq {probes}
  BY <1>1, <1>2 DEF Upright, GoodInv, Queues
<1>8. Stocked("cb")' /\ Stocked("work")'
  <2>1. \A s \in Rem("work")' : \A r \in Needs(s) : <<r, gen'["work"]>> \in live'
    BY <1>2, <1>3, <1>5, <1>6, ResetNeeds DEF Has
  <2> QED
    BY <1>3, <2>1 DEF Stocked
<1>9. \A u \in Threads : "get_fw" \in Rem(u)' => "fwreq" \in Rem(u)'
  BY <1>3, <1>4, ResetNeeds
<1>10. Waits'
  <2>1. ~Is4360 => probes \in waitq
    BY <1>1, <1>7 DEF GoodInv, Waits
  <2> QED
    BY <1>1, <1>2, <1>9, <2>1 DEF Waits, Is4360
<1>11. Dangles'
  <2>1. \A s \in Scratch : <<s, probes>> \notin dangling
    BY <1>1, <1>7 DEF GoodInv, Dangles
  <2> QED
    BY <1>2, <2>1 DEF Dangles, Intact
<1>12. Queues'
  <2>1. queued' = {}
    BY <1>1, <1>2, <1>7
  <2> QED
    BY <2>1 DEF Queues
<1>13. \A u \in Threads : Rem(u)' \intersect Goes = {}
  BY <1>3, <1>4, ResetNeeds
<1>14. Handles'
  <2> SUFFICES ASSUME isr # 0
               PROVE  ~Is4360 /\ isr = probes /\ Has(probes, {"devinfo", "map"})' /\ "irq_sync" \in Rem("work")'
    BY <1>2, <1>4, <1>13 DEF Handles, Is4360
  <2>1. ~Is4360 /\ isr = probes /\ Has(probes, {"devinfo", "map"})
    BY DEF GoodInv, Handles
  <2> QED
    BY <1>2, <1>3, <2>1, ResetNeeds DEF Has
<1>15. Timed'
  <2>1. timer \subseteq {probes} /\ (probes \in timer \union up => Has(probes, {"devinfo", "map"}))
    BY DEF GoodInv, Timed
  <2> QED
    BY <1>2, <1>13, <2>1 DEF Timed, Has
<1> QED
  BY <1>8, <1>10, <1>11, <1>12, <1>14, <1>15 DEF GoodInv

\* Beside the threads: suspending and resuming, the interrupt, debugfs.
LEMMA BesideKeeps ==
  ASSUME Beside
  PROVE  /\ \A t \in Threads : Rem(t)' = Rem(t)
         /\ gen' = gen /\ bound' = bound /\ probes' = probes /\ drvdata' = drvdata /\ live' = live
         /\ dangling' = dangling /\ waitq' = waitq /\ pending' = pending
BY DEF Beside, Rem, Remaining

\* what a thread list that takes something away ends with
LEMMA GoesOnCore ==
  ASSUME Shaped, SmoothInv, NEW t \in Threads, Rem(t) \intersect Goes # {}
  PROVE  t = "core"
<1>1. Rem("cb") \subseteq SetupSet /\ Rem("work") \subseteq ResetSet
  BY DEF Shaped, SmoothInv, Unfailed
<1> QED
  BY <1>1, SetupNeeds, ResetNeeds DEF Threads

\* with nothing under way, a device that holds something is bound and alone
LEMMA StillStands ==
  ASSUME Shaped, SerialInv, ~Building, live # {}
  PROVE  bound /\ pending = {} /\ \A t \in Threads : Rem(t) = {}
<1>1. pending = {} /\ \A t \in Threads : todo[t] = <<>>
  BY DEF Building
<1>2. \A t \in Threads : Rem(t) = {}
  BY <1>1, EmptyRem DEF Shaped
<1>3. "core" \in Threads
  BY DEF Threads
<1> QED
  BY <1>1, <1>2, <1>3 DEF SerialInv, Covered

LEMMA BesideQueues ==
  ASSUME IInv, SerialInv, SmoothInv, GoodInv, Beside, Serial'
  PROVE  Queues'
<1>0. Shaped
  BY DEF IInv
<1>1. /\ \A t \in Threads : Rem(t)' = Rem(t)
      /\ bound' = bound /\ probes' = probes /\ pending' = pending
  BY BesideKeeps
<1>2. CASE queued' = queued
  <2>1. Queues
    BY DEF GoodInv
  <2> QED
    BY <1>1, <1>2, <2>1 DEF Queues
<1>3. CASE ~Building /\ live # {} /\ queued' \subseteq queued \union {probes}
  <2>1. bound /\ pending = {} /\ \A t \in Threads : Rem(t) = {}
    BY <1>0, <1>3, StillStands
  <2>2. queued \subseteq {probes}
    BY DEF GoodInv, Queues
  <2> QED
    BY <1>1, <1>3, <2>1, <2>2 DEF Queues
<1>4. CASE Interrupts
  <2>1. ASSUME isr # 0, queued' = queued \union ({isr} \intersect armed), "overlap" \notin happened' => ~Building
        PROVE  Queues'
    <3>1. isr = probes /\ <<"map", probes>> \in live
      BY <2>1 DEF GoodInv, Handles, Has
    <3> QED
      BY <1>3, <2>1, <3>1 DEF Serial
  <2> QED
    BY <1>2, <1>4, <2>1 DEF Interrupts
<1>5. ASSUME NEW g, Debugs(g) PROVE Queues'
  <2>1. <<"cfg80211", g>> \in live /\ g = probes
    <3>1. <<"cfg80211", g>>[2] = g
      OBVIOUS
    <3> QED
      BY <1>5, <3>1 DEF Debugs, SerialInv, OneGeneration
  <2> QED
    BY <1>2, <1>3, <1>5, <2>1 DEF Debugs, Serial
<1> QED
  BY <1>2, <1>4, <1>5 DEF Beside, Sleeps, Wakes

LEMMA BesideHandles ==
  ASSUME IInv, SerialInv, SmoothInv, GoodInv, Beside, setting' = setting
  PROVE  Handles'
<1>0. Shaped /\ Stays4360
  BY DEF IInv
<1>1. /\ \A t \in Threads : Rem(t)' = Rem(t)
      /\ probes' = probes /\ live' = live /\ Is4360' = Is4360
  BY BesideKeeps DEF Is4360
<1>2. CASE isr' = isr
  <2>1. Handles
    BY DEF GoodInv
  <2> QED
    BY <1>1, <1>2, <2>1 DEF Handles, Has
<1>3. CASE isr' = 0
  BY <1>3 DEF Handles
<1>4. CASE <<"irq", isr'>> \in live
  <2>1. <<"irq", isr'>>[1] = "irq" /\ <<"irq", isr'>>[2] = isr'
    OBVIOUS
  <2>2. isr' = probes /\ ~Is4360
    BY <1>0, <1>4, <2>1 DEF SerialInv, OneGeneration, Stays4360, Later
  <2>3. Has(probes, {"devinfo", "map"}) /\ \A t \in Threads : Rem(t) \intersect Goes # {} => "rel_irq" \in Rem(t)
    BY <1>4, <2>2 DEF SerialInv, HandlerFirst
  <2>4. ASSUME NEW t \in Threads, "rel_irq" \in Rem(t) PROVE "irq_sync" \in Rem(t)
    <3>1. Plan(todo[t]) /\ "rel_irq" \in Remaining(todo[t])
      BY <1>0, <2>4 DEF Shaped, Rem
    <3>2. Awaits("rel_irq") \subseteq Rem(t)
      BY <3>1, AwaitedIsListed DEF Rem
    <3> QED
      BY <3>2 DEF Awaits
  <2> QED
    BY <1>1, <1>4, <2>2, <2>3, <2>4 DEF Handles, Has
<1> QED
  BY <1>2, <1>3, <1>4 DEF Beside, Sleeps, Wakes, Interrupts, Debugs

LEMMA BesideTimed ==
  ASSUME IInv, SerialInv, SmoothInv, GoodInv, Beside
  PROVE  Timed'
<1>0. Shaped /\ LifeTypes
  BY DEF IInv
<1>1. /\ \A t \in Threads : Rem(t)' = Rem(t)
      /\ probes' = probes /\ live' = live
  BY BesideKeeps
<1>2. Timed
  BY DEF GoodInv
<1>3. CASE timer' \subseteq timer /\ up' \subseteq up
  BY <1>1, <1>2, <1>3 DEF Timed, Has
<1>4. CASE Wakes
  <2>1. "core" \in Threads /\ Plan(todo["core"])
    BY <1>0 DEF Threads, Shaped
  <2>2. bound /\ Rem("core") = {} /\ up' = up \union {drvdata} /\ timer' \subseteq timer \union {drvdata}
    BY <1>4, <2>1, EmptyRem DEF Wakes
  <2>3. drvdata = probes /\ Has(probes, Base) /\ {"devinfo", "map"} \subseteq Base
    BY <2>2, Whole DEF Base
  <2>4. \A t \in Threads : Rem(t) \intersect Goes = {}
    BY <1>0, <2>2, GoesOnCore
  <2> QED
    BY <1>1, <1>2, <2>2, <2>3, <2>4 DEF Timed, Has
<1>5. ASSUME NEW g, <<"cfg80211", g>> \in live, up' = up, timer' \subseteq timer \union ({g} \intersect up)
      PROVE  Timed'
  <2>1. g = probes
    <3>1. <<"cfg80211", g>>[2] = g
      OBVIOUS
    <3> QED
      BY <1>5, <3>1 DEF SerialInv, OneGeneration
  <2>2. ASSUME NEW t \in Threads, "set_down" \in Rem(t) PROVE "bus_stop" \in Rem(t)
    <3>1. Plan(todo[t]) /\ "set_down" \in Remaining(todo[t])
      BY <1>0, <2>2 DEF Shaped, Rem
    <3>2. Awaits("set_down") \subseteq Rem(t)
      BY <3>1, AwaitedIsListed DEF Rem
    <3> QED
      BY <3>2 DEF Awaits
  <2> QED
    BY <1>1, <1>2, <1>5, <2>1, <2>2 DEF Timed, Has
<1> QED
  BY <1>3, <1>4, <1>5 DEF Beside, Sleeps, Interrupts, Debugs

LEMMA BesideGood ==
  ASSUME IInv, SerialInv, SmoothInv, GoodInv, Beside, Serial', setting' = setting
  PROVE  GoodInv'
<1>1. /\ \A t \in Threads : Rem(t)' = Rem(t)
      /\ gen' = gen /\ bound' = bound /\ probes' = probes /\ drvdata' = drvdata /\ live' = live
      /\ dangling' = dangling /\ waitq' = waitq /\ pending' = pending
  BY BesideKeeps
<1>2. "core" \in Threads /\ "cb" \in Threads /\ "work" \in Threads /\ Is4360' = Is4360
  BY DEF Threads, Is4360
<1>3. Stocked("cb") /\ Stocked("work") /\ Waits /\ Dangles
  BY DEF GoodInv
<1>4. Stocked("cb")' /\ Stocked("work")'
  BY <1>1, <1>2, <1>3 DEF Stocked
<1>5. Upright' <=> Upright
  BY <1>1, <1>2 DEF Upright
<1>6. Waits'
  BY <1>1, <1>2, <1>3, <1>5 DEF Waits
<1>7. Dangles'
  BY <1>1, <1>2, <1>3, <1>5 DEF Dangles, Intact
<1> QED
  BY <1>4, <1>6, <1>7, BesideQueues, BesideHandles, BesideTimed DEF GoodInv

\* While no step fails and nothing overlaps, every step keeps the invariant.
LEMMA GoodNext ==
  ASSUME IInv, SerialInv, SmoothInv, GoodInv, Moves \/ Beside, Serial', Smooth', setting' = setting
  PROVE  GoodInv'
<1>1. ASSUME NEW t \in Threads, NEW L, Breaks(t, Head(todo[t]), L) PROVE FALSE
  BY <1>1 DEF Breaks, Smooth
<1>2. ASSUME Moves PROVE GoodInv'
  BY <1>1, <1>2, DoesGood, EntersGood, TakesAwayGood, BuildsGood, ResetsGood DEF Moves
<1> QED
  BY <1>2, BesideGood

\* What a thread touches is there.
LEMMA ThreadsSound ==
  ASSUME IInv, SerialInv, SmoothInv, GoodInv, Faulty, Smooth'
  PROVE  FALSE
<1>0. Shaped /\ OneBuilds /\ Holders
  BY DEF IInv, SerialInv
<1>1. Threads = {"core", "cb", "work"}
  BY DEF Threads
<1>2. ASSUME NEW t \in Threads, todo[t] # <<>> PROVE Sound(t) /\ Head(todo[t]) \in Rem(t)
  <2>1. Stocked(t)
    BY <1>1 DEF SmoothInv, GoodInv
  <2>2. Plan(todo[t]) /\ Head(todo[t]) \in Remaining(todo[t])
    BY <1>0, <1>2, TailPlan DEF Shaped
  <2> QED
    BY <1>0, <1>2, <2>1, <2>2, StockedIsSound DEF Rem
<1>3. ASSUME NEW t \in Threads, todo[t] # <<>>, ~Sound(t) PROVE FALSE
  BY <1>2, <1>3
<1>4. ASSUME NEW t \in Threads, NEW s, At(t, s) PROVE s \in Rem(t)
  BY <1>2, <1>4 DEF At
<1>5. ASSUME NEW t \in Threads, At(t, "rel_scratch"), Of(Scratch, gen[t]) \intersect dangling # {} PROVE FALSE
  <2>1. "rel_scratch" \in Rem(t) /\ "rel_scratch" # "unbound"
    BY <1>4, <1>5
  <2>2. gen[t] = probes
    BY <2>1 DEF SerialInv, OneGeneration
  <2>3. Intact(probes)
    BY <2>1 DEF GoodInv, Dangles
  <2> QED
    BY <1>5, <2>2, <2>3 DEF Intact, Of
<1>6. ASSUME NEW t \in Threads, t # "cb", At(t, "get_fw"),
             gen[t] \in pending \/ (todo["cb"] # <<>> /\ gen["cb"] = gen[t])
      PROVE  FALSE
  <2>1. "get_fw" \in Rem(t)
    BY <1>4, <1>6
  <2>2. pending = {} /\ Rem("cb") = {}
    BY <1>0, <1>1, <1>6, <2>1 DEF OneBuilds, Working
  <2>3. Head(todo["cb"]) \notin Rem("cb")
    BY <2>2
  <2> QED
    BY <1>1, <1>2, <1>6, <2>2, <2>3
<1>7. ASSUME At("cb", "cfg80211"), gen["cb"] \in queued PROVE FALSE
  <2>1. "cfg80211" \in Rem("cb")
    BY <1>1, <1>4, <1>7
  <2> QED
    BY <1>1, <1>7, <2>1 DEF GoodInv, Queues
<1>8. ASSUME NEW g \in pending, drvdata # g \/ ~Has(g, {"bus", "busdev", "devinfo", "map"}) PROVE FALSE
  <2>1. g = probes /\ (Rem("core") = {} \/ Rem("core") = {"probed"})
    BY <1>0, <1>8 DEF OneBuilds, Working
  <2>2. (bound /\ Rem("core") = {}) \/ Rem("core") = {"probed"}
    BY <1>0, <1>8, <2>1 DEF Holders
  <2>3. drvdata = probes /\ Has(probes, Base)
    BY <2>2, Whole
  <2> QED
    BY <1>8, <2>1, <2>3 DEF Has, Base
<1>9. ASSUME happened' = happened \union {"failure"} PROVE FALSE
  BY <1>9 DEF Smooth
<1> QED
  BY <1>3, <1>5, <1>6, <1>7, <1>8, <1>9 DEF Faulty

\* Nothing halts while no step fails and nothing overlaps, but the suspend of a BCM4360.
LEMMA GoodHalts ==
  ASSUME IInv, SerialInv, SmoothInv, GoodInv, Halts, Serial', Smooth'
  PROVE  Is4360 /\ fault' = <<"core", "enter_D3">>
<1>0. Shaped /\ Threads = {"core", "cb", "work"}
  BY DEF IInv, Threads
<1>1. ASSUME todo["core"] = <<>> PROVE Rem("core") = {}
  BY <1>1, EmptyPlan DEF Rem
<1>2. \A r \in {"bus", "busdev", "devinfo", "map", "drvr"} : Has(probes, Base) => <<r, probes>> \in live
  BY DEF Has, Base
<1>3. CASE Faulty
  BY <1>3, ThreadsSound
<1>4. ASSUME todo["core"] = <<>>, bound PROVE drvdata = probes /\ probes # 0 /\ Has(probes, Base)
  BY <1>1, <1>4, Whole
<1>5. ASSUME todo["core"] = <<>>, bound, ~Has(drvdata, {"bus", "busdev", "devinfo"}) PROVE FALSE
  BY <1>2, <1>4, <1>5 DEF Has
<1>6. ASSUME todo["core"] = <<>>, bound, ~Busy,
             drvdata = 0 \/ drvdata \notin waitq \/ ~Has(drvdata, {"bus", "busdev", "devinfo", "map"})
      PROVE  Is4360
  <2>1. drvdata = probes /\ probes \notin waitq
    BY <1>2, <1>4, <1>6 DEF Has
  <2>2. pending = {} /\ todo["cb"] = <<>>
    BY <1>0, <1>6 DEF Busy, Building
  <2>3. Rem("core") = {} /\ Rem("cb") = {}
    BY <1>1, <1>6, <2>2, EmptyPlan DEF Rem
  <2>4. Upright
    BY <1>6, <2>3 DEF Upright
  <2> QED
    BY <2>1, <2>2, <2>3, <2>4 DEF GoodInv, Waits
<1>7. ASSUME NEW g \in queued, ~Has(g, {"drvr", "bus", "busdev"}) PROVE FALSE
  <2>1. g = probes /\ bound /\ Rem("core") = {}
    BY <1>0, <1>7 DEF GoodInv, Queues
  <2>2. Has(probes, Base)
    BY <2>1, Whole
  <2> QED
    BY <1>2, <1>7, <2>1, <2>2 DEF Has
<1>8. ASSUME isr # 0 PROVE isr = probes /\ Has(probes, {"devinfo", "map"})
  BY <1>8 DEF GoodInv, Handles
<1>9. ASSUME isr # 0, ~Has(isr, {"bus", "drvr"}), ~Building PROVE FALSE
  <2>1. live # {}
    BY <1>8, <1>9 DEF Has
  <2>2. bound /\ Rem("core") = {}
    BY <1>0, <1>9, <2>1, StillStands
  <2>3. Has(probes, Base)
    BY <2>2, Whole
  <2> QED
    BY <1>2, <1>8, <1>9, <2>3 DEF Has
<1>10. ASSUME NEW g \in timer, ~Has(g, {"devinfo", "map"}) PROVE FALSE
  BY <1>10 DEF GoodInv, Timed
<1> QED
  BY <1>3, <1>5, <1>6, <1>7, <1>8, <1>9, <1>10 DEF Halts, Serial
-----------------------------------------------------------------------------
(***************************************************************************)
(* All of it together.                                                     *)
(***************************************************************************)
\* The history only grows, and a step that goes on makes no fault.
LEMMA HappenedGrows ==
  ASSUME Moves \/ Beside \/ Halts
  PROVE  /\ happened \subseteq happened'
         /\ Moves \/ Beside => fault' = fault
BY DEF Moves, Does, Breaks, Enters, TakesAway, Builds, Resets, Beside, Halts

\* A fault leaves everything else as it was.
LEMMA HaltsKeepGood ==
  ASSUME GoodInv, Halts, setting' = setting
  PROVE  GoodInv'
<1>1. Stops
  BY DEF Halts
<1>2. /\ \A t \in Threads : Rem(t)' = Rem(t)
      /\ gen' = gen /\ bound' = bound /\ probes' = probes /\ live' = live /\ dangling' = dangling
      /\ waitq' = waitq /\ pending' = pending /\ queued' = queued /\ isr' = isr
      /\ up' = up /\ timer' = timer /\ Is4360' = Is4360
  BY <1>1 DEF Stops, Rem, Remaining, Is4360
<1>3. "core" \in Threads /\ "cb" \in Threads /\ "work" \in Threads
  BY DEF Threads
<1>4. Stocked("cb") /\ Stocked("work") /\ Waits /\ Dangles /\ Queues /\ Handles /\ Timed
  BY DEF GoodInv
<1>5. Stocked("cb")' /\ Stocked("work")'
  BY <1>2, <1>3, <1>4 DEF Stocked
<1>6. Upright' <=> Upright
  BY <1>2, <1>3 DEF Upright
<1>7. Waits'
  BY <1>2, <1>3, <1>4, <1>6 DEF Waits
<1>8. Dangles'
  BY <1>2, <1>3, <1>4, <1>6 DEF Dangles, Intact
<1>9. Queues'
  BY <1>2, <1>4 DEF Queues
<1>10. Handles'
  BY <1>2, <1>4 DEF Handles, Has
<1>11. Timed'
  BY <1>2, <1>4 DEF Timed, Has
<1> QED
  BY <1>5, <1>7, <1>8, <1>9, <1>10, <1>11 DEF GoodInv

FullInv ==
  /\ IInv
  /\ NoReset => Unreset
  /\ Smooth => SmoothInv
  /\ NoReset /\ Smooth => Undangled
  /\ Serial /\ Smooth => GoodInv
  /\ FaultsHaveCause /\ RemoverIsSafe

LEMMA FullInit ==
  ASSUME Init
  PROVE  FullInv
<1>1. \A t \in Threads : Rem(t) = {}
  BY EmptyPlan DEF Init, Rem
<1>2. "core" \in Threads /\ "cb" \in Threads /\ "work" \in Threads
  BY DEF Threads
<1>3. /\ live = {} /\ dangling = {} /\ lost = {} /\ pending = {} /\ queued = {} /\ isr = 0 /\ timer = {}
      /\ up = {} /\ armed = {} /\ bound = FALSE /\ fault = NoFault
  BY DEF Init
<1>4. Unreset
  BY <1>1, <1>2, <1>3 DEF Unreset
<1>5. SmoothInv
  BY <1>1, <1>2, <1>3 DEF SmoothInv, Unfailed, Stocked, Stands
<1>6. Undangled
  BY <1>1, <1>2, <1>3 DEF Undangled
<1>7. GoodInv
  <2>1. ~Upright
    BY <1>1, <1>2, <1>3 DEF Upright
  <2>2. Stocked("cb") /\ Stocked("work")
    BY <1>1, <1>2 DEF Stocked
  <2>3. Waits /\ Dangles
    BY <1>1, <1>3, <2>1 DEF Waits, Dangles
  <2>4. Queues /\ Handles /\ Timed
    BY <1>1, <1>3 DEF Queues, Handles, Timed
  <2> QED
    BY <2>2, <2>3, <2>4 DEF GoodInv
<1>8. FaultsHaveCause /\ RemoverIsSafe
  BY <1>3 DEF FaultsHaveCause, RemoverIsSafe, NoFault
<1> QED
  BY <1>4, <1>5, <1>6, <1>7, <1>8, IInit DEF FullInv

LEMMA FullNext ==
  ASSUME FullInv, [Next]_vars
  PROVE  FullInv'
<1>0. /\ IInv /\ (NoReset => Unreset) /\ (Smooth => SmoothInv) /\ (NoReset /\ Smooth => Undangled)
      /\ (Serial /\ Smooth => GoodInv) /\ FaultsHaveCause /\ RemoverIsSafe
      /\ Shaped /\ LifeTypes /\ Stays4360 /\ (Serial => SerialInv)
  BY DEF FullInv, IInv
<1>1. (Moves \/ Beside \/ (Halts /\ fault = NoFault)) /\ Kinds /\ setting' = setting
  BY <1>0, StepCases, StepKinds
<1>2. happened \subseteq happened' /\ (Moves \/ Beside => fault' = fault)
  BY <1>1, HappenedGrows
<1>3. (Serial' => Serial) /\ (Smooth' => Smooth) /\ (NoReset' => NoReset) /\ Is4360' = Is4360
  BY <1>1, <1>2 DEF Serial, Smooth, NoReset, Is4360
<1>4. IInv'
  BY <1>0, Inductive
<1>5. NoReset' => Unreset'
  BY <1>0, <1>1, UnresetNext
<1>6. Smooth' => SmoothInv'
  BY <1>0, <1>1, SmoothNext
<1>7. NoReset' /\ Smooth' => Undangled'
  BY <1>0, <1>1, <1>3, UndangledNext
<1>8. Serial' /\ Smooth' => GoodInv'
  BY <1>0, <1>1, <1>3, GoodNext, HaltsKeepGood
<1>9. FaultsHaveCause'
  <2>1. CASE fault' = fault
    BY <1>0, <1>2, <1>3, <2>1 DEF FaultsHaveCause
  <2>2. CASE Halts
    <3>1. Serial' /\ Smooth' => Is4360 /\ fault' = <<"core", "enter_D3">>
      BY <1>0, <1>3, <2>2, GoodHalts
    <3> QED
      BY <1>3, <3>1 DEF FaultsHaveCause, Serial, Smooth
  <2> QED
    BY <1>1, <1>2, <2>1, <2>2
<1>10. RemoverIsSafe'
  BY <1>0, RemoverNext
<1> QED
  BY <1>4, <1>5, <1>6, <1>7, <1>8, <1>9, <1>10 DEF FullInv

\* The device's life keeps all of it, through every probe, setup, reset, suspend and
\* removal, whatever fails and whatever overlaps.
THEOREM FullInvariant == Spec => []FullInv
<1>1. Init => FullInv
  BY FullInit
<1>2. FullInv /\ [Next]_vars => FullInv'
  BY FullNext
<1> QED
  BY <1>1, <1>2, PTL DEF Spec

\* What the driver holds has its type, and what is left of every list of steps is in
\* order: nothing is used after the list frees it or before the list takes it, and
\* the list still has its last step, whichever thread runs it and whatever overlaps.
THEOREM ListsStayInOrder == Spec => [](LifeTypes /\ Shaped)
<1>1. FullInv => LifeTypes /\ Shaped
  BY DEF FullInv, IInv
<1> QED
  BY <1>1, FullInvariant, PTL

\* Once brcmf_pcie_probe has failed, or brcmf_pcie_remove or a failed setup has
\* unbound the driver, with nothing overlapping, the device holds no memory; and no
\* reference is overwritten but that of the flow rings, by a reset.
THEOREM NothingLeaksHolds == Spec => []NothingLeaks
<1>1. ASSUME FullInv PROVE NothingLeaks
  <2>1. (Serial => Covered /\ FreshTakes) /\ (NoReset => Unreset)
    BY <1>1 DEF FullInv, IInv, SerialInv
  <2>2. "core" \in Threads
    BY DEF Threads
  <2>3. todo["core"] = <<>> => Rem("core") = {}
    BY EmptyPlan DEF Rem
  <2>4. Serial /\ ~bound /\ (\A t \in Threads : todo[t] = <<>>) => live = {}
    BY <2>1, <2>2, <2>3 DEF Covered
  <2> QED
    BY <2>1, <2>4 DEF NothingLeaks, FreshTakes, Unreset
<1> QED
  BY <1>1, FullInvariant, PTL

\* While no step fails and nothing overlaps a probe, setup, reset or removal, no
\* thread, handler or timer of the driver touches memory that is gone, for any
\* number of probes, resets and suspends; but the suspend of a BCM4360 does, whose
\* setup returned before it initialised the wait queue.
THEOREM FaultsHaveCauseHolds == Spec => []FaultsHaveCause
<1>1. FullInv => FaultsHaveCause
  BY DEF FullInv
<1> QED
  BY <1>1, FullInvariant, PTL

\* brcmf_pcie_remove never touches or frees memory that is gone, also when it runs
\* while the firmware callback sets the device up, unless a step failed or the
\* firmware crashed and a reset may be under way.
THEOREM RemoverIsSafeHolds == Spec => []RemoverIsSafe
<1>1. FullInv => RemoverIsSafe
  BY DEF FullInv
<1> QED
  BY <1>1, FullInvariant, PTL

\* As long as nothing overlaps a probe, setup, reset or removal, the handler that is
\* requested finds what it reads: brcmf_pcie_setup requests it after the mappings, and
\* brcmf_pcie_remove and brcmf_pcie_reset give it back before them, whatever failed.
THEOREM HandlerHasItsDataHolds == Spec => []HandlerHasItsData
<1>1. ASSUME FullInv PROVE HandlerHasItsData
  <2> SUFFICES ASSUME Serial, NEW g \in Gens, <<"irq", g>> \in live
               PROVE  Has(g, {"devinfo", "map"})
    BY DEF HandlerHasItsData
  <2>1. OneGeneration /\ HandlerFirst
    BY <1>1 DEF FullInv, IInv, SerialInv
  <2>2. <<"irq", g>>[2] = g
    OBVIOUS
  <2>3. g = probes
    BY <2>1, <2>2 DEF OneGeneration
  <2> QED
    BY <2>1, <2>3 DEF HandlerFirst
<1> QED
  BY <1>1, FullInvariant, PTL
=============================================================================
