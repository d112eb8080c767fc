------------------------- MODULE TestHarnessProofs -------------------------
(***************************************************************************)
(* The staged bring-up of TestHarness, for every choice of levels and      *)
(* every number of loads.                                                  *)
(*                                                                         *)
(* What the levels promise is a matter of order: a step that needs         *)
(* something comes after the step that provides it, and nothing between    *)
(* them takes it away.  The order is shown of the lists the levels are,    *)
(* and kept by what is left of them.                                       *)
(***************************************************************************)
EXTENDS TestHarness, TLAPS, SequenceTheorems

-----------------------------------------------------------------------------
(***************************************************************************)
(* Steps.                                                                  *)
(***************************************************************************)
One(op)       == <<op>>
Reg(reg, val) == <<"write", "arm", reg, val>>
Msk(val)      == <<"write", "pcie", "intmask", val>>
See(core)     == <<"window", core>>
Clk      == Reg("ioctl", "clk")
Halt     == Reg("ioctl", "halt")
ResetIn  == Reg("reset", "in")
ResetOut == Reg("reset", "out")
Irq      == One("request irq")
Check    == One("check reset")

Writes == {Clk, Halt, ResetIn, ResetOut} \cup {Msk("on"), Msk("off")}
Views  == {See(core) : core \in {"cc", "pcie", "arm"}}
Front  == Views \cup {One(op) : op \in {"clear master", "try", "set master", "map regs", "alive"}}
\* what levels 4 and 5 do while the handler is registered
Late   == Views \cup Writes
          \cup {One(op) : op \in {"check reset", "set master", "clear master", "poll", "scan", "pass", "free irq"}}
Leave  == {One(op) : op \in {"free olmsg", "unmap", "unbind"}}
Steps  == Front \cup Late \cup Leave
          \cup {One(op) : op \in {"map tcm", "download", "verify", "olmsg", "shared_info", "request irq"}}
\* steps that want CPUHALT set, before the handler is registered
Calm   == {ResetOut, One("download"), One("verify")}

-----------------------------------------------------------------------------
(***************************************************************************)
(* Order in a list of steps.                                               *)
(***************************************************************************)
StepsOf(s) == {s[i] : i \in 1 .. Len(s)}
\* each step of Y follows one of X, with none of Z between them
Since(s, X, Z, Y) == \A i \in 1 .. Len(s) : s[i] \in Y =>
  \E j \in 1 .. i - 1 : s[j] \in X /\ \A k \in j + 1 .. i - 1 : s[k] \notin Z
\* and after each step of Z there is one of X again
Again(s, X, Z, Y) == \A h \in 1 .. Len(s) : \A i \in h + 1 .. Len(s) : s[h] \in Z /\ s[i] \in Y =>
  \E j \in h + 1 .. i - 1 : s[j] \in X /\ \A k \in j + 1 .. i - 1 : s[k] \notin Z
\* the list leaves things as its last step of X made them
Ends(s, X, Z) == \E j \in 1 .. Len(s) : s[j] \in X /\ \A k \in j + 1 .. Len(s) : s[k] \notin Z
\* the list relies on what was before it
Soon(s, Z, Y) == \A i \in 1 .. Len(s) : s[i] \in Y => \A k \in 1 .. i - 1 : s[k] \notin Z

\* the window is set directly before each access
Written(s) == \A i \in 2 .. Len(s) : s[i] \in Writes => s[i - 1] = See(s[i][2])
\* arm_release reads RESET_CTL before it lets the clock run
Released(s) == \A i \in 1 .. Len(s) : s[i] = Check =>
  i + 2 <= Len(s) /\ s[i + 1] = See("arm") /\ s[i + 2] = Clk
\* arm_halt takes CPUHALT away only to assert the reset next
Paired(s) == \A i \in 1 .. Len(s) : s[i] = Clk =>
  \/ i + 2 <= Len(s) /\ s[i + 1] = See("arm") /\ s[i + 2] = ResetIn
  \/ \E j \in 1 .. i - 1 : s[j] = Irq
\* what may come after what at level l
Allowed(l, x, y) ==
  /\ x = Irq => y \in Late
  /\ x = One("free irq") => y = One("pass")
  /\ x \in Leave => y \in {One("unmap"), One("unbind")}
  /\ x = One("unmap") => y = One("unbind")
  /\ x # One("unbind")
  /\ l # 5 /\ y = One("set master") => x \in Front
Order(l, s) == \A i \in 1 .. Len(s) : \A j \in i + 1 .. Len(s) : Allowed(l, s[i], s[j])

-----------------------------------------------------------------------------
(***************************************************************************)
(* The invariant.                                                          *)
(***************************************************************************)
Safe  == fw = "none" \/ ~ArmRuns
Ready == fw \in {"whole", "mismatched"}

TypeOK ==
  /\ todo \in Seq(Steps)
  /\ loaded \in BOOLEAN /\ level \in 0 .. 5 /\ loads \in Nat
  /\ regs \in BOOLEAN /\ tcm \in BOOLEAN /\ olmsg \in BOOLEAN /\ irq \in BOOLEAN
  /\ isr \in {"idle", "read", "ack"} /\ master \in BOOLEAN
  /\ ioctl \in {"clk", "halt"} /\ reset \in {"in", "out"}
  /\ fw \in Images
\* What is left to do keeps the order of the whole.
Static(l, s) ==
  /\ Written(s) /\ Released(s) /\ Order(l, s)
  /\ Irq \in StepsOf(s) => One("free irq") \in StepsOf(s)
  /\ Again(s, {Halt, Irq}, {Clk}, Calm)
  /\ Again(s, {Halt}, {Clk}, Leave)
  /\ l # 5 => Again(s, {One("clear master")}, {One("set master")}, {Irq})
  /\ l = 4 => Again(s, {One("verify")}, {One("download")}, {Irq})
\* While the handler is registered it has what it reads, and it will be given back;
\* while it is not, each access goes where it is meant to.
Irqs ==
  /\ irq => loaded /\ regs /\ StepsOf(todo) \subseteq Late /\ One("free irq") \in StepsOf(todo)
  /\ ~irq => isr = "idle" /\ Paired(todo) /\ (At("write") => window = Head(todo)[2])
\* Nothing is used before it is mapped.
Mapped ==
  /\ ~loaded => todo = <<>> /\ Safe
  /\ regs \/ Since(todo, {One("map regs")}, {}, {Irq})
  /\ tcm \/ (Since(todo, {One("map tcm")}, {}, Writes \cup {One("download")}) /\ Safe)
\* The ARM is halted where a step relies on it.
Halted ==
  /\ irq \/ ioctl = "halt" \/ Since(todo, {Halt, Irq}, {Clk}, Calm)
  /\ irq \/ Safe \/ Since(todo, {Halt}, {Clk}, Leave)
\* Bus mastering is off before the ARM may run what the harness wrote.
Mastering ==
  level # 5 =>
    /\ irq => ~master
    /\ One("set master") \in StepsOf(todo) => Safe /\ ~irq
    /\ master => Since(todo, {One("clear master")}, {One("set master")}, {Irq})
    /\ Safe \/ ~master \/ Unhalted
\* Level 4 fills TCM before it registers the handler.
Filled ==
  level = 4 =>
    /\ Ready \/ (~irq /\ Since(todo, {One("verify")}, {One("download")}, {Irq}))
    /\ olmsg \/ (~irq /\ Since(todo, {One("olmsg")}, {}, {Irq}))
    /\ shared = loads \/ (~irq /\ Since(todo, {One("shared_info")}, {}, {Irq}))
IInv == TypeOK /\ Static(level, todo) /\ Irqs /\ Mapped /\ Halted /\ Mastering /\ Filled

-----------------------------------------------------------------------------
(***************************************************************************)
(* Facts about order.                                                      *)
(***************************************************************************)
\* What is what.
LEMMA Kinds ==
  /\ \A x \in Writes : x[1] = "write" /\ x \in Late /\ x \in Steps
  /\ \A x \in Steps : x[1] = "write" => x \in Writes
  /\ Clk \in Writes /\ Halt \in Writes /\ ResetIn \in Writes /\ ResetOut \in Writes
  /\ Clk # Halt /\ Clk # ResetIn /\ Clk # ResetOut /\ Halt # ResetOut /\ Halt # ResetIn /\ ResetIn # ResetOut
  /\ \A core : See(core)[1] = "window" /\ See(core)[2] = core
  /\ \A x \in Steps : x[1] = "window" => x = See(x[2]) /\ x \in Views
  /\ \A x \in Steps : \A op : x[1] = op /\ op \notin {"window", "write"} => x = One(op)
  /\ \A op : One(op)[1] = op
  /\ Irq \in Steps /\ Irq[1] = "request irq"
  /\ \A x \in Late \cup Front \cup Leave \cup Writes \cup Views : x[1] # "request irq" /\ x \in Steps
  /\ \A x \in Leave : x[1] \in {"free olmsg", "unmap", "unbind"}
  /\ \A x \in Front \cup Late : x[1] \notin {"free olmsg", "unmap", "unbind", "download", "verify", "map tcm"}
  /\ \A x \in Front : x[1] \in {"window", "clear master", "try", "set master", "map regs", "alive"}
  /\ \A x \in Calm : x[1] \in {"write", "download", "verify"}
<1>1. Writes = {Clk, Halt, ResetIn, ResetOut, Msk("on"), Msk("off")}
  BY DEF Writes
<1>2. Views = {See("cc"), See("pcie"), See("arm")}
  BY DEF Views
<1>3. \A core : See(core)[1] = "window" /\ See(core)[2] = core
  BY DEF See
<1>4. /\ Clk[1] = "write" /\ Halt[1] = "write" /\ ResetIn[1] = "write" /\ ResetOut[1] = "write"
      /\ Clk[3] = "ioctl" /\ Halt[3] = "ioctl" /\ ResetIn[3] = "reset" /\ ResetOut[3] = "reset"
      /\ Clk[4] = "clk" /\ Halt[4] = "halt" /\ ResetIn[4] = "in" /\ ResetOut[4] = "out"
      /\ Msk("on")[1] = "write" /\ Msk("off")[1] = "write"
  BY DEF Clk, Halt, ResetIn, ResetOut, Reg, Msk
<1>5. \A op : One(op)[1] = op
  BY DEF One
<1>0. \A S : \A x \in {One(op) : op \in S} : x[1] \in S
  <2> SUFFICES ASSUME NEW S, NEW x \in {One(op) : op \in S} PROVE x[1] \in S
    OBVIOUS
  <2>1. PICK op \in S : x = One(op)
    OBVIOUS
  <2> QED
    BY <1>5, <2>1
<1>6. \A x \in Writes : x[1] = "write"
  BY <1>1, <1>4, Zenon
<1>7. \A x \in Views : x[1] = "window" /\ x = See(x[2])
  BY <1>2, <1>3, Zenon
<1>8. \A x \in Steps : x \in Writes \/ x \in Views \/ x = One(x[1])
  <2> SUFFICES ASSUME NEW x \in Steps, x \notin Writes, x \notin Views PROVE x = One(x[1])
    OBVIOUS
  <2>1. PICK op : x = One(op)
    BY DEF Steps, Front, Late, Leave
  <2> QED
    BY <1>5, <2>1
<1>9. \A x \in Front : x \in Views \/ x[1] \in {"clear master", "try", "set master", "map regs", "alive"}
  <2>1. \A x \in {One(op) : op \in {"clear master", "try", "set master", "map regs", "alive"}} :
          x[1] \in {"clear master", "try", "set master", "map regs", "alive"}
    BY <1>0, Zenon
  <2> QED
    BY <2>1, Zenon DEF Front
<1>10. \A x \in Late : x \in Views \/ x \in Writes \/ x[1] \in {"check reset", "set master", "clear master", "poll", "scan", "pass", "free irq"}
  <2>1. \A x \in {One(op) : op \in {"check reset", "set master", "clear master", "poll", "scan", "pass", "free irq"}} :
          x[1] \in {"check reset", "set master", "clear master", "poll", "scan", "pass", "free irq"}
    BY <1>0, Zenon
  <2> QED
    BY <2>1, Zenon DEF Late
<1>11. \A x \in Leave : x[1] \in {"free olmsg", "unmap", "unbind"}
  BY <1>0, Zenon DEF Leave
<1>12. \A x \in Calm : x[1] \in {"write", "download", "verify"}
  BY <1>4, <1>5 DEF Calm
<1>13. Writes \subseteq Late /\ Late \cup Front \cup Leave \cup Writes \cup Views \subseteq Steps
  BY DEF Steps, Late, Front
<1>14. Irq \in Steps /\ Irq[1] = "request irq"
  BY <1>5 DEF Irq, Steps
<1>15. /\ Clk \in Writes /\ Halt \in Writes /\ ResetIn \in Writes /\ ResetOut \in Writes
       /\ Clk # Halt /\ Clk # ResetIn /\ Clk # ResetOut /\ Halt # ResetOut /\ Halt # ResetIn /\ ResetIn # ResetOut
  <2>1. Clk[4] # Halt[4] /\ Clk[3] # ResetIn[3] /\ Clk[3] # ResetOut[3] /\ Halt[3] # ResetOut[3] /\ Halt[3] # ResetIn[3] /\ ResetIn[4] # ResetOut[4]
    BY <1>4
  <2> QED
    BY <1>1, <2>1
<1>16. \A x \in Late \cup Front \cup Leave \cup Writes \cup Views : x[1] # "request irq"
  BY <1>6, <1>7, <1>9, <1>10, <1>11
<1>17. \A x \in Front \cup Late : x[1] \notin {"free olmsg", "unmap", "unbind", "download", "verify", "map tcm"}
  BY <1>6, <1>7, <1>9, <1>10
<1>18. \A x \in Front : x[1] \in {"window", "clear master", "try", "set master", "map regs", "alive"}
  BY <1>7, <1>9
<1>19. \A x \in Steps : x[1] = "write" => x \in Writes
  <2> SUFFICES ASSUME NEW x \in Steps, x[1] = "write" PROVE x \in Writes
    OBVIOUS
  <2>1. x \notin Views
    BY <1>7
  <2>2. ASSUME x \notin Writes PROVE FALSE
    <3>1. x \in Front \cup Late \cup Leave \cup {One(op) : op \in {"map tcm", "download", "verify", "olmsg", "shared_info", "request irq"}}
      BY DEF Steps
    <3>2. CASE x \in Front
      BY <1>18, <3>2
    <3>3. CASE x \in Late
      BY <1>10, <2>1, <2>2, <3>3
    <3>4. CASE x \in Leave
      BY <1>11, <3>4
    <3>5. CASE x \in {One(op) : op \in {"map tcm", "download", "verify", "olmsg", "shared_info", "request irq"}}
      <4>1. x[1] \in {"map tcm", "download", "verify", "olmsg", "shared_info", "request irq"}
        BY <1>0, <3>5, Zenon
      <4> QED
        BY <4>1
    <3> QED
      BY <3>1, <3>2, <3>3, <3>4, <3>5
  <2> QED
    BY <2>2
<1>20. \A x \in Steps : x[1] = "window" => x = See(x[2]) /\ x \in Views
  <2> SUFFICES ASSUME NEW x \in Steps, x[1] = "window" PROVE x \in Views
    BY <1>7
  <2>1. x \notin Writes
    BY <1>6
  <2>2. ASSUME x \notin Views PROVE FALSE
    <3>1. x \in Front \cup Late \cup Leave \cup {One(op) : op \in {"map tcm", "download", "verify", "olmsg", "shared_info", "request irq"}}
      BY DEF Steps
    <3>2. CASE x \in Front
      BY <1>9, <2>2, <3>2
    <3>3. CASE x \in Late
      BY <1>10, <2>1, <2>2, <3>3
    <3>4. CASE x \in Leave
      BY <1>11, <3>4
    <3>5. CASE x \in {One(op) : op \in {"map tcm", "download", "verify", "olmsg", "shared_info", "request irq"}}
      <4>1. x[1] \in {"map tcm", "download", "verify", "olmsg", "shared_info", "request irq"}
        BY <1>0, <3>5, Zenon
      <4> QED
        BY <4>1
    <3> QED
      BY <3>1, <3>2, <3>3, <3>4, <3>5
  <2> QED
    BY <2>2
<1>21. \A x \in Steps : \A op : x[1] = op /\ op \notin {"window", "write"} => x = One(op)
  BY <1>6, <1>7, <1>8
<1>22. \A x \in Writes : x[1] = "write" /\ x \in Late /\ x \in Steps
  BY <1>6, <1>13
<1>23. \A x \in Late \cup Front \cup Leave \cup Writes \cup Views : x[1] # "request irq" /\ x \in Steps
  BY <1>13, <1>16
<1> QED
  BY <1>3, <1>5, <1>11, <1>12, <1>14, <1>15, <1>17, <1>18, <1>19, <1>20, <1>21, <1>22, <1>23

LEMMA Lengths ==
  ASSUME NEW s \in Seq(Steps)
  PROVE  /\ Len(s) \in Nat /\ \A i \in 1 .. Len(s) : s[i] \in Steps
         /\ StepsOf(s) \subseteq Steps
         /\ \A x : x \in StepsOf(s) <=> \E i \in 1 .. Len(s) : s[i] = x
         /\ s # <<>> => Len(s) \in Nat \ {0} /\ s[1] \in StepsOf(s) /\ Head(s) = s[1]
<1>1. Len(s) \in Nat /\ \A i \in 1 .. Len(s) : s[i] \in Steps
  BY LenProperties, ElementOfSeq
<1>2. s # <<>> => Len(s) # 0
  BY <1>1, EmptySeq
<1> QED
  BY <1>1, <1>2 DEF StepsOf

\* Two lists, one after the other.
LEMMA Cat ==
  ASSUME NEW s \in Seq(Steps), NEW t \in Seq(Steps)
  PROVE  /\ s \o t \in Seq(Steps) /\ Len(s \o t) = Len(s) + Len(t)
         /\ \A i \in 1 .. Len(s) : (s \o t)[i] = s[i]
         /\ \A i \in 1 .. Len(t) : (s \o t)[Len(s) + i] = t[i]
         /\ \A i \in 1 .. Len(s \o t) : i \in 1 .. Len(s) \/ (i - Len(s) \in 1 .. Len(t) /\ (s \o t)[i] = t[i - Len(s)])
         /\ StepsOf(s \o t) = StepsOf(s) \cup StepsOf(t)
<1> DEFINE u == s \o t
           n == Len(s)
<1>1. n \in Nat /\ Len(t) \in Nat
  BY Lengths
<1>2. u \in Seq(Steps) /\ Len(u) = n + Len(t)
  BY ConcatProperties
<1>3. \A i \in 1 .. n : u[i] = s[i]
  BY <1>1, ConcatProperties
<1>4. \A i \in 1 .. Len(t) : u[n + i] = t[i]
  BY <1>1, ConcatProperties
<1> HIDE DEF u, n
<1>5. ASSUME NEW i \in 1 .. Len(u) PROVE i \in 1 .. n \/ (i - n \in 1 .. Len(t) /\ u[i] = t[i - n])
  <2>1. CASE i > n
    <3>1. i - n \in 1 .. Len(t) /\ n + (i - n) = i
      BY <1>1, <1>2, <2>1
    <3>2. u[n + (i - n)] = t[i - n]
      BY <1>4, <3>1
    <3> QED
      BY <3>1, <3>2
  <2>2. CASE i <= n
    BY <1>1, <1>2, <2>2
  <2> QED
    BY <1>1, <1>2, <2>1, <2>2
<1>6. StepsOf(u) = StepsOf(s) \cup StepsOf(t)
  <2>1. ASSUME NEW x, x \in StepsOf(u) PROVE x \in StepsOf(s) \cup StepsOf(t)
    <3>1. PICK i \in 1 .. Len(u) : u[i] = x
      BY <2>1 DEF StepsOf
    <3> QED
      BY <1>3, <1>5, <3>1 DEF StepsOf, n
  <2>2. ASSUME NEW x, x \in StepsOf(s) PROVE x \in StepsOf(u)
    <3>1. PICK i \in 1 .. n : s[i] = x
      BY <2>2 DEF StepsOf, n
    <3>2. i \in 1 .. Len(u) /\ u[i] = x
      BY <1>1, <1>2, <1>3, <3>1
    <3> QED
      BY <3>2 DEF StepsOf
  <2>3. ASSUME NEW x, x \in StepsOf(t) PROVE x \in StepsOf(u)
    <3>1. PICK i \in 1 .. Len(t) : t[i] = x
      BY <2>3 DEF StepsOf
    <3>2. n + i \in 1 .. Len(u) /\ u[n + i] = x
      BY <1>1, <1>2, <1>4, <3>1
    <3> QED
      BY <3>2 DEF StepsOf
  <2> QED
    BY <2>1, <2>2, <2>3
<1> QED
  BY <1>2, <1>3, <1>4, <1>5, <1>6 DEF u, n

\* A step of Y in the second list may rely on the first.
LEMMA CatSince ==
  ASSUME NEW s \in Seq(Steps), NEW t \in Seq(Steps), NEW X, NEW Z, NEW Y
  PROVE  /\ Since(s, X, Z, Y) /\ Since(t, X, Z, Y) => Since(s \o t, X, Z, Y)
         /\ Since(s, X, Z, Y) /\ Ends(s, X, Z) /\ Soon(t, Z, Y) => Since(s \o t, X, Z, Y)
         /\ Ends(t, X, Z) => Ends(s \o t, X, Z)
         /\ Ends(s, X, Z) /\ StepsOf(t) \cap Z = {} => Ends(s \o t, X, Z)
<1> DEFINE u == s \o t
           n == Len(s)
<1>0. /\ n \in Nat /\ Len(t) \in Nat /\ Len(u) = n + Len(t)
      /\ \A i \in 1 .. n : u[i] = s[i]
      /\ \A i \in 1 .. Len(t) : u[n + i] = t[i]
      /\ \A i \in 1 .. Len(u) : i \in 1 .. n \/ (i - n \in 1 .. Len(t) /\ u[i] = t[i - n])
  BY Cat, Lengths
<1> HIDE DEF u, n
<1>1. ASSUME Since(s, X, Z, Y), NEW i \in 1 .. n, u[i] \in Y
      PROVE  \E j \in 1 .. i - 1 : u[j] \in X /\ \A k \in j + 1 .. i - 1 : u[k] \notin Z
  <2>1. PICK j \in 1 .. i - 1 : s[j] \in X /\ \A k \in j + 1 .. i - 1 : s[k] \notin Z
    BY <1>0, <1>1 DEF Since, n
  <2>2. u[j] = s[j] /\ \A k \in j + 1 .. i - 1 : u[k] = s[k]
    BY <1>0, <2>1
  <2> QED
    BY <2>1, <2>2
<1>2. ASSUME Since(t, X, Z, Y), NEW i \in 1 .. Len(t), t[i] \in Y
      PROVE  \E j \in 1 .. n + i - 1 : u[j] \in X /\ \A k \in j + 1 .. n + i - 1 : u[k] \notin Z
  <2>1. PICK j \in 1 .. i - 1 : t[j] \in X /\ \A k \in j + 1 .. i - 1 : t[k] \notin Z
    BY <1>2 DEF Since
  <2>2. n + j \in 1 .. n + i - 1 /\ u[n + j] = t[j]
    BY <1>0, <2>1
  <2>3. ASSUME NEW k \in n + j + 1 .. n + i - 1 PROVE u[k] \notin Z
    <3>1. k - n \in j + 1 .. i - 1 /\ k - n \in 1 .. Len(t) /\ n + (k - n) = k
      BY <1>0, <2>1
    <3>2. u[k] = t[k - n]
      BY <1>0, <3>1
    <3> QED
      BY <2>1, <3>1, <3>2
  <2> QED
    BY <2>1, <2>2, <2>3
<1>3. ASSUME Ends(s, X, Z), NEW i \in 1 .. Len(t), \A k \in 1 .. i - 1 : t[k] \notin Z
      PROVE  \E j \in 1 .. n + i - 1 : u[j] \in X /\ \A k \in j + 1 .. n + i - 1 : u[k] \notin Z
  <2>1. PICK j \in 1 .. n : s[j] \in X /\ \A k \in j + 1 .. n : s[k] \notin Z
    BY <1>3 DEF Ends, n
  <2>2. j \in 1 .. n + i - 1 /\ u[j] = s[j]
    BY <1>0, <2>1
  <2>3. ASSUME NEW k \in j + 1 .. n + i - 1 PROVE u[k] \notin Z
    <3>1. CASE k <= n
      BY <1>0, <2>1, <3>1
    <3>2. CASE k > n
      <4>1. k - n \in 1 .. i - 1 /\ k - n \in 1 .. Len(t) /\ n + (k - n) = k
        BY <1>0, <2>1, <3>2
      <4> QED
        BY <1>0, <1>3, <4>1
    <3> QED
      BY <1>0, <2>1, <3>1, <3>2
  <2> QED
    BY <2>1, <2>2, <2>3
<1>4. ASSUME Since(s, X, Z, Y), Since(t, X, Z, Y) \/ (Ends(s, X, Z) /\ Soon(t, Z, Y)) PROVE Since(u, X, Z, Y)
  <2> SUFFICES ASSUME NEW i \in 1 .. Len(u), u[i] \in Y
               PROVE  \E j \in 1 .. i - 1 : u[j] \in X /\ \A k \in j + 1 .. i - 1 : u[k] \notin Z
    BY DEF Since
  <2>1. CASE i \in 1 .. n
    BY <1>1, <1>4, <2>1
  <2>2. CASE i - n \in 1 .. Len(t) /\ u[i] = t[i - n]
    <3> DEFINE m == i - n
    <3>1. n + m - 1 = i - 1 /\ m \in 1 .. Len(t) /\ t[m] \in Y
      BY <1>0, <2>2
    <3> HIDE DEF m
    <3>2. CASE Since(t, X, Z, Y)
      <4>1. \E j \in 1 .. n + m - 1 : u[j] \in X /\ \A k \in j + 1 .. n + m - 1 : u[k] \notin Z
        BY <1>2, <3>1, <3>2
      <4> QED
        BY <3>1, <4>1
    <3>3. CASE Ends(s, X, Z) /\ Soon(t, Z, Y)
      <4>1. \A k \in 1 .. m - 1 : t[k] \notin Z
        BY <3>1, <3>3 DEF Soon
      <4>2. \E j \in 1 .. n + m - 1 : u[j] \in X /\ \A k \in j + 1 .. n + m - 1 : u[k] \notin Z
        BY <1>3, <3>1, <3>3, <4>1
      <4> QED
        BY <3>1, <4>2
    <3> QED
      BY <1>4, <3>2, <3>3
  <2> QED
    BY <1>0, <2>1, <2>2
<1>5. ASSUME Ends(t, X, Z) PROVE Ends(u, X, Z)
  <2>1. PICK j \in 1 .. Len(t) : t[j] \in X /\ \A k \in j + 1 .. Len(t) : t[k] \notin Z
    BY <1>5 DEF Ends
  <2>2. n + j \in 1 .. Len(u) /\ u[n + j] = t[j]
    BY <1>0, <2>1
  <2>3. ASSUME NEW k \in n + j + 1 .. Len(u) PROVE u[k] \notin Z
    <3>1. k - n \in j + 1 .. Len(t) /\ k - n \in 1 .. Len(t) /\ n + (k - n) = k
      BY <1>0, <2>1
    <3> QED
      BY <1>0, <2>1, <3>1
  <2> QED
    BY <2>1, <2>2, <2>3 DEF Ends
<1>6. ASSUME Ends(s, X, Z), StepsOf(t) \cap Z = {} PROVE Ends(u, X, Z)
  <2>1. PICK j \in 1 .. n : s[j] \in X /\ \A k \in j + 1 .. n : s[k] \notin Z
    BY <1>6 DEF Ends, n
  <2>2. j \in 1 .. Len(u) /\ u[j] = s[j]
    BY <1>0, <2>1
  <2>3. ASSUME NEW k \in j + 1 .. Len(u) PROVE u[k] \notin Z
    <3>1. CASE k <= n
      BY <1>0, <2>1, <3>1
    <3>2. CASE k > n
      <4>1. k - n \in 1 .. Len(t) /\ n + (k - n) = k
        BY <1>0, <2>1, <3>2
      <4>2. u[k] \in StepsOf(t)
        BY <1>0, <4>1 DEF StepsOf
      <4> QED
        BY <1>6, <4>2
    <3> QED
      BY <1>0, <2>1, <3>1, <3>2
  <2> QED
    BY <2>1, <2>2, <2>3 DEF Ends
<1> QED
  BY <1>4, <1>5, <1>6 DEF u

\* What is left when the first step is done.
LEMMA Rest ==
  ASSUME NEW s \in Seq(Steps), s # <<>>
  PROVE  /\ Tail(s) \in Seq(Steps) /\ Len(s) \in Nat \ {0} /\ Len(Tail(s)) = Len(s) - 1
         /\ \A i \in 1 .. Len(Tail(s)) : i + 1 \in 1 .. Len(s) /\ Tail(s)[i] = s[i + 1]
         /\ StepsOf(Tail(s)) \subseteq StepsOf(s)
         /\ \A x \in StepsOf(s) : x = s[1] \/ x \in StepsOf(Tail(s))
<1> DEFINE t == Tail(s)
<1>1. t \in Seq(Steps) /\ Len(t) = Len(s) - 1
  BY HeadTailProperties
<1>2. Len(s) \in Nat \ {0}
  BY Lengths
<1>3. \A i \in 1 .. Len(t) : i + 1 \in 1 .. Len(s) /\ t[i] = s[i + 1]
  BY <1>1, <1>2, HeadTailProperties
<1> HIDE DEF t
<1>4. ASSUME NEW x \in StepsOf(t) PROVE x \in StepsOf(s)
  <2>1. PICK i \in 1 .. Len(t) : t[i] = x
    BY <1>4 DEF StepsOf
  <2> QED
    BY <1>3, <2>1 DEF StepsOf
<1>5. ASSUME NEW x \in StepsOf(s), x # s[1] PROVE x \in StepsOf(t)
  <2>1. PICK i \in 1 .. Len(s) : s[i] = x
    BY DEF StepsOf
  <2>2. i - 1 \in 1 .. Len(t) /\ (i - 1) + 1 = i
    BY <1>1, <1>2, <1>5, <2>1
  <2>3. t[i - 1] = x
    BY <1>3, <2>1, <2>2
  <2> QED
    BY <2>2, <2>3 DEF StepsOf
<1> QED
  BY <1>1, <1>2, <1>3, <1>4, <1>5 DEF t

LEMMA SinceRest ==
  ASSUME NEW s \in Seq(Steps), s # <<>>, NEW X, NEW Z, NEW Y
  PROVE  /\ Since(s, X, Z, Y) /\ s[1] \notin X => Since(Tail(s), X, Z, Y)
         /\ Again(s, X, Z, Y) => Again(Tail(s), X, Z, Y)
         /\ Again(s, X, Z, Y) /\ s[1] \in Z => Since(Tail(s), X, Z, Y)
         /\ Since(s, X, Z, Y) => s[1] \notin Y
<1> DEFINE t == Tail(s)
<1>0. /\ Len(s) \in Nat \ {0} /\ Len(t) = Len(s) - 1
      /\ \A i \in 1 .. Len(t) : i + 1 \in 1 .. Len(s) /\ t[i] = s[i + 1]
  BY Rest
<1> HIDE DEF t
<1>1. ASSUME NEW i \in 1 .. Len(t), NEW h \in 1 .. i, 
             \E j \in h + 1 .. i : s[j] \in X /\ \A k \in j + 1 .. i : s[k] \notin Z
      PROVE  \E j \in h .. i - 1 : t[j] \in X /\ \A k \in j + 1 .. i - 1 : t[k] \notin Z
  <2>1. PICK j \in h + 1 .. i : s[j] \in X /\ \A k \in j + 1 .. i : s[k] \notin Z
    BY <1>1
  <2>2. j - 1 \in h .. i - 1 /\ j - 1 \in 1 .. Len(t) /\ (j - 1) + 1 = j
    BY <1>0, <2>1
  <2>3. t[j - 1] \in X
    BY <1>0, <2>1, <2>2
  <2>4. ASSUME NEW k \in (j - 1) + 1 .. i - 1 PROVE t[k] \notin Z
    <3>1. k \in 1 .. Len(t) /\ k + 1 \in j + 1 .. i
      BY <1>0, <2>1
    <3> QED
      BY <1>0, <2>1, <3>1
  <2> QED
    BY <2>2, <2>3, <2>4
<1>2. ASSUME Since(s, X, Z, Y), s[1] \notin X PROVE Since(t, X, Z, Y)
  <2> SUFFICES ASSUME NEW i \in 1 .. Len(t), t[i] \in Y
               PROVE  \E j \in 1 .. i - 1 : t[j] \in X /\ \A k \in j + 1 .. i - 1 : t[k] \notin Z
    BY DEF Since
  <2>1. i + 1 \in 1 .. Len(s) /\ s[i + 1] \in Y /\ (i + 1) - 1 = i /\ 1 \in 1 .. i
    BY <1>0
  <2>2. PICK j \in 1 .. (i + 1) - 1 : s[j] \in X /\ \A k \in j + 1 .. (i + 1) - 1 : s[k] \notin Z
    BY <1>2, <2>1 DEF Since
  <2>3. j \in 1 + 1 .. i /\ \A k \in j + 1 .. i : s[k] \notin Z
    BY <1>2, <2>1, <2>2
  <2> QED
    BY <1>1, <2>1, <2>2, <2>3
<1>3. ASSUME Again(s, X, Z, Y) PROVE Again(t, X, Z, Y)
  <2> SUFFICES ASSUME NEW h \in 1 .. Len(t), NEW i \in h + 1 .. Len(t), t[h] \in Z, t[i] \in Y
               PROVE  \E j \in h + 1 .. i - 1 : t[j] \in X /\ \A k \in j + 1 .. i - 1 : t[k] \notin Z
    BY DEF Again
  <2>1. /\ i \in 1 .. Len(t) /\ h + 1 \in 1 .. Len(s) /\ i + 1 \in (h + 1) + 1 .. Len(s)
        /\ s[h + 1] \in Z /\ s[i + 1] \in Y /\ (i + 1) - 1 = i /\ h + 1 \in 1 .. i
    BY <1>0
  <2>2. PICK j \in (h + 1) + 1 .. (i + 1) - 1 : s[j] \in X /\ \A k \in j + 1 .. (i + 1) - 1 : s[k] \notin Z
    BY <1>3, <2>1 DEF Again
  <2>3. \E jj \in (h + 1) + 1 .. i : s[jj] \in X /\ \A k \in jj + 1 .. i : s[k] \notin Z
    BY <2>1, <2>2
  <2> QED
    BY <1>1, <2>1, <2>3
<1>4. ASSUME Again(s, X, Z, Y), s[1] \in Z PROVE Since(t, X, Z, Y)
  <2> SUFFICES ASSUME NEW i \in 1 .. Len(t), t[i] \in Y
               PROVE  \E j \in 1 .. i - 1 : t[j] \in X /\ \A k \in j + 1 .. i - 1 : t[k] \notin Z
    BY DEF Since
  <2>1. 1 \in 1 .. Len(s) /\ i + 1 \in 1 + 1 .. Len(s) /\ s[i + 1] \in Y /\ (i + 1) - 1 = i /\ 1 \in 1 .. i
    BY <1>0
  <2>2. PICK j \in 1 + 1 .. (i + 1) - 1 : s[j] \in X /\ \A k \in j + 1 .. (i + 1) - 1 : s[k] \notin Z
    BY <1>4, <2>1 DEF Again
  <2>3. \E jj \in 1 + 1 .. i : s[jj] \in X /\ \A k \in jj + 1 .. i : s[k] \notin Z
    BY <2>1, <2>2
  <2> QED
    BY <1>1, <2>1, <2>3
<1>5. ASSUME Since(s, X, Z, Y), s[1] \in Y PROVE FALSE
  <2>1. \E j \in 1 .. 1 - 1 : TRUE
    BY <1>0, <1>5 DEF Since
  <2> QED
    BY <2>1
<1> QED
  BY <1>2, <1>3, <1>4, <1>5 DEF t

\* Orders that need no look at the list's end.
LEMMA SinceEasy ==
  ASSUME NEW s \in Seq(Steps), NEW X, NEW Z, NEW Y
  PROVE  /\ Since(s, X, Z, Y) /\ X \cap Z = {} => Again(s, X, Z, Y)
         /\ StepsOf(s) \cap Y = {} => Since(s, X, Z, Y) /\ Again(s, X, Z, Y) /\ Soon(s, Z, Y)
         /\ StepsOf(s) \cap Z = {} => Again(s, X, Z, Y) /\ Soon(s, Z, Y)
         /\ \A W : Since(s, X, Z, Y) => Since(s, X \cup W, Z, Y)
<1>0. Len(s) \in Nat /\ \A i \in 1 .. Len(s) : s[i] \in StepsOf(s)
  BY Lengths DEF StepsOf
<1>1. ASSUME Since(s, X, Z, Y), X \cap Z = {} PROVE Again(s, X, Z, Y)
  <2> SUFFICES ASSUME NEW h \in 1 .. Len(s), NEW i \in h + 1 .. Len(s), s[h] \in Z, s[i] \in Y
               PROVE  \E j \in h + 1 .. i - 1 : s[j] \in X /\ \A k \in j + 1 .. i - 1 : s[k] \notin Z
    BY DEF Again
  <2>1. i \in 1 .. Len(s) /\ h \in 1 .. i - 1
    BY <1>0
  <2>2. PICK j \in 1 .. i - 1 : s[j] \in X /\ \A k \in j + 1 .. i - 1 : s[k] \notin Z
    BY <1>1, <2>1 DEF Since
  <2>3. j # h
    BY <1>1, <2>2
  <2>4. ~(j < h)
    BY <2>1, <2>2
  <2>5. j \in h + 1 .. i - 1
    BY <2>1, <2>2, <2>3, <2>4
  <2> QED
    BY <2>2, <2>5
<1>2. ASSUME StepsOf(s) \cap Y = {} PROVE Since(s, X, Z, Y) /\ Again(s, X, Z, Y) /\ Soon(s, Z, Y)
  <2>1. \A i \in 1 .. Len(s) : s[i] \notin Y
    BY <1>0, <1>2
  <2> QED
    BY <1>0, <2>1 DEF Since, Again, Soon
<1>3. ASSUME StepsOf(s) \cap Z = {} PROVE Again(s, X, Z, Y) /\ Soon(s, Z, Y)
  <2>1. \A i \in 1 .. Len(s) : s[i] \notin Z
    BY <1>0, <1>3
  <2>2. Again(s, X, Z, Y)
    BY <2>1 DEF Again
  <2>3. Soon(s, Z, Y)
    <3> SUFFICES ASSUME NEW i \in 1 .. Len(s), NEW k \in 1 .. i - 1 PROVE s[k] \notin Z
      BY DEF Soon
    <3>1. k \in 1 .. Len(s)
      BY <1>0
    <3> QED
      BY <2>1, <3>1
  <2> QED
    BY <2>2, <2>3
<1>4. ASSUME NEW W, Since(s, X, Z, Y) PROVE Since(s, X \cup W, Z, Y)
  BY <1>4 DEF Since
<1> QED
  BY <1>1, <1>2, <1>3, <1>4

\* The orders of steps next to each other, in what is left.
LEMMA NearRest ==
  ASSUME NEW s \in Seq(Steps), s # <<>>, NEW l
  PROVE  /\ Written(s) => Written(Tail(s))
         /\ Released(s) => Released(Tail(s))
         /\ Order(l, s) => Order(l, Tail(s)) /\ \A y \in StepsOf(Tail(s)) : Allowed(l, s[1], y)
         /\ Paired(s) /\ s[1] # Irq => Paired(Tail(s))
<1> DEFINE t == Tail(s)
<1>0. /\ Len(s) \in Nat \ {0} /\ Len(t) = Len(s) - 1
      /\ \A i \in 1 .. Len(t) : i + 1 \in 1 .. Len(s) /\ t[i] = s[i + 1]
  BY Rest
<1> HIDE DEF t
<1>1. ASSUME Written(s) PROVE Written(t)
  <2> SUFFICES ASSUME NEW i \in 2 .. Len(t), t[i] \in Writes PROVE t[i - 1] = See(t[i][2])
    BY DEF Written
  <2>1. i \in 1 .. Len(t) /\ i - 1 \in 1 .. Len(t) /\ i + 1 \in 2 .. Len(s) /\ (i + 1) - 1 = i /\ (i - 1) + 1 = i
    BY <1>0
  <2>2. t[i] = s[i + 1] /\ t[i - 1] = s[i]
    BY <1>0, <2>1
  <2>3. s[(i + 1) - 1] = See(s[i + 1][2])
    BY <1>1, <2>1, <2>2 DEF Written
  <2> QED
    BY <2>1, <2>2, <2>3
<1>2. ASSUME Released(s) PROVE Released(t)
  <2> SUFFICES ASSUME NEW i \in 1 .. Len(t), t[i] = Check
               PROVE  i + 2 <= Len(t) /\ t[i + 1] = See("arm") /\ t[i + 2] = Clk
    BY DEF Released
  <2>1. i + 1 \in 1 .. Len(s) /\ s[i + 1] = Check
    BY <1>0
  <2>2. (i + 1) + 2 <= Len(s) /\ s[(i + 1) + 1] = See("arm") /\ s[(i + 1) + 2] = Clk
    BY <1>2, <2>1 DEF Released
  <2>3. i + 1 \in 1 .. Len(t) /\ i + 2 \in 1 .. Len(t)
    BY <1>0, <2>2
  <2>4. t[i + 1] = s[(i + 1) + 1] /\ t[i + 2] = s[(i + 2) + 1] /\ (i + 2) + 1 = (i + 1) + 2
    BY <1>0, <2>3
  <2> QED
    BY <2>2, <2>3, <2>4
<1>3. ASSUME Order(l, s) PROVE Order(l, t)
  <2> SUFFICES ASSUME NEW i \in 1 .. Len(t), NEW j \in i + 1 .. Len(t) PROVE Allowed(l, t[i], t[j])
    BY DEF Order
  <2>1. j \in 1 .. Len(t) /\ i + 1 \in 1 .. Len(s) /\ j + 1 \in (i + 1) + 1 .. Len(s)
    BY <1>0
  <2> QED
    BY <1>0, <1>3, <2>1 DEF Order
<1>4. ASSUME Order(l, s), NEW y \in StepsOf(t) PROVE Allowed(l, s[1], y)
  <2>1. PICK i \in 1 .. Len(t) : t[i] = y
    BY DEF StepsOf
  <2>2. 1 \in 1 .. Len(s) /\ i + 1 \in 1 + 1 .. Len(s) /\ t[i] = s[i + 1]
    BY <1>0
  <2> QED
    BY <1>4, <2>1, <2>2 DEF Order
<1>5. ASSUME Paired(s), s[1] # Irq PROVE Paired(t)
  <2> SUFFICES ASSUME NEW i \in 1 .. Len(t), t[i] = Clk
               PROVE  \/ i + 2 <= Len(t) /\ t[i + 1] = See("arm") /\ t[i + 2] = ResetIn
                      \/ \E j \in 1 .. i - 1 : t[j] = Irq
    BY DEF Paired
  <2>1. i + 1 \in 1 .. Len(s) /\ s[i + 1] = Clk
    BY <1>0
  <2>2. \/ (i + 1) + 2 <= Len(s) /\ s[(i + 1) + 1] = See("arm") /\ s[(i + 1) + 2] = ResetIn
        \/ \E j \in 1 .. (i + 1) - 1 : s[j] = Irq
    BY <1>5, <2>1 DEF Paired
  <2>3. CASE (i + 1) + 2 <= Len(s) /\ s[(i + 1) + 1] = See("arm") /\ s[(i + 1) + 2] = ResetIn
    <3>1. i + 1 \in 1 .. Len(t) /\ i + 2 \in 1 .. Len(t)
      BY <1>0, <2>3
    <3>2. t[i + 1] = s[(i + 1) + 1] /\ t[i + 2] = s[(i + 2) + 1] /\ (i + 2) + 1 = (i + 1) + 2
      BY <1>0, <3>1
    <3> QED
      BY <2>3, <3>1, <3>2
  <2>4. CASE \E j \in 1 .. (i + 1) - 1 : s[j] = Irq
    <3>1. PICK j \in 1 .. (i + 1) - 1 : s[j] = Irq
      BY <2>4
    <3>2. j # 1
      BY <1>5, <3>1
    <3>3. j - 1 \in 1 .. i - 1 /\ j - 1 \in 1 .. Len(t) /\ (j - 1) + 1 = j
      BY <1>0, <3>1, <3>2
    <3>4. t[j - 1] = Irq
      BY <1>0, <3>1, <3>3
    <3> QED
      BY <3>3, <3>4
  <2> QED
    BY <2>2, <2>3, <2>4
<1> QED
  BY <1>1, <1>2, <1>3, <1>4, <1>5 DEF t

\* One list after another: the second does not start with an access, what it does
\* may come after the first, and it lets the clock run only to halt the ARM, or
\* with the handler registered before.
LEMMA Joined ==
  ASSUME NEW s \in Seq(Steps), NEW t \in Seq(Steps), NEW l
  PROVE  /\ Written(s) /\ Written(t) /\ t[1] \notin Writes => Written(s \o t)
         /\ Released(s) /\ Released(t) => Released(s \o t)
         /\ Order(l, s) /\ Order(l, t) /\ (\A x \in StepsOf(s) : \A y \in StepsOf(t) : Allowed(l, x, y)) => Order(l, s \o t)
         /\ Paired(s) /\ (Paired(t) \/ Irq \in StepsOf(s)) => Paired(s \o t)
<1> DEFINE u == s \o t
           n == Len(s)
<1>0. /\ n \in Nat /\ Len(t) \in Nat /\ Len(u) = n + Len(t)
      /\ \A i \in 1 .. n : u[i] = s[i]
      /\ \A i \in 1 .. Len(t) : u[n + i] = t[i]
      /\ \A i \in 1 .. Len(u) : i \in 1 .. n \/ (i - n \in 1 .. Len(t) /\ u[i] = t[i - n])
  BY Cat, Lengths
<1> HIDE DEF u, n
<1>1. ASSUME Written(s), Written(t), t[1] \notin Writes PROVE Written(u)
  <2> SUFFICES ASSUME NEW i \in 2 .. Len(u), u[i] \in Writes PROVE u[i - 1] = See(u[i][2])
    BY DEF Written
  <2>1. CASE i \in 1 .. n
    <3>1. i \in 2 .. n /\ i - 1 \in 1 .. n
      BY <1>0, <2>1
    <3> QED
      BY <1>0, <1>1, <2>1, <3>1 DEF Written, n
  <2>2. CASE i - n \in 1 .. Len(t) /\ u[i] = t[i - n]
    <3>1. i - n # 1
      BY <1>1, <2>2
    <3>2. i - n \in 2 .. Len(t) /\ (i - n) - 1 \in 1 .. Len(t) /\ n + ((i - n) - 1) = i - 1
      BY <1>0, <2>2, <3>1
    <3>3. u[i - 1] = t[(i - n) - 1]
      BY <1>0, <3>2
    <3>4. t[(i - n) - 1] = See(t[i - n][2])
      BY <1>1, <2>2, <3>2 DEF Written
    <3> QED
      BY <2>2, <3>3, <3>4
  <2>3. i \in 1 .. Len(u)
    BY <1>0
  <2> QED
    BY <1>0, <2>1, <2>2, <2>3
<1>2. ASSUME Released(s), Released(t) PROVE Released(u)
  <2> SUFFICES ASSUME NEW i \in 1 .. Len(u), u[i] = Check
               PROVE  i + 2 <= Len(u) /\ u[i + 1] = See("arm") /\ u[i + 2] = Clk
    BY DEF Released
  <2>1. CASE i \in 1 .. n
    <3>1. i + 2 <= n /\ s[i + 1] = See("arm") /\ s[i + 2] = Clk
      BY <1>0, <1>2, <2>1 DEF Released, n
    <3>2. i + 1 \in 1 .. n /\ i + 2 \in 1 .. n
      BY <1>0, <2>1, <3>1
    <3> QED
      BY <1>0, <3>1, <3>2
  <2>2. CASE i - n \in 1 .. Len(t) /\ u[i] = t[i - n]
    <3> DEFINE m == i - n
    <3>0. m \in 1 .. Len(t) /\ n + m = i /\ t[m] = Check
      BY <1>0, <2>2
    <3> HIDE DEF m
    <3>1. m + 2 <= Len(t) /\ t[m + 1] = See("arm") /\ t[m + 2] = Clk
      BY <1>2, <3>0 DEF Released
    <3>2. m + 1 \in 1 .. Len(t) /\ m + 2 \in 1 .. Len(t) /\ n + (m + 1) = i + 1 /\ n + (m + 2) = i + 2 /\ i + 2 <= Len(u)
      BY <1>0, <3>0, <3>1, SMTT(60)
    <3>3. u[i + 1] = t[m + 1] /\ u[i + 2] = t[m + 2]
      BY <1>0, <3>2, SMTT(60)
    <3> QED
      BY <3>1, <3>2, <3>3
  <2> QED
    BY <1>0, <2>1, <2>2
<1>3. ASSUME Order(l, s), Order(l, t), \A x \in StepsOf(s) : \A y \in StepsOf(t) : Allowed(l, x, y) PROVE Order(l, u)
  <2> SUFFICES ASSUME NEW i \in 1 .. Len(u), NEW j \in i + 1 .. Len(u) PROVE Allowed(l, u[i], u[j])
    BY DEF Order
  <2>1. CASE j <= n
    <3>1. i \in 1 .. n /\ j \in i + 1 .. n /\ j \in 1 .. n
      BY <1>0, <2>1
    <3> QED
      BY <1>0, <1>3, <3>1 DEF Order, n
  <2>2. CASE i > n
    <3>1. i - n \in 1 .. Len(t) /\ j - n \in (i - n) + 1 .. Len(t) /\ j - n \in 1 .. Len(t) /\ n + (i - n) = i /\ n + (j - n) = j
      BY <1>0, <2>2
    <3>2. u[i] = t[i - n] /\ u[j] = t[j - n]
      BY <1>0, <3>1
    <3> QED
      BY <1>3, <3>1, <3>2 DEF Order
  <2>3. CASE i <= n /\ j > n
    <3>1. i \in 1 .. n /\ j - n \in 1 .. Len(t) /\ n + (j - n) = j
      BY <1>0, <2>3
    <3>2. u[i] = s[i] /\ u[j] = t[j - n]
      BY <1>0, <3>1
    <3>3. u[i] \in StepsOf(s) /\ u[j] \in StepsOf(t)
      BY <3>1, <3>2 DEF StepsOf, n
    <3> QED
      BY <1>3, <3>3
  <2> QED
    BY <1>0, <2>1, <2>2, <2>3
<1>4. ASSUME Paired(s), Paired(t) \/ Irq \in StepsOf(s) PROVE Paired(u)
  <2> SUFFICES ASSUME NEW i \in 1 .. Len(u), u[i] = Clk
               PROVE  \/ i + 2 <= Len(u) /\ u[i + 1] = See("arm") /\ u[i + 2] = ResetIn
                      \/ \E j \in 1 .. i - 1 : u[j] = Irq
    BY DEF Paired
  <2>1. CASE i \in 1 .. n
    <3>1. \/ i + 2 <= n /\ s[i + 1] = See("arm") /\ s[i + 2] = ResetIn
          \/ \E j \in 1 .. i - 1 : s[j] = Irq
      BY <1>0, <1>4, <2>1 DEF Paired, n
    <3>2. CASE i + 2 <= n /\ s[i + 1] = See("arm") /\ s[i + 2] = ResetIn
      <4>1. i + 1 \in 1 .. n /\ i + 2 \in 1 .. n
        BY <1>0, <2>1, <3>2
      <4> QED
        BY <1>0, <3>2, <4>1
    <3>3. CASE \E j \in 1 .. i - 1 : s[j] = Irq
      <4>1. PICK j \in 1 .. i - 1 : s[j] = Irq
        BY <3>3
      <4>2. j \in 1 .. n
        BY <1>0, <2>1, <4>1
      <4> QED
        BY <1>0, <4>1, <4>2
    <3> QED
      BY <3>1, <3>2, <3>3
  <2>2. CASE i - n \in 1 .. Len(t) /\ u[i] = t[i - n]
    <3> DEFINE m == i - n
    <3>0. m \in 1 .. Len(t) /\ n + m = i /\ t[m] = Clk
      BY <1>0, <2>2
    <3> HIDE DEF m
    <3>1. CASE Irq \in StepsOf(s)
      <4>1. PICK j \in 1 .. n : s[j] = Irq
        BY <3>1 DEF StepsOf, n
      <4>2. j \in 1 .. i - 1
        BY <1>0, <3>0, <4>1
      <4> QED
        BY <1>0, <4>1, <4>2
    <3>2. CASE m + 2 <= Len(t) /\ t[m + 1] = See("arm") /\ t[m + 2] = ResetIn
      <4>1. m + 1 \in 1 .. Len(t) /\ m + 2 \in 1 .. Len(t) /\ n + (m + 1) = i + 1 /\ n + (m + 2) = i + 2 /\ i + 2 <= Len(u)
        BY <1>0, <3>0, <3>2
      <4>2. u[i + 1] = t[m + 1] /\ u[i + 2] = t[m + 2]
        BY <1>0, <4>1, SMTT(60)
      <4> QED
        BY <3>2, <4>1, <4>2
    <3>3. CASE \E j \in 1 .. m - 1 : t[j] = Irq
      <4>1. PICK j \in 1 .. m - 1 : t[j] = Irq
        BY <3>3
      <4>2. j \in 1 .. Len(t) /\ n + j \in 1 .. i - 1
        BY <1>0, <3>0, <4>1
      <4> QED
        BY <1>0, <4>1, <4>2
    <3> QED
      BY <1>4, <3>0, <3>1, <3>2, <3>3 DEF Paired
  <2> QED
    BY <1>0, <2>1, <2>2
<1> QED
  BY <1>1, <1>2, <1>3, <1>4 DEF u

-----------------------------------------------------------------------------
(***************************************************************************)
(* The order of the levels.                                                *)
(***************************************************************************)
First(s) == s[1]
Good(l, s) ==
  /\ s \in Seq(Steps) /\ Len(s) > 0 /\ Written(s) /\ Released(s) /\ Order(l, s) /\ Paired(s)
  /\ Since(s, {Halt, Irq}, {Clk}, Calm)
\* what a list may be continued with
Piece(l, t) ==
  t \in Seq(Steps) /\ Written(t) /\ Released(t) /\ Order(l, t) /\ t[1] \notin Writes

Follows(l, s, t) ==
  /\ Good(l, s) /\ Piece(l, t)
  /\ \A x \in StepsOf(s) : \A y \in StepsOf(t) : Allowed(l, x, y)
  /\ Paired(t) \/ Irq \in StepsOf(s)
  /\ Since(t, {Halt, Irq}, {Clk}, Calm) \/ (Ends(s, {Halt, Irq}, {Clk}) /\ Soon(t, {Clk}, Calm))

LEMMA Continue ==
  ASSUME NEW l, NEW s, NEW t, Follows(l, s, t)
  PROVE  Good(l, s \o t) /\ First(s \o t) = First(s)
<1>0. /\ Good(l, s) /\ Piece(l, t)
      /\ \A x \in StepsOf(s) : \A y \in StepsOf(t) : Allowed(l, x, y)
      /\ Paired(t) \/ Irq \in StepsOf(s)
      /\ Since(t, {Halt, Irq}, {Clk}, Calm) \/ (Ends(s, {Halt, Irq}, {Clk}) /\ Soon(t, {Clk}, Calm))
  BY DEF Follows
<1>1. s \in Seq(Steps) /\ t \in Seq(Steps)
  BY <1>0 DEF Good, Piece
<1>2. s \o t \in Seq(Steps) /\ Len(s \o t) > 0 /\ First(s \o t) = First(s)
  <2>1. Len(s) > 0 /\ Len(s) \in Nat /\ Len(t) \in Nat
    BY <1>0, <1>1, Lengths DEF Good
  <2>2. 1 \in 1 .. Len(s)
    BY <2>1
  <2> QED
    BY <1>1, <2>1, <2>2, Cat DEF First
<1>3. Written(s \o t) /\ Released(s \o t) /\ Order(l, s \o t) /\ Paired(s \o t)
  BY <1>0, <1>1, Joined DEF Good, Piece
<1>4. Since(s \o t, {Halt, Irq}, {Clk}, Calm)
  BY <1>0, <1>1, CatSince DEF Good
<1> QED
  BY <1>2, <1>3, <1>4 DEF Good

\* Operands.
LEMMA Operands ==
  /\ \A x \in {Clk, Halt, ResetIn, ResetOut} : x[2] = "arm"
  /\ \A v : Msk(v)[1] = "write" /\ Msk(v)[2] = "pcie" /\ Msk(v)[3] = "intmask"
  /\ Clk[3] = "ioctl" /\ Clk[4] = "clk" /\ Halt[3] = "ioctl" /\ Halt[4] = "halt"
  /\ ResetIn[3] = "reset" /\ ResetIn[4] = "in" /\ ResetOut[3] = "reset" /\ ResetOut[4] = "out"
  /\ Writes = {Clk, Halt, ResetIn, ResetOut, Msk("on"), Msk("off")}
  /\ Views = {See("cc"), See("pcie"), See("arm")}
  /\ See("cc") \in Steps /\ See("pcie") \in Steps /\ See("arm") \in Steps
  /\ \A core : See(core) \notin Writes /\ See(core) \notin Calm /\ See(core) \notin Leave /\ See(core) # Irq /\ See(core) # Check
  /\ Irq \notin Writes /\ Irq \notin Calm /\ Check \notin Writes /\ Check # Irq
  /\ Calm = {ResetOut, One("download"), One("verify")}
  /\ Clk \notin Calm /\ Halt \notin Calm /\ ResetIn \notin Calm
  /\ \A x \in Writes : x # Check /\ x # Irq /\ x \notin Leave /\ \A op : op # "write" => x # One(op)
  /\ \A op : \A core : op # "window" => See(core) # One(op)
<1>1. /\ \A x \in {Clk, Halt, ResetIn, ResetOut} : x[2] = "arm"
      /\ \A v : Msk(v)[1] = "write" /\ Msk(v)[2] = "pcie" /\ Msk(v)[3] = "intmask"
      /\ Clk[3] = "ioctl" /\ Clk[4] = "clk" /\ Halt[3] = "ioctl" /\ Halt[4] = "halt"
      /\ ResetIn[3] = "reset" /\ ResetIn[4] = "in" /\ ResetOut[3] = "reset" /\ ResetOut[4] = "out"
  BY DEF Clk, Halt, ResetIn, ResetOut, Reg, Msk
<1>2. Writes = {Clk, Halt, ResetIn, ResetOut, Msk("on"), Msk("off")} /\ Views = {See("cc"), See("pcie"), See("arm")}
  BY DEF Writes, Views
<1>3. See("cc") \in Steps /\ See("pcie") \in Steps /\ See("arm") \in Steps
  BY <1>2, Kinds
<1>4. Irq[1] = "request irq" /\ Check[1] = "check reset"
  BY Kinds DEF Check
<1>5. /\ \A core : See(core) \notin Writes /\ See(core) \notin Calm /\ See(core) \notin Leave /\ See(core) # Irq /\ See(core) # Check
      /\ Irq \notin Writes /\ Irq \notin Calm /\ Check \notin Writes /\ Check # Irq
  BY <1>4, Kinds
<1>0. (\A op : One(op)[1] = op) /\ (\A core : See(core)[1] = "window") /\ (\A x \in Writes : x[1] = "write")
  BY Kinds, Zenon
<1>6. \A x \in Writes : \A op : op # "write" => x # One(op)
  BY <1>0, Zenon
<1>7. Clk \notin Calm /\ Halt \notin Calm /\ ResetIn \notin Calm
  <2>1. Clk \in Writes /\ Halt \in Writes /\ ResetIn \in Writes
    BY <1>2
  <2>2. \A x \in Writes : x # One("download") /\ x # One("verify")
    BY <1>6
  <2>3. Clk # ResetOut /\ Halt # ResetOut /\ ResetIn # ResetOut
    BY Kinds
  <2> QED
    BY <2>1, <2>2, <2>3, Zenon DEF Calm
<1>8. \A x \in Writes : x # Check /\ x # Irq /\ x \notin Leave
  <2>1. \A x \in Writes : x # Check /\ x # Irq
    BY <1>6 DEF Check, Irq
  <2> QED
    BY <2>1, Kinds
<1>9. \A op : \A core : op # "window" => See(core) # One(op)
  BY <1>0, Zenon
<1> QED
  BY <1>1, <1>2, <1>3, <1>5, <1>6, <1>7, <1>8, <1>9, Zenon DEF Calm

\* Names.
LEMMA Names ==
  /\ \A x \in Writes : \A core : x # See(core)
  /\ \A a, b : One(a) = One(b) => a = b
  /\ \A a : One(a) \in Leave => a \in {"free olmsg", "unmap", "unbind"}
<1>0. (\A op : One(op)[1] = op) /\ (\A core : See(core)[1] = "window") /\ (\A x \in Writes : x[1] = "write")
  BY Kinds, Zenon
<1>10. \A x \in Writes : \A core : x # See(core)
  BY <1>0, Zenon
<1>11. \A a, b : One(a) = One(b) => a = b
  BY <1>0, Zenon
<1>12. \A a : One(a) \in Leave => a \in {"free olmsg", "unmap", "unbind"}
  <2>1. \A x \in Leave : x[1] \in {"free olmsg", "unmap", "unbind"}
    BY Kinds, Zenon
  <2> QED
    BY <1>0, <2>1, Zenon
<1> QED
  BY <1>10, <1>11, <1>12

\* Most steps may come after most.
LEMMA Plain ==
  ASSUME NEW l, NEW x \in Steps, x # Irq, x # One("free irq"), x \notin Leave, NEW y,
         y # One("set master") \/ x \in Front \/ l = 5
  PROVE  Allowed(l, x, y)
<1>1. One("unmap") \in Leave /\ One("unbind") \in Leave
  BY DEF Leave
<1> QED
  BY <1>1 DEF Allowed
LEMMA Accesses ==
  ASSUME NEW l, NEW x \in Views \cup Writes, NEW y, y # One("set master") \/ l = 5
  PROVE  Allowed(l, x, y)
<1>1. CASE x \in Writes
  <2>1. x \in Steps
    BY <1>1, Kinds, Zenon
  <2>2. x # Irq /\ x # One("free irq") /\ x \notin Leave
    BY <1>1, Operands
  <2> QED
    BY <2>1, <2>2, Plain
<1>2. CASE x \in Views
  <2>1. PICK core : x = See(core)
    BY <1>2 DEF Views
  <2>2. x \in Steps
    BY <1>2, Kinds
  <2>3. x # Irq /\ x # One("free irq") /\ x \notin Leave
    BY <2>1, Operands
  <2> QED
    BY <2>2, <2>3, Plain
<1> QED
  BY <1>1, <1>2

LEMMA Ten ==
  ASSUME NEW S, NEW a \in S, NEW b \in S, NEW c \in S, NEW d \in S, NEW e \in S,
         NEW f \in S, NEW g \in S, NEW h \in S, NEW i \in S, NEW j \in S
  PROVE  LET u == <<a, b>> \o <<c, d>> \o <<e, f>> \o <<g, h>> \o <<i, j>> IN
         /\ u \in Seq(S) /\ Len(u) = 10
         /\ u[1] = a /\ u[2] = b /\ u[3] = c /\ u[4] = d /\ u[5] = e
         /\ u[6] = f /\ u[7] = g /\ u[8] = h /\ u[9] = i /\ u[10] = j
OBVIOUS

\* arm_halt.
LEMMA HaltList ==
  ASSUME NEW l
  PROVE  /\ Piece(l, ArmHalt) /\ Paired(ArmHalt)
         /\ Since(ArmHalt, {Halt, Irq}, {Clk}, Calm) /\ Since(ArmHalt, {Halt}, {Clk}, Leave)
         /\ Ends(ArmHalt, {Halt, Irq}, {Clk}) /\ Ends(ArmHalt, {Halt}, {Clk})
         /\ StepsOf(ArmHalt) \subseteq {See("arm"), Clk, ResetIn, Halt, ResetOut}
<1> DEFINE u == ArmHalt
<1>0. See("arm") \in Steps /\ Clk \in Steps /\ ResetIn \in Steps /\ Halt \in Steps /\ ResetOut \in Steps
  BY Kinds, Operands
<1>1. /\ u \in Seq(Steps) /\ Len(u) = 10
      /\ u[1] = See("arm") /\ u[2] = Clk /\ u[3] = See("arm") /\ u[4] = ResetIn /\ u[5] = See("arm")
      /\ u[6] = Halt /\ u[7] = See("arm") /\ u[8] = ResetOut /\ u[9] = See("arm") /\ u[10] = Halt
  <2>1. u = <<See("arm"), Clk>> \o <<See("arm"), ResetIn>> \o <<See("arm"), Halt>> \o <<See("arm"), ResetOut>> \o <<See("arm"), Halt>>
    BY DEF ArmHalt, Bp, Reg, See, Clk, ResetIn, Halt, ResetOut
  <2> HIDE DEF u
  <2> QED
    BY <1>0, <2>1, Ten
<1> HIDE DEF u
<1>2. \A i \in 1 .. 10 : i \in {1, 2, 3, 4, 5, 6, 7, 8, 9, 10}
  OBVIOUS
<1>3. \A i \in 1 .. 10 : u[i] = See("arm") \/ (i = 2 /\ u[i] = Clk) \/ (i = 4 /\ u[i] = ResetIn)
                       \/ (i = 6 /\ u[i] = Halt) \/ (i = 8 /\ u[i] = ResetOut) \/ (i = 10 /\ u[i] = Halt)
  BY <1>1, <1>2
<1>4. StepsOf(u) \subseteq {See("arm"), Clk, ResetIn, Halt, ResetOut}
  BY <1>1, <1>3 DEF StepsOf
<1>5. Written(u)
  <2> SUFFICES ASSUME NEW i \in 2 .. 10, u[i] \in Writes PROVE u[i - 1] = See(u[i][2])
    BY <1>1 DEF Written
  <2>1. i \in {2, 4, 6, 8, 10} /\ u[i] \in {Clk, Halt, ResetIn, ResetOut}
    BY <1>3, Operands
  <2>2. u[i - 1] = See("arm")
    BY <1>1, <2>1
  <2> QED
    BY <2>1, <2>2, Operands
<1>6. Released(u)
  <2>1. \A i \in 1 .. 10 : u[i] # Check
    BY <1>3, Operands
  <2> QED
    BY <1>1, <2>1 DEF Released
<1>7. Paired(u)
  <2> SUFFICES ASSUME NEW i \in 1 .. 10, u[i] = Clk PROVE i + 2 <= 10 /\ u[i + 1] = See("arm") /\ u[i + 2] = ResetIn
    BY <1>1 DEF Paired
  <2>1. i = 2
    BY <1>3, Kinds, Operands
  <2> QED
    BY <1>1, <2>1
<1>8. Order(l, u)
  <2> SUFFICES ASSUME NEW i \in 1 .. 10, NEW j \in 1 .. 10 PROVE Allowed(l, u[i], u[j])
    BY <1>1 DEF Order
  <2>1. \A k \in 1 .. 10 : u[k] \in Views \cup Writes
    BY <1>3, Operands
  <2>2. u[i] \in Views \cup Writes /\ u[j] # One("set master")
    BY <2>1, Operands, ZenonT(60)
  <2> QED
    BY <2>2, Accesses
<1>9. Ends(u, {Halt}, {Clk}) /\ Ends(u, {Halt, Irq}, {Clk})
  <2>1. 10 \in 1 .. 10 /\ \A k \in 10 + 1 .. 10 : FALSE
    OBVIOUS
  <2> QED
    BY <1>1, <2>1 DEF Ends
<1>10. Since(u, {Halt, Irq}, {Clk}, Calm)
  <2> SUFFICES ASSUME NEW i \in 1 .. 10, u[i] \in Calm
               PROVE  \E j \in 1 .. i - 1 : u[j] \in {Halt, Irq} /\ \A k \in j + 1 .. i - 1 : u[k] \notin {Clk}
    BY <1>1 DEF Since
  <2>1. i = 8
    BY <1>3, Operands
  <2>2. 6 \in 1 .. 8 - 1 /\ \A k \in 6 + 1 .. 8 - 1 : k = 7
    OBVIOUS
  <2>3. See("arm") # Clk
    BY Kinds, Operands
  <2> QED
    BY <1>1, <2>1, <2>2, <2>3
<1>11. Since(u, {Halt}, {Clk}, Leave)
  <2>1. \A i \in 1 .. 10 : u[i] \notin Leave
    BY <1>3, Kinds, Operands
  <2> QED
    BY <1>1, <2>1 DEF Since
<1>12. See("arm") \notin Writes
  BY Operands
<1> QED
  BY <1>1, <1>4, <1>5, <1>6, <1>7, <1>8, <1>9, <1>10, <1>11, <1>12 DEF Piece, u

\* arm_release.
LEMMA Six ==
  ASSUME NEW S, NEW a \in S, NEW b \in S, NEW c \in S, NEW d \in S, NEW e \in S, NEW f \in S
  PROVE  LET u == <<a, b>> \o <<c, d>> \o <<e, f>> IN
         /\ u \in Seq(S) /\ Len(u) = 6
         /\ u[1] = a /\ u[2] = b /\ u[3] = c /\ u[4] = d /\ u[5] = e /\ u[6] = f
OBVIOUS

LEMMA ReleaseList ==
  ASSUME NEW l
  PROVE  /\ Piece(l, ArmRelease) /\ Soon(ArmRelease, {Clk}, Calm)
         /\ StepsOf(ArmRelease) \subseteq {See("arm"), ResetOut, Check, Clk}
<1> DEFINE u == ArmRelease
<1>0. See("arm") \in Steps /\ Clk \in Steps /\ ResetOut \in Steps /\ Check \in Late /\ Check \in Steps /\ See("arm") # Clk
  <2>1. Check \in Late
    BY DEF Check, Late
  <2> QED
    BY <2>1, Kinds, Operands
<1>1. /\ u \in Seq(Steps) /\ Len(u) = 6
      /\ u[1] = See("arm") /\ u[2] = ResetOut /\ u[3] = See("arm") /\ u[4] = Check
      /\ u[5] = See("arm") /\ u[6] = Clk
  <2>1. u = <<See("arm"), ResetOut>> \o <<See("arm"), Check>> \o <<See("arm"), Clk>>
    BY DEF ArmRelease, Bp, Reg, See, Clk, ResetOut, Check, One
  <2> HIDE DEF u
  <2> QED
    BY <1>0, <2>1, Six
<1> HIDE DEF u
<1>2. \A i \in 1 .. 6 : i \in {1, 2, 3, 4, 5, 6}
  OBVIOUS
<1>3. \A i \in 1 .. 6 : u[i] = See("arm") \/ (i = 2 /\ u[i] = ResetOut) \/ (i = 4 /\ u[i] = Check) \/ (i = 6 /\ u[i] = Clk)
  BY <1>1, <1>2
<1>4. StepsOf(u) \subseteq {See("arm"), ResetOut, Check, Clk}
  BY <1>1, <1>3 DEF StepsOf
<1>5. Written(u)
  <2> SUFFICES ASSUME NEW i \in 2 .. 6, u[i] \in Writes PROVE u[i - 1] = See(u[i][2])
    BY <1>1 DEF Written
  <2>1. i \in {2, 6} /\ u[i] \in {Clk, ResetOut}
    BY <1>3, Operands
  <2>2. u[i - 1] = See("arm")
    BY <1>1, <2>1
  <2> QED
    BY <2>1, <2>2, Operands
<1>6. Released(u)
  <2>1. \A i \in 1 .. 6 : u[i] = Check => i = 4
    BY <1>3, Operands
  <2> QED
    BY <1>1, <2>1 DEF Released
<1>7. Order(l, u)
  <2> SUFFICES ASSUME NEW i \in 1 .. 6, NEW j \in 1 .. 6 PROVE Allowed(l, u[i], u[j])
    BY <1>1 DEF Order
  <2>1. \A k \in 1 .. 6 : u[k] \in Views \cup Writes \cup {Check}
    BY <1>3, Operands
  <2>2. Check # One("set master") /\ Check # One("free irq") /\ Check \notin Leave
    <3>1. Check = One("check reset")
      BY DEF Check
    <3>2. \A b : Check = One(b) => "check reset" = b
      BY <3>1, Names, Zenon
    <3>3. Check \in Leave => "check reset" \in {"free olmsg", "unmap", "unbind"}
      BY <3>1, Names, Zenon
    <3> QED
      BY <3>2, <3>3
  <2>3. \A k \in 1 .. 6 : u[k] # One("set master")
    BY <2>1, <2>2, Operands, ZenonT(60)
  <2>4. Allowed(l, Check, u[j])
    BY <1>0, <2>2, <2>3, Operands, Plain
  <2> QED
    BY <2>1, <2>3, <2>4, Accesses
<1>8. Soon(u, {Clk}, Calm)
  <2> SUFFICES ASSUME NEW i \in 1 .. 6, u[i] \in Calm, NEW k \in 1 .. i - 1 PROVE u[k] \notin {Clk}
    BY <1>1 DEF Soon
  <2>1. Check \notin Calm
    <3>1. Check[1] = "check reset"
      BY Kinds DEF Check
    <3> QED
      BY <3>1, Kinds
  <2>2. i = 2
    BY <1>3, <2>1, Operands
  <2>3. k = 1
    BY <2>2
  <2> QED
    BY <1>0, <1>1, <2>3
<1> QED
  BY <1>1, <1>4, <1>5, <1>6, <1>7, <1>8, Operands DEF Piece, u

\* A single step, and the two of an access to the interrupt mask.
LEMMA Single ==
  ASSUME NEW l, NEW x \in Steps, x \notin Writes, x # Check
  PROVE  /\ <<x>> \in Seq(Steps) /\ Len(<<x>>) = 1 /\ First(<<x>>) = x /\ StepsOf(<<x>>) = {x}
         /\ Piece(l, <<x>>) /\ Paired(<<x>>)
         /\ \A X, Z, Y : /\ Soon(<<x>>, Z, Y)
                         /\ x \notin Y => Since(<<x>>, X, Z, Y)
                         /\ x \in X => Ends(<<x>>, X, Z)
<1> DEFINE s == <<x>>
<1>1. s \in Seq(Steps) /\ Len(s) = 1 /\ s[1] = x
  OBVIOUS
<1> HIDE DEF s
<1>2. \A i \in 1 .. 1 : i = 1
  OBVIOUS
<1>3. StepsOf(s) = {x}
  <2>1. \A y : y \in StepsOf(s) <=> \E i \in 1 .. 1 : s[i] = y
    BY <1>1 DEF StepsOf
  <2>2. 1 \in 1 .. 1
    OBVIOUS
  <2> QED
    BY <1>1, <1>2, <2>1, <2>2
<1>4. Written(s) /\ Released(s) /\ Order(l, s)
  BY <1>1, <1>2 DEF Written, Released, Order
<1>5. Paired(s)
  <2>1. x # Clk
    BY Operands
  <2> QED
    BY <1>1, <1>2, <2>1 DEF Paired
<1>6. ASSUME NEW X, NEW Z, NEW Y
      PROVE  /\ Soon(s, Z, Y)
             /\ x \notin Y => Since(s, X, Z, Y)
             /\ x \in X => Ends(s, X, Z)
  <2>1. Soon(s, Z, Y)
    BY <1>1, <1>2 DEF Soon
  <2>2. ASSUME x \notin Y PROVE Since(s, X, Z, Y)
    BY <1>1, <1>2, <2>2 DEF Since
  <2>3. ASSUME x \in X PROVE Ends(s, X, Z)
    <3>1. 1 \in 1 .. 1 /\ \A k \in 1 + 1 .. 1 : FALSE
      OBVIOUS
    <3> QED
      BY <1>1, <2>3, <3>1 DEF Ends
  <2> QED
    BY <2>1, <2>2, <2>3
<1> QED
  BY <1>1, <1>3, <1>4, <1>5, <1>6 DEF Piece, s, First

LEMMA MaskList ==
  ASSUME NEW l, NEW w \in {Msk("on"), Msk("off")}
  PROVE  LET s == <<See("pcie"), w>> IN
         Piece(l, s) /\ Paired(s) /\ StepsOf(s) = {See("pcie"), w} /\ Since(s, {Halt, Irq}, {Clk}, Calm)
<1> DEFINE s == <<See("pcie"), w>>
<1>0. See("pcie") \in Steps /\ w \in Steps /\ w \in Writes /\ w[2] = "pcie" /\ w # Check /\ w[3] = "intmask"
  <2>1. w \in Writes
    BY Operands
  <2>2. w \in Steps
    BY <2>1, Kinds, Zenon
  <2> QED
    BY <2>1, <2>2, Operands
<1>1. s \in Seq(Steps) /\ Len(s) = 2 /\ s[1] = See("pcie") /\ s[2] = w
  BY <1>0
<1> HIDE DEF s
<1>2. \A i \in 1 .. 2 : i \in {1, 2}
  OBVIOUS
<1>3. StepsOf(s) = {See("pcie"), w}
  <2>1. \A y : y \in StepsOf(s) <=> \E i \in 1 .. 2 : s[i] = y
    BY <1>1 DEF StepsOf
  <2>2. 1 \in 1 .. 2 /\ 2 \in 1 .. 2
    OBVIOUS
  <2> QED
    BY <1>1, <1>2, <2>1, <2>2
<1>4. Written(s) /\ Released(s)
  <2>1. \A i \in 1 .. 2 : s[i] # Check
    BY <1>0, <1>1, <1>2, Operands
  <2>2. \A i \in 2 .. 2 : i = 2 /\ i - 1 = 1
    OBVIOUS
  <2> QED
    BY <1>0, <1>1, <2>1, <2>2 DEF Written, Released
<1>5. w # Clk /\ w \notin Calm
  <2>1. w # Clk /\ w # ResetOut
    BY <1>0, Operands
  <2>2. w # One("download") /\ w # One("verify")
    BY <1>0, Operands
  <2> QED
    BY <2>1, <2>2 DEF Calm
<1>6. Paired(s) /\ Since(s, {Halt, Irq}, {Clk}, Calm)
  <2>1. \A i \in 1 .. 2 : s[i] # Clk /\ s[i] \notin Calm
    BY <1>0, <1>1, <1>2, <1>5, Operands
  <2> QED
    BY <1>1, <2>1 DEF Paired, Since
<1>7. Order(l, s)
  <2>1. \A k \in 1 .. 2 : s[k] \in Views \cup Writes
    BY <1>0, <1>1, <1>2, Operands
  <2>2. \A k \in 1 .. 2 : s[k] # One("set master")
    <3>1. See("pcie") # One("set master") /\ w # One("set master")
      BY <1>0, Operands
    <3> QED
      BY <1>1, <1>2, <3>1
  <2>3. \A i \in 1 .. 2 : \A j \in i + 1 .. 2 : j \in 1 .. 2
    OBVIOUS
  <2>4. \A i, j \in 1 .. 2 : Allowed(l, s[i], s[j])
    BY <2>1, <2>2, Accesses
  <2> QED
    BY <1>1, <2>3, <2>4 DEF Order
<1> QED
  BY <1>1, <1>3, <1>4, <1>6, <1>7, Operands DEF Piece, s

\* A list that can be continued with most steps.
Open(s) == One("free irq") \notin StepsOf(s) /\ StepsOf(s) \cap Leave = {}

LEMMA Access ==
  \A x \in Views \cup Writes : x \in Late /\ x \in Steps /\ x # One("set master") /\ x # Irq /\ x # One("free irq") /\ x \notin Leave
<1> TAKE x \in Views \cup Writes
<1>1. x \in Late
  BY Kinds DEF Late
<1>2. x \in Steps
  BY <1>1, Kinds
<1>3. x # One("set master") /\ x # Irq /\ x # One("free irq") /\ x \notin Leave
  <2>1. CASE x \in Writes
    BY <2>1, Operands
  <2>2. CASE x \in Views
    <3>1. PICK core : x = See(core)
      BY <2>2 DEF Views
    <3> QED
      BY <3>1, Operands
  <2> QED
    BY <2>1, <2>2
<1> QED
  BY <1>1, <1>2, <1>3

Fits(l, s, t) ==
  /\ Good(l, s) /\ Open(s) /\ Piece(l, t)
  /\ Paired(t) \/ Irq \in StepsOf(s)
  /\ Since(t, {Halt, Irq}, {Clk}, Calm) \/ (Ends(s, {Halt, Irq}, {Clk}) /\ Soon(t, {Clk}, Calm))
  /\ Irq \in StepsOf(s) => StepsOf(t) \subseteq Late
  /\ One("set master") \notin StepsOf(t) \/ StepsOf(s) \subseteq Front \/ l = 5

LEMMA Add ==
  ASSUME NEW l, NEW s, NEW t, Fits(l, s, t)
  PROVE  /\ Good(l, s \o t) /\ First(s \o t) = First(s) /\ StepsOf(s \o t) = StepsOf(s) \cup StepsOf(t)
         /\ Ends(s, {Halt, Irq}, {Clk}) /\ Clk \notin StepsOf(t) => Ends(s \o t, {Halt, Irq}, {Clk})
         /\ Ends(t, {Halt, Irq}, {Clk}) => Ends(s \o t, {Halt, Irq}, {Clk})
<1>0. /\ Good(l, s) /\ Open(s) /\ Piece(l, t)
      /\ Paired(t) \/ Irq \in StepsOf(s)
      /\ Since(t, {Halt, Irq}, {Clk}, Calm) \/ (Ends(s, {Halt, Irq}, {Clk}) /\ Soon(t, {Clk}, Calm))
      /\ Irq \in StepsOf(s) => StepsOf(t) \subseteq Late
      /\ One("set master") \notin StepsOf(t) \/ StepsOf(s) \subseteq Front \/ l = 5
  BY DEF Fits
<1>1. s \in Seq(Steps) /\ t \in Seq(Steps)
  BY <1>0 DEF Good, Piece
<1>2. ASSUME NEW x \in StepsOf(s), NEW y \in StepsOf(t) PROVE Allowed(l, x, y)
  <2>1. x \in Steps
    BY <1>1, Lengths
  <2>2. y # One("set master") \/ x \in Front \/ l = 5
    BY <1>0
  <2>3. CASE x = Irq
    <3>1. y \in Late
      BY <1>0, <2>3
    <3>2. /\ Irq # One("free irq") /\ Irq # One("unmap") /\ Irq # One("unbind") /\ Irq \notin Leave
      <4>1. \A b : Irq = One(b) => "request irq" = b
        BY Names, Zenon DEF Irq
      <4>2. Irq \in Leave => "request irq" \in {"free olmsg", "unmap", "unbind"}
        BY Names, Zenon DEF Irq
      <4> QED
        BY <4>1, <4>2
    <3> QED
      BY <2>2, <2>3, <3>1, <3>2 DEF Allowed
  <2>4. CASE x # Irq
    <3>1. x # One("free irq") /\ x \notin Leave
      BY <1>0 DEF Open
    <3> QED
      BY <2>1, <2>2, <2>4, <3>1, Plain
  <2> QED
    BY <2>3, <2>4
<1>3. Good(l, s \o t) /\ First(s \o t) = First(s)
  <2>1. Follows(l, s, t)
    BY <1>0, <1>2 DEF Follows
  <2> QED
    BY <2>1, Continue, Zenon
<1>4. StepsOf(s \o t) = StepsOf(s) \cup StepsOf(t)
  BY <1>1, Cat
<1>5. /\ Ends(s, {Halt, Irq}, {Clk}) /\ Clk \notin StepsOf(t) => Ends(s \o t, {Halt, Irq}, {Clk})
      /\ Ends(t, {Halt, Irq}, {Clk}) => Ends(s \o t, {Halt, Irq}, {Clk})
  <2>1. Clk \notin StepsOf(t) => StepsOf(t) \cap {Clk} = {}
    OBVIOUS
  <2> QED
    BY <1>1, <2>1, CatSince
<1> QED
  BY <1>3, <1>4, <1>5

LEMMA AddDo ==
  ASSUME NEW l, NEW s, Good(l, s), Open(s), NEW op, One(op) \in Steps,
         op \notin {"write", "window", "check reset"},
         Irq \in StepsOf(s) => One(op) \in Late,
         op # "set master" \/ StepsOf(s) \subseteq Front \/ l = 5,
         op \notin {"download", "verify"} \/ Ends(s, {Halt, Irq}, {Clk})
  PROVE  /\ Good(l, s \o Do(op)) /\ First(s \o Do(op)) = First(s) /\ StepsOf(s \o Do(op)) = StepsOf(s) \cup {One(op)}
         /\ Ends(s, {Halt, Irq}, {Clk}) \/ op = "request irq" => Ends(s \o Do(op), {Halt, Irq}, {Clk})
<1> DEFINE x == One(op)
<1>1. x \notin Writes /\ x # Clk /\ x # ResetOut
  BY Operands
<1>2. \A b : x = One(b) => op = b
  BY Names, Zenon
<1>3. x # Check
  BY <1>2 DEF Check
<1>4. Do(op) = <<x>>
  BY DEF Do, One
<1>5. /\ Piece(l, Do(op)) /\ Paired(Do(op)) /\ StepsOf(Do(op)) = {x}
      /\ \A X, Z, Y : /\ Soon(Do(op), Z, Y)
                      /\ x \notin Y => Since(Do(op), X, Z, Y)
                      /\ x \in X => Ends(Do(op), X, Z)
  <2>1. x \in Steps
    OBVIOUS
  <2> HIDE DEF x
  <2>2. /\ Piece(l, <<x>>) /\ Paired(<<x>>) /\ StepsOf(<<x>>) = {x}
        /\ \A X, Z, Y : /\ Soon(<<x>>, Z, Y)
                        /\ x \notin Y => Since(<<x>>, X, Z, Y)
                        /\ x \in X => Ends(<<x>>, X, Z)
    BY <1>1, <1>3, <2>1, Single
  <2> QED
    BY <1>4, <2>2, Zenon
<1>6. x \in Calm => op \in {"download", "verify"}
  BY <1>1, <1>2 DEF Calm
<1>7. x = One("set master") => op = "set master"
  BY <1>2
<1>8. op = "request irq" => x = Irq
  BY DEF Irq
<1> HIDE DEF x
<1>9. Since(Do(op), {Halt, Irq}, {Clk}, Calm) \/ (Ends(s, {Halt, Irq}, {Clk}) /\ Soon(Do(op), {Clk}, Calm))
  BY <1>5, <1>6
<1>10. One("set master") \notin StepsOf(Do(op)) \/ StepsOf(s) \subseteq Front \/ l = 5
  BY <1>5, <1>7
<1>11. Irq \in StepsOf(s) => StepsOf(Do(op)) \subseteq Late
  BY <1>5 DEF x
<1>12. Clk \notin StepsOf(Do(op))
  BY <1>1, <1>5
<1>13. op = "request irq" => Ends(Do(op), {Halt, Irq}, {Clk})
  BY <1>5, <1>8
<1>14. /\ Good(l, s \o Do(op)) /\ First(s \o Do(op)) = First(s) /\ StepsOf(s \o Do(op)) = StepsOf(s) \cup StepsOf(Do(op))
       /\ Ends(s, {Halt, Irq}, {Clk}) /\ Clk \notin StepsOf(Do(op)) => Ends(s \o Do(op), {Halt, Irq}, {Clk})
       /\ Ends(Do(op), {Halt, Irq}, {Clk}) => Ends(s \o Do(op), {Halt, Irq}, {Clk})
  <2>1. Fits(l, s, Do(op))
    BY <1>5, <1>9, <1>10, <1>11 DEF Fits
  <2> QED
    BY <2>1, Add
<1> QED
  BY <1>5, <1>12, <1>13, <1>14 DEF x

LEMMA AddView ==
  ASSUME NEW l, NEW s, Good(l, s), Open(s), NEW core \in {"cc", "pcie", "arm"}
  PROVE  /\ Good(l, s \o View(core)) /\ First(s \o View(core)) = First(s)
         /\ StepsOf(s \o View(core)) = StepsOf(s) \cup {See(core)}
         /\ Ends(s, {Halt, Irq}, {Clk}) => Ends(s \o View(core), {Halt, Irq}, {Clk})
<1> DEFINE x == See(core)
<1>1. x \notin Writes /\ x # Check /\ x \notin Calm /\ x # One("set master")
  BY Operands
<1>2. x \in Views
  BY Operands
<1>3. x \in Steps /\ x \in Late
  BY <1>2, Kinds DEF Late
<1>4. View(core) = <<x>>
  BY DEF View, See
<1>5. /\ Piece(l, View(core)) /\ Paired(View(core)) /\ StepsOf(View(core)) = {x}
      /\ \A X, Z, Y : x \notin Y => Since(View(core), X, Z, Y)
  <2> HIDE DEF x
  <2>2. /\ Piece(l, <<x>>) /\ Paired(<<x>>) /\ StepsOf(<<x>>) = {x}
        /\ \A X, Z, Y : x \notin Y => Since(<<x>>, X, Z, Y)
    BY <1>1, <1>3, Single
  <2> QED
    BY <1>4, <2>2, Zenon
<1>6. x # Clk
  BY Names, Kinds
<1> HIDE DEF x
<1>7. Since(View(core), {Halt, Irq}, {Clk}, Calm)
  BY <1>1, <1>5
<1>8. /\ Good(l, s \o View(core)) /\ First(s \o View(core)) = First(s) /\ StepsOf(s \o View(core)) = StepsOf(s) \cup StepsOf(View(core))
      /\ Ends(s, {Halt, Irq}, {Clk}) /\ Clk \notin StepsOf(View(core)) => Ends(s \o View(core), {Halt, Irq}, {Clk})
  <2>1. Fits(l, s, View(core))
    BY <1>1, <1>3, <1>5, <1>7 DEF Fits
  <2>2. /\ Good(l, s \o View(core)) /\ First(s \o View(core)) = First(s) /\ StepsOf(s \o View(core)) = StepsOf(s) \cup StepsOf(View(core))
        /\ Ends(s, {Halt, Irq}, {Clk}) /\ Clk \notin StepsOf(View(core)) => Ends(s \o View(core), {Halt, Irq}, {Clk})
        /\ Ends(View(core), {Halt, Irq}, {Clk}) => Ends(s \o View(core), {Halt, Irq}, {Clk})
    BY <2>1, Add, Zenon
  <2> QED
    BY <2>2, Zenon
<1> QED
  <2>1. Clk \notin StepsOf(View(core))
    BY <1>5, <1>6
  <2> QED
    <3>1. StepsOf(View(core)) = {See(core)}
      BY <1>5 DEF x
    <3> QED
      BY <1>8, <2>1, <3>1, Zenon

LEMMA AddMask ==
  ASSUME NEW l, NEW s, Good(l, s), Open(s), NEW m \in {Mask, Unmask}
  PROVE  /\ Good(l, s \o m) /\ First(s \o m) = First(s)
         /\ StepsOf(m) \subseteq {See("pcie"), Msk("on"), Msk("off")}
         /\ StepsOf(s \o m) = StepsOf(s) \cup StepsOf(m)
         /\ Ends(s, {Halt, Irq}, {Clk}) => Ends(s \o m, {Halt, Irq}, {Clk})
<1>1. PICK w \in {Msk("on"), Msk("off")} : m = <<See("pcie"), w>>
  BY DEF Mask, Unmask, Bp, See, Msk
<1>2. Piece(l, m) /\ Paired(m) /\ StepsOf(m) = {See("pcie"), w} /\ Since(m, {Halt, Irq}, {Clk}, Calm)
  BY <1>1, MaskList
<1>3. w \in Writes /\ w # Clk /\ See("pcie") \in Views
  BY Operands
<1>4. See("pcie") # Clk
  <2>1. Clk \in Writes
    BY Operands
  <2> QED
    BY <2>1, Names
<1>5. w \in Late /\ See("pcie") \in Late /\ w # One("set master") /\ See("pcie") # One("set master")
  BY <1>3, Access
<1>6. StepsOf(m) \subseteq Late /\ One("set master") \notin StepsOf(m) /\ Clk \notin StepsOf(m)
  BY <1>2, <1>3, <1>4, <1>5
<1>7. StepsOf(m) \subseteq {See("pcie"), Msk("on"), Msk("off")}
  BY <1>2
<1>8. /\ Good(l, s \o m) /\ First(s \o m) = First(s) /\ StepsOf(s \o m) = StepsOf(s) \cup StepsOf(m)
      /\ Ends(s, {Halt, Irq}, {Clk}) /\ Clk \notin StepsOf(m) => Ends(s \o m, {Halt, Irq}, {Clk})
  <2>1. Fits(l, s, m)
    BY <1>2, <1>6 DEF Fits
  <2>2. /\ Good(l, s \o m) /\ First(s \o m) = First(s) /\ StepsOf(s \o m) = StepsOf(s) \cup StepsOf(m)
        /\ Ends(s, {Halt, Irq}, {Clk}) /\ Clk \notin StepsOf(m) => Ends(s \o m, {Halt, Irq}, {Clk})
        /\ Ends(m, {Halt, Irq}, {Clk}) => Ends(s \o m, {Halt, Irq}, {Clk})
    BY <2>1, Add, Zenon
  <2> QED
    BY <2>2, Zenon
<1> QED
  BY <1>6, <1>7, <1>8, Zenon

LEMMA AddHalt ==
  ASSUME NEW l, NEW s, Good(l, s), Open(s)
  PROVE  /\ Good(l, s \o ArmHalt) /\ First(s \o ArmHalt) = First(s)
         /\ StepsOf(s \o ArmHalt) = StepsOf(s) \cup StepsOf(ArmHalt)
         /\ Ends(s \o ArmHalt, {Halt, Irq}, {Clk})
<1>1. \A x \in {See("arm"), Clk, ResetIn, Halt, ResetOut} : x \in Views \cup Writes
  BY Operands
<1>2. \A x \in Views \cup Writes : x \in Late /\ x # One("set master")
  BY Access, Zenon
<1>3. StepsOf(ArmHalt) \subseteq Late /\ One("set master") \notin StepsOf(ArmHalt)
  BY <1>1, <1>2, HaltList
<1>4. /\ Piece(l, ArmHalt) /\ Paired(ArmHalt) /\ Since(ArmHalt, {Halt, Irq}, {Clk}, Calm)
      /\ Ends(ArmHalt, {Halt, Irq}, {Clk})
  BY HaltList
<1> QED
  <2>1. Fits(l, s, ArmHalt)
    BY <1>3, <1>4 DEF Fits
  <2>2. /\ Good(l, s \o ArmHalt) /\ First(s \o ArmHalt) = First(s) /\ StepsOf(s \o ArmHalt) = StepsOf(s) \cup StepsOf(ArmHalt)
        /\ Ends(s, {Halt, Irq}, {Clk}) /\ Clk \notin StepsOf(ArmHalt) => Ends(s \o ArmHalt, {Halt, Irq}, {Clk})
        /\ Ends(ArmHalt, {Halt, Irq}, {Clk}) => Ends(s \o ArmHalt, {Halt, Irq}, {Clk})
    BY <2>1, Add, Zenon
  <2> QED
    BY <1>4, <2>2, Zenon

LEMMA AddRelease ==
  ASSUME NEW l, NEW s, Good(l, s), Open(s), Irq \in StepsOf(s), Ends(s, {Halt, Irq}, {Clk})
  PROVE  /\ Good(l, s \o ArmRelease) /\ First(s \o ArmRelease) = First(s)
         /\ StepsOf(s \o ArmRelease) = StepsOf(s) \cup StepsOf(ArmRelease)
<1>1. \A x \in {See("arm"), ResetOut, Clk} : x \in Views \cup Writes
  BY Operands
<1>2. \A x \in Views \cup Writes : x \in Late /\ x # One("set master")
  BY Access, Zenon
<1>3. Check \in Late
  BY DEF Late, Check
<1>4. Check # One("set master")
  <2>1. \A b : Check = One(b) => "check reset" = b
    BY Names, Zenon DEF Check
  <2> QED
    BY <2>1
<1>5. StepsOf(ArmRelease) \subseteq Late /\ One("set master") \notin StepsOf(ArmRelease)
  BY <1>1, <1>2, <1>3, <1>4, ReleaseList
<1>6. Piece(l, ArmRelease) /\ Soon(ArmRelease, {Clk}, Calm)
  BY ReleaseList
<1> QED
  <2>1. Fits(l, s, ArmRelease)
    BY <1>5, <1>6 DEF Fits
  <2>2. /\ Good(l, s \o ArmRelease) /\ First(s \o ArmRelease) = First(s) /\ StepsOf(s \o ArmRelease) = StepsOf(s) \cup StepsOf(ArmRelease)
        /\ Ends(s, {Halt, Irq}, {Clk}) /\ Clk \notin StepsOf(ArmRelease) => Ends(s \o ArmRelease, {Halt, Irq}, {Clk})
        /\ Ends(ArmRelease, {Halt, Irq}, {Clk}) => Ends(s \o ArmRelease, {Halt, Irq}, {Clk})
    BY <2>1, Add, Zenon
  <2> QED
    BY <2>2, Zenon

\* What comes before the handler is given back.
Early == Views \cup Writes \cup {One(op) : op \in {"map tcm", "try", "download", "verify"}}
Mid   == Views \cup Writes \cup {Irq}
         \cup {One(op) : op \in {"check reset", "clear master", "poll", "scan", "map tcm", "olmsg", "shared_info"}}

LEMMA Classes ==
  /\ Front \subseteq Steps /\ Early \subseteq Steps /\ Mid \subseteq Steps
  /\ \A s : StepsOf(s) \subseteq Front \/ StepsOf(s) \subseteq Early => Open(s) /\ Irq \notin StepsOf(s)
  /\ \A s : StepsOf(s) \subseteq Mid \cup {One("set master")} => Open(s)
  /\ StepsOf(ArmHalt) \subseteq Early \cap Mid /\ StepsOf(ArmRelease) \subseteq Mid
  /\ \A m \in {Mask, Unmask} : StepsOf(m) \subseteq Mid
  /\ See("cc") \in Front \cap Early \cap Mid /\ See("pcie") \in Front \cap Early \cap Mid
  /\ See("arm") \in Front \cap Early \cap Mid
  /\ One("set master") \notin Mid
  /\ Irq \notin StepsOf(ArmHalt) /\ Irq \notin StepsOf(ArmRelease) /\ \A m \in {Mask, Unmask} : Irq \notin StepsOf(m)
<1>1. Front \subseteq Steps
  BY Kinds
<1>2. Early \subseteq Steps /\ Mid \subseteq Steps
  <2>1. /\ One("map tcm") \in Steps /\ One("try") \in Steps /\ One("download") \in Steps /\ One("verify") \in Steps
        /\ One("olmsg") \in Steps /\ One("shared_info") \in Steps /\ One("check reset") \in Steps
        /\ One("clear master") \in Steps /\ One("poll") \in Steps /\ One("scan") \in Steps
    BY DEF Steps, Late, Front
  <2>2. Irq \in Steps
    BY Kinds
  <2> QED
    <3>1. Views \cup Writes \subseteq Steps
      BY Kinds
    <3> QED
      BY <2>1, <2>2, <3>1 DEF Early, Mid
<1>3. Views \cup Writes \subseteq Early \cap Mid
  BY DEF Early, Mid
<1>4. /\ See("cc") \in Views /\ See("pcie") \in Views /\ See("arm") \in Views
      /\ Clk \in Writes /\ Halt \in Writes /\ ResetIn \in Writes /\ ResetOut \in Writes
      /\ Msk("on") \in Writes /\ Msk("off") \in Writes
  BY Operands
<1>5. \A x \in Leave \cup {One("free irq"), One("set master")} : x \notin Views \cup Writes
  BY Access
<1>6. \A x \in Leave \cup {One("free irq"), Irq} : x \notin Front
  <2>1. \A x \in Front : x[1] \in {"window", "clear master", "try", "set master", "map regs", "alive"}
    BY Kinds, Zenon
  <2>2. One("free irq")[1] = "free irq" /\ Irq[1] = "request irq"
    BY Kinds
  <2>3. \A x \in Leave : x[1] \in {"free olmsg", "unmap", "unbind"}
    BY Kinds, Zenon
  <2> QED
    BY <2>1, <2>2, <2>3
<1>7. \A x \in Leave \cup {One("free irq"), Irq} : x \notin Early
  <2>1. \A x \in Leave \cup {One("free irq"), Irq} : x \notin {One(op) : op \in {"map tcm", "try", "download", "verify"}}
    <3>1. \A x \in {One(op) : op \in {"map tcm", "try", "download", "verify"}} : x[1] \in {"map tcm", "try", "download", "verify"}
      <4> SUFFICES ASSUME NEW op \in {"map tcm", "try", "download", "verify"} PROVE One(op)[1] = op
        OBVIOUS
      <4> QED
        BY Kinds, Zenon
    <3>2. One("free irq")[1] = "free irq" /\ Irq[1] = "request irq"
      BY Kinds
    <3>3. \A x \in Leave : x[1] \in {"free olmsg", "unmap", "unbind"}
      BY Kinds, Zenon
    <3> QED
      BY <3>1, <3>2, <3>3
  <2> QED
    BY <1>5, <2>1, Access DEF Early
<1>8. \A x \in Leave \cup {One("free irq"), One("set master")} : x \notin Mid
  <2> DEFINE Ops == {"check reset", "clear master", "poll", "scan", "map tcm", "olmsg", "shared_info"}
  <2>1. \A x \in Leave \cup {One("free irq"), One("set master")} : x \notin {One(op) : op \in Ops} /\ x # Irq
    <3>1. \A x \in {One(op) : op \in Ops} : x[1] \in Ops
      <4> SUFFICES ASSUME NEW op \in Ops PROVE One(op)[1] = op
        OBVIOUS
      <4> QED
        BY Kinds, Zenon
    <3>2. One("free irq")[1] = "free irq" /\ One("set master")[1] = "set master" /\ Irq[1] = "request irq"
      BY Kinds
    <3>3. \A x \in Leave : x[1] \in {"free olmsg", "unmap", "unbind"}
      BY Kinds, Zenon
    <3> QED
      BY <3>1, <3>2, <3>3
  <2> QED
    BY <1>5, <2>1 DEF Mid
<1>9. One("free irq") # One("set master") /\ One("set master") \notin Leave
  <2>1. \A nm : One("set master") = One(nm) => "set master" = nm
    BY Names, Zenon
  <2>2. One("set master") \in Leave => "set master" \in {"free olmsg", "unmap", "unbind"}
    BY Names, Zenon
  <2> QED
    BY <2>1, <2>2
<1>10. \A s : StepsOf(s) \subseteq Front \/ StepsOf(s) \subseteq Early => Open(s) /\ Irq \notin StepsOf(s)
  BY <1>6, <1>7 DEF Open
<1>11. \A s : StepsOf(s) \subseteq Mid \cup {One("set master")} => Open(s)
  BY <1>8, <1>9 DEF Open
<1>12. StepsOf(ArmHalt) \subseteq Views \cup Writes
  BY <1>4, HaltList
<1>13. StepsOf(ArmRelease) \subseteq Mid
  <2>1. Check \in Mid
    BY DEF Check, Mid
  <2> QED
    BY <1>3, <1>4, <2>1, ReleaseList
<1>14. \A m \in {Mask, Unmask} : StepsOf(m) \subseteq Views \cup Writes
  <2> SUFFICES ASSUME NEW m \in {Mask, Unmask} PROVE StepsOf(m) \subseteq Views \cup Writes
    OBVIOUS
  <2>1. PICK w \in {Msk("on"), Msk("off")} : m = <<See("pcie"), w>>
    BY DEF Mask, Unmask, Bp, See, Msk
  <2>2. StepsOf(m) = {See("pcie"), w}
    BY <2>1, MaskList
  <2> QED
    BY <1>4, <2>2
<1>15. Views \subseteq Front
  BY DEF Front
<1>16. Irq \notin StepsOf(ArmRelease)
  <2>1. Irq # Check /\ Irq \notin Views \cup Writes
    BY Operands, Access
  <2> QED
    BY <1>4, <2>1, ReleaseList
<1> QED
  BY <1>1, <1>2, <1>3, <1>4, <1>8, <1>10, <1>11, <1>12, <1>13, <1>14, <1>15, <1>16

LEMMA Numbers ==
  1 > 0 /\ 5 # 4 /\ 2 \in 2 .. 3 /\ \A n \in Nat : 3 <= n => 4 <= n \/ n = 3
OBVIOUS

LEMMA FirstDo ==
  ASSUME NEW l, NEW op, One(op) \in Steps, op \notin {"write", "window", "check reset", "download", "verify"}
  PROVE  Good(l, Do(op)) /\ First(Do(op)) = One(op) /\ StepsOf(Do(op)) = {One(op)} /\ Piece(l, Do(op)) /\ Paired(Do(op))
<1> DEFINE x == One(op)
<1>1. x \notin Writes
  BY Operands
<1>2. \A b : x = One(b) => op = b
  BY Names, Zenon
<1>3. x # Check /\ x \notin Calm
  BY <1>1, <1>2, Operands DEF Check
<1>4. Do(op) = <<x>>
  BY DEF Do, One
<1>5. x \in Steps
  OBVIOUS
<1> HIDE DEF x
<1>6. /\ <<x>> \in Seq(Steps) /\ Len(<<x>>) = 1 /\ First(<<x>>) = x /\ StepsOf(<<x>>) = {x}
      /\ Piece(l, <<x>>) /\ Paired(<<x>>) /\ Since(<<x>>, {Halt, Irq}, {Clk}, Calm)
  BY <1>1, <1>3, <1>5, Single
<1>7. Good(l, <<x>>)
  <2>1. Len(<<x>>) > 0
    BY <1>6, Numbers, Zenon
  <2> QED
    BY <1>6, <2>1, Zenon DEF Good, Piece
<1> QED
  BY <1>4, <1>6, <1>7, Zenon DEF x

LEMMA Level1List ==
  ASSUME NEW l
  PROVE  Good(l, Level1) /\ StepsOf(Level1) \subseteq Front /\ First(Level1) = One("try")
<1> DEFINE a == Do("try")
           b == a \o View("cc")
           c == b \o View("pcie")
           d == c \o View("cc")
           Fine(s) == Good(l, s) /\ StepsOf(s) \subseteq Front /\ First(s) = One("try")
<1>0. One("try") \in Front /\ One("set master") \in Front /\ One("try") \in Steps /\ One("set master") \in Steps
  <2>1. One("try") \in Front /\ One("set master") \in Front
    BY DEF Front
  <2> QED
    BY <2>1, Classes
<1>1. Fine(a)
  BY <1>0, FirstDo
<1> HIDE DEF a
<1>2. Fine(b)
  <2>1. Open(a)
    BY <1>1, Classes
  <2>2. Good(l, a \o View("cc")) /\ First(a \o View("cc")) = First(a) /\ StepsOf(a \o View("cc")) = StepsOf(a) \cup {See("cc")}
    BY <1>1, <2>1, AddView
  <2> QED
    BY <1>1, <2>2, Classes
<1> HIDE DEF b
<1>3. Fine(c)
  <2>1. Open(b)
    BY <1>2, Classes
  <2>2. Good(l, b \o View("pcie")) /\ First(b \o View("pcie")) = First(b) /\ StepsOf(b \o View("pcie")) = StepsOf(b) \cup {See("pcie")}
    BY <1>2, <2>1, AddView
  <2> QED
    BY <1>2, <2>2, Classes
<1> HIDE DEF c
<1>4. Fine(d)
  <2>1. Open(c)
    BY <1>3, Classes
  <2>2. Good(l, c \o View("cc")) /\ First(c \o View("cc")) = First(c) /\ StepsOf(c \o View("cc")) = StepsOf(c) \cup {See("cc")}
    BY <1>3, <2>1, AddView
  <2> QED
    BY <1>3, <2>2, Classes
<1> HIDE DEF d
<1>5. Fine(d \o Do("set master"))
  <2>1. Open(d) /\ Irq \notin StepsOf(d)
    BY <1>4, Classes
  <2> QED
    BY <1>0, <1>4, <2>1, AddDo
<1> QED
  BY <1>5 DEF Level1, a, b, c, d

LEMMA Level2List ==
  ASSUME NEW l
  PROVE  /\ Good(l, Level2) /\ StepsOf(Level2) \subseteq Front /\ First(Level2) = One("map regs")
         /\ One("set master") \notin StepsOf(Level2) /\ One("map regs") \in StepsOf(Level2)
<1> DEFINE a == Do("map regs")
           b == a \o View("cc")
           c == b \o Do("alive")
           d == c \o View("arm")
           Fine(s) == /\ Good(l, s) /\ StepsOf(s) \subseteq Front /\ First(s) = One("map regs")
                      /\ One("set master") \notin StepsOf(s) /\ One("map regs") \in StepsOf(s)
<1>0. One("map regs") \in Front /\ One("alive") \in Front /\ One("map regs") \in Steps /\ One("alive") \in Steps
  <2>1. One("map regs") \in Front /\ One("alive") \in Front
    BY DEF Front
  <2> QED
    BY <2>1, Classes
<1>00. One("set master") # One("map regs") /\ One("set master") # One("alive") /\ \A core : See(core) # One("set master")
  <2>1. \A nm : One("set master") = One(nm) => "set master" = nm
    BY Names, Zenon
  <2> QED
    BY <2>1, Operands
<1>1. Fine(a)
  BY <1>0, <1>00, FirstDo
<1> HIDE DEF a
<1>2. Fine(b)
  <2>1. Open(a)
    BY <1>1, Classes
  <2>2. Good(l, a \o View("cc")) /\ First(a \o View("cc")) = First(a) /\ StepsOf(a \o View("cc")) = StepsOf(a) \cup {See("cc")}
    BY <1>1, <2>1, AddView
  <2> QED
    BY <1>00, <1>1, <2>2, Classes
<1> HIDE DEF b
<1>3. Fine(c)
  <2>1. Open(b) /\ Irq \notin StepsOf(b)
    BY <1>2, Classes
  <2> QED
    BY <1>0, <1>00, <1>2, <2>1, AddDo, ZenonT(60)
<1> HIDE DEF c
<1>4. Fine(d)
  <2>1. Open(c)
    BY <1>3, Classes
  <2>2. Good(l, c \o View("arm")) /\ First(c \o View("arm")) = First(c) /\ StepsOf(c \o View("arm")) = StepsOf(c) \cup {See("arm")}
    BY <1>3, <2>1, AddView
  <2> QED
    BY <1>00, <1>3, <2>2, Classes
<1> HIDE DEF d
<1>5. Fine(d \o View("cc"))
  <2>1. Open(d)
    BY <1>4, Classes
  <2>2. Good(l, d \o View("cc")) /\ First(d \o View("cc")) = First(d) /\ StepsOf(d \o View("cc")) = StepsOf(d) \cup {See("cc")}
    BY <1>4, <2>1, AddView
  <2> QED
    BY <1>00, <1>4, <2>2, Classes
<1> QED
  BY <1>5 DEF Level2, a, b, c, d

LEMMA OpKinds ==
  /\ \A op \in {"set master", "clear master", "poll", "scan", "pass", "free irq"} : One(op) \in Late /\ One(op) \in Steps
  /\ \A op \in {"clear master", "try", "set master", "map regs", "alive", "map tcm", "download", "verify",
                "olmsg", "shared_info", "request irq", "free olmsg", "unmap", "unbind"} : One(op) \in Steps
  /\ \A op \in {"map tcm", "try", "download", "verify"} : One(op) \in Early
  /\ \A op \in {"clear master", "poll", "scan", "map tcm", "olmsg", "shared_info", "request irq"} : One(op) \in Mid
<1>1. \A op \in {"set master", "clear master", "poll", "scan", "pass", "free irq"} : One(op) \in Late
  BY DEF Late
<1>2. \A op \in {"clear master", "try", "set master", "map regs", "alive", "map tcm", "download", "verify",
                 "olmsg", "shared_info", "request irq", "free olmsg", "unmap", "unbind"} : One(op) \in Steps
  BY DEF Steps, Front, Leave
<1>3. \A op \in {"map tcm", "try", "download", "verify"} : One(op) \in Early
  BY DEF Early
<1>4. \A op \in {"clear master", "poll", "scan", "map tcm", "olmsg", "shared_info", "request irq"} : One(op) \in Mid
  BY DEF Mid, Irq
<1>5. Late \subseteq Steps
  BY Kinds
<1> QED
  BY <1>1, <1>2, <1>3, <1>4, <1>5

\* Orders that hold by what a list begins with, or by what it has at all.
LEMMA FirstSince ==
  ASSUME NEW s \in Seq(Steps), NEW X, NEW Z, NEW Y, First(s) \in X, First(s) \notin Y, StepsOf(s) \cap Z = {}
  PROVE  Since(s, X, Z, Y)
<1>0. Len(s) \in Nat /\ \A k \in 1 .. Len(s) : s[k] \notin Z
  BY Lengths DEF StepsOf
<1> SUFFICES ASSUME NEW i \in 1 .. Len(s), s[i] \in Y
             PROVE  \E j \in 1 .. i - 1 : s[j] \in X /\ \A k \in j + 1 .. i - 1 : s[k] \notin Z
  BY DEF Since
<1>1. i # 1
  BY DEF First
<1>2. 1 \in 1 .. i - 1 /\ \A k \in 1 + 1 .. i - 1 : k \in 1 .. Len(s)
  BY <1>0, <1>1
<1> QED
  BY <1>0, <1>2 DEF First

LEMMA HasEnds ==
  ASSUME NEW s \in Seq(Steps), NEW X, NEW x \in StepsOf(s), x \in X
  PROVE  Ends(s, X, {})
<1>1. PICK j \in 1 .. Len(s) : s[j] = x
  BY DEF StepsOf
<1> QED
  BY <1>1 DEF Ends

LEMMA NeedBefore ==
  ASSUME NEW s \in Seq(Steps), NEW t \in Seq(Steps), NEW X, NEW Y, StepsOf(s) \cap Y = {}, NEW x \in StepsOf(s), x \in X
  PROVE  Since(s \o t, X, {}, Y)
<1>1. Since(s, X, {}, Y)
  BY SinceEasy
<1>2. Ends(s, X, {})
  BY HasEnds
<1>3. Soon(t, {}, Y)
  BY DEF Soon
<1> QED
  BY <1>1, <1>2, <1>3, CatSince

LEMMA KeepSince ==
  ASSUME NEW s \in Seq(Steps), NEW t \in Seq(Steps), NEW X, NEW Z, NEW Y, Since(s, X, Z, Y), StepsOf(t) \cap Y = {}
  PROVE  Since(s \o t, X, Z, Y)
<1>1. Since(t, X, Z, Y)
  BY SinceEasy
<1> QED
  BY <1>1, CatSince

LEMMA AddPass ==
  ASSUME NEW l, NEW s, Good(l, s), StepsOf(s) \cap Leave = {}
  PROVE  /\ Good(l, s \o Do("pass")) /\ First(s \o Do("pass")) = First(s)
         /\ StepsOf(s \o Do("pass")) = StepsOf(s) \cup {One("pass")}
<1>0. PICK t : t = Do("pass")
  OBVIOUS
<1>1. One("pass") \in Steps /\ One("pass") \in Late
  BY OpKinds
<1>2. Piece(l, t) /\ Paired(t) /\ StepsOf(t) = {One("pass")}
  <2>1. Piece(l, Do("pass")) /\ Paired(Do("pass")) /\ StepsOf(Do("pass")) = {One("pass")}
    BY <1>1, FirstDo
  <2> QED
    BY <1>0, <2>1, Zenon
<1>3. s \in Seq(Steps) /\ t \in Seq(Steps)
  BY <1>2 DEF Good, Piece
<1>4. One("pass") \notin Calm
  <2>1. \A nm : One("pass") = One(nm) => "pass" = nm
    BY Names, Zenon
  <2>2. One("pass") # ResetOut
    BY Operands
  <2> QED
    BY <2>1, <2>2 DEF Calm
<1>5. Since(t, {Halt, Irq}, {Clk}, Calm)
  BY <1>2, <1>3, <1>4, SinceEasy
<1>6. ASSUME NEW x \in StepsOf(s) PROVE Allowed(l, x, One("pass"))
  <2>0. x \in Steps /\ x \notin Leave
    BY <1>3, Lengths
  <2>1. \A nm : One("pass") = One(nm) => "pass" = nm
    BY Names, Zenon
  <2>2. One("unmap") \in Leave /\ One("unbind") \in Leave
    BY DEF Leave
  <2> QED
    BY <1>1, <2>0, <2>1, <2>2 DEF Allowed
<1>7. Good(l, s \o t) /\ First(s \o t) = First(s)
  <2>1. \A x \in StepsOf(s) : \A y \in StepsOf(t) : Allowed(l, x, y)
    BY <1>2, <1>6
  <2>2. /\ Paired(t) \/ Irq \in StepsOf(s)
        /\ Since(t, {Halt, Irq}, {Clk}, Calm) \/ (Ends(s, {Halt, Irq}, {Clk}) /\ Soon(t, {Clk}, Calm))
    BY <1>2, <1>5
  <2>3. Piece(l, t) /\ Good(l, s)
    BY <1>2
  <2> QED
    <3>1. Follows(l, s, t)
      BY <2>1, <2>2, <2>3, Zenon DEF Follows
    <3> QED
      BY <3>1, Continue, Zenon
<1> QED
  <2>1. StepsOf(s \o t) = StepsOf(s) \cup {One("pass")}
    BY <1>2, <1>3, Cat
  <2> QED
    BY <1>0, <1>7, <2>1, Zenon

LEMMA Level3List ==
  ASSUME NEW l
  PROVE  /\ Good(l, Level3) /\ StepsOf(Level3) \subseteq Early /\ First(Level3) = One("map tcm") /\ One("map tcm") \in StepsOf(Level3)
         /\ Ends(Level3, {One("verify")}, {One("download")})
<1> DEFINE u0 == Do("map tcm")
           u1 == u0 \o Do("try")
           u2 == u1 \o View("pcie")
           u3 == u2 \o View("cc")
           u4 == u3 \o ArmHalt
           u5 == u4 \o Do("try")
           u6 == u5 \o Do("download")
           u7 == u6 \o Do("verify")
           Fine(s) == Good(l, s) /\ StepsOf(s) \subseteq Early /\ First(s) = One("map tcm") /\ One("map tcm") \in StepsOf(s)
           Halts(s) == Ends(s, {Halt, Irq}, {Clk})
<1>0. Fine(u0) /\ Irq \notin StepsOf(u0)
  <2>1. One("map tcm") \in Steps /\ One("map tcm") \in Early
    BY OpKinds
  <2>2. \A nm : One("map tcm") = One(nm) => "map tcm" = nm
    BY Names, Zenon
  <2> QED
    BY <2>1, <2>2, FirstDo DEF Irq
<1> HIDE DEF u0
<1>1. Fine(u1) /\ Irq \notin StepsOf(u1)
  <2>1. Open(u0) /\ Irq \notin StepsOf(u0)
    BY <1>0, Classes
  <2>2. Good(l, u0 \o Do("try")) /\ First(u0 \o Do("try")) = First(u0) /\ StepsOf(u0 \o Do("try")) = StepsOf(u0) \cup {One("try")}
    BY <1>0, <2>1, AddDo, OpKinds
  <2>3. {One("try")} \subseteq Early /\ Irq \notin {One("try")}
    <3>1. \A nm : One("try") = One(nm) => "try" = nm
      BY Names, Zenon
    <3> QED
      BY <3>1, OpKinds DEF Irq
  <2> QED
    BY <1>0, <2>1, <2>2, <2>3
<1> HIDE DEF u1
<1>2. Fine(u2) /\ Irq \notin StepsOf(u2)
  <2>1. Open(u1) /\ Irq \notin StepsOf(u1)
    BY <1>1, Classes
  <2>2. Good(l, u1 \o View("pcie")) /\ First(u1 \o View("pcie")) = First(u1) /\ StepsOf(u1 \o View("pcie")) = StepsOf(u1) \cup {See("pcie")}
    BY <1>1, <2>1, AddView
  <2>3. {See("pcie")} \subseteq Early /\ Irq \notin {See("pcie")}
    BY Classes, Operands
  <2> QED
    BY <1>1, <2>1, <2>2, <2>3
<1> HIDE DEF u2
<1>3. Fine(u3) /\ Irq \notin StepsOf(u3)
  <2>1. Open(u2) /\ Irq \notin StepsOf(u2)
    BY <1>2, Classes
  <2>2. Good(l, u2 \o View("cc")) /\ First(u2 \o View("cc")) = First(u2) /\ StepsOf(u2 \o View("cc")) = StepsOf(u2) \cup {See("cc")}
    BY <1>2, <2>1, AddView
  <2>3. {See("cc")} \subseteq Early /\ Irq \notin {See("cc")}
    BY Classes, Operands
  <2> QED
    BY <1>2, <2>1, <2>2, <2>3
<1> HIDE DEF u3
<1>4. Fine(u4) /\ Irq \notin StepsOf(u4) /\ Halts(u4)
  <2>1. Open(u3) /\ Irq \notin StepsOf(u3)
    BY <1>3, Classes
  <2>2. Good(l, u3 \o ArmHalt) /\ First(u3 \o ArmHalt) = First(u3) /\ StepsOf(u3 \o ArmHalt) = StepsOf(u3) \cup StepsOf(ArmHalt) /\ Halts(u3 \o ArmHalt)
    BY <1>3, <2>1, AddHalt
  <2>3. StepsOf(ArmHalt) \subseteq Early /\ Irq \notin StepsOf(ArmHalt)
    BY Classes
  <2> QED
    BY <1>3, <2>1, <2>2, <2>3
<1> HIDE DEF u4
<1>5. Fine(u5) /\ Irq \notin StepsOf(u5) /\ Halts(u5)
  <2>1. Open(u4) /\ Irq \notin StepsOf(u4)
    BY <1>4, Classes
  <2>2. Good(l, u4 \o Do("try")) /\ First(u4 \o Do("try")) = First(u4) /\ StepsOf(u4 \o Do("try")) = StepsOf(u4) \cup {One("try")} /\ Halts(u4 \o Do("try"))
    BY <1>4, <2>1, AddDo, OpKinds
  <2>3. {One("try")} \subseteq Early /\ Irq \notin {One("try")}
    <3>1. \A nm : One("try") = One(nm) => "try" = nm
      BY Names, Zenon
    <3> QED
      BY <3>1, OpKinds DEF Irq
  <2> QED
    BY <1>4, <2>1, <2>2, <2>3
<1> HIDE DEF u5
<1>6. Fine(u6) /\ Irq \notin StepsOf(u6) /\ Halts(u6)
  <2>1. Open(u5) /\ Irq \notin StepsOf(u5)
    BY <1>5, Classes
  <2>2. Good(l, u5 \o Do("download")) /\ First(u5 \o Do("download")) = First(u5) /\ StepsOf(u5 \o Do("download")) = StepsOf(u5) \cup {One("download")} /\ Halts(u5 \o Do("download"))
    BY <1>5, <2>1, AddDo, OpKinds
  <2>3. {One("download")} \subseteq Early /\ Irq \notin {One("download")}
    <3>1. \A nm : One("download") = One(nm) => "download" = nm
      BY Names, Zenon
    <3> QED
      BY <3>1, OpKinds DEF Irq
  <2> QED
    BY <1>5, <2>1, <2>2, <2>3
<1> HIDE DEF u6
<1>7. Fine(u7) /\ Irq \notin StepsOf(u7) /\ Halts(u7)
  <2>1. Open(u6) /\ Irq \notin StepsOf(u6)
    BY <1>6, Classes
  <2>2. Good(l, u6 \o Do("verify")) /\ First(u6 \o Do("verify")) = First(u6) /\ StepsOf(u6 \o Do("verify")) = StepsOf(u6) \cup {One("verify")} /\ Halts(u6 \o Do("verify"))
    BY <1>6, <2>1, AddDo, OpKinds
  <2>3. {One("verify")} \subseteq Early /\ Irq \notin {One("verify")}
    <3>1. \A nm : One("verify") = One(nm) => "verify" = nm
      BY Names, Zenon
    <3> QED
      BY <3>1, OpKinds DEF Irq
  <2> QED
    BY <1>6, <2>1, <2>2, <2>3
<1> HIDE DEF u7
<1>8. Ends(Level3, {One("verify")}, {One("download")})
  <2>1. Do("verify") = <<One("verify")>> /\ One("verify") \in Steps
    BY OpKinds DEF Do, One
  <2>2. One("verify") \notin Writes /\ One("verify") # Check
    BY Operands, Names DEF Check
  <2>3. Ends(<<One("verify")>>, {One("verify")}, {One("download")}) /\ <<One("verify")>> \in Seq(Steps)
    BY <2>1, <2>2, Single
  <2>4. u6 \in Seq(Steps)
    BY <1>6 DEF Good
  <2>5. Ends(u6 \o <<One("verify")>>, {One("verify")}, {One("download")})
    BY <2>3, <2>4, CatSince
  <2>6. Level3 = u6 \o <<One("verify")>>
    BY <2>1 DEF Level3, u0, u1, u2, u3, u4, u5, u6
  <2> QED
    BY <2>5, <2>6, Zenon
<1> QED
  BY <1>7, <1>8 DEF Level3, u0, u1, u2, u3, u4, u5, u6, u7

LEMMA Level4List ==
  ASSUME NEW l
  PROVE  /\ Good(l, Level4) /\ First(Level4) = One("clear master")
         /\ StepsOf(Level4) \subseteq Mid \cup {One("free irq"), One("pass")} /\ One("free irq") \in StepsOf(Level4)
         /\ Since(Level4, {One("olmsg")}, {}, {Irq}) /\ Since(Level4, {One("shared_info")}, {}, {Irq})
         /\ Since(Level4, {One("clear master")}, {One("set master")}, {Irq})
<1> DEFINE u0 == Do("clear master")
           u1 == u0 \o Mask
           u2 == u1 \o Do("olmsg")
           u3 == u2 \o Do("shared_info")
           u4 == u3 \o Do("request irq")
           u5 == u4 \o ArmRelease
           u6 == u5 \o Do("poll")
           u7 == u6 \o ArmHalt
           Fine(s) == Good(l, s) /\ StepsOf(s) \subseteq Mid /\ First(s) = One("clear master") /\ One("clear master") \in StepsOf(s)
           Halts(s) == Ends(s, {Halt, Irq}, {Clk})
           Told(s) == Since(s, {One("olmsg")}, {}, {Irq}) /\ Since(s, {One("shared_info")}, {}, {Irq})
<1>0. Fine(u0) /\ Irq \notin StepsOf(u0)
  <2>1. One("clear master") \in Steps /\ One("clear master") \in Mid
    BY OpKinds
  <2>2. \A nm : One("clear master") = One(nm) => "clear master" = nm
    BY Names, Zenon
  <2> QED
    BY <2>1, <2>2, FirstDo DEF Irq
<1> HIDE DEF u0
<1>1. Fine(u1) /\ Irq \notin StepsOf(u1)
  <2>1. Open(u0) /\ Irq \notin StepsOf(u0)
    BY <1>0, Classes
  <2>2. Good(l, u0 \o Mask) /\ First(u0 \o Mask) = First(u0) /\ StepsOf(u0 \o Mask) = StepsOf(u0) \cup StepsOf(Mask)
    BY <1>0, <2>1, AddMask
  <2>3. StepsOf(Mask) \subseteq Mid /\ Irq \notin StepsOf(Mask)
    BY Classes
  <2> QED
    BY <1>0, <2>1, <2>2, <2>3
<1> HIDE DEF u1
<1>2. Fine(u2) /\ Irq \notin StepsOf(u2) /\ One("olmsg") \in StepsOf(u2)
  <2>1. Open(u1) /\ Irq \notin StepsOf(u1)
    BY <1>1, Classes
  <2>2. Good(l, u1 \o Do("olmsg")) /\ First(u1 \o Do("olmsg")) = First(u1) /\ StepsOf(u1 \o Do("olmsg")) = StepsOf(u1) \cup {One("olmsg")}
    BY <1>1, <2>1, AddDo, OpKinds
  <2>3. {One("olmsg")} \subseteq Mid /\ Irq \notin {One("olmsg")}
    <3>1. \A nm : One("olmsg") = One(nm) => "olmsg" = nm
      BY Names, Zenon
    <3> QED
      BY <3>1, OpKinds DEF Irq
  <2> QED
    BY <1>1, <2>1, <2>2, <2>3
<1> HIDE DEF u2
<1>3. Fine(u3) /\ Irq \notin StepsOf(u3) /\ One("olmsg") \in StepsOf(u3) /\ One("shared_info") \in StepsOf(u3)
  <2>1. Open(u2) /\ Irq \notin StepsOf(u2)
    BY <1>2, Classes
  <2>2. Good(l, u2 \o Do("shared_info")) /\ First(u2 \o Do("shared_info")) = First(u2) /\ StepsOf(u2 \o Do("shared_info")) = StepsOf(u2) \cup {One("shared_info")}
    BY <1>2, <2>1, AddDo, OpKinds
  <2>3. {One("shared_info")} \subseteq Mid /\ Irq \notin {One("shared_info")}
    <3>1. \A nm : One("shared_info") = One(nm) => "shared_info" = nm
      BY Names, Zenon
    <3> QED
      BY <3>1, OpKinds DEF Irq
  <2> QED
    BY <1>2, <2>1, <2>2, <2>3
<1> HIDE DEF u3
<1>4. Fine(u4) /\ Irq \in StepsOf(u4) /\ Halts(u4) /\ Told(u4)
  <2>1. Open(u3) /\ Irq \notin StepsOf(u3)
    BY <1>3, Classes
  <2>2. Good(l, u3 \o Do("request irq")) /\ First(u3 \o Do("request irq")) = First(u3) /\ StepsOf(u3 \o Do("request irq")) = StepsOf(u3) \cup {One("request irq")} /\ Halts(u3 \o Do("request irq"))
    BY <1>3, <2>1, AddDo, OpKinds
  <2>3. {One("request irq")} \subseteq Mid /\ Irq \in {One("request irq")}
    BY Classes, OpKinds DEF Irq
  <2>4. u3 \in Seq(Steps) /\ Do("request irq") \in Seq(Steps)
    <3>1. Do("request irq") \in Seq(Steps)
      BY <2>3, FirstDo, OpKinds DEF Piece
    <3> QED
      BY <1>3, <3>1 DEF Good
  <2>5. Told(u3 \o Do("request irq"))
    <3>1. StepsOf(u3) \cap {Irq} = {}
      BY <2>1
    <3> QED
      BY <1>3, <2>4, <3>1, NeedBefore
  <2> QED
    BY <1>3, <2>1, <2>2, <2>3, <2>5
<1> HIDE DEF u4
<1>5. Fine(u5) /\ Irq \in StepsOf(u5) /\ Told(u5)
  <2>1. Open(u4)
    BY <1>4, Classes
  <2>2. Good(l, u4 \o ArmRelease) /\ First(u4 \o ArmRelease) = First(u4) /\ StepsOf(u4 \o ArmRelease) = StepsOf(u4) \cup StepsOf(ArmRelease)
    BY <1>4, <2>1, AddRelease
  <2>3. StepsOf(ArmRelease) \subseteq Mid /\ Irq \notin StepsOf(ArmRelease)
    BY Classes
  <2>4. u4 \in Seq(Steps) /\ ArmRelease \in Seq(Steps) /\ StepsOf(ArmRelease) \cap {Irq} = {}
    <3>1. ArmRelease \in Seq(Steps) /\ Irq \notin StepsOf(ArmRelease)
      BY Classes, HaltList, ReleaseList DEF Piece
    <3> QED
      BY <1>4, <3>1 DEF Good
  <2>5. Told(u4 \o ArmRelease)
    BY <1>4, <2>4, KeepSince
  <2> QED
    BY <1>4, <2>1, <2>2, <2>3, <2>5
<1> HIDE DEF u5
<1>6. Fine(u6) /\ Irq \in StepsOf(u6) /\ Told(u6)
  <2>1. Open(u5)
    BY <1>5, Classes
  <2>2. Good(l, u5 \o Do("poll")) /\ First(u5 \o Do("poll")) = First(u5) /\ StepsOf(u5 \o Do("poll")) = StepsOf(u5) \cup {One("poll")}
    BY <1>5, <2>1, AddDo, OpKinds
  <2>3. {One("poll")} \subseteq Mid /\ Irq \notin {One("poll")}
    <3>1. \A nm : One("poll") = One(nm) => "poll" = nm
      BY Names, Zenon
    <3> QED
      BY <3>1, OpKinds DEF Irq
  <2>4. u5 \in Seq(Steps) /\ Do("poll") \in Seq(Steps) /\ StepsOf(Do("poll")) \cap {Irq} = {}
    <3>1. Do("poll") \in Seq(Steps) /\ Irq \notin StepsOf(Do("poll"))
      BY <2>3, FirstDo, OpKinds DEF Piece
    <3> QED
      BY <1>5, <3>1 DEF Good
  <2>5. Told(u5 \o Do("poll"))
    BY <1>5, <2>4, KeepSince
  <2> QED
    BY <1>5, <2>1, <2>2, <2>3, <2>5
<1> HIDE DEF u6
<1>7. Fine(u7) /\ Irq \in StepsOf(u7) /\ Halts(u7) /\ Told(u7)
  <2>1. Open(u6)
    BY <1>6, Classes
  <2>2. Good(l, u6 \o ArmHalt) /\ First(u6 \o ArmHalt) = First(u6) /\ StepsOf(u6 \o ArmHalt) = StepsOf(u6) \cup StepsOf(ArmHalt) /\ Halts(u6 \o ArmHalt)
    BY <1>6, <2>1, AddHalt
  <2>3. StepsOf(ArmHalt) \subseteq Mid /\ Irq \notin StepsOf(ArmHalt)
    BY Classes
  <2>4. u6 \in Seq(Steps) /\ ArmHalt \in Seq(Steps) /\ StepsOf(ArmHalt) \cap {Irq} = {}
    <3>1. ArmHalt \in Seq(Steps) /\ Irq \notin StepsOf(ArmHalt)
      BY Classes, HaltList, ReleaseList DEF Piece
    <3> QED
      BY <1>6, <3>1 DEF Good
  <2>5. Told(u6 \o ArmHalt)
    BY <1>6, <2>4, KeepSince
  <2> QED
    BY <1>6, <2>1, <2>2, <2>3, <2>5
<1> HIDE DEF u7
<1> DEFINE v == u7 \o Do("free irq")
           w == v \o Do("pass")
<1>8. Good(l, v) /\ First(v) = First(u7) /\ StepsOf(v) = StepsOf(u7) \cup {One("free irq")}
  <2>1. Open(u7)
    BY <1>7, Classes
  <2> QED
    BY <1>7, <2>1, AddDo, OpKinds
<1>9. StepsOf(v) \cap Leave = {}
  <2>1. Open(u7) /\ One("free irq") \notin Leave
    <3>1. One("free irq") \in Leave => "free irq" \in {"free olmsg", "unmap", "unbind"}
      BY Names, Zenon
    <3> QED
      BY <1>7, <3>1, Classes
  <2> QED
    BY <1>8, <2>1 DEF Open
<1> HIDE DEF v
<1>10. Good(l, w) /\ First(w) = First(v) /\ StepsOf(w) = StepsOf(v) \cup {One("pass")}
  BY <1>8, <1>9, AddPass
<1>11. Told(w)
  <2>1. Irq # One("free irq") /\ Irq # One("pass")
    <3>1. \A nm : Irq = One(nm) => "request irq" = nm
      BY Names, Zenon DEF Irq
    <3> QED
      BY <3>1
  <2>2. Do("free irq") \in Seq(Steps) /\ StepsOf(Do("free irq")) \cap {Irq} = {}
    BY <2>1, FirstDo, OpKinds DEF Piece
  <2>3. Do("pass") \in Seq(Steps) /\ StepsOf(Do("pass")) \cap {Irq} = {}
    BY <2>1, FirstDo, OpKinds DEF Piece
  <2>4. u7 \in Seq(Steps) /\ v \in Seq(Steps)
    BY <1>7, <1>8 DEF Good
  <2>5. Told(v)
    BY <1>7, <2>2, <2>4, KeepSince DEF v
  <2> QED
    BY <2>3, <2>4, <2>5, KeepSince
<1> HIDE DEF w
<1>12. Since(w, {One("clear master")}, {One("set master")}, {Irq})
  <2>1. First(w) = One("clear master") /\ One("clear master") # Irq
    <3>1. \A nm : One("clear master") = One(nm) => "clear master" = nm
      BY Names, Zenon
    <3> QED
      BY <1>7, <1>8, <1>10, <3>1 DEF Irq
  <2>2. One("set master") \notin StepsOf(w)
    <3>1. \A nm : One("set master") = One(nm) => "set master" = nm
      BY Names, Zenon
    <3> QED
      BY <1>7, <1>8, <1>10, <3>1, Classes
  <2>3. w \in Seq(Steps)
    BY <1>10 DEF Good
  <2>4. PICK X, Z, Y : X = {One("clear master")} /\ Z = {One("set master")} /\ Y = {Irq}
    OBVIOUS
  <2>5. First(w) \in X /\ First(w) \notin Y /\ StepsOf(w) \cap Z = {}
    BY <2>1, <2>2, <2>4
  <2>6. Since(w, X, Z, Y)
    BY <2>3, <2>5, FirstSince
  <2> QED
    BY <2>4, <2>6, Zenon
<1> QED
  <2>1. Level4 = w
    BY DEF Level4, w, v, u0, u1, u2, u3, u4, u5, u6, u7
  <2>2. StepsOf(w) \subseteq Mid \cup {One("free irq"), One("pass")} /\ One("free irq") \in StepsOf(w) /\ First(w) = One("clear master")
    BY <1>7, <1>8, <1>10
  <2> QED
    BY <1>10, <1>11, <1>12, <2>1, <2>2, Zenon

LEMMA Level5List ==
  /\ Good(5, Level5) /\ First(Level5) = One("map tcm")
  /\ StepsOf(Level5) \subseteq Mid \cup {One("set master"), One("free irq"), One("pass")} /\ One("free irq") \in StepsOf(Level5)
<1> DEFINE u0 == Do("map tcm")
           u1 == u0 \o ArmHalt
           u2 == u1 \o Do("clear master")
           u3 == u2 \o Mask
           u4 == u3 \o View("cc")
           u5 == u4 \o View("pcie")
           u6 == u5 \o Do("request irq")
           u7 == u6 \o Do("set master")
           u8 == u7 \o Unmask
           u9 == u8 \o ArmRelease
           u10 == u9 \o Do("poll")
           u11 == u10 \o Mask
           u12 == u11 \o Do("clear master")
           u13 == u12 \o Do("scan")
           u14 == u13 \o ArmHalt
           Fine(s) == Good(5, s) /\ StepsOf(s) \subseteq (Mid \cup {One("set master")}) /\ First(s) = One("map tcm") /\ One("map tcm") \in StepsOf(s)
           Halts(s) == Ends(s, {Halt, Irq}, {Clk})
<1>0. Fine(u0) /\ Irq \notin StepsOf(u0)
  <2>1. One("map tcm") \in Steps /\ One("map tcm") \in (Mid \cup {One("set master")})
    BY OpKinds
  <2>2. \A nm : One("map tcm") = One(nm) => "map tcm" = nm
    BY Names, Zenon
  <2> QED
    BY <2>1, <2>2, FirstDo DEF Irq
<1> HIDE DEF u0
<1>1. Fine(u1) /\ Irq \notin StepsOf(u1) /\ Halts(u1)
  <2>1. Open(u0) /\ Irq \notin StepsOf(u0)
    BY <1>0, Classes
  <2>2. Good(5, u0 \o ArmHalt) /\ First(u0 \o ArmHalt) = First(u0) /\ StepsOf(u0 \o ArmHalt) = StepsOf(u0) \cup StepsOf(ArmHalt) /\ Halts(u0 \o ArmHalt)
    BY <1>0, <2>1, AddHalt
  <2>3. StepsOf(ArmHalt) \subseteq (Mid \cup {One("set master")}) /\ Irq \notin StepsOf(ArmHalt)
    BY Classes
  <2> QED
    BY <1>0, <2>1, <2>2, <2>3
<1> HIDE DEF u1
<1>2. Fine(u2) /\ Irq \notin StepsOf(u2) /\ Halts(u2)
  <2>1. Open(u1) /\ Irq \notin StepsOf(u1)
    BY <1>1, Classes
  <2>2. Good(5, u1 \o Do("clear master")) /\ First(u1 \o Do("clear master")) = First(u1) /\ StepsOf(u1 \o Do("clear master")) = StepsOf(u1) \cup {One("clear master")} /\ Halts(u1 \o Do("clear master"))
    BY <1>1, <2>1, AddDo, OpKinds
  <2>3. {One("clear master")} \subseteq (Mid \cup {One("set master")}) /\ Irq \notin {One("clear master")}
    <3>1. \A nm : One("clear master") = One(nm) => "clear master" = nm
      BY Names, Zenon
    <3> QED
      BY <3>1, OpKinds DEF Irq
  <2> QED
    BY <1>1, <2>1, <2>2, <2>3
<1> HIDE DEF u2
<1>3. Fine(u3) /\ Irq \notin StepsOf(u3) /\ Halts(u3)
  <2>1. Open(u2) /\ Irq \notin StepsOf(u2)
    BY <1>2, Classes
  <2>2. Good(5, u2 \o Mask) /\ First(u2 \o Mask) = First(u2) /\ StepsOf(u2 \o Mask) = StepsOf(u2) \cup StepsOf(Mask) /\ Halts(u2 \o Mask)
    BY <1>2, <2>1, AddMask
  <2>3. StepsOf(Mask) \subseteq (Mid \cup {One("set master")}) /\ Irq \notin StepsOf(Mask)
    BY Classes
  <2> QED
    BY <1>2, <2>1, <2>2, <2>3
<1> HIDE DEF u3
<1>4. Fine(u4) /\ Irq \notin StepsOf(u4) /\ Halts(u4)
  <2>1. Open(u3) /\ Irq \notin StepsOf(u3)
    BY <1>3, Classes
  <2>2. Good(5, u3 \o View("cc")) /\ First(u3 \o View("cc")) = First(u3) /\ StepsOf(u3 \o View("cc")) = StepsOf(u3) \cup {See("cc")} /\ Halts(u3 \o View("cc"))
    BY <1>3, <2>1, AddView
  <2>3. {See("cc")} \subseteq (Mid \cup {One("set master")}) /\ Irq \notin {See("cc")}
    BY Classes, Operands
  <2> QED
    BY <1>3, <2>1, <2>2, <2>3
<1> HIDE DEF u4
<1>5. Fine(u5) /\ Irq \notin StepsOf(u5) /\ Halts(u5)
  <2>1. Open(u4) /\ Irq \notin StepsOf(u4)
    BY <1>4, Classes
  <2>2. Good(5, u4 \o View("pcie")) /\ First(u4 \o View("pcie")) = First(u4) /\ StepsOf(u4 \o View("pcie")) = StepsOf(u4) \cup {See("pcie")} /\ Halts(u4 \o View("pcie"))
    BY <1>4, <2>1, AddView
  <2>3. {See("pcie")} \subseteq (Mid \cup {One("set master")}) /\ Irq \notin {See("pcie")}
    BY Classes, Operands
  <2> QED
    BY <1>4, <2>1, <2>2, <2>3
<1> HIDE DEF u5
<1>6. Fine(u6) /\ Irq \in StepsOf(u6) /\ Halts(u6)
  <2>1. Open(u5) /\ Irq \notin StepsOf(u5)
    BY <1>5, Classes
  <2>2. Good(5, u5 \o Do("request irq")) /\ First(u5 \o Do("request irq")) = First(u5) /\ StepsOf(u5 \o Do("request irq")) = StepsOf(u5) \cup {One("request irq")} /\ Halts(u5 \o Do("request irq"))
    BY <1>5, <2>1, AddDo, OpKinds
  <2>3. {One("request irq")} \subseteq (Mid \cup {One("set master")}) /\ Irq \in {One("request irq")}
    BY Classes, OpKinds DEF Irq
  <2> QED
    BY <1>5, <2>1, <2>2, <2>3
<1> HIDE DEF u6
<1>7. Fine(u7) /\ Irq \in StepsOf(u7) /\ Halts(u7)
  <2>1. Open(u6)
    BY <1>6, Classes
  <2>2. Good(5, u6 \o Do("set master")) /\ First(u6 \o Do("set master")) = First(u6) /\ StepsOf(u6 \o Do("set master")) = StepsOf(u6) \cup {One("set master")} /\ Halts(u6 \o Do("set master"))
    BY <1>6, <2>1, AddDo, OpKinds
  <2>3. {One("set master")} \subseteq (Mid \cup {One("set master")}) /\ Irq \notin {One("set master")}
    <3>1. \A nm : One("set master") = One(nm) => "set master" = nm
      BY Names, Zenon
    <3> QED
      BY <3>1, OpKinds DEF Irq
  <2> QED
    BY <1>6, <2>1, <2>2, <2>3
<1> HIDE DEF u7
<1>8. Fine(u8) /\ Irq \in StepsOf(u8) /\ Halts(u8)
  <2>1. Open(u7)
    BY <1>7, Classes
  <2>2. Good(5, u7 \o Unmask) /\ First(u7 \o Unmask) = First(u7) /\ StepsOf(u7 \o Unmask) = StepsOf(u7) \cup StepsOf(Unmask) /\ Halts(u7 \o Unmask)
    BY <1>7, <2>1, AddMask
  <2>3. StepsOf(Unmask) \subseteq (Mid \cup {One("set master")}) /\ Irq \notin StepsOf(Unmask)
    BY Classes
  <2> QED
    BY <1>7, <2>1, <2>2, <2>3
<1> HIDE DEF u8
<1>9. Fine(u9) /\ Irq \in StepsOf(u9)
  <2>1. Open(u8)
    BY <1>8, Classes
  <2>2. Good(5, u8 \o ArmRelease) /\ First(u8 \o ArmRelease) = First(u8) /\ StepsOf(u8 \o ArmRelease) = StepsOf(u8) \cup StepsOf(ArmRelease)
    BY <1>8, <2>1, AddRelease
  <2>3. StepsOf(ArmRelease) \subseteq (Mid \cup {One("set master")}) /\ Irq \notin StepsOf(ArmRelease)
    BY Classes
  <2> QED
    BY <1>8, <2>1, <2>2, <2>3
<1> HIDE DEF u9
<1>10. Fine(u10) /\ Irq \in StepsOf(u10)
  <2>1. Open(u9)
    BY <1>9, Classes
  <2>2. Good(5, u9 \o Do("poll")) /\ First(u9 \o Do("poll")) = First(u9) /\ StepsOf(u9 \o Do("poll")) = StepsOf(u9) \cup {One("poll")}
    BY <1>9, <2>1, AddDo, OpKinds
  <2>3. {One("poll")} \subseteq (Mid \cup {One("set master")}) /\ Irq \notin {One("poll")}
    <3>1. \A nm : One("poll") = One(nm) => "poll" = nm
      BY Names, Zenon
    <3> QED
      BY <3>1, OpKinds DEF Irq
  <2> QED
    BY <1>9, <2>1, <2>2, <2>3
<1> HIDE DEF u10
<1>11. Fine(u11) /\ Irq \in StepsOf(u11)
  <2>1. Open(u10)
    BY <1>10, Classes
  <2>2. Good(5, u10 \o Mask) /\ First(u10 \o Mask) = First(u10) /\ StepsOf(u10 \o Mask) = StepsOf(u10) \cup StepsOf(Mask)
    BY <1>10, <2>1, AddMask
  <2>3. StepsOf(Mask) \subseteq (Mid \cup {One("set master")}) /\ Irq \notin StepsOf(Mask)
    BY Classes
  <2> QED
    BY <1>10, <2>1, <2>2, <2>3
<1> HIDE DEF u11
<1>12. Fine(u12) /\ Irq \in StepsOf(u12)
  <2>1. Open(u11)
    BY <1>11, Classes
  <2>2. Good(5, u11 \o Do("clear master")) /\ First(u11 \o Do("clear master")) = First(u11) /\ StepsOf(u11 \o Do("clear master")) = StepsOf(u11) \cup {One("clear master")}
    BY <1>11, <2>1, AddDo, OpKinds
  <2>3. {One("clear master")} \subseteq (Mid \cup {One("set master")}) /\ Irq \notin {One("clear master")}
    <3>1. \A nm : One("clear master") = One(nm) => "clear master" = nm
      BY Names, Zenon
    <3> QED
      BY <3>1, OpKinds DEF Irq
  <2> QED
    BY <1>11, <2>1, <2>2, <2>3
<1> HIDE DEF u12
<1>13. Fine(u13) /\ Irq \in StepsOf(u13)
  <2>1. Open(u12)
    BY <1>12, Classes
  <2>2. Good(5, u12 \o Do("scan")) /\ First(u12 \o Do("scan")) = First(u12) /\ StepsOf(u12 \o Do("scan")) = StepsOf(u12) \cup {One("scan")}
    BY <1>12, <2>1, AddDo, OpKinds
  <2>3. {One("scan")} \subseteq (Mid \cup {One("set master")}) /\ Irq \notin {One("scan")}
    <3>1. \A nm : One("scan") = One(nm) => "scan" = nm
      BY Names, Zenon
    <3> QED
      BY <3>1, OpKinds DEF Irq
  <2> QED
    BY <1>12, <2>1, <2>2, <2>3
<1> HIDE DEF u13
<1>14. Fine(u14) /\ Irq \in StepsOf(u14) /\ Halts(u14)
  <2>1. Open(u13)
    BY <1>13, Classes
  <2>2. Good(5, u13 \o ArmHalt) /\ First(u13 \o ArmHalt) = First(u13) /\ StepsOf(u13 \o ArmHalt) = StepsOf(u13) \cup StepsOf(ArmHalt) /\ Halts(u13 \o ArmHalt)
    BY <1>13, <2>1, AddHalt
  <2>3. StepsOf(ArmHalt) \subseteq (Mid \cup {One("set master")}) /\ Irq \notin StepsOf(ArmHalt)
    BY Classes
  <2> QED
    BY <1>13, <2>1, <2>2, <2>3
<1> HIDE DEF u14
<1> DEFINE v == u14 \o Do("free irq")
           w == v \o Do("pass")
<1>15. Good(5, v) /\ First(v) = First(u14) /\ StepsOf(v) = StepsOf(u14) \cup {One("free irq")}
  <2>1. Open(u14)
    BY <1>14, Classes
  <2> QED
    BY <1>14, <2>1, AddDo, OpKinds
<1>16. StepsOf(v) \cap Leave = {}
  <2>1. Open(u14) /\ One("free irq") \notin Leave
    <3>1. One("free irq") \in Leave => "free irq" \in {"free olmsg", "unmap", "unbind"}
      BY Names, Zenon
    <3> QED
      BY <1>14, <3>1, Classes
  <2> QED
    BY <1>15, <2>1 DEF Open
<1> HIDE DEF v
<1>17. Good(5, w) /\ First(w) = First(v) /\ StepsOf(w) = StepsOf(v) \cup {One("pass")}
  BY <1>15, <1>16, AddPass
<1> HIDE DEF w
<1> QED
  <2>1. Level5 = w
    BY DEF Level5, w, v, u0, u1, u2, u3, u4, u5, u6, u7, u8, u9, u10, u11, u12, u13, u14
  <2>2. StepsOf(w) \subseteq Mid \cup {One("set master"), One("free irq"), One("pass")} /\ One("free irq") \in StepsOf(w) /\ First(w) = One("map tcm")
    BY <1>14, <1>15, <1>17
  <2> QED
    BY <1>17, <2>1, <2>2, Zenon

LEMMA Added ==
  ASSUME NEW l, NEW s, NEW t, Fits(l, s, t)
  PROVE  Good(l, s \o t) /\ First(s \o t) = First(s) /\ StepsOf(s \o t) = StepsOf(s) \cup StepsOf(t)
BY Add

\* What probe starts with.
Begin(l, s) ==
  /\ s \in Seq(Steps) /\ Static(l, s) /\ Paired(s) /\ First(s) = One("clear master")
  /\ StepsOf(s) \cap Leave = {}
  /\ Since(s, {One("map regs")}, {}, {Irq})
  /\ Since(s, {One("map tcm")}, {}, Writes \cup {One("download")})
  /\ Since(s, {Halt, Irq}, {Clk}, Calm)
  /\ l # 5 => Since(s, {One("clear master")}, {One("set master")}, {Irq})
  /\ l = 4 => /\ Since(s, {One("verify")}, {One("download")}, {Irq})
              /\ Since(s, {One("olmsg")}, {}, {Irq})
              /\ Since(s, {One("shared_info")}, {}, {Irq})

LEMMA Begins ==
  ASSUME NEW l, NEW s, Good(l, s), First(s) = One("clear master"), StepsOf(s) \cap Leave = {},
         Irq \in StepsOf(s) => One("free irq") \in StepsOf(s),
         Since(s, {One("map regs")}, {}, {Irq}),
         Since(s, {One("map tcm")}, {}, Writes \cup {One("download")}),
         l # 5 => Since(s, {One("clear master")}, {One("set master")}, {Irq}),
         l = 4 => /\ Since(s, {One("verify")}, {One("download")}, {Irq})
                  /\ Since(s, {One("olmsg")}, {}, {Irq})
                  /\ Since(s, {One("shared_info")}, {}, {Irq})
  PROVE  Begin(l, s)
<1>1. s \in Seq(Steps) /\ Written(s) /\ Released(s) /\ Order(l, s) /\ Paired(s) /\ Since(s, {Halt, Irq}, {Clk}, Calm)
  BY DEF Good
<1>2. {Halt, Irq} \cap {Clk} = {} /\ {Halt} \cap {Clk} = {}
  <2>1. Clk # Halt
    BY Kinds, Zenon
  <2>2. Clk # Irq
    BY Operands
  <2> QED
    BY <2>1, <2>2
<1>3. {One("clear master")} \cap {One("set master")} = {} /\ {One("verify")} \cap {One("download")} = {}
  <2>1. \A nm : One("clear master") = One(nm) => "clear master" = nm
    BY Names, Zenon
  <2>2. \A nm : One("verify") = One(nm) => "verify" = nm
    BY Names, Zenon
  <2> QED
    BY <2>1, <2>2
<1>4. \A X, Z, Y : Since(s, X, Z, Y) /\ X \cap Z = {} => Again(s, X, Z, Y)
  BY <1>1, SinceEasy
<1>5. Again(s, {Halt, Irq}, {Clk}, Calm)
  BY <1>1, <1>2, <1>4, Zenon
<1>6. Again(s, {Halt}, {Clk}, Leave)
  BY <1>1, SinceEasy
<1>7. l # 5 => Again(s, {One("clear master")}, {One("set master")}, {Irq})
  BY <1>3, <1>4, Zenon
<1>8. l = 4 => Again(s, {One("verify")}, {One("download")}, {Irq})
  BY <1>3, <1>4, Zenon
<1>9. Static(l, s)
  BY <1>1, <1>5, <1>6, <1>7, <1>8, Zenon DEF Static
<1> QED
  BY <1>1, <1>9, Zenon DEF Begin

LEMMA NoMore ==
  ASSUME NEW s \in Seq(Steps)
  PROVE  s \o <<>> = s /\ <<>> \o s = s
BY ConcatEmptySeq

\* The steps of levels 1 and 2 only.
LEMMA FrontList ==
  ASSUME NEW l, NEW s, Good(l, s), First(s) = One("clear master"), StepsOf(s) \subseteq Front, l # 4
  PROVE  Begin(l, s)
<1>1. s \in Seq(Steps)
  BY DEF Good
<1>2. Irq \notin StepsOf(s) /\ StepsOf(s) \cap Leave = {}
  BY Classes DEF Open
<1>3. StepsOf(s) \cap (Writes \cup {One("download")}) = {}
  <2>1. \A x \in Front : x[1] \in {"window", "clear master", "try", "set master", "map regs", "alive"}
    BY Kinds, Zenon
  <2>2. \A x \in Writes : x[1] = "write"
    BY Kinds, Zenon
  <2>3. One("download")[1] = "download"
    BY Kinds, Zenon
  <2> QED
    BY <2>1, <2>2, <2>3
<1>4. \A X, Z, Y : StepsOf(s) \cap Y = {} => Since(s, X, Z, Y)
  BY <1>1, SinceEasy
<1>5. StepsOf(s) \cap {Irq} = {}
  BY <1>2
<1> QED
  BY <1>2, <1>3, <1>4, <1>5, Begins, Zenon

LEMMA Fronts ==
  ASSUME NEW l
  PROVE  LET f == Do("clear master") \o Level1 IN
         /\ Good(l, f) /\ First(f) = One("clear master") /\ StepsOf(f) \subseteq Front
         /\ Good(l, f \o Level2) /\ First(f \o Level2) = One("clear master") /\ StepsOf(f \o Level2) \subseteq Front
         /\ One("map regs") \in StepsOf(f \o Level2)
<1> DEFINE f == Do("clear master") \o Level1
<1>1. One("clear master") \in Front /\ One("clear master") \in Steps
  <2>1. One("clear master") \in Front
    BY DEF Front
  <2> QED
    BY <2>1, Classes
<1>2. PICK a : a = Do("clear master")
  OBVIOUS
<1>3. Good(l, a) /\ StepsOf(a) \subseteq Front /\ First(a) = One("clear master")
  <2>1. Good(l, Do("clear master")) /\ StepsOf(Do("clear master")) = {One("clear master")} /\ First(Do("clear master")) = One("clear master")
    BY <1>1, FirstDo
  <2> QED
    BY <1>1, <1>2, <2>1
<1>4. \A s : StepsOf(s) \subseteq Front => Open(s) /\ Irq \notin StepsOf(s)
  BY Classes
<1>5. /\ Good(l, Level1) /\ StepsOf(Level1) \subseteq Front
      /\ Good(l, Level2) /\ StepsOf(Level2) \subseteq Front /\ One("set master") \notin StepsOf(Level2)
      /\ One("map regs") \in StepsOf(Level2)
  BY Level1List, Level2List
<1>6. Level1[1] \notin Writes /\ Level2[1] \notin Writes
  <2>1. First(Level1) = One("try") /\ First(Level2) = One("map regs")
    BY Level1List, Level2List
  <2> QED
    BY <2>1, Operands DEF First
<1>7. Fits(l, a, Level1)
  BY <1>3, <1>4, <1>5, <1>6 DEF Fits, Good, Piece
<1>8. Good(l, f) /\ First(f) = First(a) /\ StepsOf(f) = StepsOf(a) \cup StepsOf(Level1)
  <2>1. Good(l, a \o Level1) /\ First(a \o Level1) = First(a) /\ StepsOf(a \o Level1) = StepsOf(a) \cup StepsOf(Level1)
    BY <1>7, Added
  <2> QED
    BY <1>2, <2>1
<1> HIDE DEF f
<1>9. StepsOf(f) \subseteq Front
  BY <1>3, <1>5, <1>8
<1>10. Fits(l, f, Level2)
  BY <1>4, <1>5, <1>6, <1>8, <1>9 DEF Fits, Good, Piece
<1>11. Good(l, f \o Level2) /\ First(f \o Level2) = First(f) /\ StepsOf(f \o Level2) = StepsOf(f) \cup StepsOf(Level2)
  <2>1. Good(l, f \o Level2) /\ First(f \o Level2) = First(f) /\ StepsOf(f \o Level2) = StepsOf(f) \cup StepsOf(Level2)
    BY <1>10, Added
  <2> QED
    BY <2>1, Zenon
<1>12. StepsOf(f \o Level2) \subseteq Front /\ One("map regs") \in StepsOf(f \o Level2)
  BY <1>5, <1>9, <1>11
<1>13. First(f) = One("clear master") /\ First(f \o Level2) = One("clear master")
  BY <1>3, <1>8, <1>11
<1> QED
  BY <1>8, <1>9, <1>11, <1>12, <1>13 DEF f

LEMMA MidStays ==
  \A x \in Mid : x \notin Leave
<1> SUFFICES ASSUME NEW x \in Mid PROVE x \notin Leave
  OBVIOUS
<1>1. Len(<<x>>) = 1 /\ <<x>>[1] = x
  OBVIOUS
<1>2. \A i \in 1 .. 1 : i = 1
  OBVIOUS
<1>3. 1 \in 1 .. 1
  OBVIOUS
<1>4. PICK s : s = <<x>>
  OBVIOUS
<1>5. x \in StepsOf(s) /\ StepsOf(s) \subseteq Mid
  BY <1>1, <1>2, <1>3, <1>4 DEF StepsOf
<1>6. Open(s)
  BY <1>5, Classes
<1> QED
  BY <1>5, <1>6 DEF Open

LEMMA UpTo3 ==
  ASSUME NEW l, NEW g, Good(l, g), First(g) = One("clear master"), StepsOf(g) \subseteq Front
  PROVE  /\ Good(l, g \o Level3) /\ First(g \o Level3) = One("clear master")
         /\ StepsOf(g \o Level3) \subseteq Front \cup Early /\ One("map tcm") \in StepsOf(g \o Level3)
         /\ Open(g \o Level3) /\ Irq \notin StepsOf(g \o Level3) /\ StepsOf(g \o Level3) \cap Leave = {}
         /\ One("map regs") \in StepsOf(g) => One("map regs") \in StepsOf(g \o Level3)
         /\ Since(g \o Level3, {One("map tcm")}, {}, Writes \cup {One("download")})
         /\ Ends(g \o Level3, {One("verify")}, {One("download")})
<1>1. /\ Good(l, Level3) /\ StepsOf(Level3) \subseteq Early /\ First(Level3) = One("map tcm") /\ One("map tcm") \in StepsOf(Level3)
      /\ Ends(Level3, {One("verify")}, {One("download")})
  BY Level3List
<1>2. Open(g) /\ Irq \notin StepsOf(g) /\ Open(Level3) /\ Irq \notin StepsOf(Level3)
  BY <1>1, Classes
<1>3. One("set master") \notin StepsOf(Level3)
  <2>1. \A nm : One("set master") = One(nm) => "set master" = nm
    BY Names, Zenon
  <2>2. One("set master") \notin Views \cup Writes
    BY Access
  <2> QED
    BY <1>1, <2>1, <2>2 DEF Early
<1>4. Level3[1] \notin Writes /\ Level3[1] # One("download")
  <2>1. \A nm : One("map tcm") = One(nm) => "map tcm" = nm
    BY Names, Zenon
  <2> QED
    BY <1>1, <2>1, Operands DEF First
<1>5. Fits(l, g, Level3)
  BY <1>1, <1>2, <1>3, <1>4 DEF Fits, Good, Piece
<1>6. Good(l, g \o Level3) /\ First(g \o Level3) = First(g) /\ StepsOf(g \o Level3) = StepsOf(g) \cup StepsOf(Level3)
  <2>1. \A t : Fits(l, g, t) => Good(l, g \o t) /\ First(g \o t) = First(g) /\ StepsOf(g \o t) = StepsOf(g) \cup StepsOf(t)
    BY Added
  <2> QED
    BY <1>5, <2>1, Zenon
<1>7. g \in Seq(Steps) /\ Level3 \in Seq(Steps)
  BY <1>1 DEF Good
<1>8. Since(g \o Level3, {One("map tcm")}, {}, Writes \cup {One("download")})
  <2> DEFINE Y == Writes \cup {One("download")}
  <2>1. \A x \in Front : x[1] \in {"window", "clear master", "try", "set master", "map regs", "alive"}
    BY Kinds, Zenon
  <2>2. \A x \in Writes : x[1] = "write"
    BY Kinds, Zenon
  <2>3. One("download")[1] = "download"
    BY Kinds, Zenon
  <2>4. StepsOf(g) \cap Y = {}
    BY <2>1, <2>2, <2>3
  <2>5. PICK X, Z : X = {One("map tcm")} /\ Z = {}
    OBVIOUS
  <2>6. First(Level3) \in X /\ First(Level3) \notin Y /\ StepsOf(Level3) \cap Z = {}
    BY <1>1, <1>4, <2>5 DEF First
  <2> HIDE DEF Y
  <2>7. Since(Level3, X, Z, Y)
    BY <1>7, <2>6, FirstSince
  <2>8. Since(g, X, Z, Y)
    BY <1>7, <2>4, SinceEasy
  <2>9. Since(g \o Level3, X, Z, Y)
    BY <1>7, <2>7, <2>8, CatSince
  <2> QED
    BY <2>5, <2>9, Zenon DEF Y
<1>9. Ends(g \o Level3, {One("verify")}, {One("download")})
  BY <1>1, <1>7, CatSince
<1>10. Open(g \o Level3) /\ Irq \notin StepsOf(g \o Level3) /\ StepsOf(g \o Level3) \cap Leave = {}
  BY <1>2, <1>6 DEF Open
<1>11. StepsOf(g \o Level3) \subseteq Front \cup Early /\ One("map tcm") \in StepsOf(g \o Level3)
  BY <1>1, <1>6
<1> QED
  BY <1>6, <1>8, <1>9, <1>10, <1>11

LEMMA UpTo4 ==
  ASSUME NEW g, Good(4, g), First(g) = One("clear master"), StepsOf(g) \subseteq Front, One("map regs") \in StepsOf(g)
  PROVE  Begin(4, g \o Level3 \o Level4)
<1> DEFINE h == g \o Level3
<1>1. /\ Good(4, h) /\ First(h) = One("clear master")
      /\ StepsOf(h) \subseteq Front \cup Early /\ One("map tcm") \in StepsOf(h)
      /\ Open(h) /\ Irq \notin StepsOf(h) /\ StepsOf(h) \cap Leave = {}
      /\ One("map regs") \in StepsOf(h)
      /\ Since(h, {One("map tcm")}, {}, Writes \cup {One("download")})
      /\ Ends(h, {One("verify")}, {One("download")})
  BY UpTo3
<1> HIDE DEF h
<1>2. /\ Good(4, Level4) /\ First(Level4) = One("clear master")
      /\ StepsOf(Level4) \subseteq Mid \cup {One("free irq"), One("pass")} /\ One("free irq") \in StepsOf(Level4)
      /\ Since(Level4, {One("olmsg")}, {}, {Irq}) /\ Since(Level4, {One("shared_info")}, {}, {Irq})
      /\ Since(Level4, {One("clear master")}, {One("set master")}, {Irq})
  BY Level4List
<1>3. One("set master") \notin StepsOf(Level4) /\ One("download") \notin StepsOf(Level4) /\ StepsOf(Level4) \cap Leave = {}
  <2>1. \A nm : One("set master") = One(nm) => "set master" = nm
    BY Names, Zenon
  <2>2. One("set master") \notin Mid
    BY Classes
  <2>3. \A nm : One("download") = One(nm) => "download" = nm
    BY Names, Zenon
  <2>4. One("download") \notin Views \cup Writes
    <3>1. \A x \in Views \cup Writes : x \in Late
      BY Access
    <3>2. \A x \in Late : x[1] # "download"
      BY Kinds
    <3>3. One("download")[1] = "download"
      BY Kinds
    <3> QED
      BY <3>1, <3>2, <3>3
  <2>5. One("download") \notin Mid
    BY <2>3, <2>4 DEF Mid, Irq
  <2>6. \A x \in Mid : x \notin Leave
    BY MidStays
  <2>7. One("free irq") \notin Leave /\ One("pass") \notin Leave
    <3>1. /\ One("free irq") \in Leave => "free irq" \in {"free olmsg", "unmap", "unbind"}
          /\ One("pass") \in Leave => "pass" \in {"free olmsg", "unmap", "unbind"}
      BY Names, Zenon
    <3> QED
      BY <3>1
  <2>8. One("set master") \notin StepsOf(Level4)
    BY <1>2, <2>1, <2>2
  <2>9. One("download") \notin StepsOf(Level4)
    BY <1>2, <2>3, <2>5
  <2>10. StepsOf(Level4) \cap Leave = {}
    BY <1>2, <2>6, <2>7
  <2> QED
    BY <2>8, <2>9, <2>10
<1>4. Level4[1] \notin Writes /\ Open(h) /\ Irq \notin StepsOf(h)
  BY <1>1, <1>2, Operands DEF First
<1>5. Fits(4, h, Level4)
  BY <1>1, <1>2, <1>3, <1>4 DEF Fits, Good, Piece
<1> DEFINE s == h \o Level4
<1>6. Good(4, s) /\ First(s) = First(h) /\ StepsOf(s) = StepsOf(h) \cup StepsOf(Level4)
  <2>1. \A t : Fits(4, h, t) => Good(4, h \o t) /\ First(h \o t) = First(h) /\ StepsOf(h \o t) = StepsOf(h) \cup StepsOf(t)
    BY Added
  <2> QED
    BY <1>5, <2>1, Zenon
<1>7. h \in Seq(Steps) /\ Level4 \in Seq(Steps)
  BY <1>1, <1>2 DEF Good
<1>8. StepsOf(h) \cap {Irq} = {}
  BY <1>1
<1>9. Since(s, {One("map regs")}, {}, {Irq})
  BY <1>1, <1>7, <1>8, NeedBefore
<1>10. Since(s, {One("map tcm")}, {}, Writes \cup {One("download")})
  <2>1. Soon(Level4, {}, Writes \cup {One("download")})
    BY DEF Soon
  <2>2. Ends(h, {One("map tcm")}, {})
    BY <1>1, <1>7, HasEnds
  <2> QED
    BY <1>1, <1>7, <2>1, <2>2, CatSince
<1>11. \A X, Z : Since(h, X, Z, {Irq})
  BY <1>7, <1>8, SinceEasy
<1>12. \A X, Z : Since(Level4, X, Z, {Irq}) => Since(s, X, Z, {Irq})
  BY <1>7, <1>11, CatSince
<1>13. Since(s, {One("verify")}, {One("download")}, {Irq})
  <2>1. StepsOf(Level4) \cap {One("download")} = {}
    BY <1>3
  <2>2. Soon(Level4, {One("download")}, {Irq})
    BY <1>7, <2>1, SinceEasy
  <2> QED
    BY <1>1, <1>7, <1>11, <2>2, CatSince
<1>14. /\ Since(s, {One("clear master")}, {One("set master")}, {Irq})
       /\ Since(s, {One("olmsg")}, {}, {Irq}) /\ Since(s, {One("shared_info")}, {}, {Irq})
  BY <1>2, <1>12
<1>15. StepsOf(s) \cap Leave = {} /\ One("free irq") \in StepsOf(s) /\ First(s) = One("clear master")
  BY <1>1, <1>2, <1>3, <1>6
<1>16. Begin(4, s)
  <2> HIDE DEF s
  <2> QED
    BY <1>6, <1>9, <1>10, <1>13, <1>14, <1>15, Begins, Zenon
<1> QED
  BY <1>16 DEF s, h

LEMMA UpTo5 ==
  ASSUME NEW g, Good(5, g), First(g) = One("clear master"), StepsOf(g) \subseteq Front, One("map regs") \in StepsOf(g)
  PROVE  Begin(5, g \o Level5)
<1>1. /\ Good(5, Level5) /\ First(Level5) = One("map tcm")
      /\ StepsOf(Level5) \subseteq Mid \cup {One("set master"), One("free irq"), One("pass")} /\ One("free irq") \in StepsOf(Level5)
  BY Level5List
<1>2. Open(g) /\ Irq \notin StepsOf(g) /\ StepsOf(g) \cap Leave = {}
  BY Classes DEF Open
<1>3. StepsOf(Level5) \cap Leave = {}
  <2>1. \A x \in Mid : x \notin Leave
    BY MidStays
  <2>2. /\ One("set master") \in Leave => "set master" \in {"free olmsg", "unmap", "unbind"}
        /\ One("free irq") \in Leave => "free irq" \in {"free olmsg", "unmap", "unbind"}
        /\ One("pass") \in Leave => "pass" \in {"free olmsg", "unmap", "unbind"}
    BY Names, Zenon
  <2> QED
    BY <1>1, <2>1, <2>2
<1>4. Level5[1] \notin Writes /\ Level5[1] # One("download")
  <2>1. \A nm : One("map tcm") = One(nm) => "map tcm" = nm
    BY Names, Zenon
  <2> QED
    BY <1>1, <2>1, Operands DEF First
<1>5. Fits(5, g, Level5)
  BY <1>1, <1>2, <1>4 DEF Fits, Good, Piece
<1> DEFINE s == g \o Level5
<1>6. Good(5, s) /\ First(s) = First(g) /\ StepsOf(s) = StepsOf(g) \cup StepsOf(Level5)
  <2>1. \A t : Fits(5, g, t) => Good(5, g \o t) /\ First(g \o t) = First(g) /\ StepsOf(g \o t) = StepsOf(g) \cup StepsOf(t)
    BY Added
  <2> QED
    BY <1>5, <2>1, Zenon
<1>7. g \in Seq(Steps) /\ Level5 \in Seq(Steps)
  BY <1>1 DEF Good
<1>8. StepsOf(g) \cap {Irq} = {}
  BY <1>2
<1>9. Since(s, {One("map regs")}, {}, {Irq})
  BY <1>7, <1>8, NeedBefore
<1>10. Since(s, {One("map tcm")}, {}, Writes \cup {One("download")})
  <2> DEFINE Y == Writes \cup {One("download")}
  <2>1. StepsOf(g) \cap Y = {}
    <3>1. \A x \in Front : x[1] \in {"window", "clear master", "try", "set master", "map regs", "alive"}
      BY Kinds, Zenon
    <3>2. \A x \in Writes : x[1] = "write"
      BY Kinds, Zenon
    <3>3. One("download")[1] = "download"
      BY Kinds, Zenon
    <3> QED
      BY <3>1, <3>2, <3>3
  <2>2. PICK X, Z : X = {One("map tcm")} /\ Z = {}
    OBVIOUS
  <2>3. First(Level5) \in X /\ First(Level5) \notin Y /\ StepsOf(Level5) \cap Z = {}
    BY <1>1, <1>4, <2>2 DEF First
  <2> HIDE DEF Y
  <2>4. Since(Level5, X, Z, Y)
    BY <1>7, <2>3, FirstSince
  <2>5. Since(g, X, Z, Y)
    BY <1>7, <2>1, SinceEasy
  <2>6. Since(s, X, Z, Y)
    BY <1>7, <2>4, <2>5, CatSince
  <2> QED
    BY <2>2, <2>6, Zenon DEF Y
<1>11. StepsOf(s) \cap Leave = {} /\ One("free irq") \in StepsOf(s) /\ First(s) = One("clear master")
  BY <1>1, <1>2, <1>3, <1>6
<1>12. Begin(5, s)
  <2> HIDE DEF s
  <2> QED
    <3>1. 5 # 4
      BY Numbers, Zenon
    <3> QED
      BY <1>6, <1>9, <1>10, <1>11, <3>1, Begins, Zenon
<1> QED
  BY <1>12 DEF s

\* Every level asks in time for what it needs.
LEMMA ProgramList ==
  ASSUME NEW l \in 1 .. 5
  PROVE  Begin(l, Program(l))
<1> DEFINE f == Do("clear master") \o Level1
           g == f \o Level2
<1>1. /\ Good(l, f) /\ First(f) = One("clear master") /\ StepsOf(f) \subseteq Front
      /\ Good(l, g) /\ First(g) = One("clear master") /\ StepsOf(g) \subseteq Front
      /\ One("map regs") \in StepsOf(g)
  BY Fronts
<1>2. l \in {1, 2, 3, 4, 5}
  OBVIOUS
<1>3. f \in Seq(Steps) /\ g \in Seq(Steps)
  BY <1>1 DEF Good
<1>4. CASE l = 1
  <2>0. ~(l >= 2) /\ ~(l \in {3, 4}) /\ ~(l = 4) /\ ~(l = 5)
    BY <1>4
  <2>1. Program(l) = f \o <<>> \o <<>> \o <<>> \o <<>>
    BY <2>0, Zenon DEF Program
  <2>2. Program(l) = f
    <3> HIDE DEF f
    <3> QED
      BY <1>3, <2>1, NoMore
  <2>3. Begin(l, f)
    <3> HIDE DEF f
    <3> QED
      <4>1. l # 4
        BY <1>4
      <4> QED
        BY <1>1, <4>1, FrontList, Zenon
  <2> QED
    BY <2>2, <2>3, Zenon
<1>5. CASE l = 2
  <2>0. (l >= 2) /\ ~(l \in {3, 4}) /\ ~(l = 4) /\ ~(l = 5)
    BY <1>5
  <2>1. Program(l) = g \o <<>> \o <<>> \o <<>>
    BY <2>0, Zenon DEF Program
  <2>2. Program(l) = g
    <3> HIDE DEF g
    <3> QED
      BY <1>3, <2>1, NoMore
  <2>3. Begin(l, g)
    <3> HIDE DEF g
    <3> QED
      <4>1. l # 4
        BY <1>5
      <4> QED
        BY <1>1, <4>1, FrontList, Zenon
  <2> QED
    BY <2>2, <2>3, Zenon
<1>6. CASE l = 3
  <2> DEFINE h == g \o Level3
  <2>0. (l >= 2) /\ (l \in {3, 4}) /\ ~(l = 4) /\ ~(l = 5)
    BY <1>6
  <2>1. Program(l) = h \o <<>> \o <<>>
    BY <2>0, Zenon DEF Program
  <2>2. /\ Good(l, h) /\ First(h) = One("clear master") /\ Irq \notin StepsOf(h) /\ StepsOf(h) \cap Leave = {}
        /\ Since(h, {One("map tcm")}, {}, Writes \cup {One("download")})
    <3> HIDE DEF g
    <3> QED
      BY <1>1, UpTo3
  <2>3. h \in Seq(Steps)
    BY <2>2 DEF Good
  <2> HIDE DEF h
  <2>4. Program(l) = h
    BY <2>1, <2>3, NoMore
  <2>5. \A X, Z : Since(h, X, Z, {Irq})
    <3>1. StepsOf(h) \cap {Irq} = {}
      BY <2>2
    <3> QED
      BY <2>3, <3>1, SinceEasy
  <2>6. Begin(l, h)
    <3>1. l # 4
      BY <1>6
    <3> QED
      BY <2>2, <2>5, <3>1, Begins, Zenon
  <2> QED
    BY <2>4, <2>6, Zenon
<1>7. CASE l = 4
  <2>0. (l >= 2) /\ (l \in {3, 4}) /\ (l = 4) /\ ~(l = 5)
    BY <1>7
  <2>1. Program(l) = g \o Level3 \o Level4 \o <<>>
    BY <2>0, Zenon DEF Program
  <2>2. Begin(4, g \o Level3 \o Level4)
    <3> HIDE DEF g
    <3> QED
      BY <1>1, <1>7, UpTo4
  <2>3. g \o Level3 \o Level4 \in Seq(Steps)
    BY <2>2 DEF Begin
  <2>4. Program(l) = g \o Level3 \o Level4
    BY <2>1, <2>3, NoMore
  <2> QED
    BY <1>7, <2>2, <2>4, Zenon
<1>8. CASE l = 5
  <2>0. (l >= 2) /\ ~(l \in {3, 4}) /\ ~(l = 4) /\ (l = 5)
    BY <1>8
  <2>1. Program(l) = g \o <<>> \o <<>> \o Level5
    BY <2>0, Zenon DEF Program
  <2>2. Begin(5, g \o Level5)
    <3> HIDE DEF g
    <3> QED
      BY <1>1, <1>8, UpTo5
  <2>3. Program(l) = g \o Level5
    <3> HIDE DEF g
    <3> QED
      BY <1>3, <2>1, NoMore
  <2> QED
    BY <1>8, <2>2, <2>3, Zenon
<1> QED
  BY <1>2, <1>4, <1>5, <1>6, <1>7, <1>8

LEMMA AddLeave ==
  ASSUME NEW l, NEW s, Good(l, s), NEW op \in {"free olmsg", "unmap", "unbind"},
         \A x \in StepsOf(s) : Allowed(l, x, One(op))
  PROVE  /\ Good(l, s \o Do(op)) /\ First(s \o Do(op)) = First(s) /\ StepsOf(s \o Do(op)) = StepsOf(s) \cup {One(op)}
         /\ Since(s, {Halt}, {Clk}, Leave) /\ Ends(s, {Halt}, {Clk}) =>
              Since(s \o Do(op), {Halt}, {Clk}, Leave) /\ Ends(s \o Do(op), {Halt}, {Clk})
<1>0. PICK t : t = Do(op)
  OBVIOUS
<1>1. One(op) \in Steps
  <2>1. \A nm \in {"free olmsg", "unmap", "unbind"} : One(nm) \in Leave
    BY Zenon DEF Leave
  <2> QED
    BY <2>1, Kinds
<1>2. Good(l, t) /\ StepsOf(t) = {One(op)} /\ Piece(l, t) /\ Paired(t)
  <2>1. op \notin {"write", "window", "check reset", "download", "verify"}
    OBVIOUS
  <2>2. Good(l, Do(op)) /\ First(Do(op)) = One(op) /\ StepsOf(Do(op)) = {One(op)} /\ Piece(l, Do(op)) /\ Paired(Do(op))
    BY <1>1, <2>1, FirstDo
  <2> QED
    BY <1>0, <2>2, Zenon
<1>3. s \in Seq(Steps) /\ t \in Seq(Steps)
  BY <1>2 DEF Good
<1>4. Follows(l, s, t)
  BY <1>2 DEF Follows, Good
<1>5. Good(l, s \o t) /\ First(s \o t) = First(s)
  BY <1>4, Continue
<1>6. StepsOf(s \o t) = StepsOf(s) \cup {One(op)}
  BY <1>2, <1>3, Cat
<1>7. ASSUME Since(s, {Halt}, {Clk}, Leave), Ends(s, {Halt}, {Clk})
      PROVE  Since(s \o t, {Halt}, {Clk}, Leave) /\ Ends(s \o t, {Halt}, {Clk})
  <2>1. One(op) # Clk
    BY <1>1, Kinds DEF Clk, Reg, One
  <2>2. StepsOf(t) \cap {Clk} = {}
    BY <1>2, <2>1
  <2>3. Soon(t, {Clk}, Leave)
    BY <1>3, <2>2, SinceEasy
  <2> QED
    BY <1>3, <1>7, <2>2, <2>3, CatSince
<1> QED
  BY <1>0, <1>5, <1>6, <1>7, Zenon

\* What remove does, the ARM halted first if there is a window to halt it through.
Out(l, s, halt) ==
  /\ s \in Seq(Steps) /\ Static(l, s) /\ Paired(s) /\ First(s) \notin Writes
  /\ {Irq, One("set master"), One("download")} \cap StepsOf(s) = {}
  /\ Since(s, {Halt, Irq}, {Clk}, Calm)
  /\ IF halt THEN Since(s, {Halt}, {Clk}, Leave) ELSE StepsOf(s) \cap Writes = {}

LEMMA Outs ==
  ASSUME NEW l, NEW s, NEW halt \in BOOLEAN, Good(l, s), First(s) \notin Writes,
         StepsOf(s) \subseteq Views \cup Writes \cup Leave,
         IF halt THEN Since(s, {Halt}, {Clk}, Leave) ELSE StepsOf(s) \cap Writes = {}
  PROVE  Out(l, s, halt)
<1>0. Clk # Halt /\ Clk \in Writes /\ Clk # Irq
  <2>1. Clk # Halt /\ Clk \in Writes
    BY Kinds, Zenon
  <2> QED
    BY <2>1, Access
<1>1. s \in Seq(Steps)
  BY DEF Good
<1>2. Irq \notin StepsOf(s) /\ One("set master") \notin StepsOf(s)
  <2>1. \A x \in Views \cup Writes : x # Irq /\ x # One("set master")
    BY Access
  <2>2. One("set master") \in Leave => "set master" \in {"free olmsg", "unmap", "unbind"}
    BY Names, Zenon
  <2>3. Irq \notin Leave
    BY Kinds
  <2>4. One("set master") \notin Leave
    BY <2>2
  <2> QED
    BY <2>1, <2>3, <2>4
<1>3. One("download") \notin StepsOf(s)
  <2>1. \A x \in Views \cup Writes : x[1] # "download"
    BY Access, Kinds
  <2>2. One("download")[1] = "download"
    BY Kinds
  <2>3. One("download") \in Leave => "download" \in {"free olmsg", "unmap", "unbind"}
    BY Names, Zenon
  <2> QED
    BY <2>1, <2>2, <2>3
<1>4. StepsOf(s) \cap {Irq} = {}
  BY <1>2
<1>5. \A X, Z : Again(s, X, Z, {Irq})
  BY <1>1, <1>4, SinceEasy
<1>6. Again(s, {Halt, Irq}, {Clk}, Calm)
  <2>1. {Halt, Irq} \cap {Clk} = {}
    BY <1>0
  <2> QED
    BY <1>1, <2>1, SinceEasy DEF Good
<1>7. Again(s, {Halt}, {Clk}, Leave)
  <2>1. {Halt} \cap {Clk} = {}
    BY <1>0
  <2>2. CASE halt
    BY <1>1, <2>1, <2>2, SinceEasy
  <2>3. CASE ~halt
    <3>1. StepsOf(s) \cap {Clk} = {}
      BY <1>0, <2>3
    <3> QED
      BY <1>1, <3>1, SinceEasy
  <2> QED
    BY <2>2, <2>3
<1>8. Static(l, s)
  BY <1>2, <1>5, <1>6, <1>7 DEF Static, Good
<1> QED
  BY <1>1, <1>2, <1>3, <1>8 DEF Out, Good

LEMMA Leaving ==
  ASSUME NEW l, NEW s, Good(l, s), StepsOf(s) \subseteq Views \cup Writes
  PROVE  LET t == s \o Do("free olmsg") \o Do("unmap") \o Do("unbind") IN
         /\ Good(l, t) /\ First(t) = First(s) /\ StepsOf(t) \subseteq Views \cup Writes \cup Leave
         /\ Since(s, {Halt}, {Clk}, Leave) /\ Ends(s, {Halt}, {Clk}) => Since(t, {Halt}, {Clk}, Leave)
<1> DEFINE u == s \o Do("free olmsg")
           v == u \o Do("unmap")
           t == v \o Do("unbind")
           Over(w) == Since(w, {Halt}, {Clk}, Leave) /\ Ends(w, {Halt}, {Clk})
<1>1. /\ One("free olmsg") \in Leave /\ One("unmap") \in Leave /\ One("unbind") \in Leave
      /\ One("free olmsg") # Irq /\ One("unmap") # Irq
  <2>1. \A nm \in {"free olmsg", "unmap", "unbind"} : One(nm) \in Leave
    BY Zenon DEF Leave
  <2>2. \A x \in Leave : x # Irq
    BY Kinds
  <2> QED
    BY <2>1, <2>2
<1>2. /\ One("free olmsg") # One("free irq") /\ One("unmap") # One("free irq") /\ One("free olmsg") # One("unmap")
      /\ One("free olmsg") # One("unbind") /\ One("unmap") # One("unbind")
      /\ One("free olmsg") # One("set master") /\ One("unmap") # One("set master") /\ One("unbind") # One("set master")
  <2>1. \A a, b : One(a) = One(b) => a = b
    BY Names, Zenon
  <2> QED
    BY <2>1
<1>3. \A x \in Views \cup Writes : \A y : y # One("set master") => Allowed(l, x, y)
  BY Accesses
<1>4. \A x \in StepsOf(s) : Allowed(l, x, One("free olmsg")) /\ Allowed(l, x, One("unmap")) /\ Allowed(l, x, One("unbind"))
  BY <1>2, <1>3
<1>5. Good(l, u) /\ First(u) = First(s) /\ StepsOf(u) = StepsOf(s) \cup {One("free olmsg")} /\ (Over(s) => Over(u))
  BY <1>4, AddLeave
<1>6. Allowed(l, One("free olmsg"), One("unmap")) /\ Allowed(l, One("free olmsg"), One("unbind")) /\ Allowed(l, One("unmap"), One("unbind"))
  BY <1>1, <1>2, Zenon DEF Allowed
<1> HIDE DEF u
<1>7. Good(l, v) /\ First(v) = First(u) /\ StepsOf(v) = StepsOf(u) \cup {One("unmap")} /\ (Over(u) => Over(v))
  <2>1. \A x \in StepsOf(u) : Allowed(l, x, One("unmap"))
    BY <1>4, <1>5, <1>6
  <2> QED
    BY <1>5, <2>1, AddLeave
<1> HIDE DEF v
<1>8. Good(l, t) /\ First(t) = First(v) /\ StepsOf(t) = StepsOf(v) \cup {One("unbind")} /\ (Over(v) => Over(t))
  <2>1. \A x \in StepsOf(v) : Allowed(l, x, One("unbind"))
    BY <1>4, <1>5, <1>6, <1>7
  <2> QED
    BY <1>7, <2>1, AddLeave
<1> HIDE DEF t
<1>9. Good(l, t) /\ First(t) = First(s) /\ StepsOf(t) \subseteq Views \cup Writes \cup Leave /\ (Over(s) => Over(t))
  BY <1>1, <1>5, <1>7, <1>8
<1> QED
  BY <1>9, Zenon DEF t, u, v

LEMMA RemovalList ==
  ASSUME NEW l, tcm \in BOOLEAN
  PROVE  Out(l, Removal, tcm)
<1>1. CASE tcm
  <2>1. Removal = ArmHalt \o Do("free olmsg") \o Do("unmap") \o Do("unbind")
    BY <1>1, Zenon DEF Removal
  <2>2. PICK s : s = ArmHalt
    OBVIOUS
  <2>3. /\ Piece(l, s) /\ Paired(s) /\ Since(s, {Halt, Irq}, {Clk}, Calm) /\ Since(s, {Halt}, {Clk}, Leave)
        /\ Ends(s, {Halt}, {Clk}) /\ StepsOf(s) \subseteq {See("arm"), Clk, ResetIn, Halt, ResetOut}
    BY <2>2, HaltList, Zenon
  <2>4. s \in Seq(Steps) /\ Len(s) > 0 /\ First(s) \notin Writes
    <3>1. s \in Seq(Steps) /\ First(s) \notin Writes
      BY <2>3 DEF Piece, First
    <3>2. Len(s) \in Nat /\ Len(s) # 0
      BY <2>3, <3>1, Lengths DEF Ends
    <3> QED
      BY <3>1, <3>2
  <2>5. Good(l, s)
    BY <2>3, <2>4 DEF Good, Piece
  <2>6. StepsOf(s) \subseteq Views \cup Writes
    BY <2>3, Operands
  <2>7. /\ Good(l, Removal) /\ First(Removal) = First(s) /\ StepsOf(Removal) \subseteq Views \cup Writes \cup Leave
        /\ Since(Removal, {Halt}, {Clk}, Leave)
    BY <2>1, <2>2, <2>3, <2>5, <2>6, Leaving, Zenon
  <2> QED
    BY <1>1, <2>4, <2>7, Outs
<1>2. CASE ~tcm
  <2> DEFINE u == Do("free olmsg")
             v == u \o Do("unmap")
             t == v \o Do("unbind")
  <2>1. Removal = <<>> \o Do("free olmsg") \o Do("unmap") \o Do("unbind")
    BY <1>2, Zenon DEF Removal
  <2>2. /\ One("free olmsg") \in Leave /\ One("unmap") \in Leave /\ One("unbind") \in Leave
        /\ One("free olmsg") # Irq /\ One("unmap") # Irq /\ One("free olmsg") \notin Writes
        /\ One("free olmsg") \in Steps
    <3>1. \A nm \in {"free olmsg", "unmap", "unbind"} : One(nm) \in Leave
      BY Zenon DEF Leave
    <3>2. \A x \in Leave : x # Irq /\ x \in Steps
      BY Kinds
    <3>3. \A x \in Writes : x \notin Leave
      BY Access
    <3> QED
      BY <3>1, <3>2, <3>3
  <2>3. /\ One("free olmsg") # One("free irq") /\ One("unmap") # One("free irq") /\ One("free olmsg") # One("unmap")
        /\ One("free olmsg") # One("unbind") /\ One("unmap") # One("unbind")
        /\ One("free olmsg") # One("set master") /\ One("unmap") # One("set master") /\ One("unbind") # One("set master")
    <3>1. \A a, b : One(a) = One(b) => a = b
      BY Names, Zenon
    <3> QED
      BY <3>1
  <2>4. Allowed(l, One("free olmsg"), One("unmap")) /\ Allowed(l, One("free olmsg"), One("unbind")) /\ Allowed(l, One("unmap"), One("unbind"))
    BY <2>2, <2>3, Zenon DEF Allowed
  <2>5. Good(l, u) /\ First(u) = One("free olmsg") /\ StepsOf(u) = {One("free olmsg")}
    BY <2>2, FirstDo
  <2> HIDE DEF u
  <2>6. Good(l, v) /\ First(v) = First(u) /\ StepsOf(v) = StepsOf(u) \cup {One("unmap")}
    <3>1. \A x \in StepsOf(u) : Allowed(l, x, One("unmap"))
      BY <2>4, <2>5
    <3> QED
      BY <2>5, <3>1, AddLeave
  <2> HIDE DEF v
  <2>7. Good(l, t) /\ First(t) = First(v) /\ StepsOf(t) = StepsOf(v) \cup {One("unbind")}
    <3>1. \A x \in StepsOf(v) : Allowed(l, x, One("unbind"))
      BY <2>4, <2>5, <2>6
    <3> QED
      BY <2>6, <3>1, AddLeave
  <2> HIDE DEF t
  <2>8. Removal = t
    <3>1. u \in Seq(Steps)
      BY <2>5 DEF Good
    <3>2. <<>> \o u = u
      BY <3>1, NoMore
    <3> QED
      BY <2>1, <3>2, Zenon DEF t, v, u
  <2>9. StepsOf(t) \cap Writes = {} /\ StepsOf(t) \subseteq Leave
    <3>1. \A x \in Writes : x \notin Leave
      BY Access
    <3> QED
      BY <2>2, <2>5, <2>6, <2>7, <3>1
  <2>10. First(t) \notin Writes
    BY <2>2, <2>5, <2>6, <2>7
  <2>11. Out(l, t, FALSE)
    BY <2>7, <2>9, <2>10, Outs
  <2>12. tcm = FALSE
    BY <1>2
  <2> QED
    BY <2>8, <2>11, <2>12, Zenon
<1> QED
  BY <1>1, <1>2

-----------------------------------------------------------------------------
(***************************************************************************)
(* What one step leaves of the invariant.                                  *)
(***************************************************************************)
\* The step that is next.
LEMMA HeadIs ==
  ASSUME IInv, NEW op, At(op)
  PROVE  /\ todo \in Seq(Steps) /\ todo # <<>> /\ Head(todo) = todo[1] /\ todo[1] \in Steps /\ todo[1] \in StepsOf(todo)
         /\ todo[1][1] = op /\ loaded
         /\ op \notin {"window", "write"} => todo[1] = One(op)
         /\ op = "window" => todo[1] = See(todo[1][2]) /\ todo[1] \in Views
         /\ op = "write" <=> todo[1] \in Writes
         /\ \A nm : op # nm => todo[1] # One(nm)
         /\ op # "request irq" => todo[1] # Irq
<1>1. todo \in Seq(Steps) /\ todo # <<>>
  BY DEF IInv, TypeOK, At
<1>2. Head(todo) = todo[1] /\ todo[1] \in StepsOf(todo) /\ StepsOf(todo) \subseteq Steps
  BY <1>1, Lengths
<1>3. todo[1][1] = op
  BY <1>2 DEF At
<1>4. \A x \in Steps : \A nm : x[1] = nm /\ nm \notin {"window", "write"} => x = One(nm)
  BY Kinds, Zenon
<1>5. \A x \in Steps : x[1] = "window" => x = See(x[2]) /\ x \in Views
  BY Kinds, Zenon
<1>6. (\A x \in Steps : x[1] = "write" => x \in Writes) /\ \A x \in Writes : x[1] = "write"
  BY Kinds, Zenon
<1>7. \A nm : One(nm)[1] = nm
  BY Kinds, Zenon
<1>8. Irq[1] = "request irq"
  BY Kinds, Zenon
<1>9. loaded
  BY <1>1 DEF IInv, Mapped, TypeOK
<1>10. \A nm : op # nm => todo[1] # One(nm)
  BY <1>3, <1>7
<1> QED
  BY <1>1, <1>2, <1>3, <1>4, <1>5, <1>6, <1>8, <1>9, <1>10

\* What is left of a list keeps its order.
LEMMA StaticTail ==
  ASSUME NEW l, NEW s \in Seq(Steps), Static(l, s), s # <<>>
  PROVE  /\ Tail(s) \in Seq(Steps) /\ Static(l, Tail(s)) /\ StepsOf(Tail(s)) \subseteq StepsOf(s)
         /\ \A y \in StepsOf(Tail(s)) : Allowed(l, s[1], y)
<1> DEFINE t == Tail(s)
<1>1. t \in Seq(Steps) /\ StepsOf(t) \subseteq StepsOf(s) /\ \A x \in StepsOf(s) : x = s[1] \/ x \in StepsOf(t)
  BY Rest
<1> HIDE DEF t
<1>2. Written(t) /\ Released(t) /\ Order(l, t) /\ \A y \in StepsOf(t) : Allowed(l, s[1], y)
  BY NearRest DEF Static, t
<1>3. \A X, Z, Y : Again(s, X, Z, Y) => Again(t, X, Z, Y)
  BY SinceRest DEF t
<1>4. Irq \in StepsOf(t) => One("free irq") \in StepsOf(t)
  <2>1. SUFFICES ASSUME Irq \in StepsOf(t), One("free irq") \notin StepsOf(t) PROVE FALSE
    OBVIOUS
  <2>2. One("free irq") \in StepsOf(s)
    BY <1>1, <2>1 DEF Static
  <2>3. s[1] = One("free irq")
    BY <1>1, <2>1, <2>2
  <2>4. Irq = One("pass")
    BY <1>2, <2>1, <2>3, Zenon DEF Allowed
  <2>5. "request irq" = "pass"
    BY <2>4, Names, Zenon DEF Irq
  <2> QED
    BY <2>5
<1>5. Static(l, t)
  BY <1>2, <1>3, <1>4, Zenon DEF Static
<1> QED
  BY <1>1, <1>2, <1>5 DEF t

LEMMA StaticNext ==
  ASSUME IInv, todo # <<>>
  PROVE  /\ Tail(todo) \in Seq(Steps) /\ Static(level, Tail(todo)) /\ StepsOf(Tail(todo)) \subseteq StepsOf(todo)
         /\ \A y \in StepsOf(Tail(todo)) : Allowed(level, todo[1], y)
BY StaticTail DEF IInv, TypeOK

\* An access is next only after its window.
LEMMA NextAccess ==
  ASSUME IInv, todo # <<>>, Tail(todo) # <<>>, Tail(todo)[1] \in Writes
  PROVE  todo[1] = See(Tail(todo)[1][2])
<1>1. todo \in Seq(Steps) /\ Written(todo)
  BY DEF IInv, TypeOK, Static
<1>2. Tail(todo) \in Seq(Steps) /\ Len(Tail(todo)) = Len(todo) - 1 /\ Len(todo) \in Nat
      /\ \A i \in 1 .. Len(Tail(todo)) : i + 1 \in 1 .. Len(todo) /\ Tail(todo)[i] = todo[i + 1]
  BY <1>1, Rest
<1>3. Len(Tail(todo)) \in Nat \ {0}
  BY <1>2, Lengths
<1>4. 2 \in 2 .. Len(todo) /\ Tail(todo)[1] = todo[2]
  <2>1. 1 \in 1 .. Len(Tail(todo)) /\ 1 + 1 = 2
    BY <1>3
  <2>2. 1 + 1 \in 1 .. Len(todo) /\ Tail(todo)[1] = todo[1 + 1]
    BY <1>2, <2>1
  <2> QED
    BY <1>2, <2>1, <2>2
<1>5. todo[2 - 1] = See(todo[2][2])
  BY <1>1, <1>4 DEF Written
<1> QED
  BY <1>4, <1>5

LEMMA IrqNext ==
  ASSUME IInv, NEW op, At(op), Advance, op \notin {"request irq", "free irq"},
         irq' = irq, isr' = isr, loaded' = loaded, irq => regs',
         op = "window" => window' = todo[1][2]
  PROVE  Irqs'
<1> DEFINE t == Tail(todo)
<1>1. todo' = t
  BY DEF Advance
<1>2. todo \in Seq(Steps) /\ todo # <<>> /\ todo[1] # One("free irq") /\ todo[1] # Irq
  <2>1. op # "free irq" /\ op # "request irq"
    OBVIOUS
  <2> QED
    BY <2>1, HeadIs
<1>3. t \in Seq(Steps) /\ StepsOf(t) \subseteq StepsOf(todo) /\ \A x \in StepsOf(todo) : x = todo[1] \/ x \in StepsOf(t)
  BY <1>2, Rest
<1>4. irq' => loaded' /\ regs' /\ StepsOf(t) \subseteq Late /\ One("free irq") \in StepsOf(t)
  BY <1>2, <1>3 DEF IInv, Irqs
<1>5. ~irq' => isr' = "idle" /\ Paired(t)
  <2>1. Paired(todo) => Paired(t)
    BY <1>2, NearRest
  <2> QED
    BY <2>1 DEF IInv, Irqs
<1>6. ASSUME t # <<>>, Head(t)[1] = "write" PROVE window' = Head(t)[2]
  <2>1. Head(t) = t[1] /\ t[1] \in Steps
    BY <1>3, <1>6, Lengths
  <2>2. t[1] \in Writes
    BY <1>6, <2>1, Kinds
  <2>3. todo[1] = See(t[1][2])
    BY <1>2, <1>6, <2>2, NextAccess
  <2>4. todo[1][1] = "window" /\ todo[1][2] = t[1][2]
    <3>1. \A core : See(core)[1] = "window" /\ See(core)[2] = core
      BY Kinds, Zenon
    <3>2. See(t[1][2])[1] = "window" /\ See(t[1][2])[2] = t[1][2]
      BY <3>1, Zenon
    <3> QED
      BY <2>3, <3>2
  <2>5. op = "window"
    BY <2>4, HeadIs
  <2> QED
    BY <2>1, <2>4, <2>5
<1>7. (At("write"))' => window' = Head(t)[2]
  BY <1>1, <1>6 DEF At
<1> QED
  BY <1>1, <1>4, <1>5, <1>7 DEF Irqs

LEMMA MappedNext ==
  ASSUME IInv, NEW op, At(op), Advance, loaded' = loaded, regs => regs', tcm => tcm',
         op = "map regs" => regs', op = "map tcm" => tcm', tcm \/ Safe'
  PROVE  Mapped'
<1> DEFINE t == Tail(todo)
<1>1. todo' = t
  BY DEF Advance
<1>2. todo \in Seq(Steps) /\ todo # <<>> /\ loaded
  BY HeadIs
<1>3. \A nm : op # nm => todo[1] # One(nm)
  BY HeadIs
<1>4. ASSUME ~regs' PROVE Since(t, {One("map regs")}, {}, {Irq})
  <2>1. Since(todo, {One("map regs")}, {}, {Irq})
    BY <1>4 DEF IInv, Mapped
  <2>2. op # "map regs"
    BY <1>4
  <2>3. todo[1] \notin {One("map regs")}
    BY <1>3, <2>2
  <2> QED
    BY <1>2, <2>1, <2>3, SinceRest
<1>5. ASSUME ~tcm' PROVE Since(t, {One("map tcm")}, {}, Writes \cup {One("download")}) /\ Safe'
  <2>1. Since(todo, {One("map tcm")}, {}, Writes \cup {One("download")})
    BY <1>5 DEF IInv, Mapped
  <2>2. op # "map tcm"
    BY <1>5
  <2>3. todo[1] \notin {One("map tcm")}
    BY <1>3, <2>2
  <2>4. PICK Y : Y = Writes \cup {One("download")}
    OBVIOUS
  <2>5. Since(t, {One("map tcm")}, {}, Y)
    BY <1>2, <2>1, <2>3, <2>4, SinceRest
  <2> QED
    BY <1>5, <2>4, <2>5
<1> QED
  BY <1>1, <1>2, <1>4, <1>5 DEF Mapped

LEMMA HaltedNext ==
  ASSUME IInv, NEW op, At(op), Advance, op \notin {"write", "request irq"},
         irq' = irq, ioctl' = ioctl, Safe => Safe'
  PROVE  Halted'
<1> DEFINE t == Tail(todo)
<1>1. todo' = t
  BY DEF Advance
<1>2. todo \in Seq(Steps) /\ todo # <<>> /\ todo[1] # Irq /\ todo[1] # Halt
  <2>1. op # "write" /\ op # "request irq"
    OBVIOUS
  <2>2. Halt \in Writes
    BY Kinds, Zenon
  <2> QED
    BY <2>1, <2>2, HeadIs
<1>3. todo[1] \notin {Halt, Irq} /\ todo[1] \notin {Halt}
  BY <1>2
<1>4. \A X, Z, Y : Since(todo, X, Z, Y) /\ todo[1] \notin X => Since(t, X, Z, Y)
  BY <1>2, SinceRest
<1>5. /\ irq \/ ioctl = "halt" \/ Since(todo, {Halt, Irq}, {Clk}, Calm)
      /\ irq \/ Safe \/ Since(todo, {Halt}, {Clk}, Leave)
  BY DEF IInv, Halted
<1>6. /\ Since(todo, {Halt, Irq}, {Clk}, Calm) => Since(t, {Halt, Irq}, {Clk}, Calm)
      /\ Since(todo, {Halt}, {Clk}, Leave) => Since(t, {Halt}, {Clk}, Leave)
  BY <1>3, <1>4, Zenon
<1> QED
  BY <1>1, <1>5, <1>6 DEF Halted

LEMMA FilledNext ==
  ASSUME IInv, NEW op, At(op), Advance,
         irq' = irq, level' = level, Ready => Ready', olmsg => olmsg', shared = loads => shared' = loads',
         op = "verify" => Ready', op = "olmsg" => olmsg', op = "shared_info" => shared' = loads'
  PROVE  Filled'
<1> DEFINE t == Tail(todo)
<1>1. todo' = t
  BY DEF Advance
<1>2. todo \in Seq(Steps) /\ todo # <<>> /\ \A nm : op # nm => todo[1] # One(nm)
  BY HeadIs
<1>3. \A X, Z, Y : Since(todo, X, Z, Y) /\ todo[1] \notin X => Since(t, X, Z, Y)
  BY <1>2, SinceRest
<1>4. ASSUME ~Ready', Since(todo, {One("verify")}, {One("download")}, {Irq})
      PROVE  Since(t, {One("verify")}, {One("download")}, {Irq})
  <2>1. todo[1] \notin {One("verify")}
    BY <1>2, <1>4
  <2> QED
    BY <1>3, <1>4, <2>1, Zenon
<1>5. ASSUME ~olmsg', Since(todo, {One("olmsg")}, {}, {Irq})
      PROVE  Since(t, {One("olmsg")}, {}, {Irq})
  <2>1. todo[1] \notin {One("olmsg")}
    BY <1>2, <1>5
  <2> QED
    BY <1>3, <1>5, <2>1, Zenon
<1>6. ASSUME shared' # loads', Since(todo, {One("shared_info")}, {}, {Irq})
      PROVE  Since(t, {One("shared_info")}, {}, {Irq})
  <2>1. todo[1] \notin {One("shared_info")}
    BY <1>2, <1>6
  <2> QED
    BY <1>3, <1>6, <2>1, Zenon
<1> QED
  BY <1>1, <1>4, <1>5, <1>6 DEF IInv, Filled

\* The moment arm_halt makes is over when it has asserted the reset.
LEMMA UnhaltedIs ==
  ASSUME IInv
  PROVE  Unhalted <=> \E i \in 1 .. 2 : i <= Len(todo) /\ todo[i] = ResetIn
<1>1. todo \in Seq(Steps)
  BY DEF IInv, TypeOK
<1>2. Len(todo) \in Nat /\ \A i \in 1 .. Len(todo) : todo[i] \in Steps
  BY <1>1, Lengths
<1>3. \A x \in Steps : x[1] = "write" => x \in {Clk, Halt, ResetIn, ResetOut, Msk("on"), Msk("off")}
  <2>1. \A x \in Steps : x[1] = "write" => x \in Writes
    BY Kinds, Zenon
  <2>2. Writes = {Clk, Halt, ResetIn, ResetOut, Msk("on"), Msk("off")}
    BY Operands, Zenon
  <2> QED
    BY <2>1, <2>2
<1>4. /\ Clk[3] = "ioctl" /\ Halt[3] = "ioctl" /\ ResetIn[3] = "reset" /\ ResetIn[4] = "in" /\ ResetOut[4] = "out"
      /\ Msk("on")[3] = "intmask" /\ Msk("off")[3] = "intmask"
  BY Operands, Zenon
<1>5. ResetIn[1] = "write"
  <2>1. \A x \in Writes : x[1] = "write"
    BY Kinds, Zenon
  <2>2. ResetIn \in Writes
    BY Kinds, Zenon
  <2> QED
    BY <2>1, <2>2
<1>6. \A x \in Steps : x[1] = "write" /\ x[3] = "reset" /\ x[4] = "in" => x = ResetIn
  BY <1>3, <1>4
<1>7. \A i \in 1 .. 2 : i <= Len(todo) => todo[i] \in Steps
  BY <1>2
<1> QED
  BY <1>4, <1>5, <1>6, <1>7 DEF Unhalted

LEMMA UnhaltedNext ==
  ASSUME IInv, NEW op, At(op), Unhalted
  PROVE  (op = "window" /\ todo[2] = ResetIn /\ 2 <= Len(todo)) \/ todo[1] = ResetIn
<1>1. todo \in Seq(Steps) /\ Written(todo)
  BY DEF IInv, TypeOK, Static
<1>2. Len(todo) \in Nat
  BY <1>1, Lengths
<1>3. PICK i \in 1 .. 2 : i <= Len(todo) /\ todo[i] = ResetIn
  BY UnhaltedIs, Zenon
<1>4. CASE i = 1
  BY <1>3, <1>4
<1>5. CASE i = 2
  <2>1. 2 \in 2 .. Len(todo) /\ todo[2] \in Writes
    <3>1. ResetIn \in Writes
      BY Kinds, Zenon
    <3> QED
      BY <1>2, <1>3, <1>5, <3>1
  <2>2. todo[2 - 1] = See(todo[2][2])
    BY <1>1, <2>1 DEF Written
  <2>3. todo[1][1] = "window"
    <3>1. \A core : See(core)[1] = "window"
      BY Kinds, Zenon
    <3> QED
      BY <2>2, <3>1
  <2>4. op = "window"
    BY <2>3, HeadIs
  <2> QED
    BY <1>3, <1>5, <2>4
<1> QED
  BY <1>4, <1>5

\* A list whose step after next but one asserts the reset.
LEMMA UnhaltedLater ==
  ASSUME IInv, todo # <<>>, Advance, NEW i \in 2 .. 3, i <= Len(todo), todo[i] = ResetIn
  PROVE  Unhalted'
<1>1. todo \in Seq(Steps)
  BY DEF IInv, TypeOK
<1>2. Len(Tail(todo)) = Len(todo) - 1 /\ Len(todo) \in Nat
      /\ \A k \in 1 .. Len(Tail(todo)) : Tail(todo)[k] = todo[k + 1]
  BY <1>1, Rest
<1>3. PICK k \in 1 .. 2 : k + 1 = i
  <2>1. i - 1 \in 1 .. 2 /\ (i - 1) + 1 = i
    OBVIOUS
  <2> QED
    BY <2>1
<1>4. k <= Len(todo') /\ todo'[k] = ResetIn
  <2>1. k \in 1 .. Len(Tail(todo))
    BY <1>2, <1>3
  <2> QED
    BY <1>2, <1>3, <2>1 DEF Advance
<1>5. ResetIn[1] = "write" /\ ResetIn[3] = "reset" /\ ResetIn[4] = "in"
  <2>1. \A x \in Writes : x[1] = "write"
    BY Kinds, Zenon
  <2>2. ResetIn \in Writes
    BY Kinds, Zenon
  <2>3. ResetIn[3] = "reset" /\ ResetIn[4] = "in"
    BY Operands, Zenon
  <2> QED
    BY <2>1, <2>2, <2>3
<1> QED
  BY <1>3, <1>4, <1>5 DEF Unhalted

LEMMA MasteringNext ==
  ASSUME IInv, NEW op, At(op), Advance, op \notin {"set master", "clear master", "write", "request irq"},
         irq' => irq, master' = master, level' = level, Safe => Safe'
  PROVE  Mastering'
<1> DEFINE t == Tail(todo)
<1>1. todo' = t
  BY DEF Advance
<1>2. todo \in Seq(Steps) /\ todo # <<>> /\ todo[1] # ResetIn /\ todo[1] # One("clear master")
  <2>1. op # "write" /\ op # "clear master"
    OBVIOUS
  <2>2. ResetIn \in Writes
    BY Kinds, Zenon
  <2> QED
    BY <2>1, <2>2, HeadIs
<1>3. StepsOf(t) \subseteq StepsOf(todo)
  BY <1>2, Rest
<1>4. Since(todo, {One("clear master")}, {One("set master")}, {Irq}) => Since(t, {One("clear master")}, {One("set master")}, {Irq})
  <2>1. todo[1] \notin {One("clear master")}
    BY <1>2
  <2> QED
    BY <1>2, <2>1, SinceRest
<1>5. Unhalted => Unhalted'
  <2>1. SUFFICES ASSUME Unhalted PROVE Unhalted'
    OBVIOUS
  <2>2. todo[2] = ResetIn /\ 2 <= Len(todo)
    BY <1>2, <2>1, UnhaltedNext, Zenon
  <2>3. 2 \in 2 .. 3
    BY Numbers, Zenon
  <2> QED
    BY <1>2, <2>2, <2>3, UnhaltedLater
<1> QED
  BY <1>1, <1>3, <1>4, <1>5 DEF IInv, Mastering

\* What the handler may have to bear with.
LEMMA LateOps ==
  \A x \in Late : x[1] \in {"window", "write", "check reset", "set master", "clear master", "poll", "scan", "pass", "free irq"}
<1>1. \A op : One(op)[1] = op
  BY Kinds, Zenon
<1>2. \A x \in Writes : x[1] = "write"
  BY Kinds, Zenon
<1>3. \A core : See(core)[1] = "window"
  BY Kinds, Zenon
<1>4. SUFFICES ASSUME NEW x \in Late
      PROVE x[1] \in {"window", "write", "check reset", "set master", "clear master", "poll", "scan", "pass", "free irq"}
  OBVIOUS
<1>5. \/ x \in Views \/ x \in Writes
      \/ \E op \in {"check reset", "set master", "clear master", "poll", "scan", "pass", "free irq"} : x = One(op)
  BY DEF Late
<1>6. CASE x \in Views
  BY <1>3, <1>6 DEF Views
<1>7. CASE x \in Writes
  BY <1>2, <1>7
<1>8. CASE \E op \in {"check reset", "set master", "clear master", "poll", "scan", "pass", "free irq"} : x = One(op)
  <2>1. PICK op \in {"check reset", "set master", "clear master", "poll", "scan", "pass", "free irq"} : x = One(op)
    BY <1>8
  <2>2. x[1] = op
    BY <1>1, <2>1
  <2> QED
    BY <2>2
<1> QED
  BY <1>5, <1>6, <1>7, <1>8

LEMMA NotWhileIrq ==
  ASSUME IInv, NEW op, At(op),
         op \notin {"window", "write", "check reset", "set master", "clear master", "poll", "scan", "pass", "free irq"}
  PROVE  ~irq
<1>1. todo[1] \in StepsOf(todo) /\ todo[1][1] = op
  BY HeadIs
<1>2. todo[1] \notin Late
  BY <1>1, LateOps
<1> QED
  BY <1>1, <1>2 DEF IInv, Irqs

LEMMA EmptyList ==
  /\ <<>> \in Seq(Steps) /\ StepsOf(<<>>) = {} /\ Paired(<<>>) /\ \A l : Static(l, <<>>)
  /\ \A X, Z, Y : Since(<<>>, X, Z, Y)
<1>1. PICK s : s = <<>>
  OBVIOUS
<1>2. s \in Seq(Steps) /\ Len(s) = 0
  BY <1>1
<1>3. 1 .. 0 = {} /\ 2 .. 0 = {}
  OBVIOUS
<1>4. StepsOf(s) = {} /\ Paired(s) /\ Written(s) /\ Released(s) /\ \A l : Order(l, s)
  BY <1>2, <1>3, Zenon DEF StepsOf, Paired, Written, Released, Order
<1>5. \A X, Z, Y : Since(s, X, Z, Y) /\ Again(s, X, Z, Y)
  BY <1>2, <1>3, Zenon DEF Since, Again
<1>6. \A l : Static(l, s)
  BY <1>4, <1>5 DEF Static
<1> QED
  BY <1>1, <1>2, <1>4, <1>5, <1>6, Zenon

\* A level that fails leaves nothing to do before remove.
LEMMA Returns ==
  ASSUME IInv, NEW op, At(op), Return,
         op \notin {"window", "write", "check reset", "set master", "clear master", "poll", "scan", "pass", "free irq"},
         loaded' = loaded, level' = level, loads' = loads, tcm' = tcm, olmsg' = olmsg, irq' = irq, isr' = isr,
         master' = master, ioctl' = ioctl, reset' = reset, fw' = fw, shared' = shared, regs' \in BOOLEAN
  PROVE  IInv'
<1>1. ~irq /\ todo' = <<>>
  BY NotWhileIrq DEF Return
<1>2. loaded
  BY HeadIs
<1>3. /\ <<>> \in Seq(Steps) /\ StepsOf(<<>>) = {} /\ Paired(<<>>) /\ Static(level, <<>>)
      /\ \A X, Z, Y : Since(<<>>, X, Z, Y)
  BY EmptyList, Zenon
<1>4. ~Unhalted
  <2>1. op # "window" /\ op # "write"
    OBVIOUS
  <2>2. ResetIn \in Writes
    BY Kinds, Zenon
  <2>3. todo[1] # ResetIn
    BY <2>1, <2>2, HeadIs
  <2> QED
    BY <2>1, <2>3, UnhaltedNext
<1>5. TypeOK'
  BY <1>1, <1>3 DEF IInv, TypeOK
<1>6. (Safe <=> Safe') /\ (Ready <=> Ready')
  BY DEF Safe, Ready, ArmRuns
<1>7. Static(level, todo)'
  BY <1>1, <1>3, Zenon
<1>8. Irqs'
  BY <1>1, <1>3 DEF IInv, Irqs, At
<1>9. Mapped'
  BY <1>1, <1>2, <1>3, <1>6 DEF IInv, Mapped
<1>10. Halted'
  BY <1>1, <1>3 DEF Halted
<1>11. Mastering'
  BY <1>1, <1>3, <1>4, <1>6 DEF IInv, Mastering
<1>12. Filled'
  BY <1>1, <1>3 DEF Filled
<1> QED
  BY <1>5, <1>7, <1>8, <1>9, <1>10, <1>11, <1>12, Zenon DEF IInv

\* A step that leaves the ARM, the handler and bus mastering alone.
LEMMA Carries ==
  ASSUME IInv, NEW op, At(op), Advance,
         op \notin {"write", "request irq", "free irq", "set master", "clear master"},
         loaded' = loaded, level' = level, loads' = loads, irq' = irq, isr' = isr,
         master' = master, ioctl' = ioctl, reset' = reset, Safe => Safe', olmsg' \in BOOLEAN, fw' \in Images,
         regs' \in BOOLEAN, regs => regs', tcm' \in BOOLEAN, tcm => tcm',
         op = "map regs" => regs', op = "map tcm" => tcm', op = "window" => window' = todo[1][2]
  PROVE  TypeOK' /\ Static(level, todo)' /\ Irqs' /\ Mapped' /\ Halted' /\ Mastering'
<1>1. todo # <<>>
  BY HeadIs
<1>2. Tail(todo) \in Seq(Steps) /\ Static(level, Tail(todo))
  BY <1>1, StaticNext
<1>3. todo' = Tail(todo)
  BY DEF Advance
<1>4. TypeOK'
  BY <1>2, <1>3 DEF IInv, TypeOK
<1>5. Static(level, todo)'
  BY <1>2, <1>3, Zenon
<1>6. irq => regs
  BY DEF IInv, Irqs
<1>7. tcm \/ Safe
  BY DEF IInv, Mapped
<1>8. Irqs'
  <2>1. op \notin {"request irq", "free irq"}
    OBVIOUS
  <2> QED
    BY <1>6, <2>1, IrqNext
<1>9. Mapped'
  BY <1>7, MappedNext
<1>10. Halted'
  <2>1. op \notin {"write", "request irq"}
    OBVIOUS
  <2> QED
    BY <2>1, HaltedNext
<1>11. Mastering'
  <2>1. op \notin {"set master", "clear master", "write", "request irq"}
    OBVIOUS
  <2> QED
    BY <2>1, MasteringNext
<1> QED
  BY <1>4, <1>5, <1>8, <1>9, <1>10, <1>11

\* A step that at most provides something.
LEMMA Passes ==
  ASSUME IInv, NEW op, At(op), Advance,
         op \notin {"write", "request irq", "free irq", "set master", "clear master"},
         loaded' = loaded, level' = level, loads' = loads, irq' = irq, isr' = isr,
         master' = master, ioctl' = ioctl, reset' = reset, Safe => Safe',
         regs' \in BOOLEAN, regs => regs', tcm' \in BOOLEAN, tcm => tcm', olmsg' \in BOOLEAN, olmsg => olmsg',
         fw' \in Images, Ready => Ready', shared = loads => shared' = loads,
         op = "map regs" => regs', op = "map tcm" => tcm', op = "window" => window' = todo[1][2],
         op = "verify" => Ready', op = "olmsg" => olmsg', op = "shared_info" => shared' = loads
  PROVE  IInv'
<1>1. TypeOK' /\ Static(level, todo)' /\ Irqs' /\ Mapped' /\ Halted' /\ Mastering'
  BY Carries
<1>2. Filled'
  BY FilledNext
<1> QED
  BY <1>1, <1>2, Zenon DEF IInv

-----------------------------------------------------------------------------
(***************************************************************************)
(* The steps of the levels.                                                *)
(***************************************************************************)

LEMMA SetWindowStep ==
  ASSUME IInv, SetWindow
  PROVE  IInv'
<1>1. At("window") /\ Advance /\ window' = Head(todo)[2] /\ regs \in BOOLEAN /\ tcm \in BOOLEAN /\ olmsg \in BOOLEAN /\ fw \in Images
  BY DEF SetWindow, IInv, TypeOK
<1>2. Head(todo) = todo[1]
  BY <1>1, HeadIs
<1>3. /\ loaded' = loaded /\ level' = level /\ loads' = loads
      /\ regs' = regs /\ tcm' = tcm /\ olmsg' = olmsg /\ irq' = irq /\ isr' = isr
      /\ master' = master /\ ioctl' = ioctl /\ reset' = reset /\ fw' = fw /\ shared' = shared /\ Safe' = Safe /\ Ready' = Ready
  BY DEF SetWindow, loadVars, hostVars, armVars, tcmVars, Safe, Ready, ArmRuns
<1> QED
  BY <1>1, <1>2, <1>3, Passes

LEMMA TryStep ==
  ASSUME IInv, Try
  PROVE  IInv'
<1>1. At("try") /\ (Advance \/ Return) /\ regs \in BOOLEAN /\ tcm \in BOOLEAN /\ olmsg \in BOOLEAN /\ fw \in Images
  BY DEF Try, IInv, TypeOK
<1>2. /\ loaded' = loaded /\ level' = level /\ loads' = loads
      /\ regs' = regs /\ tcm' = tcm /\ olmsg' = olmsg /\ irq' = irq /\ isr' = isr
      /\ master' = master /\ ioctl' = ioctl /\ reset' = reset /\ fw' = fw /\ shared' = shared /\ Safe' = Safe /\ Ready' = Ready
  BY DEF Try, loadVars, hostVars, armVars, tcmVars, Safe, Ready, ArmRuns
<1>3. CASE Advance
  BY <1>1, <1>2, <1>3, Passes
<1>4. CASE Return
  BY <1>1, <1>2, <1>4, Returns
<1> QED
  BY <1>1, <1>3, <1>4

LEMMA WatchStep ==
  ASSUME IInv, Watch
  PROVE  IInv'
<1>1. PICK op \in {"poll", "scan", "pass"} : At(op)
  BY DEF Watch
<1>2. Advance /\ regs \in BOOLEAN /\ tcm \in BOOLEAN /\ olmsg \in BOOLEAN /\ fw \in Images
  BY DEF Watch, IInv, TypeOK
<1>3. /\ loaded' = loaded /\ level' = level /\ loads' = loads
      /\ regs' = regs /\ tcm' = tcm /\ olmsg' = olmsg /\ irq' = irq /\ isr' = isr
      /\ master' = master /\ ioctl' = ioctl /\ reset' = reset /\ fw' = fw /\ shared' = shared /\ Safe' = Safe /\ Ready' = Ready
  BY DEF Watch, loadVars, hostVars, armVars, tcmVars, Safe, Ready, ArmRuns
<1>4. /\ op \notin {"write", "request irq", "free irq", "set master", "clear master", "verify", "olmsg", "shared_info"}
      /\ op # "map regs" /\ op # "map tcm" /\ op # "window"
  OBVIOUS
<1> QED
  BY <1>1, <1>2, <1>3, <1>4, Passes

LEMMA MapRegsStep ==
  ASSUME IInv, MapRegs
  PROVE  IInv'
<1>1. At("map regs") /\ regs \in BOOLEAN /\ tcm \in BOOLEAN /\ olmsg \in BOOLEAN /\ fw \in Images
  BY DEF MapRegs, IInv, TypeOK
<1>2. /\ loaded' = loaded /\ level' = level /\ loads' = loads
      /\ tcm' = tcm /\ olmsg' = olmsg /\ irq' = irq /\ isr' = isr
      /\ master' = master /\ ioctl' = ioctl /\ reset' = reset /\ fw' = fw /\ shared' = shared /\ Safe' = Safe /\ Ready' = Ready
  BY DEF MapRegs, loadVars, armVars, tcmVars, Safe, Ready, ArmRuns
<1>3. (Advance /\ regs' = TRUE) \/ (Return /\ regs' = regs)
  BY DEF MapRegs
<1>4. CASE Advance /\ regs' = TRUE
  BY <1>1, <1>2, <1>4, Passes
<1>5. CASE Return /\ regs' = regs
  BY <1>1, <1>2, <1>5, Returns
<1> QED
  BY <1>3, <1>4, <1>5

LEMMA AliveStep ==
  ASSUME IInv, Alive
  PROVE  IInv'
<1>1. At("alive") /\ regs \in BOOLEAN /\ tcm \in BOOLEAN /\ olmsg \in BOOLEAN /\ fw \in Images
  BY DEF Alive, IInv, TypeOK
<1>2. /\ loaded' = loaded /\ level' = level /\ loads' = loads
      /\ tcm' = tcm /\ olmsg' = olmsg /\ irq' = irq /\ isr' = isr
      /\ master' = master /\ ioctl' = ioctl /\ reset' = reset /\ fw' = fw /\ shared' = shared /\ Safe' = Safe /\ Ready' = Ready
  BY DEF Alive, loadVars, armVars, tcmVars, Safe, Ready, ArmRuns
<1>3. (Advance /\ regs' = regs) \/ (Return /\ regs' = FALSE)
  BY DEF Alive
<1>4. CASE Advance /\ regs' = regs
  BY <1>1, <1>2, <1>4, Passes
<1>5. CASE Return /\ regs' = FALSE
  BY <1>1, <1>2, <1>5, Returns
<1> QED
  BY <1>3, <1>4, <1>5

LEMMA MapTcmStep ==
  ASSUME IInv, MapTcm
  PROVE  IInv'
<1>1. At("map tcm") /\ regs \in BOOLEAN /\ tcm \in BOOLEAN /\ olmsg \in BOOLEAN /\ fw \in Images
  BY DEF MapTcm, IInv, TypeOK
<1>2. /\ loaded' = loaded /\ level' = level /\ loads' = loads
      /\ regs' = regs /\ olmsg' = olmsg /\ irq' = irq /\ isr' = isr
      /\ master' = master /\ ioctl' = ioctl /\ reset' = reset /\ fw' = fw /\ shared' = shared /\ Safe' = Safe /\ Ready' = Ready
  BY DEF MapTcm, loadVars, armVars, tcmVars, Safe, Ready, ArmRuns
<1>3. (Advance /\ tcm' = TRUE) \/ (Return /\ tcm' = tcm)
  BY DEF MapTcm
<1>4. CASE Advance /\ tcm' = TRUE
  BY <1>1, <1>2, <1>4, Passes
<1>5. CASE Return /\ tcm' = tcm
  BY <1>1, <1>2, <1>5, Returns
<1> QED
  BY <1>3, <1>4, <1>5

LEMMA AllocOlmsgStep ==
  ASSUME IInv, AllocOlmsg
  PROVE  IInv'
<1>1. At("olmsg") /\ regs \in BOOLEAN /\ tcm \in BOOLEAN /\ olmsg \in BOOLEAN /\ fw \in Images
  BY DEF AllocOlmsg, IInv, TypeOK
<1>2. /\ loaded' = loaded /\ level' = level /\ loads' = loads
      /\ regs' = regs /\ tcm' = tcm /\ irq' = irq /\ isr' = isr
      /\ master' = master /\ ioctl' = ioctl /\ reset' = reset /\ fw' = fw /\ shared' = shared /\ Safe' = Safe /\ Ready' = Ready
  BY DEF AllocOlmsg, loadVars, armVars, tcmVars, Safe, Ready, ArmRuns
<1>3. (Advance /\ olmsg' = TRUE) \/ (Return /\ olmsg' = olmsg)
  BY DEF AllocOlmsg
<1>4. CASE Advance /\ olmsg' = TRUE
  BY <1>1, <1>2, <1>4, Passes
<1>5. CASE Return /\ olmsg' = olmsg
  BY <1>1, <1>2, <1>5, Returns
<1> QED
  BY <1>3, <1>4, <1>5

LEMMA WriteSharedInfoStep ==
  ASSUME IInv, WriteSharedInfo
  PROVE  IInv'
<1>1. At("shared_info") /\ Advance /\ shared' = loads /\ regs \in BOOLEAN /\ tcm \in BOOLEAN /\ olmsg \in BOOLEAN /\ fw \in Images
  BY DEF WriteSharedInfo, IInv, TypeOK
<1>2. /\ loaded' = loaded /\ level' = level /\ loads' = loads
      /\ regs' = regs /\ tcm' = tcm /\ olmsg' = olmsg /\ irq' = irq /\ isr' = isr
      /\ master' = master /\ ioctl' = ioctl /\ reset' = reset /\ fw' = fw /\ Safe' = Safe /\ Ready' = Ready
  BY DEF WriteSharedInfo, loadVars, hostVars, armVars, Safe, Ready, ArmRuns
<1> QED
  BY <1>1, <1>2, Passes

\* CPUHALT is set where TCM is written.
LEMMA CalmHalted ==
  ASSUME IInv, NEW op \in {"download", "verify"}, At(op)
  PROVE  ioctl = "halt"
<1>1. todo \in Seq(Steps) /\ todo # <<>> /\ todo[1] = One(op)
  BY HeadIs
<1>2. todo[1] \in Calm
  <2>1. Calm = {ResetOut, One("download"), One("verify")}
    BY Operands, Zenon
  <2> QED
    BY <1>1, <2>1
<1>3. ~irq
  BY NotWhileIrq
<1>4. ~Since(todo, {Halt, Irq}, {Clk}, Calm)
  BY <1>1, <1>2, SinceRest
<1> QED
  BY <1>3, <1>4 DEF IInv, Halted

LEMMA DownloadStep ==
  ASSUME IInv, Download
  PROVE  IInv'
<1>1. /\ At("download") /\ Advance /\ fw' = "partial" /\ fw' \in Images
      /\ regs \in BOOLEAN /\ tcm \in BOOLEAN /\ olmsg \in BOOLEAN
  BY DEF Download, IInv, TypeOK, Images
<1>2. /\ loaded' = loaded /\ level' = level /\ loads' = loads
      /\ regs' = regs /\ tcm' = tcm /\ olmsg' = olmsg /\ irq' = irq /\ isr' = isr
      /\ master' = master /\ ioctl' = ioctl /\ reset' = reset /\ shared' = shared
  BY DEF Download, loadVars, hostVars, armVars
<1>3. Safe'
  <2>1. ioctl = "halt"
    BY <1>1, CalmHalted
  <2> QED
    BY <1>2, <2>1 DEF Safe, ArmRuns
<1>4. TypeOK' /\ Static(level, todo)' /\ Irqs' /\ Mapped' /\ Halted' /\ Mastering'
  BY <1>1, <1>2, <1>3, Carries
<1>5. ASSUME level = 4
      PROVE  /\ ~irq /\ Since(Tail(todo), {One("verify")}, {One("download")}, {Irq})
             /\ Since(todo, {One("olmsg")}, {}, {Irq}) => Since(Tail(todo), {One("olmsg")}, {}, {Irq})
             /\ Since(todo, {One("shared_info")}, {}, {Irq}) => Since(Tail(todo), {One("shared_info")}, {}, {Irq})
  <2>1. todo \in Seq(Steps) /\ todo # <<>> /\ todo[1] = One("download") /\ todo[1] # One("olmsg") /\ todo[1] # One("shared_info")
    BY <1>1, HeadIs
  <2>2. ~irq
    BY <1>1, NotWhileIrq
  <2>3. Again(todo, {One("verify")}, {One("download")}, {Irq})
    BY <1>5 DEF IInv, Static
  <2>4. todo[1] \in {One("download")} /\ todo[1] \notin {One("olmsg")} /\ todo[1] \notin {One("shared_info")}
    BY <2>1
  <2> QED
    BY <2>1, <2>2, <2>3, <2>4, SinceRest
<1>6. Filled'
  BY <1>1, <1>2, <1>5 DEF IInv, Filled, Advance
<1> QED
  BY <1>4, <1>6, Zenon DEF IInv

LEMMA VerifyStep ==
  ASSUME IInv, Verify
  PROVE  IInv'
<1>1. At("verify") /\ regs \in BOOLEAN /\ tcm \in BOOLEAN /\ olmsg \in BOOLEAN /\ fw \in Images
  BY DEF Verify, IInv, TypeOK
<1>2. /\ loaded' = loaded /\ level' = level /\ loads' = loads
      /\ regs' = regs /\ tcm' = tcm /\ olmsg' = olmsg /\ irq' = irq /\ isr' = isr
      /\ master' = master /\ ioctl' = ioctl /\ reset' = reset /\ shared' = shared
  BY DEF Verify, loadVars, hostVars, armVars
<1>3. (Advance /\ fw' \in {"whole", "mismatched"}) \/ (Return /\ fw' = fw)
  BY DEF Verify
<1>4. CASE Advance /\ fw' \in {"whole", "mismatched"}
  <2>1. ioctl = "halt"
    BY <1>1, CalmHalted
  <2>2. Safe' /\ Ready' /\ fw' \in Images
    BY <1>2, <1>4, <2>1 DEF Safe, ArmRuns, Ready, Images
  <2> QED
    BY <1>1, <1>2, <1>4, <2>2, Passes
<1>5. CASE Return /\ fw' = fw
  BY <1>1, <1>2, <1>5, Returns
<1> QED
  BY <1>3, <1>4, <1>5

LEMMA RequestIrqStep ==
  ASSUME IInv, RequestIrq
  PROVE  IInv'
<1>1. /\ At("request irq") /\ regs \in BOOLEAN /\ tcm \in BOOLEAN /\ olmsg \in BOOLEAN /\ fw \in Images /\ irq \in BOOLEAN
  BY DEF RequestIrq, IInv, TypeOK
<1>2. /\ loaded' = loaded /\ level' = level /\ loads' = loads
      /\ regs' = regs /\ tcm' = tcm /\ olmsg' = olmsg /\ isr' = isr
      /\ master' = master /\ ioctl' = ioctl /\ reset' = reset /\ fw' = fw /\ shared' = shared
  BY DEF RequestIrq, loadVars, armVars, tcmVars
<1>3. (Advance /\ irq' = TRUE) \/ (Return /\ irq' = irq)
  BY DEF RequestIrq
<1>4. CASE Advance /\ irq' = TRUE
  <2> DEFINE t == Tail(todo)
  <2>1. todo' = t
    BY <1>4 DEF Advance
  <2>2. todo \in Seq(Steps) /\ todo # <<>> /\ todo[1] = One("request irq") /\ todo[1] \in StepsOf(todo) /\ loaded
        /\ \A nm : "request irq" # nm => todo[1] # One(nm)
    BY <1>1, HeadIs
  <2>3. todo[1] = Irq
    BY <2>2 DEF Irq
  <2>4. /\ t \in Seq(Steps) /\ Static(level, t) /\ StepsOf(t) \subseteq StepsOf(todo)
        /\ \A y \in StepsOf(t) : Allowed(level, Irq, y)
    BY <2>2, <2>3, StaticNext
  <2>5. ~irq
    BY <1>1, NotWhileIrq
  <2>6. \A X, Z : ~Since(todo, X, Z, {Irq})
    BY <2>2, <2>3, SinceRest
  <2>7. regs /\ StepsOf(t) \subseteq Late /\ One("free irq") \in StepsOf(t)
    <3>1. regs
      BY <2>6 DEF IInv, Mapped
    <3>2. StepsOf(t) \subseteq Late
      BY <2>4, Zenon DEF Allowed
    <3>3. One("free irq") \in StepsOf(todo)
      BY <2>2, <2>3 DEF IInv, Static
    <3>4. \A x \in StepsOf(todo) : x = todo[1] \/ x \in StepsOf(t)
      BY <2>2, Rest
    <3>5. todo[1] # One("free irq")
      BY <2>2
    <3> QED
      BY <3>1, <3>2, <3>3, <3>4, <3>5
  <2>8. TypeOK'
    BY <1>2, <1>4, <2>1, <2>4 DEF IInv, TypeOK
  <2>9. Static(level, todo)'
    BY <1>2, <2>1, <2>4, Zenon
  <2>10. Irqs'
    BY <1>2, <1>4, <2>1, <2>2, <2>7 DEF Irqs
  <2>11. Safe' <=> Safe
    BY <1>2 DEF Safe, ArmRuns
  <2>12. Mapped'
    BY <1>1, <1>2, <1>4, <2>11, MappedNext DEF IInv, Mapped
  <2>13. Halted'
    BY <1>4 DEF Halted
  <2>14. Mastering'
    <3>1. ASSUME level # 5 PROVE ~master /\ One("set master") \notin StepsOf(t)
      <4>1. ~master
        BY <2>6, <3>1 DEF IInv, Mastering
      <4>2. One("set master") \in StepsOf(t) => Irq \in Front
        BY <2>4, <3>1, Zenon DEF Allowed
      <4>3. Irq \notin Front
        BY Kinds
      <4> QED
        BY <4>1, <4>2, <4>3
    <3> QED
      BY <1>2, <2>1, <3>1 DEF Mastering
  <2>15. Filled'
    <3>1. ASSUME level = 4 PROVE Ready /\ olmsg /\ shared = loads
      BY <2>6, <3>1 DEF IInv, Filled
    <3>2. Ready' <=> Ready
      BY <1>2 DEF Ready
    <3> QED
      BY <1>2, <3>1, <3>2 DEF Filled
  <2> QED
    BY <2>8, <2>9, <2>10, <2>12, <2>13, <2>14, <2>15, Zenon DEF IInv
<1>5. CASE Return /\ irq' = irq
  BY <1>1, <1>2, <1>5, Returns
<1> QED
  BY <1>3, <1>4, <1>5

LEMMA SetMasterStep ==
  ASSUME IInv, SetMaster
  PROVE  IInv'
<1>1. PICK op \in {"set master", "clear master"} : At(op) /\ (op = "set master" <=> At("set master"))
  <2>1. At("set master") \/ At("clear master")
    BY DEF SetMaster
  <2>2. CASE At("set master")
    BY <2>2
  <2>3. CASE At("clear master") /\ ~At("set master")
    BY <2>3
  <2> QED
    BY <2>1, <2>2, <2>3
<1>2. /\ loaded' = loaded /\ level' = level /\ loads' = loads
      /\ regs' = regs /\ tcm' = tcm /\ olmsg' = olmsg /\ irq' = irq /\ isr' = isr
      /\ ioctl' = ioctl /\ reset' = reset /\ fw' = fw /\ shared' = shared
  BY DEF SetMaster, loadVars, hostVars, armVars, tcmVars
<1>3. Advance /\ (master' <=> op = "set master") /\ master' \in BOOLEAN
  BY <1>1 DEF SetMaster, At
<1>4. (Safe' <=> Safe) /\ (Ready' <=> Ready)
  BY <1>2 DEF Safe, Ready, ArmRuns
<1> DEFINE t == Tail(todo)
<1>5. todo' = t
  BY <1>3 DEF Advance
<1>6. todo \in Seq(Steps) /\ todo # <<>> /\ todo[1] = One(op) /\ todo[1] \in StepsOf(todo) /\ loaded
  BY <1>1, HeadIs
<1>7. t \in Seq(Steps) /\ Static(level, t) /\ StepsOf(t) \subseteq StepsOf(todo)
  BY <1>6, StaticNext
<1>8. TypeOK'
  BY <1>2, <1>3, <1>5, <1>7 DEF IInv, TypeOK
<1>9. Static(level, todo)'
  BY <1>2, <1>5, <1>7, Zenon
<1>10. (irq => regs) /\ (tcm \/ Safe)
  BY DEF IInv, Irqs, Mapped
<1>11. Irqs'
  BY <1>1, <1>2, <1>3, <1>10, IrqNext
<1>12. Mapped'
  BY <1>1, <1>2, <1>3, <1>4, <1>10, MappedNext
<1>13. Halted'
  BY <1>1, <1>2, <1>3, <1>4, HaltedNext
<1>14. Filled'
  BY <1>1, <1>2, <1>3, <1>4, FilledNext
<1>15. Mastering'
  <2>1. CASE op = "clear master"
    BY <1>2, <1>3, <1>4, <1>5, <1>7, <2>1 DEF IInv, Mastering
  <2>2. CASE op = "set master" /\ level # 5
    <3>1. Safe /\ ~irq
      BY <1>6, <2>2 DEF IInv, Mastering
    <3>2. Since(t, {One("clear master")}, {One("set master")}, {Irq})
      <4>1. Again(todo, {One("clear master")}, {One("set master")}, {Irq})
        BY <2>2 DEF IInv, Static
      <4>2. todo[1] \in {One("set master")}
        BY <1>6, <2>2
      <4> QED
        BY <1>6, <4>1, <4>2, SinceRest
    <3> QED
      BY <1>2, <1>4, <1>5, <3>1, <3>2 DEF Mastering
  <2>3. CASE level = 5
    BY <1>2, <2>3 DEF Mastering
  <2> QED
    BY <2>1, <2>2, <2>3
<1> QED
  BY <1>8, <1>9, <1>11, <1>12, <1>13, <1>14, <1>15, Zenon DEF IInv

-----------------------------------------------------------------------------
(***************************************************************************)
(* Giving back.                                                            *)
(***************************************************************************)
LEMMA FreeIrqStep ==
  ASSUME IInv, FreeIrq
  PROVE  IInv'
<1>1. At("free irq") /\ isr = "idle" /\ Advance /\ irq' = FALSE
  BY DEF FreeIrq
<1>2. /\ loaded' = loaded /\ level' = level /\ loads' = loads
      /\ regs' = regs /\ tcm' = tcm /\ olmsg' = olmsg /\ isr' = isr
      /\ master' = master /\ ioctl' = ioctl /\ reset' = reset /\ fw' = fw /\ shared' = shared
  BY DEF FreeIrq, loadVars, armVars, tcmVars
<1>3. (Safe' <=> Safe) /\ (Ready' <=> Ready)
  BY <1>2 DEF Safe, Ready, ArmRuns
<1> DEFINE t == Tail(todo)
<1>4. todo' = t
  BY <1>1 DEF Advance
<1>5. todo \in Seq(Steps) /\ todo # <<>> /\ todo[1] = One("free irq") /\ loaded /\ todo[1] # Irq
      /\ \A nm : "free irq" # nm => todo[1] # One(nm)
  BY <1>1, HeadIs
<1>6. /\ t \in Seq(Steps) /\ Static(level, t) /\ StepsOf(t) \subseteq StepsOf(todo)
      /\ \A y \in StepsOf(t) : Allowed(level, One("free irq"), y)
  BY <1>5, StaticNext
<1>7. StepsOf(t) \subseteq {One("pass")}
  BY <1>6, Zenon DEF Allowed
<1>8. One("pass") \notin Writes /\ One("pass") # Clk /\ One("pass") # Irq /\ One("pass") \notin Calm /\ One("pass") \notin Leave
      /\ One("pass") # One("set master") /\ One("pass") # One("download") /\ One("pass")[1] # "write"
  <2>1. One("pass")[1] = "pass" /\ One("download")[1] = "download" /\ One("set master")[1] = "set master" /\ Irq[1] = "request irq"
    BY Kinds, Zenon
  <2>2. \A x \in Writes : x[1] = "write"
    BY Kinds, Zenon
  <2>3. Clk \in Writes
    BY Kinds, Zenon
  <2>4. \A x \in Calm : x[1] \in {"write", "download", "verify"}
    BY Kinds, Zenon
  <2>5. \A x \in Leave : x[1] \in {"free olmsg", "unmap", "unbind"}
    BY Kinds, Zenon
  <2> QED
    BY <2>1, <2>2, <2>3, <2>4, <2>5
<1>9. TypeOK'
  BY <1>1, <1>2, <1>4, <1>6 DEF IInv, TypeOK
<1>10. Static(level, todo)'
  BY <1>2, <1>4, <1>6, Zenon
<1>11. Irqs'
  <2>1. Paired(t)
    BY <1>6, <1>7, <1>8, Lengths DEF Paired
  <2>2. t # <<>> => Head(t)[1] # "write"
    BY <1>6, <1>7, <1>8, Lengths
  <2> QED
    BY <1>1, <1>2, <1>4, <2>1, <2>2 DEF Irqs, At
<1>12. \A X, Z : Since(t, X, Z, {Irq}) /\ Since(t, X, Z, Calm) /\ Since(t, X, Z, Leave)
  <2>1. StepsOf(t) \cap {Irq} = {} /\ StepsOf(t) \cap Calm = {} /\ StepsOf(t) \cap Leave = {}
    BY <1>7, <1>8
  <2> QED
    BY <1>6, <2>1, SinceEasy
<1>13. Mapped'
  BY <1>1, <1>2, <1>3, MappedNext DEF IInv, Mapped
<1>14. Halted'
  BY <1>4, <1>12 DEF Halted
<1>15. Mastering'
  BY <1>1, <1>2, <1>3, MasteringNext
<1>16. Filled'
  BY <1>1, <1>2, <1>3, <1>4, <1>12 DEF IInv, Filled
<1> QED
  BY <1>9, <1>10, <1>11, <1>13, <1>14, <1>15, <1>16, Zenon DEF IInv

LEMMA FreeOlmsgStep ==
  ASSUME IInv, FreeOlmsg
  PROVE  IInv'
<1>1. /\ At("free olmsg") /\ Advance /\ olmsg' = FALSE /\ olmsg' \in BOOLEAN
      /\ regs \in BOOLEAN /\ tcm \in BOOLEAN /\ fw \in Images
  BY DEF FreeOlmsg, IInv, TypeOK
<1>2. /\ loaded' = loaded /\ level' = level /\ loads' = loads
      /\ regs' = regs /\ tcm' = tcm /\ irq' = irq /\ isr' = isr
      /\ master' = master /\ ioctl' = ioctl /\ reset' = reset /\ fw' = fw /\ shared' = shared /\ Safe' = Safe
  BY DEF FreeOlmsg, loadVars, armVars, tcmVars, Safe, ArmRuns
<1>3. TypeOK' /\ Static(level, todo)' /\ Irqs' /\ Mapped' /\ Halted' /\ Mastering'
  BY <1>1, <1>2, Carries
<1>4. \A X, Z : Since(Tail(todo), X, Z, {Irq})
  <2>1. todo \in Seq(Steps) /\ todo # <<>> /\ todo[1] = One("free olmsg")
    BY <1>1, HeadIs
  <2>2. Tail(todo) \in Seq(Steps) /\ \A y \in StepsOf(Tail(todo)) : Allowed(level, todo[1], y)
    BY <2>1, StaticNext
  <2>3. One("free olmsg") \in Leave
    BY Zenon DEF Leave
  <2>4. StepsOf(Tail(todo)) \subseteq {One("unmap"), One("unbind")}
    BY <2>1, <2>2, <2>3, Zenon DEF Allowed
  <2>5. Irq \notin {One("unmap"), One("unbind")}
    <3>1. Irq[1] = "request irq" /\ One("unmap")[1] = "unmap" /\ One("unbind")[1] = "unbind"
      BY Kinds, Zenon
    <3> QED
      BY <3>1
  <2>6. StepsOf(Tail(todo)) \cap {Irq} = {}
    BY <2>4, <2>5
  <2> QED
    BY <2>2, <2>6, SinceEasy
<1>5. ~irq
  BY <1>1, NotWhileIrq
<1>6. Filled'
  BY <1>1, <1>2, <1>4, <1>5 DEF Filled, Advance
<1> QED
  BY <1>3, <1>6, Zenon DEF IInv

\* What may be unmapped, and what is left to do then.
LEMMA Gone ==
  ASSUME IInv, NEW op \in {"unmap", "unbind"}, At(op), Advance
  PROVE  /\ ~irq /\ isr = "idle" /\ Safe /\ ~Unhalted /\ loaded
         /\ todo' \in Seq(Steps) /\ Static(level, todo') /\ Paired(todo') /\ ~(At("write"))'
         /\ StepsOf(todo') \subseteq {One("unbind")} /\ (op = "unbind" => todo' = <<>>)
         /\ \A X, Z : Since(todo', X, Z, {Irq}) /\ Since(todo', X, Z, Calm) /\ Since(todo', X, Z, Writes \cup {One("download")})
         /\ One("set master") \notin StepsOf(todo')
<1> DEFINE t == Tail(todo)
<1>1. todo' = t
  BY DEF Advance
<1>2. todo \in Seq(Steps) /\ todo # <<>> /\ todo[1] = One(op) /\ loaded /\ todo[1] \notin Writes
  BY HeadIs
<1>3. /\ t \in Seq(Steps) /\ Static(level, t) /\ \A y \in StepsOf(t) : Allowed(level, One(op), y)
  BY <1>2, StaticNext
<1>4. ~irq /\ isr = "idle"
  <2>1. ~irq
    BY NotWhileIrq
  <2> QED
    BY <2>1 DEF IInv, Irqs
<1>5. One("unmap") \in Leave /\ One("unbind") \in Leave /\ One(op) \in Leave
  BY Zenon DEF Leave
<1>6. Safe
  <2>1. ~Since(todo, {Halt}, {Clk}, Leave)
    BY <1>2, <1>5, SinceRest
  <2> QED
    BY <1>4, <2>1 DEF IInv, Halted
<1>7. StepsOf(t) \subseteq {One("unbind")}
  <2>1. CASE op = "unmap"
    BY <1>3, <2>1, Zenon DEF Allowed
  <2>2. CASE op = "unbind"
    BY <1>3, <2>2, Zenon DEF Allowed
  <2> QED
    BY <2>1, <2>2
<1>8. op = "unbind" => t = <<>>
  <2>1. SUFFICES ASSUME op = "unbind", t # <<>> PROVE FALSE
    OBVIOUS
  <2>2. t[1] \in StepsOf(t)
    BY <1>3, <2>1, Lengths
  <2> QED
    BY <1>3, <2>1, <2>2, Zenon DEF Allowed
<1>9. /\ One("unbind") \notin Writes /\ One("unbind") # Irq /\ One("unbind") \notin Calm /\ One("unbind") # Clk
      /\ One("unbind") # One("set master") /\ One("unbind") # One("download") /\ One("unbind")[1] # "write"
      /\ ResetIn \in Writes
  <2>1. One("unbind")[1] = "unbind" /\ One("download")[1] = "download" /\ One("set master")[1] = "set master" /\ Irq[1] = "request irq"
    BY Kinds, Zenon
  <2>2. \A x \in Writes : x[1] = "write"
    BY Kinds, Zenon
  <2>3. Clk \in Writes /\ ResetIn \in Writes
    BY Kinds, Zenon
  <2>4. \A x \in Calm : x[1] \in {"write", "download", "verify"}
    BY Kinds, Zenon
  <2> QED
    BY <2>1, <2>2, <2>3, <2>4
<1>10. ~Unhalted
  <2>1. op # "window" /\ todo[1] # ResetIn
    BY <1>2, <1>9
  <2> QED
    BY <2>1, UnhaltedNext
<1>11. Paired(t)
  BY <1>3, <1>7, <1>9, Lengths DEF Paired
<1>12. t # <<>> => Head(t)[1] # "write"
  BY <1>3, <1>7, <1>9, Lengths
<1>13. PICK Y : Y = Writes \cup {One("download")}
  OBVIOUS
<1>14. StepsOf(t) \cap {Irq} = {} /\ StepsOf(t) \cap Calm = {} /\ StepsOf(t) \cap Y = {}
  BY <1>7, <1>9, <1>13
<1>15. \A X, Z : Since(t, X, Z, {Irq}) /\ Since(t, X, Z, Calm) /\ Since(t, X, Z, Y)
  BY <1>3, <1>14, SinceEasy
<1>16. One("set master") \notin StepsOf(t)
  BY <1>7, <1>9
<1>17. ~(At("write"))'
  BY <1>1, <1>12 DEF At
<1> HIDE DEF t
<1> QED
  BY <1>1, <1>2, <1>3, <1>4, <1>6, <1>7, <1>8, <1>10, <1>11, <1>13, <1>15, <1>16, <1>17, Zenon

LEMMA UnmapStep ==
  ASSUME IInv, Unmap
  PROVE  IInv'
<1>1. At("unmap") /\ Advance /\ tcm' = FALSE /\ regs' = FALSE
  BY DEF Unmap
<1>2. /\ loaded' = loaded /\ level' = level /\ loads' = loads
      /\ olmsg' = olmsg /\ irq' = irq /\ isr' = isr
      /\ master' = master /\ ioctl' = ioctl /\ reset' = reset /\ fw' = fw /\ shared' = shared
  BY DEF Unmap, loadVars, armVars, tcmVars
<1>3. /\ ~irq /\ isr = "idle" /\ Safe /\ loaded
      /\ todo' \in Seq(Steps) /\ Static(level, todo') /\ Paired(todo') /\ ~(At("write"))'
      /\ \A X, Z : Since(todo', X, Z, {Irq}) /\ Since(todo', X, Z, Calm) /\ Since(todo', X, Z, Writes \cup {One("download")})
      /\ One("set master") \notin StepsOf(todo')
  BY <1>1, Gone
<1>4. Safe'
  BY <1>2, <1>3 DEF Safe, ArmRuns
<1>5. TypeOK'
  BY <1>1, <1>2, <1>3 DEF IInv, TypeOK
<1>6. Static(level, todo)'
  BY <1>2, <1>3, Zenon
<1>7. Irqs'
  BY <1>2, <1>3 DEF Irqs
<1>8. Mapped'
  BY <1>2, <1>3, <1>4 DEF Mapped
<1>9. Halted'
  BY <1>3, <1>4 DEF Halted
<1>10. Mastering'
  BY <1>2, <1>3, <1>4 DEF Mastering
<1>11. Filled'
  BY <1>2, <1>3 DEF Filled
<1> QED
  BY <1>5, <1>6, <1>7, <1>8, <1>9, <1>10, <1>11, Zenon DEF IInv

LEMMA UnbindStep ==
  ASSUME IInv, Unbind
  PROVE  IInv'
<1>1. At("unbind") /\ Advance /\ loaded' = FALSE
  BY DEF Unbind
<1>2. /\ level' = level /\ loads' = loads
      /\ regs' = regs /\ tcm' = tcm /\ olmsg' = olmsg /\ irq' = irq /\ isr' = isr
      /\ master' = master /\ ioctl' = ioctl /\ reset' = reset /\ fw' = fw /\ shared' = shared
  BY DEF Unbind, hostVars, armVars, tcmVars
<1>3. /\ ~irq /\ isr = "idle" /\ Safe /\ todo' = <<>>
      /\ todo' \in Seq(Steps) /\ Static(level, todo') /\ Paired(todo') /\ ~(At("write"))'
      /\ \A X, Z : Since(todo', X, Z, {Irq}) /\ Since(todo', X, Z, Calm) /\ Since(todo', X, Z, Writes \cup {One("download")})
      /\ One("set master") \notin StepsOf(todo')
  BY <1>1, Gone
<1>4. Safe'
  BY <1>2, <1>3 DEF Safe, ArmRuns
<1>5. TypeOK'
  BY <1>1, <1>2, <1>3 DEF IInv, TypeOK
<1>6. Static(level, todo)'
  BY <1>2, <1>3, Zenon
<1>7. Irqs'
  BY <1>2, <1>3 DEF Irqs
<1>8. Mapped'
  BY <1>3, <1>4 DEF Mapped
<1>9. Halted'
  BY <1>3, <1>4 DEF Halted
<1>10. Mastering'
  BY <1>2, <1>3, <1>4 DEF Mastering
<1>11. Filled'
  BY <1>2, <1>3 DEF Filled
<1> QED
  BY <1>5, <1>6, <1>7, <1>8, <1>9, <1>10, <1>11, Zenon DEF IInv

\* arm_release gives up: three steps are gone at once.
Kept(s, t) ==
  /\ t \in Seq(Steps) /\ Static(level, t) /\ StepsOf(t) \subseteq StepsOf(s) /\ (Paired(s) => Paired(t))
  /\ \A x \in StepsOf(s) : x \in {Check, See("arm"), Clk} \/ x \in StepsOf(t)
  /\ \A X, Z, Y : Since(s, X, Z, Y) /\ X \cap {Check, See("arm"), Clk} = {} => Since(t, X, Z, Y)

LEMMA KeptTail ==
  ASSUME NEW s \in Seq(Steps), s # <<>>, Static(level, s), s[1] \in {Check, See("arm"), Clk}
  PROVE  Kept(s, Tail(s))
<1>1. /\ Tail(s) \in Seq(Steps) /\ Static(level, Tail(s)) /\ StepsOf(Tail(s)) \subseteq StepsOf(s)
  BY StaticTail
<1>2. \A x \in StepsOf(s) : x = s[1] \/ x \in StepsOf(Tail(s))
  BY Rest
<1>3. s[1] # Irq
  <2>1. \A core : See(core) # Irq
    BY Operands, Zenon
  <2>2. Check # Irq
    BY Operands, Zenon
  <2>3. \A x \in Writes : x # Irq
    BY Operands, Zenon
  <2>4. Clk \in Writes
    BY Kinds, Zenon
  <2> QED
    BY <2>1, <2>2, <2>3, <2>4
<1>4. Paired(s) => Paired(Tail(s))
  BY <1>3, NearRest
<1>5. ASSUME NEW X, NEW Z, NEW Y, Since(s, X, Z, Y), X \cap {Check, See("arm"), Clk} = {}
      PROVE  Since(Tail(s), X, Z, Y)
  <2>1. s[1] \notin X
    BY <1>5
  <2> QED
    BY <1>5, <2>1, SinceRest
<1> QED
  BY <1>1, <1>2, <1>4, <1>5 DEF Kept

LEMMA KeptBoth ==
  ASSUME NEW s, NEW t, NEW u, Kept(s, t), Kept(t, u)
  PROVE  Kept(s, u)
<1>1. u \in Seq(Steps) /\ Static(level, u) /\ StepsOf(u) \subseteq StepsOf(s) /\ (Paired(s) => Paired(u))
  BY DEF Kept
<1>2. \A x \in StepsOf(s) : x \in {Check, See("arm"), Clk} \/ x \in StepsOf(u)
  BY Zenon DEF Kept
<1>3. \A X, Z, Y : Since(s, X, Z, Y) /\ X \cap {Check, See("arm"), Clk} = {} => Since(u, X, Z, Y)
  BY Zenon DEF Kept
<1> QED
  BY <1>1, <1>2, <1>3 DEF Kept

\* The window and the access of the release are passed over.
LEMMA ThreeTails ==
  ASSUME NEW s \in Seq(Steps), 3 <= Len(s)
  PROVE  /\ SubSeq(s, 4, Len(s)) = Tail(Tail(Tail(s)))
         /\ s # <<>> /\ Tail(s) \in Seq(Steps) /\ Tail(s) # <<>> /\ Tail(s)[1] = s[2]
         /\ Tail(Tail(s)) \in Seq(Steps) /\ Tail(Tail(s)) # <<>> /\ Tail(Tail(s))[1] = s[3]
         /\ Tail(Tail(Tail(s))) \in Seq(Steps) /\ Len(Tail(Tail(Tail(s)))) = Len(s) - 3
         /\ \A i \in 1 .. Len(s) - 3 : Tail(Tail(Tail(s)))[i] = s[i + 3]
<1>0. Len(s) \in Nat /\ s # <<>>
  BY Lengths
<1> DEFINE a == Tail(s)
           b == Tail(a)
           c == Tail(b)
<1>1. a \in Seq(Steps) /\ Len(a) = Len(s) - 1 /\ \A i \in 1 .. Len(a) : a[i] = s[i + 1]
  BY <1>0, Rest
<1> HIDE DEF a
<1>2. Len(a) \in Nat /\ 2 <= Len(a) /\ a # <<>>
  BY <1>0, <1>1
<1>3. b \in Seq(Steps) /\ Len(b) = Len(a) - 1 /\ \A i \in 1 .. Len(b) : b[i] = a[i + 1]
  BY <1>1, <1>2, Rest
<1> HIDE DEF b
<1>4. Len(b) \in Nat /\ 1 <= Len(b) /\ b # <<>>
  BY <1>1, <1>2, <1>3
<1>5. c \in Seq(Steps) /\ Len(c) = Len(b) - 1 /\ \A i \in 1 .. Len(c) : c[i] = b[i + 1]
  BY <1>3, <1>4, Rest
<1> HIDE DEF c
<1>6. a[1] = s[2] /\ b[1] = s[3]
  BY <1>0, <1>1, <1>2, <1>3, <1>4
<1>7. Len(c) = Len(s) - 3
  BY <1>0, <1>1, <1>3, <1>5
<1>8. ASSUME NEW i \in 1 .. Len(s) - 3 PROVE c[i] = s[i + 3]
  <2>1. i \in 1 .. Len(c) /\ i + 1 \in 1 .. Len(b) /\ (i + 1) + 1 \in 1 .. Len(a) /\ ((i + 1) + 1) + 1 = i + 3
    BY <1>0, <1>1, <1>3, <1>5
  <2> QED
    BY <1>1, <1>3, <1>5, <2>1
<1> DEFINE d == SubSeq(s, 4, Len(s))
<1>9. d \in Seq(Steps) /\ Len(d) = Len(s) - 3 /\ \A i \in 1 .. Len(s) - 3 : d[i] = s[4 + i - 1]
  <2>1. \A i \in 4 .. Len(s) : s[i] \in Steps
    BY <1>0, Lengths
  <2>2. 4 \in Int /\ Len(s) \in Int /\ Len(s) - 4 + 1 = Len(s) - 3
    BY <1>0
  <2>3. d \in Seq(Steps) /\ Len(d) = (IF 4 <= Len(s) THEN Len(s) - 4 + 1 ELSE 0)
        /\ \A i \in 1 .. Len(s) - 4 + 1 : d[i] = s[4 + i - 1]
    BY <2>1, <2>2, SubSeqProperties
  <2> HIDE DEF d
  <2>4. Len(d) = Len(s) - 3
    <3>1. CASE 4 <= Len(s)
      BY <1>0, <2>3, <3>1
    <3>2. CASE Len(s) = 3
      BY <2>3, <3>2
    <3>3. \A n \in Nat : 3 <= n => 4 <= n \/ n = 3
      BY Numbers, Zenon
    <3>4. 4 <= Len(s) \/ Len(s) = 3
      BY <1>0, <3>3, Zenon
    <3> QED
      BY <3>1, <3>2, <3>4, Zenon
  <2>5. 1 .. Len(s) - 4 + 1 = 1 .. Len(s) - 3
    BY <2>2, Zenon
  <2> QED
    BY <2>3, <2>4, <2>5, Zenon
<1> HIDE DEF d
<1>10. ASSUME NEW i \in 1 .. Len(d) PROVE d[i] = c[i]
  <2>1. i \in 1 .. Len(s) - 3 /\ 4 + i - 1 = i + 3
    BY <1>0, <1>9
  <2> QED
    BY <1>8, <1>9, <2>1
<1>11. d = c
  BY <1>5, <1>7, <1>9, <1>10, SeqEqual
<1> QED
  BY <1>0, <1>1, <1>2, <1>3, <1>4, <1>5, <1>6, <1>7, <1>8, <1>11, Zenon DEF a, b, c, d

LEMMA GivesUp ==
  ASSUME NEW s \in Seq(Steps), s # <<>>, s[1] = Check, Static(level, s)
  PROVE  /\ Kept(s, SubSeq(s, 4, Len(s))) /\ 3 <= Len(s) /\ s[3] = Clk /\ s[2] = See("arm")
         /\ Len(SubSeq(s, 4, Len(s))) = Len(s) - 3
         /\ \A i \in 1 .. Len(s) - 3 : SubSeq(s, 4, Len(s))[i] = s[i + 3]
<1>1. Len(s) \in Nat \ {0}
  BY Lengths
<1>2. 1 \in 1 .. Len(s) /\ 1 + 2 = 3 /\ 1 + 1 = 2
  BY <1>1
<1>3. Released(s)
  BY DEF Static
<1>4. 1 + 2 <= Len(s) /\ s[1 + 1] = See("arm") /\ s[1 + 2] = Clk
  BY <1>2, <1>3 DEF Released
<1>5. 3 <= Len(s) /\ s[2] = See("arm") /\ s[3] = Clk
  BY <1>2, <1>4
<1> DEFINE a == Tail(s)
           b == Tail(a)
           c == Tail(b)
<1>6. /\ a \in Seq(Steps) /\ a # <<>> /\ a[1] = See("arm")
      /\ b \in Seq(Steps) /\ b # <<>> /\ b[1] = Clk
      /\ SubSeq(s, 4, Len(s)) = c /\ Len(c) = Len(s) - 3 /\ \A i \in 1 .. Len(s) - 3 : c[i] = s[i + 3]
  BY <1>5, ThreeTails
<1>7. Kept(s, a)
  BY KeptTail
<1> HIDE DEF a
<1>8. Kept(a, b)
  BY <1>6, <1>7, KeptTail DEF Kept
<1> HIDE DEF b
<1>9. Kept(b, c)
  BY <1>6, <1>8, KeptTail DEF Kept
<1> HIDE DEF c
<1>10. Kept(s, c)
  <2>1. Kept(s, b)
    BY <1>7, <1>8, KeptBoth
  <2> QED
    BY <1>9, <2>1, KeptBoth
<1> QED
  BY <1>5, <1>6, <1>10, Zenon

LEMMA CheckResetStep ==
  ASSUME IInv, CheckReset
  PROVE  IInv'
<1>1. /\ At("check reset") /\ regs \in BOOLEAN /\ tcm \in BOOLEAN /\ olmsg \in BOOLEAN /\ fw \in Images
      /\ (Advance \/ todo' = SubSeq(todo, 4, Len(todo)))
  BY DEF CheckReset, IInv, TypeOK
<1>2. /\ loaded' = loaded /\ level' = level /\ loads' = loads
      /\ regs' = regs /\ tcm' = tcm /\ olmsg' = olmsg /\ irq' = irq /\ isr' = isr
      /\ master' = master /\ ioctl' = ioctl /\ reset' = reset /\ fw' = fw /\ shared' = shared /\ Safe' = Safe /\ Ready' = Ready
  BY DEF CheckReset, loadVars, hostVars, armVars, tcmVars, Safe, Ready, ArmRuns
<1>3. CASE Advance
  BY <1>1, <1>2, <1>3, Passes
<1>4. CASE todo' = SubSeq(todo, 4, Len(todo))
  <2>1. todo \in Seq(Steps) /\ todo # <<>> /\ todo[1] = Check /\ Static(level, todo) /\ loaded
    <3>1. todo \in Seq(Steps) /\ todo # <<>> /\ todo[1] = One("check reset") /\ loaded
      BY <1>1, HeadIs
    <3> QED
      BY <3>1 DEF IInv, Check
  <2>2. PICK t : t = SubSeq(todo, 4, Len(todo))
    OBVIOUS
  <2>3. /\ Kept(todo, t) /\ 3 <= Len(todo) /\ todo[3] = Clk
        /\ Len(t) = Len(todo) - 3 /\ \A i \in 1 .. Len(todo) - 3 : t[i] = todo[i + 3]
    BY <2>1, <2>2, GivesUp, Zenon
  <2>4. todo' = t
    BY <1>4, <2>2
  <2>5. t \in Seq(Steps) /\ Static(level, t) /\ StepsOf(t) \subseteq StepsOf(todo) /\ (Paired(todo) => Paired(t))
    BY <2>3 DEF Kept
  <2>6. /\ One("free irq") \notin {Check, See("arm"), Clk}
        /\ \A X \in {{Halt, Irq}, {Halt}, {One("map regs")}, {One("map tcm")}, {One("clear master")},
                       {One("verify")}, {One("olmsg")}, {One("shared_info")}} : X \cap {Check, See("arm"), Clk} = {}
    <3>1. Clk[1] = "write" /\ Clk # Halt /\ Halt[1] = "write" /\ Irq[1] = "request irq"
      <4>1. Clk \in Writes /\ Halt \in Writes /\ Clk # Halt /\ \A x \in Writes : x[1] = "write"
        BY Kinds, Zenon
      <4>2. Irq[1] = "request irq"
        BY Kinds, Zenon
      <4> QED
        BY <4>1, <4>2
    <3>2. See("arm")[1] = "window" /\ Check[1] = "check reset" /\ \A op : One(op)[1] = op
      BY Kinds, Zenon DEF Check
    <3>3. \A op : op \notin {"check reset", "window", "write"} => One(op) \notin {Check, See("arm"), Clk}
      BY <3>1, <3>2
    <3>4. Halt \notin {Check, See("arm"), Clk} /\ Irq \notin {Check, See("arm"), Clk}
      BY <3>1, <3>2
    <3>5. /\ One("free irq") \notin {Check, See("arm"), Clk} /\ One("map regs") \notin {Check, See("arm"), Clk}
          /\ One("map tcm") \notin {Check, See("arm"), Clk} /\ One("clear master") \notin {Check, See("arm"), Clk}
          /\ One("verify") \notin {Check, See("arm"), Clk} /\ One("olmsg") \notin {Check, See("arm"), Clk}
          /\ One("shared_info") \notin {Check, See("arm"), Clk}
      BY <3>3
    <3>6. PICK W : W = {Check, See("arm"), Clk}
      OBVIOUS
    <3> QED
      BY <3>4, <3>5, <3>6
  <2>7. \A X \in {{Halt, Irq}, {Halt}, {One("map regs")}, {One("map tcm")}, {One("clear master")},
                   {One("verify")}, {One("olmsg")}, {One("shared_info")}} :
          \A Z, Y : Since(todo, X, Z, Y) => Since(t, X, Z, Y)
    BY <2>3, <2>6, Zenon DEF Kept
  <2>8. ~Unhalted
    <3>1. "check reset" # "window"
      OBVIOUS
    <3>2. todo[1] # ResetIn
      <4>1. ResetIn \in Writes /\ \A x \in Writes : x # Check
        BY Kinds, Operands
      <4> QED
        BY <2>1, <4>1
    <3> QED
      BY <1>1, <3>1, <3>2, UnhaltedNext
  <2>9. TypeOK'
    BY <1>2, <2>4, <2>5 DEF IInv, TypeOK
  <2>10. Static(level, todo)'
    BY <1>2, <2>4, <2>5, Zenon
  <2>11. irq => One("free irq") \in StepsOf(t)
    BY <2>3, <2>6 DEF IInv, Irqs, Kept
  <2>12. t # <<>> => Head(t)[1] # "write"
    <3>1. SUFFICES ASSUME t # <<>>, t[1] \in Writes PROVE FALSE
      <4>1. \A x \in Steps : x[1] = "write" => x \in Writes
        BY Kinds, Zenon
      <4> QED
        BY <2>5, <4>1, Lengths
    <3>2. Len(t) \in Nat \ {0} /\ Len(todo) \in Nat
      BY <2>1, <2>5, <3>1, Lengths
    <3>3. t[1] = todo[4] /\ 4 \in 2 .. Len(todo) /\ 4 - 1 = 3
      <4>1. 1 \in 1 .. Len(todo) - 3 /\ 1 + 3 = 4 /\ 4 \in 2 .. Len(todo) /\ 4 - 1 = 3
        BY <2>3, <3>2
      <4> QED
        BY <2>3, <4>1
    <3>4. todo[3] = See(todo[4][2])
      <4>1. Written(todo)
        BY <2>1 DEF Static
      <4>2. todo[4 - 1] = See(todo[4][2])
        BY <3>1, <3>3, <4>1 DEF Written
      <4> QED
        BY <3>3, <4>2
    <3>5. Clk \in Writes /\ \A x \in Writes : \A core : x # See(core)
      BY Names, Kinds
    <3> QED
      BY <2>3, <3>4, <3>5
  <2>13. Irqs'
    BY <1>2, <2>4, <2>5, <2>11, <2>12 DEF IInv, Irqs, At
  <2>14. /\ Since(todo, {One("map regs")}, {}, {Irq}) => Since(t, {One("map regs")}, {}, {Irq})
         /\ Since(todo, {One("map tcm")}, {}, Writes \cup {One("download")}) => Since(t, {One("map tcm")}, {}, Writes \cup {One("download")})
         /\ Since(todo, {Halt, Irq}, {Clk}, Calm) => Since(t, {Halt, Irq}, {Clk}, Calm)
         /\ Since(todo, {Halt}, {Clk}, Leave) => Since(t, {Halt}, {Clk}, Leave)
         /\ Since(todo, {One("clear master")}, {One("set master")}, {Irq}) => Since(t, {One("clear master")}, {One("set master")}, {Irq})
         /\ Since(todo, {One("verify")}, {One("download")}, {Irq}) => Since(t, {One("verify")}, {One("download")}, {Irq})
         /\ Since(todo, {One("olmsg")}, {}, {Irq}) => Since(t, {One("olmsg")}, {}, {Irq})
         /\ Since(todo, {One("shared_info")}, {}, {Irq}) => Since(t, {One("shared_info")}, {}, {Irq})
    BY <2>7, Zenon
  <2>15. Mapped'
    BY <1>2, <2>1, <2>4, <2>14 DEF IInv, Mapped
  <2>16. Halted'
    BY <1>2, <2>4, <2>14 DEF IInv, Halted
  <2>17. Mastering'
    BY <1>2, <2>4, <2>5, <2>8, <2>14 DEF IInv, Mastering
  <2>18. Filled'
    BY <1>2, <2>4, <2>14 DEF IInv, Filled
  <2> QED
    BY <2>9, <2>10, <2>13, <2>15, <2>16, <2>17, <2>18, Zenon DEF IInv
<1> QED
  BY <1>1, <1>3, <1>4

\* An access lands where it is meant to unless the handler may come between.
LEMMA Lands ==
  ASSUME IInv, Write
  PROVE  /\ At("write") /\ Advance /\ todo[1] \in Writes /\ tcm
         /\ ioctl' \in {"clk", "halt"} /\ reset' \in {"in", "out"}
         /\ ~irq => /\ todo[1] = Clk => ioctl' = "clk" /\ reset' = reset
                    /\ todo[1] = Halt => ioctl' = "halt" /\ reset' = reset
                    /\ todo[1] = ResetIn => ioctl' = ioctl /\ reset' = "in"
                    /\ todo[1] = ResetOut => ioctl' = ioctl /\ reset' = "out"
                    /\ todo[1] \in {Msk("on"), Msk("off")} => ioctl' = ioctl /\ reset' = reset
<1> DEFINE x == todo[1]
<1>1. At("write") /\ Advance
  BY DEF Write
<1>2. Head(todo) = x /\ x \in Writes /\ todo \in Seq(Steps) /\ todo # <<>>
  BY <1>1, HeadIs
<1>3. ioctl \in {"clk", "halt"} /\ reset \in {"in", "out"}
  BY DEF IInv, TypeOK
<1>4. /\ ioctl' = (IF window = x[2] /\ x[3] = "ioctl" THEN x[4] ELSE ioctl)
      /\ reset' = (IF window = x[2] /\ x[3] = "reset" THEN x[4] ELSE reset)
  BY <1>2 DEF Write
<1>5. ~irq => window = x[2]
  BY <1>1, <1>2 DEF IInv, Irqs
<1>6. tcm
  <2>1. PICK Y : Y = Writes \cup {One("download")}
    OBVIOUS
  <2>2. x \in Y
    BY <1>2, <2>1
  <2>3. ~Since(todo, {One("map tcm")}, {}, Y)
    BY <1>2, <2>2, SinceRest
  <2> QED
    BY <2>1, <2>3 DEF IInv, Mapped
<1> HIDE DEF x
<1>7. /\ Clk[3] = "ioctl" /\ Clk[4] = "clk" /\ Halt[3] = "ioctl" /\ Halt[4] = "halt"
      /\ ResetIn[3] = "reset" /\ ResetIn[4] = "in" /\ ResetOut[3] = "reset" /\ ResetOut[4] = "out"
      /\ Msk("on")[3] = "intmask" /\ Msk("off")[3] = "intmask"
  BY Operands, Zenon
<1>8. x \in {Clk, Halt, ResetIn, ResetOut, Msk("on"), Msk("off")}
  BY <1>2, Operands, Zenon
<1>9. ioctl' \in {"clk", "halt"} /\ reset' \in {"in", "out"}
  BY <1>3, <1>4, <1>7, <1>8
<1>10. ~irq => /\ x = Clk => ioctl' = "clk" /\ reset' = reset
               /\ x = Halt => ioctl' = "halt" /\ reset' = reset
               /\ x = ResetIn => ioctl' = ioctl /\ reset' = "in"
               /\ x = ResetOut => ioctl' = ioctl /\ reset' = "out"
               /\ x \in {Msk("on"), Msk("off")} => ioctl' = ioctl /\ reset' = reset
  BY <1>4, <1>5, <1>7
<1> QED
  BY <1>1, <1>2, <1>6, <1>9, <1>10 DEF x

LEMMA WriteStep ==
  ASSUME IInv, Write
  PROVE  IInv'
<1>1. /\ At("write") /\ Advance /\ todo[1] \in Writes /\ tcm
      /\ ioctl' \in {"clk", "halt"} /\ reset' \in {"in", "out"}
  BY Lands
<1>2. /\ loaded' = loaded /\ level' = level /\ loads' = loads
      /\ regs' = regs /\ tcm' = tcm /\ olmsg' = olmsg /\ irq' = irq /\ isr' = isr
      /\ master' = master /\ fw' = fw /\ shared' = shared /\ Ready' = Ready
  BY DEF Write, loadVars, hostVars, tcmVars, Ready
<1> DEFINE t == Tail(todo)
<1>3. todo' = t
  BY <1>1 DEF Advance
<1>4. todo \in Seq(Steps) /\ todo # <<>> /\ loaded /\ \A nm : "write" # nm => todo[1] # One(nm)
  BY <1>1, HeadIs
<1>5. /\ t \in Seq(Steps) /\ Static(level, t) /\ StepsOf(t) \subseteq StepsOf(todo)
      /\ \A y \in StepsOf(t) : Allowed(level, todo[1], y)
  BY <1>4, StaticNext
<1>6. TypeOK'
  BY <1>1, <1>2, <1>3, <1>5 DEF IInv, TypeOK
<1>7. Static(level, todo)'
  BY <1>2, <1>3, <1>5, Zenon
<1>8. Irqs'
  <2>1. irq => regs
    BY DEF IInv, Irqs
  <2> QED
    BY <1>1, <1>2, <2>1, IrqNext
<1>9. Mapped'
  BY <1>1, <1>2, MappedNext
<1>10. Filled'
  BY <1>1, <1>2, FilledNext
<1>11. CASE irq
  <2>1. Halted'
    BY <1>2, <1>11 DEF Halted
  <2>2. Mastering'
    BY <1>2, <1>3, <1>5, <1>11 DEF IInv, Mastering
  <2> QED
    BY <1>6, <1>7, <1>8, <1>9, <1>10, <2>1, <2>2, Zenon DEF IInv
<1>12. CASE ~irq
  <2>1. todo[1] \in {Clk, Halt, ResetIn, ResetOut, Msk("on"), Msk("off")}
    BY <1>1, Operands, Zenon
  <2>2. /\ todo[1] = Clk => ioctl' = "clk" /\ reset' = reset
        /\ todo[1] = Halt => ioctl' = "halt" /\ reset' = reset
        /\ todo[1] = ResetIn => ioctl' = ioctl /\ reset' = "in"
        /\ todo[1] = ResetOut => ioctl' = ioctl /\ reset' = "out"
        /\ todo[1] \in {Msk("on"), Msk("off")} => ioctl' = ioctl /\ reset' = reset
    BY <1>12, Lands
  <2>3. /\ Clk # Halt /\ Clk # ResetIn /\ Clk # ResetOut /\ Halt # ResetOut /\ Halt # ResetIn /\ ResetIn # ResetOut
        /\ Irq \notin Writes
    BY Kinds, Operands, Zenon
  <2>4. \A v : Msk(v) # Halt /\ Msk(v) # ResetIn
    <3>1. \A v : Msk(v)[3] = "intmask"
      BY Operands, Zenon
    <3>2. Halt[3] = "ioctl" /\ ResetIn[3] = "reset"
      BY Operands, Zenon
    <3> QED
      BY <3>1, <3>2
  <2>5. todo[1] = ResetOut => ioctl = "halt"
    <3>1. SUFFICES ASSUME todo[1] = ResetOut PROVE ioctl = "halt"
      OBVIOUS
    <3>2. todo[1] \in Calm
      BY <3>1 DEF Calm
    <3>3. ~Since(todo, {Halt, Irq}, {Clk}, Calm)
      BY <1>4, <3>2, SinceRest
    <3> QED
      BY <1>12, <3>3 DEF IInv, Halted
  <2>6. todo[1] \in {Halt, ResetIn, ResetOut} => Safe'
    BY <2>2, <2>5 DEF Safe, ArmRuns
  <2>7. todo[1] \in {Msk("on"), Msk("off")} => (Safe' <=> Safe)
    BY <1>2, <2>2 DEF Safe, ArmRuns
  <2>8. \A X, Z, Y : /\ Since(todo, X, Z, Y) /\ todo[1] \notin X => Since(t, X, Z, Y)
                     /\ Again(todo, X, Z, Y) /\ todo[1] \in Z => Since(t, X, Z, Y)
    BY <1>4, SinceRest
  <2>9. Halted'
    <3>1. CASE todo[1] = Clk
      <4>1. Again(todo, {Halt, Irq}, {Clk}, Calm) /\ Again(todo, {Halt}, {Clk}, Leave) /\ todo[1] \in {Clk}
        BY <3>1 DEF IInv, Static
      <4> QED
        BY <1>3, <2>8, <4>1 DEF Halted
    <3>2. CASE todo[1] = Halt
      BY <2>2, <2>6, <3>2 DEF Halted
    <3>3. CASE todo[1] \notin {Clk, Halt}
      <4>1. todo[1] \notin {Halt, Irq} /\ todo[1] \notin {Halt}
        BY <1>1, <2>3, <3>3
      <4>2. /\ Since(todo, {Halt, Irq}, {Clk}, Calm) => Since(t, {Halt, Irq}, {Clk}, Calm)
            /\ Since(todo, {Halt}, {Clk}, Leave) => Since(t, {Halt}, {Clk}, Leave)
        BY <2>8, <4>1, Zenon
      <4>3. ioctl' = ioctl
        BY <2>1, <2>2, <3>3
      <4>4. Safe => Safe'
        BY <2>1, <2>6, <2>7, <3>3
      <4> QED
        BY <1>2, <1>3, <1>12, <4>2, <4>3, <4>4 DEF IInv, Halted
    <3> QED
      BY <3>1, <3>2, <3>3
  <2>10. ASSUME level # 5, master PROVE Safe' \/ Unhalted'
    <3>1. CASE todo[1] = Clk
      <4>1. Paired(todo)
        BY <1>12 DEF IInv, Irqs
      <4>2. Len(todo) \in Nat \ {0}
        BY <1>4, Lengths
      <4>3. 1 \in 1 .. Len(todo) /\ 1 .. 1 - 1 = {} /\ 1 + 2 = 3
        BY <4>2
      <4>4. 1 + 2 <= Len(todo) /\ todo[1 + 2] = ResetIn
        BY <3>1, <4>1, <4>3 DEF Paired
      <4>5. 3 <= Len(todo) /\ todo[3] = ResetIn /\ 3 \in 2 .. 3
        BY <4>3, <4>4
      <4> QED
        BY <1>1, <1>4, <4>5, UnhaltedLater
    <3>2. CASE todo[1] \in {Halt, ResetIn, ResetOut}
      BY <2>6, <3>2
    <3>3. CASE todo[1] \in {Msk("on"), Msk("off")}
      <4>1. todo[1] # ResetIn /\ "write" # "window"
        BY <2>4, <3>3
      <4>2. ~Unhalted
        BY <1>1, <4>1, UnhaltedNext
      <4> QED
        BY <2>7, <2>10, <3>3, <4>2 DEF IInv, Mastering
    <3> QED
      BY <2>1, <3>1, <3>2, <3>3
  <2>11. ASSUME level # 5 PROVE One("set master") \notin StepsOf(t)
    <3>1. One("set master") \in StepsOf(t) => todo[1] \in Front
      BY <1>5, <2>11, Zenon DEF Allowed
    <3>2. todo[1] \notin Front
      <4>1. \A y \in Front : y[1] # "write"
        BY Kinds
      <4>2. \A y \in Writes : y[1] = "write"
        BY Kinds, Zenon
      <4> QED
        BY <1>1, <4>1, <4>2
    <3> QED
      BY <3>1, <3>2
  <2>12. Mastering'
    <3>1. todo[1] \notin {One("clear master")}
      BY <1>4
    <3>2. Since(todo, {One("clear master")}, {One("set master")}, {Irq}) => Since(t, {One("clear master")}, {One("set master")}, {Irq})
      BY <2>8, <3>1, Zenon
    <3> QED
      BY <1>2, <1>3, <1>12, <2>10, <2>11, <3>2 DEF IInv, Mastering
  <2> QED
    BY <1>6, <1>7, <1>8, <1>9, <1>10, <2>9, <2>12, Zenon DEF IInv
<1> QED
  BY <1>11, <1>12

-----------------------------------------------------------------------------
(***************************************************************************)
(* Loading, removing, the power and the handler.                           *)
(***************************************************************************)
LEMMA LoadStep ==
  ASSUME IInv, Load
  PROVE  IInv'
<1>1. PICK l \in Levels : level' = l /\ todo' = Program(l)
  BY DEF Load
<1>2. /\ ~loaded /\ loaded' = TRUE /\ loads' = loads + 1
      /\ regs' = regs /\ tcm' = tcm /\ olmsg' = olmsg /\ irq' = irq /\ isr' = isr
      /\ master' = master /\ ioctl' = ioctl /\ reset' = reset /\ fw' = fw /\ shared' = shared
  BY DEF Load, hostVars, armVars, tcmVars
<1>3. l \in 1 .. 5
  BY HarnessAssumption
<1>4. PICK s : s = Program(l)
  OBVIOUS
<1>5. Begin(l, s)
  BY <1>3, <1>4, ProgramList
<1>6. ~irq /\ isr = "idle" /\ Safe
  BY <1>2 DEF IInv, Irqs, Mapped
<1>7. Safe'
  BY <1>2, <1>6 DEF Safe, ArmRuns
<1>8. todo' = s
  BY <1>1, <1>4
<1>9. TypeOK'
  <2>1. level' \in 0 .. 5
    BY <1>1, <1>3
  <2>2. loads \in Nat
    BY DEF IInv, TypeOK
  <2>3. loads' \in Nat
    BY <1>2, <2>2
  <2>4. s \in Seq(Steps)
    BY <1>5 DEF Begin
  <2> QED
    BY <1>2, <1>8, <2>1, <2>3, <2>4 DEF IInv, TypeOK
<1>10. Static(level, todo)'
  BY <1>1, <1>5, <1>8, Zenon DEF Begin
<1>11. Irqs'
  <2>1. s # <<>> => Head(s)[1] # "write"
    <3>1. First(s) = One("clear master")
      BY <1>5 DEF Begin
    <3>2. One("clear master")[1] = "clear master"
      BY Kinds, Zenon
    <3> QED
      BY <1>5, <3>1, <3>2, Lengths DEF Begin, First
  <2> QED
    BY <1>2, <1>5, <1>6, <1>8, <2>1 DEF Irqs, At, Begin
<1>12. Mapped'
  BY <1>2, <1>5, <1>7, <1>8 DEF Mapped, Begin
<1>13. Halted'
  BY <1>5, <1>7, <1>8 DEF Halted, Begin
<1>14. Mastering'
  BY <1>1, <1>2, <1>5, <1>6, <1>7, <1>8 DEF Mastering, Begin
<1>15. Filled'
  BY <1>1, <1>2, <1>5, <1>6, <1>8 DEF Filled, Begin
<1> QED
  BY <1>9, <1>10, <1>11, <1>12, <1>13, <1>14, <1>15, Zenon DEF IInv

LEMMA RemoveStep ==
  ASSUME IInv, Remove
  PROVE  IInv'
<1>1. PICK s : s = Removal
  OBVIOUS
<1>2. /\ loaded /\ todo = <<>> /\ todo' = s
      /\ loaded' = loaded /\ level' = level /\ loads' = loads
      /\ regs' = regs /\ tcm' = tcm /\ olmsg' = olmsg /\ irq' = irq /\ isr' = isr
      /\ master' = master /\ ioctl' = ioctl /\ reset' = reset /\ fw' = fw /\ shared' = shared
  BY <1>1 DEF Remove, loadVars, hostVars, armVars, tcmVars
<1>3. tcm \in BOOLEAN /\ (tcm \/ Safe)
  BY DEF IInv, TypeOK, Mapped
<1>4. Out(level, s, tcm)
  <2>1. tcm \in BOOLEAN
    BY <1>3
  <2>2. Out(level, Removal, tcm)
    <3>1. \A l : Out(l, Removal, tcm)
      BY <2>1, RemovalList
    <3> QED
      BY <3>1
  <2> QED
    BY <1>1, <2>2
<1>5. ~irq /\ isr = "idle"
  BY <1>2, EmptyList DEF IInv, Irqs
<1>6. Safe' <=> Safe
  BY <1>2 DEF Safe, ArmRuns
<1>7. s \in Seq(Steps) /\ Static(level, s) /\ Paired(s) /\ First(s) \notin Writes
  BY <1>4 DEF Out
<1>8. \A X, Z : Since(s, X, Z, {Irq})
  <2>1. StepsOf(s) \cap {Irq} = {}
    BY <1>4 DEF Out
  <2> QED
    BY <1>7, <2>1, SinceEasy
<1>9. TypeOK'
  BY <1>2, <1>7 DEF IInv, TypeOK
<1>10. Static(level, todo)'
  BY <1>2, <1>7, Zenon
<1>11. Irqs'
  <2>1. s # <<>> => Head(s)[1] # "write"
    <3>1. \A x \in Steps : x[1] = "write" => x \in Writes
      BY Kinds, Zenon
    <3> QED
      BY <1>7, <3>1, Lengths DEF First
  <2> QED
    BY <1>2, <1>5, <1>7, <2>1 DEF Irqs, At
<1>12. Mapped'
  <2>1. ASSUME ~tcm PROVE Since(s, {One("map tcm")}, {}, Writes \cup {One("download")})
    <3>1. PICK Y : Y = Writes \cup {One("download")}
      OBVIOUS
    <3>2. StepsOf(s) \cap Y = {}
      BY <1>4, <2>1, <3>1 DEF Out
    <3>3. Since(s, {One("map tcm")}, {}, Y)
      BY <1>7, <3>2, SinceEasy
    <3> QED
      BY <3>1, <3>3
  <2> QED
    BY <1>2, <1>3, <1>6, <1>8, <2>1 DEF Mapped
<1>13. Halted'
  BY <1>2, <1>3, <1>4, <1>6 DEF Halted, Out
<1>14. Mastering'
  <2>1. One("set master") \notin StepsOf(s)
    BY <1>4 DEF Out
  <2>2. ~Unhalted
    <3>1. Len(todo) = 0
      BY <1>2
    <3> QED
      BY <3>1 DEF Unhalted
  <2> QED
    BY <1>2, <1>5, <1>6, <1>8, <2>1, <2>2 DEF IInv, Mastering
<1>15. Filled'
  BY <1>2, <1>5, <1>8 DEF Filled
<1> QED
  BY <1>9, <1>10, <1>11, <1>12, <1>13, <1>14, <1>15, Zenon DEF IInv

LEMMA PowerCycleStep ==
  ASSUME IInv, PowerCycle
  PROVE  IInv'
<1>1. /\ ~loaded /\ fw' = "none" /\ shared' = 0 /\ master' = FALSE /\ ioctl' = "clk" /\ reset' \in {"in", "out"}
      /\ todo' = todo /\ loaded' = loaded /\ level' = level /\ loads' = loads
      /\ regs' = regs /\ tcm' = tcm /\ olmsg' = olmsg /\ irq' = irq /\ isr' = isr
  BY DEF PowerCycle, loadVars, hostVars
<1>2. todo = <<>> /\ ~irq /\ isr = "idle"
  BY <1>1 DEF IInv, Mapped, Irqs
<1>3. Safe'
  BY <1>1 DEF Safe
<1>4. /\ <<>> \in Seq(Steps) /\ StepsOf(<<>>) = {} /\ Paired(<<>>) /\ Static(level, <<>>)
      /\ \A X, Z, Y : Since(<<>>, X, Z, Y)
  BY EmptyList, Zenon
<1>5. TypeOK'
  BY <1>1 DEF IInv, TypeOK, Images
<1>6. Static(level, todo)'
  BY <1>1 DEF IInv
<1>7. Irqs'
  BY <1>1, <1>2, <1>4 DEF Irqs, At
<1>8. Mapped'
  BY <1>1, <1>2, <1>3, <1>4 DEF Mapped
<1>9. Halted'
  BY <1>1, <1>2, <1>3, <1>4 DEF Halted
<1>10. Mastering'
  BY <1>1, <1>2, <1>3, <1>4 DEF Mastering
<1>11. Filled'
  BY <1>1, <1>2, <1>4 DEF Filled
<1> QED
  BY <1>5, <1>6, <1>7, <1>8, <1>9, <1>10, <1>11, Zenon DEF IInv

\* The handler moves the window, which nobody relies on then.
LEMMA IsrStep ==
  ASSUME IInv, IsrEnter \/ IsrRead \/ IsrAck
  PROVE  IInv'
<1>1. /\ todo' = todo /\ loaded' = loaded /\ level' = level /\ loads' = loads
      /\ regs' = regs /\ tcm' = tcm /\ olmsg' = olmsg /\ irq' = irq
      /\ master' = master /\ ioctl' = ioctl /\ reset' = reset /\ fw' = fw /\ shared' = shared
      /\ isr' \in {"idle", "read", "ack"}
  BY DEF IsrEnter, IsrRead, IsrAck, loadVars, hostVars, armVars, tcmVars
<1>2. irq
  BY DEF IsrEnter, IsrRead, IsrAck, IInv, Irqs
<1>3. (Safe' <=> Safe) /\ (Ready' <=> Ready) /\ (Unhalted' <=> Unhalted)
  BY <1>1 DEF Safe, Ready, ArmRuns, Unhalted
<1>4. TypeOK'
  BY <1>1 DEF IInv, TypeOK
<1>5. Static(level, todo)'
  BY <1>1 DEF IInv
<1>6. Irqs'
  BY <1>1, <1>2 DEF IInv, Irqs
<1>7. Mapped'
  BY <1>1, <1>3 DEF IInv, Mapped
<1>8. Halted'
  BY <1>1, <1>2 DEF Halted
<1>9. Mastering'
  BY <1>1, <1>3 DEF IInv, Mastering
<1>10. Filled'
  BY <1>1, <1>3 DEF IInv, Filled
<1> QED
  BY <1>4, <1>5, <1>6, <1>7, <1>8, <1>9, <1>10, Zenon DEF IInv

LEMMA StutterStep ==
  ASSUME IInv, UNCHANGED vars
  PROVE  IInv'
<1>1. /\ todo' = todo /\ loaded' = loaded /\ level' = level /\ loads' = loads
      /\ regs' = regs /\ tcm' = tcm /\ olmsg' = olmsg /\ irq' = irq /\ isr' = isr /\ window' = window
      /\ master' = master /\ ioctl' = ioctl /\ reset' = reset /\ fw' = fw /\ shared' = shared
  BY DEF vars, loadVars, hostVars, armVars, tcmVars
<1>2. (Safe' <=> Safe) /\ (Ready' <=> Ready) /\ (Unhalted' <=> Unhalted)
  BY <1>1 DEF Safe, Ready, ArmRuns, Unhalted
<1>3. TypeOK' /\ Static(level, todo)' /\ Irqs'
  BY <1>1 DEF IInv, TypeOK, Irqs, At
<1>4. Mapped' /\ Halted'
  BY <1>1, <1>2 DEF IInv, Mapped, Halted
<1>5. Mastering' /\ Filled'
  BY <1>1, <1>2 DEF IInv, Mastering, Filled
<1> QED
  BY <1>3, <1>4, <1>5, Zenon DEF IInv

LEMMA InitInv == Init => IInv
<1> SUFFICES ASSUME Init PROVE IInv
  OBVIOUS
<1>1. /\ todo = <<>> /\ loaded = FALSE /\ level = 0 /\ loads = 0
      /\ regs = FALSE /\ tcm = FALSE /\ olmsg = FALSE /\ irq = FALSE /\ isr = "idle"
      /\ master = FALSE /\ ioctl = "clk" /\ reset \in {"in", "out"} /\ fw = "none"
  BY DEF Init
<1>2. /\ <<>> \in Seq(Steps) /\ StepsOf(<<>>) = {} /\ Paired(<<>>) /\ Static(level, <<>>)
      /\ \A X, Z, Y : Since(<<>>, X, Z, Y)
  BY EmptyList, Zenon
<1>3. Safe
  BY <1>1 DEF Safe
<1>4. TypeOK
  <2>1. level \in 0 .. 5 /\ loads \in Nat
    BY <1>1
  <2> QED
    BY <1>1, <1>2, <2>1 DEF TypeOK, Images
<1>5. Static(level, todo)
  BY <1>1, <1>2
<1>6. Irqs /\ Mapped /\ Halted
  BY <1>1, <1>2, <1>3 DEF Irqs, Mapped, Halted, At
<1>7. Mastering /\ Filled
  BY <1>1, <1>2, <1>3 DEF Mastering, Filled
<1> QED
  BY <1>4, <1>5, <1>6, <1>7, Zenon DEF IInv

-----------------------------------------------------------------------------
(***************************************************************************)
(* The theorems.                                                           *)
(***************************************************************************)
LEMMA NextInv == IInv /\ [Next]_vars => IInv'
<1> SUFFICES ASSUME IInv, [Next]_vars PROVE IInv'
  OBVIOUS
<1>1. CASE SetWindow
  BY <1>1, SetWindowStep
<1>2. CASE Write
  BY <1>2, WriteStep
<1>3. CASE CheckReset
  BY <1>3, CheckResetStep
<1>4. CASE Try
  BY <1>4, TryStep
<1>5. CASE SetMaster
  BY <1>5, SetMasterStep
<1>6. CASE MapRegs
  BY <1>6, MapRegsStep
<1>7. CASE Alive
  BY <1>7, AliveStep
<1>8. CASE MapTcm
  BY <1>8, MapTcmStep
<1>9. CASE Download
  BY <1>9, DownloadStep
<1>10. CASE Verify
  BY <1>10, VerifyStep
<1>11. CASE AllocOlmsg
  BY <1>11, AllocOlmsgStep
<1>12. CASE WriteSharedInfo
  BY <1>12, WriteSharedInfoStep
<1>13. CASE RequestIrq
  BY <1>13, RequestIrqStep
<1>14. CASE Watch
  BY <1>14, WatchStep
<1>15. CASE FreeIrq
  BY <1>15, FreeIrqStep
<1>16. CASE FreeOlmsg
  BY <1>16, FreeOlmsgStep
<1>17. CASE Unmap
  BY <1>17, UnmapStep
<1>18. CASE Unbind
  BY <1>18, UnbindStep
<1>19. CASE Load
  BY <1>19, LoadStep
<1>20. CASE Remove
  BY <1>20, RemoveStep
<1>21. CASE PowerCycle
  BY <1>21, PowerCycleStep
<1>22. CASE IsrEnter \/ IsrRead \/ IsrAck
  BY <1>22, IsrStep
<1>23. CASE UNCHANGED vars
  BY <1>23, StutterStep
<1> QED
  BY <1>1, <1>2, <1>3, <1>4, <1>5, <1>6, <1>7, <1>8, <1>9, <1>10, <1>11, <1>12, <1>13, <1>14, <1>15, <1>16,
     <1>17, <1>18, <1>19, <1>20, <1>21, <1>22, <1>23 DEF Next, Probing, Removing

LEMMA Invariance == Spec => []IInv
<1> QED
  BY InitInv, NextInv, PTL DEF Spec

\* Each step of a load is one the levels are made of, in a state the device and
\* the module can be in.
THEOREM HarnessTypes == Spec => []TypeOK
<1>1. IInv => TypeOK
  BY DEF IInv
<1> QED
  BY <1>1, Invariance, PTL

\* remove frees the interrupt before what the handler reads, and no load leaves
\* the firmware it wrote running.
THEOREM LoadsEndClean == Spec => []UnloadIsClean
<1>1. IInv => UnloadIsClean
  BY DEF IInv, Irqs, Mapped, Safe, UnloadIsClean
<1> QED
  BY <1>1, Invariance, PTL

\* Firmware the harness wrote runs as bus master at level 5 only.
THEOREM OnlyLevel5MastersTheBus == Spec => []DmaNeedsLevel5
<1>1. IInv => DmaNeedsLevel5
  BY DEF IInv, Mastering, Safe, DmaNeedsLevel5
<1> QED
  BY <1>1, Invariance, PTL

\* What level 4 lets run was written by this load, to its last word.
THEOREM Level4RunsItsOwn == Spec => []RunsWhatWasLoaded
<1>1. IInv => RunsWhatWasLoaded
  BY DEF IInv, Filled, Ready, RunsWhatWasLoaded
<1> QED
  BY <1>1, Invariance, PTL
=============================================================================
