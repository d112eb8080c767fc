----------------------- MODULE CoreEnumerationProofs -----------------------
(***************************************************************************)
(* For every ROM, every size of the mapping and any number of turns by the *)
(* driver: the BAR0 window is given back, and the saved file lists the     *)
(* chip's cores.                                                           *)
(***************************************************************************)
EXTENDS CoreEnumeration, TLAPS, WellFoundedInduction

-----------------------------------------------------------------------------
\* The window.

Positions == {"driver", "driver2"}       \* of the driver
Outside == {"start", "open", "save", "done"}
Inside == Working \cup {"finished", "raised", "return"}

\* Between saving the window and turning it back the saved value is a position of
\* the driver, and its latest unless it turned the window meanwhile.  Before and
\* after, the same is true of the window itself.
WindowInv ==
  /\ pc \in Outside \cup Inside
  /\ driver \in Positions
  /\ pc \in Outside => window \in Positions /\ (~moved => window = driver)
  /\ pc \in Inside \cup {"open"} => original \in Positions /\ (~moved => original = driver)

USE DEF Positions, Outside, Inside, Working

LEMMA WindowInit == Init => WindowInv
BY DEF Init, WindowInv

\* A turn by the driver while the script is at work is remembered; one before or
\* after it leaves the driver's window.
LEMMA WindowDriver == WindowInv /\ DriverMoves => WindowInv'
BY DEF WindowInv, DriverMoves

\* The steps of the script before it turns the window.
LEMMA WindowBefore == WindowInv /\ (Refuse \/ SaveWindow \/ OpenBar) => WindowInv'
<1> SUFFICES ASSUME WindowInv, Refuse \/ SaveWindow \/ OpenBar PROVE WindowInv'
  OBVIOUS
<1>1. CASE Refuse
  BY <1>1 DEF WindowInv, Refuse, Goto, windowVars
<1>2. CASE SaveWindow
  BY <1>2 DEF WindowInv, SaveWindow, Goto, windowVars
<1>3. CASE OpenBar
  BY <1>3 DEF WindowInv, OpenBar, windowVars
<1> QED
  BY <1>1, <1>2, <1>3

\* A step inside the try: whatever it does to the window, it goes to a place from
\* where finally is still ahead, and the saved value is kept.
LEMMA WindowInside ==
  ASSUME WindowInv, pc \in Inside, pc' \in Inside, UNCHANGED <<driver, moved, original>>
  PROVE  WindowInv'
BY DEF WindowInv

LEMMA StepsInside ==
  ASSUME \/ SelectChipCommon \/ ReadBase \/ SelectErom \/ ReadRaw \/ Raise \/ is_end
         \/ get_ci \/ skip_component \/ ReadSlaves \/ ReadMwraps \/ ReadSwraps \/ AppendCore
  PROVE  pc \in Inside /\ pc' \in Inside /\ UNCHANGED <<driver, moved, original>>
<1>1. CASE SelectChipCommon
  BY <1>1 DEF SelectChipCommon, Goto, Turn
<1>2. CASE ReadBase
  BY <1>2 DEF ReadBase, Goto, windowVars
<1>3. CASE SelectErom
  BY <1>3 DEF SelectErom, Goto, Turn
<1>4. CASE ReadRaw
  BY <1>4 DEF ReadRaw, Goto, windowVars
<1>5. CASE Raise
  BY <1>5 DEF Raise, Goto, windowVars
<1>6. CASE is_end
  BY <1>6 DEF is_end, Goto, Untouched, windowVars
<1>7. CASE get_ci
  BY <1>7 DEF get_ci, Goto, Untouched, windowVars
<1>8. CASE skip_component
  BY <1>8 DEF skip_component, Goto, Untouched, windowVars
<1>9. ASSUME NEW group, NEW types, NEW field, NEW next, NEW rounds, group \in Inside, next \in Inside,
             Round(group, types, field, next, rounds)
      PROVE  pc \in Inside /\ pc' \in Inside /\ UNCHANGED <<driver, moved, original>>
  BY <1>9 DEF Round, Goto, Untouched, windowVars
<1>10. CASE ReadSlaves
  BY <1>9, <1>10 DEF ReadSlaves
<1>11. CASE ReadMwraps
  BY <1>9, <1>11 DEF ReadMwraps
<1>12. CASE ReadSwraps
  BY <1>9, <1>12 DEF ReadSwraps
<1>13. CASE AppendCore
  BY <1>13 DEF AppendCore, Goto, Untouched, windowVars
<1> QED
  BY <1>1, <1>2, <1>3, <1>4, <1>5, <1>6, <1>7, <1>8, <1>10, <1>11, <1>12, <1>13

\* finally, and what is left after it.
LEMMA WindowAfter == WindowInv /\ (Finally \/ Save) => WindowInv'
<1> SUFFICES ASSUME WindowInv, Finally \/ Save PROVE WindowInv'
  OBVIOUS
<1>1. CASE Finally
  BY <1>1 DEF WindowInv, Finally, Goto, Turn
<1>2. CASE Save
  BY <1>2 DEF WindowInv, Save, Goto, windowVars
<1> QED
  BY <1>1, <1>2

THEOREM WindowInvariant == Spec => []WindowInv
<1>1. WindowInv /\ [Next]_vars => WindowInv'
  <2> SUFFICES ASSUME WindowInv, [Next]_vars PROVE WindowInv'
    OBVIOUS
  <2>1. CASE UNCHANGED vars
    BY <2>1 DEF WindowInv, vars, windowVars
  <2>2. CASE DriverMoves
    BY <2>2, WindowDriver
  <2>3. CASE Script
    BY <2>3, WindowBefore, WindowInside, StepsInside, WindowAfter DEF Script
  <2> QED
    BY <2>1, <2>2, <2>3 DEF Next
<1> QED
  BY <1>1, WindowInit, PTL DEF Spec

\* Whatever happens (not allowed, no card, no ROM, a read past the mapping, an
\* interrupt of the user), the driver finds the window at a position of its own:
\* WindowGivenBack.
THEOREM GivenBack == Spec => []WindowGivenBack
<1>1. WindowInv => WindowGivenBack
  BY DEF WindowInv, WindowGivenBack
<1> QED
  BY <1>1, WindowInvariant, PTL

HIDE DEF Positions, Outside, Inside, Working

-----------------------------------------------------------------------------
\* Induction over the naturals, and the sequences of FlattenSeq.

\* Less-than on the naturals, as the relation the library proves well-founded.
LEMMA LessThan == \A x, y \in Nat : <<x, y>> \in OpToRel(<, Nat) <=> x < y
BY DEF OpToRel

\* Induction over a set of naturals: the least number outside the set would have a
\* predecessor inside it.
LEMMA SetInduction ==
  ASSUME NEW S, 0 \in S, \A n \in Nat : n \in S => n + 1 \in S
  PROVE  \A n \in Nat : n \in S
<1> DEFINE T == Nat \ S
<1> SUFFICES ASSUME T # {} PROVE FALSE
  OBVIOUS
<1>1. PICK x \in T : \A y \in T : ~(<<y, x>> \in OpToRel(<, Nat))
  <2> HIDE DEF T
  <2>1. T \subseteq Nat
    BY DEF T
  <2> QED
    BY <2>1, NatLessThanWellFounded, WFMin
<1>2. x \in Nat /\ x # 0
  OBVIOUS
<1>3. x - 1 \in Nat /\ x - 1 < x /\ (x - 1) + 1 = x
  BY <1>2
<1>4. x - 1 \in S
  BY <1>1, <1>3, LessThan
<1> QED
  BY <1>3, <1>4

\* What FlattenSeq computes: the function g of its recursion, of which the n-th value
\* is the first n sequences joined.
Flattens(g, ss, n) == g = [i \in 1 .. n |-> IF i = 1 THEN ss[i] ELSE g[i - 1] \o ss[i]]

\* The recursion has a solution for one sequence more.
LEMMA FlattensStep ==
  ASSUME NEW T, NEW ss \in Seq(Seq(T)), NEW n \in Nat, n + 2 <= Len(ss),
         NEW g \in [1 .. n + 1 -> Seq(T)], Flattens(g, ss, n + 1)
  PROVE  \E h \in [1 .. n + 2 -> Seq(T)] : Flattens(h, ss, n + 2)
<1> DEFINE h == [i \in 1 .. n + 2 |-> IF i = n + 2 THEN g[n + 1] \o ss[n + 2] ELSE g[i]]
<1>1. h \in [1 .. n + 2 -> Seq(T)]
  <2> SUFFICES ASSUME NEW i \in 1 .. n + 2 PROVE h[i] \in Seq(T)
    OBVIOUS
  <2>1. CASE i = n + 2
    <3>1. n + 2 \in 1 .. Len(ss) /\ n + 1 \in 1 .. n + 1
      OBVIOUS
    <3>2. ss[n + 2] \in Seq(T) /\ g[n + 1] \in Seq(T)
      BY <3>1
    <3>3. g[n + 1] \o ss[n + 2] \in Seq(T)
      BY <3>2
    <3> QED
      BY <2>1, <3>3
  <2>2. CASE i # n + 2
    <3>1. i \in 1 .. n + 1
      BY <2>2
    <3> QED
      BY <2>2, <3>1
  <2> QED
    BY <2>1, <2>2
<1>2. \A i \in 1 .. n + 2 : h[i] = IF i = 1 THEN ss[i] ELSE h[i - 1] \o ss[i]
  <2> TAKE i \in 1 .. n + 2
  <2>1. CASE i = n + 2
    <3>1. i # 1 /\ i - 1 = n + 1 /\ i - 1 \in 1 .. n + 2 /\ i - 1 # n + 2
      BY <2>1
    <3>2. h[i - 1] = g[n + 1]
      BY <3>1
    <3>3. h[i] = g[n + 1] \o ss[n + 2]
      BY <2>1
    <3> QED
      BY <2>1, <3>1, <3>2, <3>3
  <2>2. CASE i # n + 2
    <3>1. i \in 1 .. n + 1
      BY <2>2
    <3>2. g[i] = IF i = 1 THEN ss[i] ELSE g[i - 1] \o ss[i]
      BY <3>1 DEF Flattens
    <3>3. h[i] = g[i]
      BY <2>2
    <3>4. i # 1 => h[i - 1] = g[i - 1]
      BY <3>1
    <3> QED
      BY <3>2, <3>3, <3>4
  <2> QED
    BY <2>1, <2>2
<1>3. h = [i \in 1 .. n + 2 |-> IF i = 1 THEN ss[i] ELSE h[i - 1] \o ss[i]]
  <2>1. h = [i \in 1 .. n + 2 |-> h[i]]
    BY <1>1
  <2> HIDE DEF h
  <2> QED
    BY <1>2, <2>1
<1>4. Flattens(h, ss, n + 2)
  BY <1>3 DEF Flattens
<1> QED
  BY <1>1, <1>4

\* It has a solution for every sequence of sequences, by induction over its length,
LEMMA FlattensExists ==
  ASSUME NEW T, NEW ss \in Seq(Seq(T)), Len(ss) # 0
  PROVE  \E g \in [1 .. Len(ss) -> Seq(T)] : Flattens(g, ss, Len(ss))
<1> DEFINE S == {m \in Nat : m + 1 > Len(ss) \/ \E g \in [1 .. m + 1 -> Seq(T)] : Flattens(g, ss, m + 1)}
<1>1. 0 \in S
  <2> DEFINE g == [i \in 1 .. 0 + 1 |-> ss[i]]
  <2>1. g \in [1 .. 0 + 1 -> Seq(T)]
    OBVIOUS
  <2>2. g = [i \in 1 .. 0 + 1 |-> IF i = 1 THEN ss[i] ELSE g[i - 1] \o ss[i]]
    OBVIOUS
  <2>3. Flattens(g, ss, 0 + 1)
    BY <2>2 DEF Flattens
  <2> QED
    BY <2>1, <2>3
<1>2. ASSUME NEW m \in Nat, m \in S, m + 2 <= Len(ss) PROVE m + 1 \in S
  <2>1. ~(m + 1 > Len(ss))
    BY <1>2
  <2>2. PICK g \in [1 .. m + 1 -> Seq(T)] : Flattens(g, ss, m + 1)
    BY <1>2, <2>1
  <2>3. \E h \in [1 .. m + 2 -> Seq(T)] : Flattens(h, ss, m + 2)
    BY <1>2, <2>2, FlattensStep
  <2>4. (m + 1) + 1 = m + 2
    OBVIOUS
  <2> QED
    BY <2>3, <2>4
<1>3. ASSUME NEW m \in Nat, ~(m + 2 <= Len(ss)) PROVE m + 1 \in S
  <2>1. (m + 1) + 1 > Len(ss)
    BY <1>3
  <2> QED
    BY <2>1
<1> HIDE DEF S
<1>6. \A m \in Nat : m \in S
  BY <1>1, <1>2, <1>3, SetInduction
<1>4. Len(ss) - 1 \in Nat /\ (Len(ss) - 1) + 1 = Len(ss)
  OBVIOUS
<1>5. Len(ss) - 1 \in S
  BY <1>6, <1>4
<1> QED
  BY <1>4, <1>5 DEF S

\* and FlattenSeq is the last value of one.
LEMMA FlattenFunction ==
  ASSUME NEW T, NEW ss \in Seq(Seq(T)), Len(ss) # 0
  PROVE  \E g : FlattenSeq(ss) = g[Len(ss)] /\ Flattens(g, ss, Len(ss))
<1> DEFINE flatten[i \in 1 .. Len(ss)] == IF i = 1 THEN ss[i] ELSE flatten[i-1] \o ss[i]
<1>1. FlattenSeq(ss) = flatten[Len(ss)]
  BY DEF FlattenSeq
<1>2. flatten = (CHOOSE h : h = [i \in 1 .. Len(ss) |-> IF i = 1 THEN ss[i] ELSE h[i - 1] \o ss[i]])
  BY DEF flatten
<1>3. \E h : h = [i \in 1 .. Len(ss) |-> IF i = 1 THEN ss[i] ELSE h[i - 1] \o ss[i]]
  <2>1. PICK h : Flattens(h, ss, Len(ss))
    BY FlattensExists
  <2> WITNESS h
  <2> QED
    BY <2>1 DEF Flattens
<1>4. Flattens(flatten, ss, Len(ss))
  BY <1>2, <1>3 DEF Flattens
<1> QED
  BY <1>1, <1>4

\* w is the first m sequences of ss laid end to end, the i-th of them behind b[i]; no
\* element of w is from anywhere else.
Lays(w, b, ss, m) ==
  /\ b[1] = 0 /\ b[m + 1] = Len(w)
  /\ \A i \in 1 .. m + 1 : b[i] \in Nat /\ b[i] <= Len(w)
  /\ \A i \in 1 .. m : b[i + 1] = b[i] + Len(ss[i])
  /\ \A i \in 1 .. m : \A k \in 1 .. Len(ss[i]) : w[b[i] + k] = ss[i][k]
  /\ \A p \in 1 .. Len(w) : \E i \in 1 .. m : \E k \in 1 .. Len(ss[i]) : p = b[i] + k

\* A further sequence is laid behind the others.
LEMMA LaysStep ==
  ASSUME NEW T, NEW ss \in Seq(Seq(T)), NEW m \in Nat, m + 1 <= Len(ss), NEW w \in Seq(T), NEW b, Lays(w, b, ss, m)
  PROVE  \E c : Lays(w \o ss[m + 1], c, ss, m + 1)
<1> DEFINE v == w \o ss[m + 1]
           c == [i \in 1 .. m + 2 |-> IF i = m + 2 THEN Len(v) ELSE b[i]]
<1>1. ss[m + 1] \in Seq(T) /\ Len(ss[m + 1]) \in Nat /\ Len(w) \in Nat
  <2>1. m + 1 \in 1 .. Len(ss)
    OBVIOUS
  <2> QED
    BY <2>1
<1>2. v \in Seq(T) /\ Len(v) = Len(w) + Len(ss[m + 1])
  BY <1>1
<1>3. \A p \in 1 .. Len(w) : v[p] = w[p]
  BY <1>1
<1>4. \A k \in 1 .. Len(ss[m + 1]) : v[Len(w) + k] = ss[m + 1][k]
  BY <1>1
<1>5. \A i \in 1 .. m : ss[i] \in Seq(T) /\ Len(ss[i]) \in Nat
  <2> SUFFICES ASSUME NEW i \in 1 .. m PROVE ss[i] \in Seq(T) /\ Len(ss[i]) \in Nat
    OBVIOUS
  <2>1. i \in 1 .. Len(ss)
    OBVIOUS
  <2> QED
    BY <2>1
<1> HIDE DEF v
<1>6. c[m + 2] = Len(v) /\ \A i \in 1 .. m + 1 : c[i] = b[i]
  OBVIOUS
<1> HIDE DEF c
<1>7. c[1] = 0 /\ c[(m + 1) + 1] = Len(v)
  <2>1. 1 \in 1 .. m + 1 /\ (m + 1) + 1 = m + 2
    OBVIOUS
  <2> QED
    BY <1>6, <2>1 DEF Lays
<1>8. ASSUME NEW i \in 1 .. (m + 1) + 1 PROVE c[i] \in Nat /\ c[i] <= Len(v)
  <2>1. CASE i = m + 2
    BY <1>1, <1>2, <1>6, <2>1
  <2>2. CASE i # m + 2
    <3>1. i \in 1 .. m + 1
      BY <2>2
    <3>2. b[i] \in Nat /\ b[i] <= Len(w)
      BY <3>1 DEF Lays
    <3>3. Len(v) \in Nat /\ Len(w) <= Len(v)
      BY <1>1, <1>2
    <3> QED
      BY <1>1, <1>6, <3>1, <3>2, <3>3
  <2> QED
    BY <2>1, <2>2
<1>9. ASSUME NEW i \in 1 .. m + 1 PROVE c[i + 1] = c[i] + Len(ss[i])
  <2>1. CASE i = m + 1
    <3>1. c[i] = Len(w)
      BY <1>6, <2>1 DEF Lays
    <3>2. i + 1 = m + 2
      BY <2>1
    <3> QED
      BY <1>2, <1>6, <2>1, <3>1, <3>2
  <2>2. CASE i # m + 1
    <3>1. i \in 1 .. m /\ i + 1 \in 1 .. m + 1
      BY <2>2
    <3>2. b[i + 1] = b[i] + Len(ss[i])
      BY <3>1 DEF Lays
    <3> QED
      BY <1>6, <3>1, <3>2
  <2> QED
    BY <2>1, <2>2
<1>10. ASSUME NEW i \in 1 .. m + 1, NEW k \in 1 .. Len(ss[i]) PROVE v[c[i] + k] = ss[i][k]
  <2>1. CASE i = m + 1
    <3>1. c[i] = Len(w)
      BY <1>6, <2>1 DEF Lays
    <3> QED
      BY <1>4, <2>1, <3>1
  <2>2. CASE i # m + 1
    <3>1. i \in 1 .. m /\ i \in 1 .. m + 1 /\ i + 1 \in 1 .. m + 1
      BY <2>2
    <3>2. b[i + 1] = b[i] + Len(ss[i]) /\ w[b[i] + k] = ss[i][k] /\ b[i] \in Nat /\ b[i + 1] <= Len(w)
      BY <3>1 DEF Lays
    <3>4. \A x, y, z \in Nat : \A q \in 1 .. y : x + y <= z => x + q \in 1 .. z
      OBVIOUS
    <3>5. Len(ss[i]) \in Nat /\ Len(w) \in Nat /\ b[i] \in Nat /\ b[i] + Len(ss[i]) <= Len(w)
      BY <1>1, <1>5, <3>1, <3>2
    <3>3. b[i] + k \in 1 .. Len(w)
      BY <3>4, <3>5
    <3> QED
      BY <1>3, <1>6, <3>1, <3>2, <3>3
  <2> QED
    BY <2>1, <2>2
<1>11. ASSUME NEW p \in 1 .. Len(v) PROVE \E i \in 1 .. m + 1 : \E k \in 1 .. Len(ss[i]) : p = c[i] + k
  <2>1. CASE p <= Len(w)
    <3>1. p \in 1 .. Len(w)
      BY <1>1, <2>1
    <3>2. PICK i \in 1 .. m : \E k \in 1 .. Len(ss[i]) : p = b[i] + k
      BY <3>1 DEF Lays
    <3>3. i \in 1 .. m + 1
      OBVIOUS
    <3> QED
      BY <1>6, <3>2, <3>3
  <2>2. CASE ~(p <= Len(w))
    <3>1. p - Len(w) \in 1 .. Len(ss[m + 1]) /\ p = Len(w) + (p - Len(w))
      BY <1>1, <1>2, <2>2
    <3>2. c[m + 1] = Len(w) /\ m + 1 \in 1 .. m + 1
      BY <1>6 DEF Lays
    <3> QED
      BY <3>1, <3>2
  <2> QED
    BY <2>1, <2>2
<1>12. Lays(v, c, ss, m + 1)
  BY <1>7, <1>8, <1>9, <1>10, <1>11 DEF Lays
<1> QED
  BY <1>12 DEF v

\* FlattenSeq lays its sequences end to end: by induction over how many it has joined.
LEMMA FlattenLayout ==
  ASSUME NEW T, NEW ss \in Seq(Seq(T))
  PROVE  FlattenSeq(ss) \in Seq(T) /\ \E b : Lays(FlattenSeq(ss), b, ss, Len(ss))
<1>1. CASE Len(ss) = 0
  <2>1. FlattenSeq(ss) = ss /\ ss = <<>>
    BY <1>1 DEF FlattenSeq
  <2> DEFINE b == [i \in 1 .. 1 |-> 0]
  <2>2. Lays(<<>>, b, <<>>, 0)
    BY DEF Lays
  <2> HIDE DEF b
  <2> QED
    BY <1>1, <2>1, <2>2
<1>2. CASE Len(ss) # 0
  <2>1. PICK g : FlattenSeq(ss) = g[Len(ss)] /\ Flattens(g, ss, Len(ss))
    BY <1>2, FlattenFunction
  <2>2. \A i \in 1 .. Len(ss) : g[i] = IF i = 1 THEN ss[i] ELSE g[i - 1] \o ss[i]
    BY <2>1 DEF Flattens
  <2> DEFINE S == {m \in Nat : m + 1 <= Len(ss) => g[m + 1] \in Seq(T) /\ \E b : Lays(g[m + 1], b, ss, m + 1)}
  <2>3. 0 \in S
    <3>1. 1 \in 1 .. Len(ss) /\ ss[1] \in Seq(T) /\ g[1] = ss[1]
      BY <1>2, <2>2
    <3> DEFINE e == [i \in 1 .. 1 |-> 0]
    <3>2. Lays(<<>>, e, ss, 0)
      BY DEF Lays
    <3> HIDE DEF e
    <3>3. \E b : Lays(<<>> \o ss[0 + 1], b, ss, 0 + 1)
      <4>1. 0 \in Nat /\ 0 + 1 <= Len(ss) /\ <<>> \in Seq(T)
        BY <3>1
      <4> QED
        BY <3>2, <4>1, LaysStep
    <3>4. <<>> \o ss[0 + 1] = g[0 + 1]
      BY <3>1
    <3> QED
      BY <3>1, <3>3, <3>4
  <2>4. ASSUME NEW m \in Nat, m \in S PROVE m + 1 \in S
    <3>1. ASSUME m + 2 <= Len(ss) PROVE g[m + 2] \in Seq(T) /\ \E b : Lays(g[m + 2], b, ss, m + 2)
      <4>1. g[m + 1] \in Seq(T) /\ \E b : Lays(g[m + 1], b, ss, m + 1)
        BY <2>4, <3>1
      <4>2. m + 2 \in 1 .. Len(ss) /\ m + 2 # 1 /\ (m + 2) - 1 = m + 1 /\ (m + 1) + 1 = m + 2 /\ m + 1 \in Nat /\ (m + 1) + 1 <= Len(ss)
        BY <3>1
      <4>5. ss[m + 2] \in Seq(T)
        BY <4>2
      <4>6. g[m + 2] = g[(m + 2) - 1] \o ss[m + 2]
        BY <2>2, <4>2
      <4>3. g[m + 2] = g[m + 1] \o ss[m + 2] /\ ss[m + 2] \in Seq(T)
        BY <4>2, <4>5, <4>6
      <4>4. \E b : Lays(g[m + 1] \o ss[(m + 1) + 1], b, ss, (m + 1) + 1)
        BY <4>1, <4>2, LaysStep
      <4> QED
        BY <4>1, <4>2, <4>3, <4>4
    <3>2. (m + 1) + 1 = m + 2 /\ m + 1 \in Nat
      OBVIOUS
    <3> QED
      BY <3>1, <3>2
  <2> HIDE DEF S
  <2>5. \A m \in Nat : m \in S
    BY <2>3, <2>4, SetInduction
  <2>6. Len(ss) - 1 \in Nat /\ (Len(ss) - 1) + 1 = Len(ss)
    BY <1>2
  <2>7. Len(ss) - 1 \in S
    BY <2>5, <2>6
  <2>8. Len(ss) <= Len(ss)
    OBVIOUS
  <2> QED
    BY <2>1, <2>6, <2>7, <2>8 DEF S
<1> QED
  BY <1>1, <1>2

-----------------------------------------------------------------------------
\* Where the words of a ROM stand.

\* Sequences joined, and the facts about them that the proofs below cite.
Joined(r, s, t) ==
  /\ Len(s) \in Nat /\ Len(t) \in Nat /\ Len(r) = Len(s) + Len(t)
  /\ \A p \in 1 .. Len(s) : r[p] = s[p]
  /\ \A p \in 1 .. Len(t) : r[Len(s) + p] = t[p]

LEMMA ConcatFacts ==
  ASSUME NEW T, NEW s \in Seq(T), NEW t \in Seq(T)
  PROVE  s \o t \in Seq(T) /\ Joined(s \o t, s, t)
BY DEF Joined

LEMMA SeqFacts ==
  ASSUME NEW T, NEW s \in Seq(T)
  PROVE  Len(s) \in Nat /\ DOMAIN s = 1 .. Len(s) /\ \A p \in 1 .. Len(s) : s[p] \in T
OBVIOUS

LEMMA SeqTyped ==
  ASSUME NEW T, NEW U, NEW s \in Seq(T), \A p \in 1 .. Len(s) : s[p] \in U
  PROVE  s \in Seq(U)
<1>1. s = [p \in 1 .. Len(s) |-> s[p]] /\ Len(s) \in Nat
  OBVIOUS
<1> QED
  BY <1>1

LEMMA Shifted == \A x, y, z \in Nat : \A q \in 1 .. y : x + y <= z => x + q \in 1 .. z
OBVIOUS

LEMMA Add3 == \A x, y, z \in Nat : (x + y) + z = x + (y + z) /\ x + y \in Nat
OBVIOUS

\* Where the words of component c stand in the ROM ws: its head at b, the descriptor j
\* at at[j], the next component at e.  Words that are not the head are a master port,
\* a descriptor, or an extra word of a descriptor.
ComponentLaid(c, ws, b, e, at) ==
  /\ ws[b + 1] = [Word("ci") EXCEPT !.id = c.id]
  /\ ws[b + 2] = [Word("ci") EXCEPT !.nmp = c.nmp, !.nsp = c.nsp, !.nmw = Len(c.mwraps), !.nsw = Len(c.swraps)]
  /\ at[1] = b + 2 + c.nmp /\ at[Len(Descs(c)) + 1] = e
  /\ \A j \in 1 .. Len(Descs(c)) + 1 : at[j] \in Nat /\ b + 2 + c.nmp <= at[j] /\ at[j] <= e
  /\ \A j \in DOMAIN Descs(c) :
       LET d == Descs(c)[j]
       IN /\ at[j + 1] = at[j] + 1 + Len(d.extra)
          /\ ws[at[j] + 1] = [Word("addr") EXCEPT !.type = d.type, !.more = Len(d.extra)]
          /\ \A k \in DOMAIN d.extra : ws[at[j] + 1 + k] = Word(d.extra[k])
  /\ \A p \in b + 2 .. e - 1 :
       \/ ws[p + 1].tag \in {"mp", "addr"}
       \/ \E j \in DOMAIN Descs(c) : \E k \in DOMAIN Descs(c)[j].extra : ws[p + 1] = Word(Descs(c)[j].extra[k])

\* Where each component of the list r stands in its ROM, and where the end marker is.
IsLayout(r, L) ==
  /\ L.base[1] = 0
  /\ Len(Entries(r)) = L.base[Len(r) + 1] + 1 /\ Entries(r)[Len(Entries(r))] = Word("end")
  /\ \A i \in 1 .. Len(r) + 1 : L.base[i] \in Nat /\ L.base[i] < Len(Entries(r))
  /\ \A i \in DOMAIN r : ComponentLaid(r[i], Entries(r), L.base[i], L.base[i + 1], L.at[i])
Layout(r) == CHOOSE L : IsLayout(r, L)
Base(r, i) == Layout(r).base[i]
Place(r, i, t) == Layout(r).at[i][t]
Types == {"slave", "bridge", "mwrap", "swrap"}

\* Of a component: it is listed, its wrappers are split by the reader, none of its
\* extra words looks like an entry.  CoresAreRight is about ROMs in which the split
\* and the skipped components are quiet, and windows the driver left alone.
Kept(c) == c.id = "core" /\ c.nsp > 0
SplitUp(c) == Long(c.mwraps) \/ Long(c.swraps)
Quiet(c) == \A j \in DOMAIN Descs(c) : \A k \in DOMAIN Descs(c)[j].extra : Descs(c)[j].extra[k] = "invalid"
Readable(r) == \A i \in DOMAIN r : (~Kept(r[i]) \/ SplitUp(r[i])) => Quiet(r[i])
Followed == ~moved /\ Readable(rom)

\* No word from p to before q begins a component or ends the ROM.
NoStop(r, p, q) == \A s \in Nat : p <= s /\ s < q => Entries(r)[s + 1].tag \notin {"ci", "end"}

\* An entry of the list is right; the list is right about the first m components.
RightEntry(r, e) ==
  LET c == r[e.index + 1]
  IN e.addresses = TypesOf(c.slaves) /\ (e.wrappers = TypesOf(c.mwraps) \o TypesOf(c.swraps) \/ SplitUp(c))
Collected(r, cs, m) ==
  /\ {cs[k].index + 1 : k \in DOMAIN cs} = {i \in 1 .. m : Kept(r[i])}
  /\ \A k, l \in DOMAIN cs : k < l => cs[k].index < cs[l].index
  /\ \A k \in DOMAIN cs : RightEntry(r, cs[k])

\* What the reader has of a component after its first t descriptors.
ReadSoFar(c, t) ==
  LET n == Len(c.slaves)
  IN [addresses |-> [k \in 1 .. (IF t < n THEN t ELSE n) |-> Descs(c)[k].type],
      wrappers |-> [k \in 1 .. (IF t < n THEN 0 ELSE t - n) |-> Descs(c)[n + k].type]]
Listing == [addresses : Seq(Types), wrappers : Seq(Types)]

\* The reader is between two descriptors of the group lo + 1 .. hi and has all before; a
\* round is only ended at the end of the group.
InOrder(r, i, p, got, l, lo, hi, rounds) ==
  \E t \in lo .. hi : /\ p = Place(r, i, t + 1)
                      /\ got = ReadSoFar(r[i], t)
                      /\ l < rounds => t = hi

\* It has put back a word inside a wrapper that it split; that word is no entry.
Astray(r, i, p, got) ==
  /\ SplitUp(r[i])
  /\ got.addresses = TypesOf(r[i].slaves)
  /\ p \in Nat /\ Base(r, i) + 2 <= p /\ p < Base(r, i + 1)
  /\ Entries(r)[p + 1].tag = "invalid"

\* Between components: all words up to the next one are passed over.
Between(r, m, p) == m <= Len(r) /\ p <= Base(r, m + 1) /\ NoStop(r, p, Base(r, m + 1))

\* A component that is listed is being read.
Taking(r, m, cb) == m < Len(r) /\ Kept(r[m + 1]) /\ cb = Entries(r)[Base(r, m + 1) + 2]
Slaves(c) == Len(c.slaves)
Masters(c) == Len(c.slaves) + Len(c.mwraps)
AtGroup(r, i, p, got, l, lo, hi, rounds) ==
  l \in 0 .. rounds /\ (InOrder(r, i, p, got, l, lo, hi, rounds) \/ Astray(r, i, p, got))
Reading == {"is_end", "get_ci", "skip", "slaves", "mwraps", "swraps", "append"}
Before == {"start", "open", "chip", "base", "erom", "elsewhere", "raw"}
Grouping == {"slaves", "mwraps", "swraps", "append"}

\* The inductive invariant.  The mapping shows the ROM from its selection on, and the
\* position, the ports and wrappers read so far and the list agree about how far the
\* reader is: at every one of its program points, in every round of its loops.
ListType ==
  /\ num \in Nat /\ pos \in Nat /\ left \in Nat
  /\ core \in Listing
  /\ cores \in Seq([index : Nat, addresses : Seq(Types), wrappers : Seq(Types)])
EromShown ==
  /\ pc # "elsewhere"
  /\ pc \in {"base", "erom"} => window = "chipcommon"
  /\ pc \in Reading \cup {"raw"} => window = "erom"
ReaderInv ==
  LET i == num + 1
      c == rom[i]
  IN /\ pc \in Before => num = 0 /\ cores = <<>>
     /\ pc \in Reading => Collected(rom, cores, num)
     /\ pc \in {"is_end", "get_ci"} => Between(rom, num, pos)
     /\ pc = "get_ci" => Entries(rom)[pos + 1].tag # "end"
     /\ pc = "skip" => num < Len(rom) /\ ~Kept(c) /\ pos = Base(rom, i) + 2
     /\ pc \in Grouping => Taking(rom, num, cib)
     /\ pc = "slaves" => AtGroup(rom, i, pos, core, left, 0, Slaves(c), c.nsp)
     /\ pc = "mwraps" => AtGroup(rom, i, pos, core, left, Slaves(c), Masters(c), Len(c.mwraps))
     /\ pc = "swraps" => AtGroup(rom, i, pos, core, left, Masters(c), Len(Descs(c)), Len(c.swraps))
     /\ pc = "append" => (pos = Base(rom, i + 1) /\ core = ReadSoFar(c, Len(Descs(c)))) \/ Astray(rom, i, pos, core)
     /\ pc \in {"finished", "save"} \/ saved => Collected(rom, cores, Len(rom))
     /\ saved => pc = "done"
ListInv == rom \in Seq(Component) /\ (Followed => ListType /\ EromShown /\ ReaderInv)

\* The words of the ROM are words; a descriptor's are its own and its extra ones.
WordSet == [tag : Tags, id : {"core", "arm default"}, nmp : Nat, nsp : Nat, nmw : Nat, nsw : Nat, type : Types, more : Nat]
AnyDesc == [type : Types, extra : Seq(Tags)]

LEMMA WordIsWord == \A t \in Tags : Word(t) \in WordSet /\ Word(t).tag = t
BY DEF Word, WordSet, Tags, Types

LEMMA DescWordsAre ==
  ASSUME NEW d \in AnyDesc
  PROVE  /\ DescWords(d) \in Seq(WordSet) /\ Len(DescWords(d)) = 1 + Len(d.extra)
         /\ DescWords(d)[1] = [Word("addr") EXCEPT !.type = d.type, !.more = Len(d.extra)]
         /\ \A k \in DOMAIN d.extra : DescWords(d)[1 + k] = Word(d.extra[k])
<1> DEFINE a == [Word("addr") EXCEPT !.type = d.type, !.more = Len(d.extra)]
           x == [k \in DOMAIN d.extra |-> Word(d.extra[k])]
<1>1. d.extra \in Seq(Tags) /\ d.type \in Types /\ Len(d.extra) \in Nat /\ DOMAIN d.extra = 1 .. Len(d.extra)
  BY DEF AnyDesc
<1>2. a \in WordSet
  BY <1>1 DEF Word, WordSet, Tags, Types
<1>3. x \in Seq(WordSet) /\ Len(x) = Len(d.extra)
  <2>1. \A k \in 1 .. Len(d.extra) : d.extra[k] \in Tags
    BY <1>1
  <2>2. \A k \in 1 .. Len(d.extra) : Word(d.extra[k]) \in WordSet
    BY <2>1, WordIsWord
  <2> QED
    BY <1>1, <2>2
<1>4. \A k \in DOMAIN d.extra : x[k] = Word(d.extra[k])
  OBVIOUS
<1>5. DescWords(d) = <<a>> \o x
  BY DEF DescWords
<1> HIDE DEF a, x
<1>6. <<a>> \in Seq(WordSet) /\ Len(<<a>>) = 1
  BY <1>2
<1>7. \A k \in 1 .. Len(x) : (<<a>> \o x)[1 + k] = x[k]
  BY <1>3, <1>6
<1>8. (<<a>> \o x)[1] = a /\ Len(<<a>> \o x) = 1 + Len(x) /\ <<a>> \o x \in Seq(WordSet)
  BY <1>3, <1>6
<1> QED
  BY <1>1, <1>3, <1>4, <1>5, <1>7, <1>8 DEF a

\* The descriptors of a component, by group.
LEMMA ComponentDescs ==
  ASSUME NEW c \in Component
  PROVE  /\ Descs(c) \in Seq(AnyDesc) /\ Len(Descs(c)) = Len(c.slaves) + Len(c.mwraps) + Len(c.swraps)
         /\ Len(c.slaves) \in Nat /\ Len(c.mwraps) \in Nat /\ Len(c.swraps) \in Nat
         /\ \A j \in 1 .. Len(c.slaves) : Descs(c)[j] = c.slaves[j] /\ c.slaves[j] \in AnyDesc /\ c.slaves[j].type \in {"slave", "bridge"}
         /\ \A j \in 1 .. Len(c.mwraps) : Descs(c)[Len(c.slaves) + j] = c.mwraps[j] /\ c.mwraps[j] \in AnyDesc /\ c.mwraps[j].type = "mwrap"
         /\ \A j \in 1 .. Len(c.swraps) : Descs(c)[Len(c.slaves) + Len(c.mwraps) + j] = c.swraps[j] /\ c.swraps[j] \in AnyDesc /\ c.swraps[j].type = "swrap"
<1>1. \A S : S \subseteq Types => [type : S, extra : Seq(Tags)] \subseteq AnyDesc
  BY DEF AnyDesc
<1>2. c.slaves \in Seq([type : {"slave", "bridge"}, extra : Seq(Tags)]) /\ c.mwraps \in Seq([type : {"mwrap"}, extra : Seq(Tags)])
      /\ c.swraps \in Seq([type : {"swrap"}, extra : Seq(Tags)])
  BY DEF Component, Descriptors
<1>3. {"slave", "bridge"} \subseteq Types /\ {"mwrap"} \subseteq Types /\ {"swrap"} \subseteq Types
  BY DEF Types
<1>4. ASSUME NEW S \in SUBSET Types, NEW s \in Seq([type : S, extra : Seq(Tags)])
      PROVE  s \in Seq(AnyDesc) /\ Len(s) \in Nat /\ \A j \in 1 .. Len(s) : s[j] \in AnyDesc /\ s[j].type \in S
  <2> DEFINE R == [type : S, extra : Seq(Tags)]
  <2>0. R \subseteq AnyDesc /\ \A d \in R : d.type \in S
    BY <1>1
  <2>1. s \in Seq(R)
    BY <1>4
  <2> HIDE DEF R
  <2>2. Len(s) \in Nat /\ \A j \in 1 .. Len(s) : s[j] \in R
    BY <2>1, SeqFacts
  <2>3. \A j \in 1 .. Len(s) : s[j] \in AnyDesc /\ s[j].type \in S
    BY <2>0, <2>2
  <2>4. s \in Seq(AnyDesc)
    BY <2>1, <2>3, SeqTyped
  <2> QED
    BY <2>2, <2>3, <2>4
<1>5. c.slaves \in Seq(AnyDesc) /\ Len(c.slaves) \in Nat /\ \A j \in 1 .. Len(c.slaves) : c.slaves[j] \in AnyDesc /\ c.slaves[j].type \in {"slave", "bridge"}
  BY <1>2, <1>3, <1>4
<1>6. c.mwraps \in Seq(AnyDesc) /\ Len(c.mwraps) \in Nat /\ \A j \in 1 .. Len(c.mwraps) : c.mwraps[j] \in AnyDesc /\ c.mwraps[j].type = "mwrap"
  <2>1. c.mwraps \in Seq(AnyDesc) /\ Len(c.mwraps) \in Nat /\ \A j \in 1 .. Len(c.mwraps) : c.mwraps[j] \in AnyDesc /\ c.mwraps[j].type \in {"mwrap"}
    BY <1>2, <1>3, <1>4
  <2> QED
    BY <2>1
<1>7. c.swraps \in Seq(AnyDesc) /\ Len(c.swraps) \in Nat /\ \A j \in 1 .. Len(c.swraps) : c.swraps[j] \in AnyDesc /\ c.swraps[j].type = "swrap"
  <2>1. c.swraps \in Seq(AnyDesc) /\ Len(c.swraps) \in Nat /\ \A j \in 1 .. Len(c.swraps) : c.swraps[j] \in AnyDesc /\ c.swraps[j].type \in {"swrap"}
    BY <1>2, <1>3, <1>4
  <2> QED
    BY <2>1
<1> DEFINE u == c.slaves \o c.mwraps
<1>8. u \in Seq(AnyDesc) /\ Joined(u, c.slaves, c.mwraps)
  BY <1>5, <1>6, ConcatFacts
<1>11. Descs(c) = u \o c.swraps
  BY DEF Descs
<1> HIDE DEF u
<1>12. Descs(c) \in Seq(AnyDesc) /\ Joined(Descs(c), u, c.swraps)
  BY <1>7, <1>8, <1>11, ConcatFacts
<1>17. \A x, y \in Nat : (\A j \in 1 .. x : j \in 1 .. x + y) /\ (\A j \in 1 .. y : x + j \in 1 .. x + y)
  OBVIOUS
<1>15. \A j \in 1 .. Len(c.slaves) : j \in 1 .. Len(u)
  BY <1>8, <1>17 DEF Joined
<1>16. \A j \in 1 .. Len(c.mwraps) : Len(c.slaves) + j \in 1 .. Len(u)
  BY <1>8, <1>17 DEF Joined
<1>18. Len(u) = Len(c.slaves) + Len(c.mwraps) /\ Len(Descs(c)) = Len(u) + Len(c.swraps)
  BY <1>8, <1>12 DEF Joined
<1>19. \A j \in 1 .. Len(c.slaves) : Descs(c)[j] = c.slaves[j]
  BY <1>8, <1>12, <1>15 DEF Joined
<1>20. \A j \in 1 .. Len(c.mwraps) : Descs(c)[Len(c.slaves) + j] = c.mwraps[j]
  BY <1>8, <1>12, <1>16 DEF Joined
<1>21. \A j \in 1 .. Len(c.swraps) : Descs(c)[Len(c.slaves) + Len(c.mwraps) + j] = c.swraps[j]
  BY <1>12, <1>18 DEF Joined
<1> QED
  BY <1>5, <1>6, <1>7, <1>12, <1>18, <1>19, <1>20, <1>21

\* The words of one component are laid out as the header of the ROM says,
LEMMA ComponentLayout ==
  ASSUME NEW c \in Component
  PROVE  /\ ComponentWords(c) \in Seq(WordSet)
         /\ \E at : ComponentLaid(c, ComponentWords(c), 0, Len(ComponentWords(c)), at)
<1> DEFINE ds == Descs(c)
           dd == [k \in DOMAIN Descs(c) |-> DescWords(Descs(c)[k])]
           f == FlattenSeq(dd)
           ci1 == [Word("ci") EXCEPT !.id = c.id]
           ci2 == [Word("ci") EXCEPT !.nmp = c.nmp, !.nsp = c.nsp, !.nmw = Len(c.mwraps), !.nsw = Len(c.swraps)]
           mp == [k \in 1 .. c.nmp |-> Word("mp")]
           h == <<ci1, ci2>> \o mp
           n == Len(Descs(c))
           w == ComponentWords(c)
<1>1. ds \in Seq(AnyDesc) /\ n \in Nat /\ DOMAIN ds = 1 .. n /\ \A j \in 1 .. n : ds[j] \in AnyDesc
  <2>1. ds \in Seq(AnyDesc)
    BY ComponentDescs
  <2> QED
    BY <2>1
<1>2. dd \in Seq(Seq(WordSet)) /\ Len(dd) = n /\ \A j \in 1 .. n : dd[j] = DescWords(ds[j])
  <2>1. \A j \in 1 .. n : DescWords(ds[j]) \in Seq(WordSet)
    BY <1>1, DescWordsAre
  <2>2. dd = [k \in 1 .. n |-> DescWords(ds[k])]
    BY <1>1
  <2> HIDE DEF dd, ds
  <2> QED
    BY <1>1, <2>1, <2>2
<1>3. f \in Seq(WordSet) /\ \E b : Lays(f, b, dd, n)
  <2> HIDE DEF dd
  <2> QED
    BY <1>2, FlattenLayout
<1>4. PICK b : Lays(f, b, dd, n)
  BY <1>3
<1>5. ci1 \in WordSet /\ ci2 \in WordSet /\ c.nmp \in Nat
  BY ComponentDescs DEF Component, Word, WordSet, Tags, Types
<1>6. mp \in Seq(WordSet) /\ Len(mp) = c.nmp
  BY <1>5, WordIsWord DEF Tags
<1>7. w = h \o f
  BY DEF ComponentWords
<1>8. h \in Seq(WordSet) /\ Len(h) = 2 + c.nmp /\ h[1] = ci1 /\ h[2] = ci2
  <2> HIDE DEF ci1, ci2, mp
  <2> QED
    BY <1>5, <1>6
<1>9. \A k \in 1 .. c.nmp : h[2 + k] = Word("mp")
  <2>1. \A k \in 1 .. c.nmp : mp[k] = Word("mp")
    OBVIOUS
  <2> HIDE DEF ci1, ci2, mp
  <2> QED
    BY <1>5, <1>6, <2>1
<1> HIDE DEF h, f, w, dd, ci1, ci2
<1> DEFINE hl == 2 + c.nmp
<1>20. hl \in Nat /\ hl = 2 + c.nmp
  BY <1>5
<1> HIDE DEF hl
<1>21. w \in Seq(WordSet) /\ Joined(w, h, f)
  BY <1>3, <1>7, <1>8, ConcatFacts
<1>10. w \in Seq(WordSet) /\ Len(w) = hl + Len(f) /\ Len(f) \in Nat
  BY <1>8, <1>20, <1>21 DEF Joined
<1>11. \A p \in 1 .. hl : w[p] = h[p]
  BY <1>8, <1>20, <1>21 DEF Joined
<1>12. \A p \in 1 .. Len(f) : w[hl + p] = f[p]
  BY <1>8, <1>20, <1>21 DEF Joined
<1> DEFINE at == [j \in 1 .. n + 1 |-> hl + b[j]]
<1>13. \A j \in 1 .. n + 1 : at[j] = hl + b[j] /\ b[j] \in Nat /\ b[j] <= Len(f)
  BY <1>4 DEF Lays
<1> HIDE DEF at
<1>14. w[0 + 1] = ci1 /\ w[0 + 2] = ci2
  <2>1. 1 \in 1 .. hl /\ 2 \in 1 .. hl
    BY <1>5, <1>20
  <2> QED
    BY <1>8, <1>11, <2>1
<1>15. at[1] = 0 + 2 + c.nmp /\ at[n + 1] = Len(w)
  <2>1. b[1] = 0 /\ b[n + 1] = Len(f) /\ 1 \in 1 .. n + 1 /\ n + 1 \in 1 .. n + 1
    BY <1>1, <1>4 DEF Lays
  <2> QED
    BY <1>5, <1>10, <1>13, <1>20, <2>1, SMTT(30)
<1>16. \A j \in 1 .. n + 1 : at[j] \in Nat /\ 0 + 2 + c.nmp <= at[j] /\ at[j] <= Len(w)
  <2> TAKE j \in 1 .. n + 1
  <2>1. at[j] = hl + b[j] /\ b[j] \in Nat /\ b[j] <= Len(f)
    BY <1>13
  <2>4. \A x, y, z \in Nat : y <= z => x + y \in Nat /\ x <= x + y /\ x + y <= x + z
    OBVIOUS
  <2>2. at[j] \in Nat /\ hl <= at[j] /\ at[j] <= Len(w)
    BY <1>10, <1>20, <2>1, <2>4
  <2>3. 0 + 2 + c.nmp = hl
    BY <1>5, <1>20
  <2> QED
    BY <2>2, <2>3
<1>17. ASSUME NEW j \in 1 .. n
       PROVE  /\ at[j + 1] = at[j] + 1 + Len(ds[j].extra)
              /\ w[at[j] + 1] = [Word("addr") EXCEPT !.type = ds[j].type, !.more = Len(ds[j].extra)]
              /\ \A k \in DOMAIN ds[j].extra : w[at[j] + 1 + k] = Word(ds[j].extra[k])
  <2>1. ds[j] \in AnyDesc /\ j \in 1 .. n + 1 /\ j + 1 \in 1 .. n + 1
    BY <1>1
  <2>2. Len(ds[j].extra) \in Nat /\ DOMAIN ds[j].extra = 1 .. Len(ds[j].extra)
    BY <2>1 DEF AnyDesc
  <2>3. Len(dd[j]) = 1 + Len(ds[j].extra) /\ b[j + 1] = b[j] + Len(dd[j])
    BY <1>2, <1>4, <2>1, DescWordsAre DEF Lays
  <2>4. \A k \in 1 .. Len(dd[j]) : f[b[j] + k] = dd[j][k]
    BY <1>4 DEF Lays
  <2>5. b[j] \in Nat /\ b[j + 1] \in Nat /\ b[j + 1] <= Len(f)
    BY <1>13, <2>1
  <2>6. ASSUME NEW k \in 1 .. Len(dd[j]) PROVE w[at[j] + k] = dd[j][k]
    <3>1. Len(dd[j]) \in Nat /\ k \in Nat /\ b[j] + Len(dd[j]) <= Len(f)
      BY <2>2, <2>3, <2>5
    <3>2. b[j] + k \in 1 .. Len(f)
      BY <1>10, <2>5, <3>1, Shifted
    <3>3. at[j] + k = hl + (b[j] + k)
      BY <1>13, <1>20, <2>1, <3>1, Add3, SMTT(30)
    <3> QED
      BY <1>12, <2>4, <3>2, <3>3
  <2>7. at[j] \in Nat /\ 1 \in 1 .. Len(dd[j])
    BY <1>16, <2>1, <2>2, <2>3
  <2>8. \A k \in DOMAIN ds[j].extra : 1 + k \in 1 .. Len(dd[j]) /\ at[j] + (1 + k) = at[j] + 1 + k
    <3>1. \A x, y \in Nat : \A k \in 1 .. x : 1 + k \in 1 .. 1 + x /\ y + (1 + k) = y + 1 + k
      OBVIOUS
    <3> QED
      BY <2>2, <2>3, <2>7, <3>1
  <2>9. at[j + 1] = at[j] + 1 + Len(ds[j].extra)
    <3>1. \A x, y, z \in Nat : x + (y + (1 + z)) = x + y + 1 + z
      OBVIOUS
    <3>2. at[j] = hl + b[j] /\ at[j + 1] = hl + b[j + 1]
      BY <1>13, <2>1
    <3>3. b[j + 1] = b[j] + (1 + Len(ds[j].extra))
      BY <2>3
    <3>4. at[j + 1] = hl + (b[j] + (1 + Len(ds[j].extra)))
      BY <3>2, <3>3
    <3>5. hl + (b[j] + (1 + Len(ds[j].extra))) = hl + b[j] + 1 + Len(ds[j].extra)
      BY <1>20, <2>2, <2>5, <3>1, SMTT(30)
    <3> QED
      BY <3>2, <3>4, <3>5
  <2>10. dd[j][1] = [Word("addr") EXCEPT !.type = ds[j].type, !.more = Len(ds[j].extra)]
         /\ \A k \in DOMAIN ds[j].extra : dd[j][1 + k] = Word(ds[j].extra[k])
    BY <1>2, <2>1, DescWordsAre
  <2> QED
    BY <2>6, <2>7, <2>8, <2>9, <2>10
<1>18. ASSUME NEW p \in 0 + 2 .. Len(w) - 1
       PROVE  \/ w[p + 1].tag \in {"mp", "addr"}
              \/ \E j \in 1 .. n : \E k \in DOMAIN ds[j].extra : w[p + 1] = Word(ds[j].extra[k])
  <2>0. p \in Nat /\ 2 <= p /\ p < hl + Len(f)
    BY <1>10, <1>20
  <2>1. CASE p < hl
    <3>1. p - 1 \in 1 .. c.nmp /\ 2 + (p - 1) = p + 1 /\ p + 1 \in 1 .. hl
      BY <1>5, <1>20, <2>0, <2>1
    <3>2. w[p + 1] = Word("mp")
      BY <1>9, <1>11, <3>1
    <3> QED
      BY <3>2, WordIsWord DEF Tags
  <2>2. CASE ~(p < hl)
    <3> DEFINE q == p + 1 - hl
    <3>1. q \in 1 .. Len(f) /\ hl + q = p + 1
      BY <1>10, <1>20, <2>0, <2>2, SMTT(30)
    <3> HIDE DEF q
    <3>2. w[p + 1] = f[q]
      BY <1>12, <3>1
    <3>3. PICK j \in 1 .. n : \E k \in 1 .. Len(dd[j]) : q = b[j] + k
      BY <1>4, <3>1 DEF Lays
    <3>4. PICK k \in 1 .. Len(dd[j]) : q = b[j] + k
      BY <3>3
    <3>5. f[q] = dd[j][k]
      BY <1>4, <3>4 DEF Lays
    <3>6. ds[j] \in AnyDesc /\ dd[j] = DescWords(ds[j])
      BY <1>1, <1>2
    <3>7. Len(ds[j].extra) \in Nat /\ DOMAIN ds[j].extra = 1 .. Len(ds[j].extra) /\ ds[j].type \in Types
      BY <3>6 DEF AnyDesc
    <3>8. CASE k = 1
      <4>1. dd[j][k] = [Word("addr") EXCEPT !.type = ds[j].type, !.more = Len(ds[j].extra)]
        BY <3>6, <3>8, DescWordsAre
      <4>2. dd[j][k].tag = "addr"
        BY <4>1 DEF Word
      <4> QED
        BY <3>2, <3>5, <4>2
    <3>9. CASE k # 1
      <4>1. Len(dd[j]) = 1 + Len(ds[j].extra)
        BY <3>6, DescWordsAre
      <4>2. k - 1 \in DOMAIN ds[j].extra /\ 1 + (k - 1) = k
        BY <3>7, <3>9, <4>1
      <4>3. dd[j][1 + (k - 1)] = Word(ds[j].extra[k - 1])
        BY <3>6, <4>2, DescWordsAre
      <4>4. w[p + 1] = Word(ds[j].extra[k - 1])
        BY <3>2, <3>5, <4>2, <4>3
      <4> QED
        BY <4>2, <4>4
    <3> QED
      BY <3>8, <3>9
  <2> QED
    BY <2>1, <2>2
<1>19. ComponentLaid(c, w, 0, Len(w), at)
  <2>1. w[0 + 1] = [Word("ci") EXCEPT !.id = c.id]
        /\ w[0 + 2] = [Word("ci") EXCEPT !.nmp = c.nmp, !.nsp = c.nsp, !.nmw = Len(c.mwraps), !.nsw = Len(c.swraps)]
    BY <1>14 DEF ci1, ci2
  <2> HIDE DEF n, ds
  <2>2. \A j \in DOMAIN ds :
           LET d == ds[j]
           IN /\ at[j + 1] = at[j] + 1 + Len(d.extra)
              /\ w[at[j] + 1] = [Word("addr") EXCEPT !.type = d.type, !.more = Len(d.extra)]
              /\ \A k \in DOMAIN d.extra : w[at[j] + 1 + k] = Word(d.extra[k])
    BY <1>1, <1>17
  <2>3. \A p \in 0 + 2 .. Len(w) - 1 :
           \/ w[p + 1].tag \in {"mp", "addr"}
           \/ \E j \in DOMAIN ds : \E k \in DOMAIN ds[j].extra : w[p + 1] = Word(ds[j].extra[k])
    BY <1>1, <1>18
  <2> QED
    BY <1>15, <1>16, <2>1, <2>2, <2>3 DEF ComponentLaid, n, ds
<1> QED
  BY <1>10, <1>19 DEF w

\* also where they stand behind others,
LEMMA LaidShifted ==
  ASSUME NEW c \in Component, NEW cw \in Seq(WordSet), NEW at, ComponentLaid(c, cw, 0, Len(cw), at),
         NEW ws, NEW b \in Nat, \A k \in 1 .. Len(cw) : ws[b + k] = cw[k]
  PROVE  \E s : ComponentLaid(c, ws, b, b + Len(cw), s)
<1> DEFINE n == Len(Descs(c))
           s == [j \in 1 .. n + 1 |-> b + at[j]]
           m == Len(cw)
<1>1. n \in Nat /\ m \in Nat /\ c.nmp \in Nat /\ DOMAIN Descs(c) = 1 .. n /\ \A j \in 1 .. n : Descs(c)[j] \in AnyDesc
  <2>1. Descs(c) \in Seq(AnyDesc) /\ c.nmp \in Nat
    BY ComponentDescs DEF Component
  <2> QED
    BY <2>1, SeqFacts
<1>2. \A j \in 1 .. n + 1 : s[j] = b + at[j]
  OBVIOUS
<1>3. \A j \in 1 .. n + 1 : at[j] \in Nat /\ 2 + c.nmp <= at[j] /\ at[j] <= m
  <2>1. \A j \in 1 .. n + 1 : at[j] \in Nat /\ 0 + 2 + c.nmp <= at[j] /\ at[j] <= m
    BY DEF ComponentLaid
  <2>2. 0 + 2 + c.nmp = 2 + c.nmp
    BY <1>1
  <2> QED
    BY <2>1, <2>2
<1>4. at[1] = 2 + c.nmp /\ at[n + 1] = m /\ 1 \in 1 .. n + 1 /\ n + 1 \in 1 .. n + 1
  <2>1. at[1] = 0 + 2 + c.nmp /\ at[n + 1] = m
    BY DEF ComponentLaid
  <2> QED
    BY <1>1, <2>1
<1>5. cw[1] = [Word("ci") EXCEPT !.id = c.id]
      /\ cw[2] = [Word("ci") EXCEPT !.nmp = c.nmp, !.nsp = c.nsp, !.nmw = Len(c.mwraps), !.nsw = Len(c.swraps)]
  <2>1. 0 + 1 = 1 /\ 0 + 2 = 2
    OBVIOUS
  <2>2. cw[0 + 1] = [Word("ci") EXCEPT !.id = c.id]
        /\ cw[0 + 2] = [Word("ci") EXCEPT !.nmp = c.nmp, !.nsp = c.nsp, !.nmw = Len(c.mwraps), !.nsw = Len(c.swraps)]
    BY DEF ComponentLaid
  <2> QED
    BY <2>1, <2>2
<1>6. 1 \in 1 .. m /\ 2 \in 1 .. m
  BY <1>1, <1>3, <1>4
<1> HIDE DEF s, m
<1>7. ws[b + 1] = [Word("ci") EXCEPT !.id = c.id]
      /\ ws[b + 2] = [Word("ci") EXCEPT !.nmp = c.nmp, !.nsp = c.nsp, !.nmw = Len(c.mwraps), !.nsw = Len(c.swraps)]
  BY <1>5, <1>6 DEF m
<1> HIDE DEF n
<1>8. s[1] = b + 2 + c.nmp /\ s[n + 1] = b + m
  <2>1. s[1] = b + (2 + c.nmp) /\ s[n + 1] = b + m
    BY <1>2, <1>4
  <2>2. \A x \in Nat : b + (2 + x) = b + 2 + x
    OBVIOUS
  <2> QED
    BY <1>1, <2>1, <2>2
<1>9. \A j \in 1 .. n + 1 : s[j] \in Nat /\ b + 2 + c.nmp <= s[j] /\ s[j] <= b + m
  <2>1. \A x, y, z \in Nat : 2 + x <= y /\ y <= z => b + y \in Nat /\ b + 2 + x <= b + y /\ b + y <= b + z
    OBVIOUS
  <2>2. m \in Nat
    BY <1>1 DEF m
  <2> TAKE j \in 1 .. n + 1
  <2>3. s[j] = b + at[j] /\ at[j] \in Nat /\ 2 + c.nmp <= at[j] /\ at[j] <= m
    BY <1>2, <1>3 DEF m
  <2> QED
    BY <1>1, <2>1, <2>2, <2>3
<1>10. ASSUME NEW j \in 1 .. n
       PROVE  LET d == Descs(c)[j]
              IN /\ s[j + 1] = s[j] + 1 + Len(d.extra)
                 /\ ws[s[j] + 1] = [Word("addr") EXCEPT !.type = d.type, !.more = Len(d.extra)]
                 /\ \A k \in DOMAIN d.extra : ws[s[j] + 1 + k] = Word(d.extra[k])
  <2> DEFINE d == Descs(c)[j]
             x == Len(d.extra)
  <2>1. x \in Nat /\ DOMAIN d.extra = 1 .. x
    BY <1>1 DEF AnyDesc
  <2>2. j \in 1 .. n + 1 /\ j + 1 \in 1 .. n + 1
    BY <1>1
  <2>3. at[j + 1] = at[j] + 1 + x
        /\ cw[at[j] + 1] = [Word("addr") EXCEPT !.type = d.type, !.more = Len(d.extra)]
        /\ \A k \in DOMAIN d.extra : cw[at[j] + 1 + k] = Word(d.extra[k])
    BY <1>1 DEF ComponentLaid
  <2> HIDE DEF x
  <2>4. at[j] \in Nat /\ at[j] + 1 + x <= m
    BY <1>3, <2>2, <2>3
  <2>9. \A y, z, u \in Nat : y + 1 + z <= u => /\ y + 1 \in 1 .. u /\ b + (y + 1) = b + y + 1
                                                /\ \A k \in 1 .. z : y + 1 + k \in 1 .. u /\ b + (y + 1 + k) = b + y + 1 + k
    OBVIOUS
  <2>10. m \in Nat /\ x \in Nat /\ s[j] = b + at[j]
    BY <1>1, <1>2, <2>1, <2>2 DEF m, x
  <2>5. at[j] + 1 \in 1 .. m /\ \A k \in 1 .. x : at[j] + 1 + k \in 1 .. m
    BY <2>4, <2>9, <2>10
  <2>6. b + (at[j] + 1) = s[j] + 1 /\ \A k \in 1 .. x : b + (at[j] + 1 + k) = s[j] + 1 + k
    <3>1. b + (at[j] + 1) = b + at[j] + 1 /\ \A k \in 1 .. x : b + (at[j] + 1 + k) = b + at[j] + 1 + k
      BY <2>4, <2>9, <2>10
    <3> QED
      BY <2>10, <3>1
  <2>7. s[j + 1] = s[j] + 1 + x
    <3>1. s[j + 1] = b + (at[j] + 1 + x)
      BY <1>2, <2>2, <2>3 DEF x
    <3>2. \A u, v, z \in Nat : u + (v + 1 + z) = u + v + 1 + z
      OBVIOUS
    <3>3. b + (at[j] + 1 + x) = b + at[j] + 1 + x
      BY <2>4, <2>10, <3>2
    <3> QED
      BY <2>10, <3>1, <3>3
  <2>8. ws[s[j] + 1] = cw[at[j] + 1] /\ \A k \in 1 .. x : ws[s[j] + 1 + k] = cw[at[j] + 1 + k]
    BY <2>5, <2>6 DEF m
  <2> QED
    BY <2>1, <2>3, <2>7, <2>8 DEF x
<1>11. ASSUME NEW p \in b + 2 .. (b + m) - 1
       PROVE  \/ ws[p + 1].tag \in {"mp", "addr"}
              \/ \E j \in DOMAIN Descs(c) : \E k \in DOMAIN Descs(c)[j].extra : ws[p + 1] = Word(Descs(c)[j].extra[k])
  <2>1. p - b \in 0 + 2 .. m - 1 /\ (p - b) + 1 \in 1 .. m /\ b + ((p - b) + 1) = p + 1
    BY <1>1 DEF m
  <2>2. ws[p + 1] = cw[(p - b) + 1]
    BY <2>1 DEF m
  <2>3. \/ cw[(p - b) + 1].tag \in {"mp", "addr"}
        \/ \E j \in DOMAIN Descs(c) : \E k \in DOMAIN Descs(c)[j].extra : cw[(p - b) + 1] = Word(Descs(c)[j].extra[k])
    BY <2>1 DEF ComponentLaid, m
  <2> QED
    BY <2>2, <2>3
<1>12. ComponentLaid(c, ws, b, b + m, s)
  <2>1. \A j \in DOMAIN Descs(c) :
              LET d == Descs(c)[j]
              IN /\ s[j + 1] = s[j] + 1 + Len(d.extra)
                 /\ ws[s[j] + 1] = [Word("addr") EXCEPT !.type = d.type, !.more = Len(d.extra)]
                 /\ \A k \in DOMAIN d.extra : ws[s[j] + 1 + k] = Word(d.extra[k])
    BY <1>1, <1>10
  <2> QED
    <3> DEFINE e == b + m
    <3>1. s[1] = b + 2 + c.nmp /\ s[Len(Descs(c)) + 1] = e
      BY <1>8 DEF n
    <3>2. \A j \in 1 .. Len(Descs(c)) + 1 : s[j] \in Nat /\ b + 2 + c.nmp <= s[j] /\ s[j] <= e
      BY <1>9 DEF n
    <3>3. \A p \in b + 2 .. e - 1 :
              \/ ws[p + 1].tag \in {"mp", "addr"}
              \/ \E j \in DOMAIN Descs(c) : \E k \in DOMAIN Descs(c)[j].extra : ws[p + 1] = Word(Descs(c)[j].extra[k])
      BY <1>11
    <3> HIDE DEF e
    <3>4. ComponentLaid(c, ws, b, e, s)
      BY <1>7, <3>1, <3>2, <2>1, <3>3 DEF ComponentLaid
    <3> QED
      BY <3>4 DEF e
<1> QED
  BY <1>12 DEF m

\* and so is the whole ROM, by the layout of FlattenSeq.
LEMMA RomLayout ==
  ASSUME NEW r \in Seq(Component)
  PROVE  Entries(r) \in Seq(WordSet) /\ IsLayout(r, Layout(r))
<1> DEFINE cc == [k \in DOMAIN r |-> ComponentWords(r[k])]
           f == FlattenSeq(cc)
           n == Len(r)
           ws == Entries(r)
<1>1. n \in Nat /\ DOMAIN r = 1 .. n /\ \A i \in 1 .. n : r[i] \in Component
  BY SeqFacts
<1>2. cc \in Seq(Seq(WordSet)) /\ Len(cc) = n /\ \A i \in 1 .. n : cc[i] = ComponentWords(r[i]) /\ cc[i] \in Seq(WordSet)
  <2>1. \A i \in 1 .. n : ComponentWords(r[i]) \in Seq(WordSet)
    BY <1>1, ComponentLayout
  <2>2. cc = [k \in 1 .. n |-> ComponentWords(r[k])]
    BY <1>1
  <2> HIDE DEF cc
  <2> QED
    BY <1>1, <2>1, <2>2
<1>3. f \in Seq(WordSet) /\ \E b : Lays(f, b, cc, n)
  <2> HIDE DEF cc
  <2> QED
    BY <1>2, FlattenLayout
<1>4. PICK b : Lays(f, b, cc, n)
  BY <1>3
<1>5. ws = f \o <<Word("end")>>
  BY DEF Entries
<1> HIDE DEF f, ws, cc
<1>6. <<Word("end")>> \in Seq(WordSet) /\ Len(<<Word("end")>>) = 1
  BY WordIsWord DEF Tags
<1>7. ws \in Seq(WordSet) /\ Joined(ws, f, <<Word("end")>>)
  BY <1>3, <1>5, <1>6, ConcatFacts
<1>8. Len(f) \in Nat /\ Len(ws) = Len(f) + 1 /\ ws[Len(ws)] = Word("end") /\ \A p \in 1 .. Len(f) : ws[p] = f[p]
  BY <1>6, <1>7 DEF Joined
<1> DEFINE Spots(i) == CHOOSE at : ComponentLaid(r[i], ws, b[i], b[i + 1], at)
           L == [base |-> b, at |-> [i \in DOMAIN r |-> Spots(i)]]
<1>9. ASSUME NEW i \in 1 .. n PROVE ComponentLaid(r[i], ws, b[i], b[i + 1], Spots(i))
  <2>1. r[i] \in Component /\ cc[i] = ComponentWords(r[i]) /\ cc[i] \in Seq(WordSet)
    BY <1>1, <1>2
  <2>2. PICK at : ComponentLaid(r[i], cc[i], 0, Len(cc[i]), at)
    BY <2>1, ComponentLayout
  <2>3. b[i] \in Nat /\ b[i + 1] = b[i] + Len(cc[i]) /\ b[i + 1] <= Len(f) /\ Len(cc[i]) \in Nat
    <3>1. i \in 1 .. n + 1 /\ i + 1 \in 1 .. n + 1
      BY <1>1
    <3> QED
      BY <1>4, <2>1, <3>1, SeqFacts DEF Lays
  <2>4. ASSUME NEW k \in 1 .. Len(cc[i]) PROVE ws[b[i] + k] = cc[i][k]
    <3>1. b[i] + k \in 1 .. Len(f)
      BY <1>8, <2>3, Shifted
    <3>2. f[b[i] + k] = cc[i][k]
      BY <1>4 DEF Lays
    <3> QED
      BY <1>8, <3>1, <3>2
  <2>5. \E s : ComponentLaid(r[i], ws, b[i], b[i] + Len(cc[i]), s)
    BY <2>1, <2>2, <2>3, <2>4, LaidShifted
  <2> QED
    BY <2>3, <2>5
<1> HIDE DEF Spots
<1>10. L.base = b /\ \A i \in DOMAIN r : L.at[i] = Spots(i)
  OBVIOUS
<1> HIDE DEF L
<1>11. IsLayout(r, L)
  <2>1. b[1] = 0 /\ b[n + 1] = Len(f) /\ \A i \in 1 .. n + 1 : b[i] \in Nat /\ b[i] <= Len(f)
    BY <1>4 DEF Lays
  <2>2. \A i \in 1 .. n + 1 : b[i] \in Nat /\ b[i] < Len(ws)
    BY <1>8, <2>1
  <2> QED
    BY <1>1, <1>8, <1>9, <1>10, <2>1, <2>2 DEF IsLayout, ws
<1> QED
  BY <1>7, <1>11 DEF Layout, ws

\* The layout, as the steps of the reader use it: of the list,
LEMMA LayoutFacts ==
  ASSUME NEW r \in Seq(Component)
  PROVE  /\ Len(r) \in Nat /\ DOMAIN r = 1 .. Len(r) /\ Base(r, 1) = 0
         /\ Entries(r) \in Seq(WordSet) /\ Len(Entries(r)) \in Nat
         /\ Entries(r)[Base(r, Len(r) + 1) + 1].tag = "end"
         /\ \A i \in 1 .. Len(r) + 1 : Base(r, i) \in Nat /\ Base(r, i) < Len(Entries(r))
         /\ \A i \in 1 .. Len(r) : r[i] \in Component /\ ComponentLaid(r[i], Entries(r), Base(r, i), Base(r, i + 1), Layout(r).at[i])
<1>1. IsLayout(r, Layout(r)) /\ Entries(r) \in Seq(WordSet)
  BY RomLayout
<1>2. Len(r) \in Nat /\ DOMAIN r = 1 .. Len(r) /\ \A i \in 1 .. Len(r) : r[i] \in Component
  BY SeqFacts
<1>3. Len(Entries(r)) \in Nat
  BY <1>1, SeqFacts
<1>4. Base(r, Len(r) + 1) \in Nat /\ Len(Entries(r)) = Base(r, Len(r) + 1) + 1 /\ Entries(r)[Len(Entries(r))] = Word("end")
  BY <1>1, <1>2 DEF IsLayout, Base
<1>5. Entries(r)[Base(r, Len(r) + 1) + 1].tag = "end"
  BY <1>4, WordIsWord DEF Tags
<1> QED
  BY <1>1, <1>2, <1>3, <1>5 DEF IsLayout, Base

\* of the head of a component,
LEMMA HeadFacts ==
  ASSUME NEW r \in Seq(Component), NEW i \in 1 .. Len(r)
  PROVE  /\ r[i] \in Component /\ Base(r, i) \in Nat /\ Base(r, i + 1) \in Nat /\ i + 1 \in 1 .. Len(r) + 1
         /\ Base(r, i) + 2 + r[i].nmp <= Base(r, i + 1)
         /\ Entries(r)[Base(r, i) + 1].tag = "ci" /\ Entries(r)[Base(r, i) + 1].id = r[i].id
         /\ Entries(r)[Base(r, i) + 2].nmp = r[i].nmp /\ Entries(r)[Base(r, i) + 2].nsp = r[i].nsp
         /\ Entries(r)[Base(r, i) + 2].nmw = Len(r[i].mwraps) /\ Entries(r)[Base(r, i) + 2].nsw = Len(r[i].swraps)
         /\ Base(r, i + 1) < Len(Entries(r))
         /\ Entries(r)[Base(r, i + 1) + 1].tag \in {"ci", "end"}
<1>1. Len(r) \in Nat /\ i \in 1 .. Len(r) + 1 /\ i + 1 \in 1 .. Len(r) + 1
  BY LayoutFacts
<1> DEFINE c == r[i]
           b == Base(r, i)
           e == Base(r, i + 1)
           at == Layout(r).at[i]
           n == Len(Descs(r[i]))
<1>2. c \in Component /\ ComponentLaid(c, Entries(r), b, e, at)
  BY LayoutFacts
<1>3. n \in Nat /\ c.nmp \in Nat
  <2>1. Descs(c) \in Seq(AnyDesc) /\ c.nmp \in Nat
    BY <1>2, ComponentDescs DEF Component
  <2> QED
    BY <2>1, SeqFacts
<1>4. b \in Nat /\ e \in Nat /\ e < Len(Entries(r))
  BY <1>1, LayoutFacts
<1>5. b + 2 + c.nmp <= e
  <2>1. n + 1 \in 1 .. n + 1 /\ at[n + 1] = e
    <3>1. at[n + 1] = e
      BY <1>2 DEF ComponentLaid
    <3> QED
      BY <1>3, <3>1
  <2> HIDE DEF n
  <2>2. \A j \in 1 .. n + 1 : b + 2 + c.nmp <= at[j]
    BY <1>2 DEF ComponentLaid, n
  <2> QED
    BY <2>1, <2>2
<1>6. Entries(r)[b + 1] = [Word("ci") EXCEPT !.id = c.id]
      /\ Entries(r)[b + 2] = [Word("ci") EXCEPT !.nmp = c.nmp, !.nsp = c.nsp, !.nmw = Len(c.mwraps), !.nsw = Len(c.swraps)]
  BY <1>2 DEF ComponentLaid
<1>7. Entries(r)[b + 1].tag = "ci" /\ Entries(r)[b + 1].id = c.id /\ Entries(r)[b + 2].nmp = c.nmp
      /\ Entries(r)[b + 2].nsp = c.nsp /\ Entries(r)[b + 2].nmw = Len(c.mwraps) /\ Entries(r)[b + 2].nsw = Len(c.swraps)
  BY <1>6 DEF Word
<1>8. Entries(r)[e + 1].tag \in {"ci", "end"}
  <2>1. CASE i = Len(r)
    BY <2>1, LayoutFacts
  <2>2. CASE i # Len(r)
    <3>1. i + 1 \in 1 .. Len(r)
      BY <1>1, <2>2
    <3>2. ComponentLaid(r[i + 1], Entries(r), e, Base(r, i + 1 + 1), Layout(r).at[i + 1])
      BY <3>1, LayoutFacts
    <3>3. Entries(r)[e + 1] = [Word("ci") EXCEPT !.id = r[i + 1].id]
      BY <3>2 DEF ComponentLaid
    <3> QED
      BY <3>3 DEF Word
  <2> QED
    BY <2>1, <2>2
<1> QED
  BY <1>1, <1>2, <1>4, <1>5, <1>7, <1>8

\* of the places of its descriptors,
LEMMA PlaceFacts ==
  ASSUME NEW r \in Seq(Component), NEW i \in 1 .. Len(r)
  PROVE  /\ Descs(r[i]) \in Seq(AnyDesc) /\ Len(Descs(r[i])) \in Nat
         /\ Place(r, i, 1) = Base(r, i) + 2 + r[i].nmp /\ Place(r, i, Len(Descs(r[i])) + 1) = Base(r, i + 1)
         /\ \A t \in 1 .. Len(Descs(r[i])) + 1 :
              Place(r, i, t) \in Nat /\ Base(r, i) + 2 + r[i].nmp <= Place(r, i, t) /\ Place(r, i, t) <= Base(r, i + 1)
<1>1. r[i] \in Component /\ ComponentLaid(r[i], Entries(r), Base(r, i), Base(r, i + 1), Layout(r).at[i])
  BY LayoutFacts
<1>2. Descs(r[i]) \in Seq(AnyDesc) /\ Len(Descs(r[i])) \in Nat
  BY <1>1, ComponentDescs, SeqFacts
<1> QED
  BY <1>1, <1>2 DEF ComponentLaid, Place

\* of one descriptor,
DescStands(r, i, t) ==
  LET d == Descs(r[i])[t]
      p == Place(r, i, t)
  IN /\ d \in AnyDesc /\ Len(d.extra) \in Nat /\ DOMAIN d.extra = 1 .. Len(d.extra)
     /\ p \in Nat /\ Place(r, i, t + 1) = p + 1 + Len(d.extra)
     /\ Place(r, i, t + 1) <= Base(r, i + 1) /\ Place(r, i, t + 1) \in Nat
     /\ Entries(r)[p + 1].tag = "addr" /\ Entries(r)[p + 1].type = d.type /\ Entries(r)[p + 1].more = Len(d.extra)
     /\ \A k \in 1 .. Len(d.extra) : Entries(r)[p + 1 + k].tag = d.extra[k]

LEMMA DescFacts ==
  ASSUME NEW r \in Seq(Component), NEW i \in 1 .. Len(r), NEW t \in 1 .. Len(Descs(r[i]))
  PROVE  DescStands(r, i, t)
<1> DEFINE c == r[i]
           d == Descs(r[i])[t]
           p == Place(r, i, t)
           n == Len(Descs(r[i]))
<1>1. c \in Component /\ ComponentLaid(c, Entries(r), Base(r, i), Base(r, i + 1), Layout(r).at[i])
  BY LayoutFacts
<1>2. Descs(c) \in Seq(AnyDesc) /\ n \in Nat /\ DOMAIN Descs(c) = 1 .. n
  <2>1. Descs(c) \in Seq(AnyDesc)
    BY <1>1, ComponentDescs
  <2> QED
    BY <2>1, SeqFacts
<1>3. d \in AnyDesc
  BY <1>2, SeqFacts
<1>4. d.extra \in Seq(Tags)
  BY <1>3 DEF AnyDesc
<1>5. Len(d.extra) \in Nat /\ DOMAIN d.extra = 1 .. Len(d.extra) /\ \A k \in 1 .. Len(d.extra) : d.extra[k] \in Tags
  BY <1>4, SeqFacts
<1>6. t \in 1 .. n + 1 /\ t + 1 \in 1 .. n + 1
  BY <1>2
<1>7. p \in Nat /\ Place(r, i, t + 1) <= Base(r, i + 1) /\ Place(r, i, t + 1) \in Nat
  BY <1>6, PlaceFacts
<1>8. /\ Place(r, i, t + 1) = p + 1 + Len(d.extra)
      /\ Entries(r)[p + 1] = [Word("addr") EXCEPT !.type = d.type, !.more = Len(d.extra)]
      /\ \A k \in DOMAIN d.extra : Entries(r)[p + 1 + k] = Word(d.extra[k])
  BY <1>1, <1>2 DEF ComponentLaid, Place
<1>9. Entries(r)[p + 1].tag = "addr" /\ Entries(r)[p + 1].type = d.type /\ Entries(r)[p + 1].more = Len(d.extra)
  BY <1>8 DEF Word
<1>10. \A k \in 1 .. Len(d.extra) : Entries(r)[p + 1 + k].tag = d.extra[k]
  BY <1>5, <1>8, WordIsWord
<1> QED
  BY <1>3, <1>5, <1>7, <1>8, <1>9, <1>10 DEF DescStands

\* and of the words inside a component without lookalikes: none stops a reader.
LEMMA QuietInside ==
  ASSUME NEW r \in Seq(Component), NEW i \in 1 .. Len(r), Quiet(r[i])
  PROVE  NoStop(r, Base(r, i) + 2, Base(r, i + 1))
<1> SUFFICES ASSUME NEW s \in Nat, Base(r, i) + 2 <= s, s < Base(r, i + 1)
             PROVE  Entries(r)[s + 1].tag \notin {"ci", "end"}
  BY DEF NoStop
<1>1. ComponentLaid(r[i], Entries(r), Base(r, i), Base(r, i + 1), Layout(r).at[i])
  BY LayoutFacts
<1>2. Base(r, i) \in Nat /\ Base(r, i + 1) \in Nat
  BY HeadFacts
<1>3. s \in Base(r, i) + 2 .. Base(r, i + 1) - 1
  BY <1>2
<1>4. \/ Entries(r)[s + 1].tag \in {"mp", "addr"}
      \/ \E j \in DOMAIN Descs(r[i]) : \E k \in DOMAIN Descs(r[i])[j].extra : Entries(r)[s + 1] = Word(Descs(r[i])[j].extra[k])
  BY <1>1, <1>3 DEF ComponentLaid
<1>5. \/ Entries(r)[s + 1].tag \in {"mp", "addr"}
      \/ Entries(r)[s + 1] = Word("invalid")
  BY <1>4 DEF Quiet
<1> QED
  BY <1>5, WordIsWord DEF Tags

\* Slaves and bridges come first, then master wrappers, then slave wrappers.
LEMMA GroupTypes ==
  ASSUME NEW c \in Component
  PROVE  /\ Slaves(c) \in Nat /\ Masters(c) \in Nat /\ Len(Descs(c)) \in Nat /\ Len(c.mwraps) \in Nat /\ Len(c.swraps) \in Nat
         /\ Masters(c) = Slaves(c) + Len(c.mwraps) /\ Len(Descs(c)) = Masters(c) + Len(c.swraps)
         /\ \A t \in 1 .. Slaves(c) : Descs(c)[t].type \in {"slave", "bridge"}
         /\ \A t \in Slaves(c) + 1 .. Masters(c) : Descs(c)[t].type = "mwrap"
         /\ \A t \in Masters(c) + 1 .. Len(Descs(c)) : Descs(c)[t].type = "swrap"
<1>1. Slaves(c) \in Nat /\ Len(c.mwraps) \in Nat /\ Len(c.swraps) \in Nat /\ Masters(c) = Slaves(c) + Len(c.mwraps)
      /\ Len(Descs(c)) = Masters(c) + Len(c.swraps)
  BY ComponentDescs DEF Slaves, Masters
<1>2. Masters(c) \in Nat /\ Len(Descs(c)) \in Nat
  BY <1>1
<1>3. \A t \in 1 .. Slaves(c) : Descs(c)[t].type \in {"slave", "bridge"}
  BY ComponentDescs DEF Slaves
<1>6. \A a, b \in Nat : \A t \in a + 1 .. a + b : \E j \in 1 .. b : t = a + j
  <2> SUFFICES ASSUME NEW a \in Nat, NEW b \in Nat, NEW t \in a + 1 .. a + b PROVE \E j \in 1 .. b : t = a + j
    OBVIOUS
  <2>1. t - a \in 1 .. b /\ t = a + (t - a)
    OBVIOUS
  <2> QED
    BY <2>1
<1>4. ASSUME NEW t \in Slaves(c) + 1 .. Masters(c) PROVE Descs(c)[t].type = "mwrap"
  <2>1. PICK j \in 1 .. Len(c.mwraps) : t = Slaves(c) + j
    <3>1. t \in Slaves(c) + 1 .. Slaves(c) + Len(c.mwraps)
      BY <1>1
    <3> QED
      BY <1>1, <1>6, <3>1, Zenon
  <2>2. Descs(c)[Len(c.slaves) + j] = c.mwraps[j] /\ c.mwraps[j].type = "mwrap"
    BY ComponentDescs
  <2> QED
    BY <2>1, <2>2 DEF Slaves
<1>5. ASSUME NEW t \in Masters(c) + 1 .. Len(Descs(c)) PROVE Descs(c)[t].type = "swrap"
  <2>1. PICK j \in 1 .. Len(c.swraps) : t = Masters(c) + j
    <3>1. t \in Masters(c) + 1 .. Masters(c) + Len(c.swraps)
      BY <1>1
    <3> QED
      BY <1>1, <1>2, <1>6, <3>1, Zenon
  <2>2. Descs(c)[Len(c.slaves) + Len(c.mwraps) + j] = c.swraps[j] /\ c.swraps[j].type = "swrap"
    BY ComponentDescs
  <2> QED
    BY <2>1, <2>2 DEF Masters
<1> QED
  BY <1>1, <1>2, <1>3, <1>4, <1>5

-----------------------------------------------------------------------------
\* What the reader has read of a component, and one round of its loops.

\* The two halves of ReadSoFar's count.
LEMMA Cut ==
  \A t, n \in Nat : /\ t < n => (IF t < n THEN t ELSE n) = t /\ (IF t < n THEN 0 ELSE t - n) = 0
                    /\ n <= t => (IF t < n THEN t ELSE n) = n /\ (IF t < n THEN 0 ELSE t - n) = t - n /\ t - n \in Nat
OBVIOUS

LEMMA CutRange ==
  \A t, n, m \in Nat :
    n <= m /\ t <= m => /\ (IF t < n THEN t ELSE n) \in Nat /\ (IF t < n THEN 0 ELSE t - n) \in Nat
                        /\ \A k \in 1 .. (IF t < n THEN t ELSE n) : k \in 1 .. m
                        /\ \A k \in 1 .. (IF t < n THEN 0 ELSE t - n) : n + k \in 1 .. m
<1> SUFFICES ASSUME NEW t \in Nat, NEW n \in Nat, NEW m \in Nat, n <= m, t <= m
    PROVE /\ (IF t < n THEN t ELSE n) \in Nat /\ (IF t < n THEN 0 ELSE t - n) \in Nat
          /\ \A k \in 1 .. (IF t < n THEN t ELSE n) : k \in 1 .. m
          /\ \A k \in 1 .. (IF t < n THEN 0 ELSE t - n) : n + k \in 1 .. m
  OBVIOUS
<1>1. CASE t < n
  BY <1>1
<1>2. CASE n <= t
  <2>1. t - n \in Nat /\ \A k \in 1 .. t - n : n + k \in 1 .. m
    BY <1>2
  <2> QED
    BY <1>2, <2>1, Cut
<1> QED
  BY <1>1, <1>2

\* What has been read is a listing; behind the slaves its addresses are complete, behind
\* all descriptors its wrappers are.
LEMMA ReadFacts ==
  ASSUME NEW c \in Component, NEW t \in 0 .. Len(Descs(c))
  PROVE  /\ ReadSoFar(c, t) \in Listing
         /\ t >= Slaves(c) => ReadSoFar(c, t).addresses = TypesOf(c.slaves)
         /\ t = Len(Descs(c)) => ReadSoFar(c, t).wrappers = TypesOf(c.mwraps) \o TypesOf(c.swraps)
<1> DEFINE n == Len(c.slaves)
           x == IF t < n THEN t ELSE n
           y == IF t < n THEN 0 ELSE t - n
<1>1. Descs(c) \in Seq(AnyDesc) /\ n \in Nat /\ Len(c.mwraps) \in Nat /\ Len(c.swraps) \in Nat
      /\ Len(Descs(c)) = n + Len(c.mwraps) + Len(c.swraps)
  BY ComponentDescs
<1>2. \A k \in 1 .. Len(Descs(c)) : Descs(c)[k].type \in Types
  <2>1. \A k \in 1 .. Len(Descs(c)) : Descs(c)[k] \in AnyDesc
    BY <1>1, SeqFacts
  <2> QED
    BY <2>1 DEF AnyDesc
<1>3. x \in Nat /\ y \in Nat /\ (\A k \in 1 .. x : k \in 1 .. Len(Descs(c))) /\ (\A k \in 1 .. y : n + k \in 1 .. Len(Descs(c)))
  <2>1. \A p, q, s \in Nat : p <= p + q + s /\ p + q + s \in Nat
    OBVIOUS
  <2>2. n \in Nat /\ Len(Descs(c)) \in Nat /\ n <= Len(Descs(c)) /\ t \in Nat /\ t <= Len(Descs(c))
    <3> DEFINE u == Len(Descs(c))
               v == Len(c.mwraps)
               z == Len(c.swraps)
    <3>1. n \in Nat /\ v \in Nat /\ z \in Nat /\ u = n + v + z /\ t \in 0 .. u
      BY <1>1
    <3> HIDE DEF n, u, v, z
    <3>2. n \in Nat /\ u \in Nat /\ n <= u /\ t \in Nat /\ t <= u
      BY <3>1
    <3> QED
      BY <3>2 DEF u
  <2> HIDE DEF n
  <2> QED
    BY <2>2, CutRange
<1>4. ReadSoFar(c, t) = [addresses |-> [k \in 1 .. x |-> Descs(c)[k].type], wrappers |-> [k \in 1 .. y |-> Descs(c)[n + k].type]]
  BY DEF ReadSoFar
<1>5. ReadSoFar(c, t) \in Listing
  <2> HIDE DEF x, y, n
  <2>1. [k \in 1 .. x |-> Descs(c)[k].type] \in Seq(Types) /\ [k \in 1 .. y |-> Descs(c)[n + k].type] \in Seq(Types)
    BY <1>2, <1>3
  <2> QED
    BY <1>4, <2>1 DEF Listing
<1>6. ASSUME t >= n PROVE ReadSoFar(c, t).addresses = TypesOf(c.slaves)
  <2>1. x = n
    BY <1>1, <1>6
  <2>2. c.slaves \in Seq([type : {"slave", "bridge"}, extra : Seq(Tags)])
    BY DEF Component, Descriptors
  <2>3. DOMAIN c.slaves = 1 .. n /\ \A k \in 1 .. n : Descs(c)[k] = c.slaves[k]
    <3>1. DOMAIN c.slaves = 1 .. n
      BY <2>2, SeqFacts
    <3> QED
      BY <3>1, ComponentDescs
  <2>4. ReadSoFar(c, t).addresses = [k \in 1 .. n |-> Descs(c)[k].type]
    BY <1>4, <2>1
  <2> QED
    BY <2>3, <2>4 DEF TypesOf
<1>7. ASSUME t = Len(Descs(c)) PROVE ReadSoFar(c, t).wrappers = TypesOf(c.mwraps) \o TypesOf(c.swraps)
  <2> DEFINE m == Len(c.mwraps)
             s == Len(c.swraps)
             a == TypesOf(c.mwraps)
             b == TypesOf(c.swraps)
  <2>1. y = m + s /\ m \in Nat /\ s \in Nat
    <3>1. \A p, q, z \in Nat : p <= p + q + z /\ p + q + z \in Nat /\ (p + q + z) - p = q + z
      OBVIOUS
    <3>3. n \in Nat /\ m \in Nat /\ s \in Nat /\ t = n + m + s
      BY <1>1, <1>7
    <3> HIDE DEF n, m, s
    <3>2. n <= t /\ t - n = m + s /\ t \in Nat
      BY <3>1, <3>3
    <3> QED
      BY <3>2, <3>3, Cut
  <2>2. c.mwraps \in Seq([type : {"mwrap"}, extra : Seq(Tags)]) /\ c.swraps \in Seq([type : {"swrap"}, extra : Seq(Tags)])
    BY DEF Component, Descriptors
  <2>3. DOMAIN c.mwraps = 1 .. m /\ DOMAIN c.swraps = 1 .. s
    BY <2>2, SeqFacts
  <2>4. a = [k \in 1 .. m |-> c.mwraps[k].type] /\ b = [k \in 1 .. s |-> c.swraps[k].type]
    BY <2>3 DEF TypesOf
  <2>5. (\A k \in 1 .. m : c.mwraps[k].type = "mwrap") /\ (\A k \in 1 .. s : c.swraps[k].type = "swrap")
    BY ComponentDescs
  <2>6. a \in Seq(Types) /\ Len(a) = m /\ b \in Seq(Types) /\ Len(b) = s
    BY <2>1, <2>4, <2>5 DEF Types
  <2>7. a \o b \in Seq(Types) /\ Joined(a \o b, a, b)
    BY <2>6, ConcatFacts
  <2> DEFINE v == ReadSoFar(c, t).wrappers
  <2>8. v = [k \in 1 .. y |-> Descs(c)[n + k].type]
    BY <1>4
  <2>9. \A k \in 1 .. m : Descs(c)[n + k].type = a[k]
    <3>1. \A k \in 1 .. m : Descs(c)[n + k] = c.mwraps[k]
      BY ComponentDescs
    <3> QED
      BY <2>4, <3>1
  <2>10. \A k \in 1 .. s : Descs(c)[n + m + k].type = b[k]
    <3>1. \A k \in 1 .. s : Descs(c)[n + m + k] = c.swraps[k]
      BY ComponentDescs
    <3> QED
      BY <2>4, <3>1
  <2> HIDE DEF a, b, m, s, v, y, n
  <2>11. a \o b = [k \in 1 .. m + s |-> (a \o b)[k]]
    <3> DEFINE q == a \o b
    <3>1. q \in Seq(Types) /\ Len(q) = m + s
      BY <2>1, <2>6, <2>7 DEF Joined
    <3> HIDE DEF q
    <3>2. q = [k \in 1 .. m + s |-> q[k]]
      BY <3>1
    <3> QED
      BY <3>2 DEF q
  <2>12. ASSUME NEW k \in 1 .. m + s PROVE Descs(c)[n + k].type = (a \o b)[k]
    <3>1. CASE k <= m
      <4>1. k \in 1 .. m
        BY <2>1, <3>1
      <4> QED
        BY <2>6, <2>7, <2>9, <4>1 DEF Joined
    <3>2. CASE ~(k <= m)
      <4> DEFINE j == k - m
      <4>1. j \in 1 .. s /\ m + j = k /\ n + m + j = n + k
        BY <1>1, <2>1, <3>2 DEF n
      <4> HIDE DEF j
      <4> QED
        BY <2>6, <2>7, <2>10, <4>1 DEF Joined
    <3> QED
      BY <3>1, <3>2
  <2>13. v = a \o b
    BY <2>1, <2>8, <2>11, <2>12
  <2> QED
    BY <2>13 DEF v, a, b
<1> QED
  BY <1>5, <1>6, <1>7 DEF Slaves

\* Nothing read is the blank the reader starts from,
LEMMA ReadNone == ASSUME NEW c \in Component PROVE ReadSoFar(c, 0) = Blank
<1>1. Len(c.slaves) \in Nat
  BY ComponentDescs
<1>2. [k \in 1 .. (IF 0 < Len(c.slaves) THEN 0 ELSE Len(c.slaves)) |-> Descs(c)[k].type] = <<>>
  <2>1. (IF 0 < Len(c.slaves) THEN 0 ELSE Len(c.slaves)) = 0
    BY <1>1
  <2> QED
    BY <2>1
<1>3. [k \in 1 .. (IF 0 < Len(c.slaves) THEN 0 ELSE 0 - Len(c.slaves)) |-> Descs(c)[Len(c.slaves) + k].type] = <<>>
  <2>1. (IF 0 < Len(c.slaves) THEN 0 ELSE 0 - Len(c.slaves)) = 0
    BY <1>1
  <2> QED
    BY <2>1
<1> QED
  BY <1>2, <1>3 DEF ReadSoFar, Blank

\* and each descriptor kept adds to it: a port to the addresses,
LEMMA ReadSlave ==
  ASSUME NEW c \in Component, NEW t \in Nat, t < Slaves(c)
  PROVE  [ReadSoFar(c, t) EXCEPT !["addresses"] = Append(@, Descs(c)[t + 1].type)] = ReadSoFar(c, t + 1)
<1> DEFINE n == Len(c.slaves)
           a(k) == [j \in 1 .. k |-> Descs(c)[j].type]
           w == [k \in 1 .. 0 |-> Descs(c)[n + k].type]
           u == [k \in 1 .. (IF t + 1 < n THEN 0 ELSE (t + 1) - n) |-> Descs(c)[n + k].type]
<1>1. n \in Nat /\ t < n
  BY ComponentDescs DEF Slaves
<1>2. (IF t < n THEN t ELSE n) = t /\ (IF t < n THEN 0 ELSE t - n) = 0
  BY <1>1
<1>3. (IF t + 1 < n THEN t + 1 ELSE n) = t + 1 /\ (IF t + 1 < n THEN 0 ELSE (t + 1) - n) = 0
  BY <1>1
<1>4. ReadSoFar(c, t) = [addresses |-> a(t), wrappers |-> w]
  BY <1>2 DEF ReadSoFar
<1>5. ReadSoFar(c, t + 1) = [addresses |-> a(t + 1), wrappers |-> w]
  BY <1>3 DEF ReadSoFar
<1>6. a(t + 1) = Append(a(t), Descs(c)[t + 1].type)
  OBVIOUS
<1> HIDE DEF a, w
<1> QED
  BY <1>4, <1>5, <1>6

\* a wrapper to the wrappers.
LEMMA ReadWrap ==
  ASSUME NEW c \in Component, NEW t \in Nat, Slaves(c) <= t
  PROVE  [ReadSoFar(c, t) EXCEPT !["wrappers"] = Append(@, Descs(c)[t + 1].type)] = ReadSoFar(c, t + 1)
<1> DEFINE n == Len(c.slaves)
           a == [j \in 1 .. n |-> Descs(c)[j].type]
           w(k) == [j \in 1 .. k |-> Descs(c)[n + j].type]
<1>1. n \in Nat /\ n <= t
  BY ComponentDescs DEF Slaves
<1>2. (IF t < n THEN t ELSE n) = n /\ (IF t < n THEN 0 ELSE t - n) = t - n
  BY <1>1, Cut
<1>3. (IF t + 1 < n THEN t + 1 ELSE n) = n /\ (IF t + 1 < n THEN 0 ELSE (t + 1) - n) = (t + 1) - n
  <2>1. t + 1 \in Nat /\ n <= t + 1
    BY <1>1
  <2> QED
    BY <1>1, <2>1, Cut
<1>4. ReadSoFar(c, t) = [addresses |-> a, wrappers |-> w(t - n)]
  BY <1>2 DEF ReadSoFar
<1>5. ReadSoFar(c, t + 1) = [addresses |-> a, wrappers |-> w((t + 1) - n)]
  BY <1>3 DEF ReadSoFar
<1>6. w((t + 1) - n) = Append(w(t - n), Descs(c)[t + 1].type)
  <2> DEFINE g(k) == Descs(c)[n + k].type
  <2>3. \A k : w(k) = [j \in 1 .. k |-> g(j)]
    OBVIOUS
  <2>4. ASSUME NEW m \in Nat PROVE w(m + 1) = Append(w(m), g(m + 1))
    <3> HIDE DEF g, w, n
    <3>1. w(m) = [j \in 1 .. m |-> g(j)] /\ w(m + 1) = [j \in 1 .. m + 1 |-> g(j)]
      BY <2>3
    <3> QED
      BY <3>1
  <2>1. \A m \in Nat : w(m + 1) = Append(w(m), Descs(c)[n + (m + 1)].type)
    BY <2>4
  <2>2. t - n \in Nat /\ (t - n) + 1 = (t + 1) - n /\ n + ((t - n) + 1) = t + 1
    BY <1>1
  <2> HIDE DEF w, n
  <2>5. w((t - n) + 1) = Append(w(t - n), Descs(c)[n + ((t - n) + 1)].type)
    BY <2>1, <2>2
  <2> QED
    BY <2>2, <2>5
<1> HIDE DEF a, w, n
<1>7. \A x, y, z : [[addresses |-> x, wrappers |-> y] EXCEPT !["wrappers"] = Append(@, z)] = [addresses |-> x, wrappers |-> Append(y, z)]
  OBVIOUS
<1> QED
  BY <1>4, <1>5, <1>6, <1>7

\* The mapping shows the ROM's word.
LEMMA Shown ==
  ASSUME rom \in Seq(Component), window = "erom", NEW p \in Nat, p < Len(Entries(rom))
  PROVE  At(p) = Entries(rom)[p + 1]
BY DEF At

\* A descriptor is not None.
LEMMA NotNone == \A x, y : [type |-> x, behind |-> y] # None
<1> SUFFICES ASSUME NEW x, NEW y, [type |-> x, behind |-> y] = None PROVE FALSE
  OBVIOUS
<1>1. DOMAIN [type |-> x, behind |-> y] = {"type", "behind"} /\ DOMAIN None = {"none"}
  BY DEF None
<1> QED
  BY <1>1

\* A group is done: the reader is behind it, or astray.
Carried(r, i, p, got, hi) ==
  (p = Place(r, i, hi + 1) /\ got = ReadSoFar(r[i], hi)) \/ Astray(r, i, p, got)

\* Behind t descriptors stands another exactly when there is one.
LEMMA ShownThere ==
  ASSUME NEW r \in Seq(Component), NEW i \in 1 .. Len(r), NEW t \in 0 .. Len(Descs(r[i]))
  PROVE  LET p == Place(r, i, t + 1)
             w == Entries(r)[p + 1]
         IN /\ p \in Nat /\ p < Len(Entries(r))
            /\ w.tag = "addr" <=> t < Len(Descs(r[i]))
<1> DEFINE n == Len(Descs(r[i]))
<1>1. n \in Nat /\ Place(r, i, n + 1) = Base(r, i + 1)
  BY PlaceFacts
<1>2. t + 1 \in 1 .. n + 1
  BY <1>1
<1>3. Place(r, i, t + 1) \in Nat /\ Place(r, i, t + 1) <= Base(r, i + 1)
  BY <1>2, PlaceFacts
<1>4. Base(r, i + 1) \in Nat /\ Base(r, i + 1) < Len(Entries(r)) /\ Len(Entries(r)) \in Nat /\ Entries(r)[Base(r, i + 1) + 1].tag \in {"ci", "end"}
  BY HeadFacts, LayoutFacts
<1>5. CASE t < n
  <2>1. t + 1 \in 1 .. n
    BY <1>1, <1>5
  <2>2. Entries(r)[Place(r, i, t + 1) + 1].tag = "addr"
    BY <2>1, DescFacts DEF DescStands
  <2> QED
    BY <1>3, <1>4, <1>5, <2>2
<1>6. CASE ~(t < n)
  <2>1. t = n
    BY <1>1, <1>6
  <2>2. Entries(r)[Place(r, i, t + 1) + 1].tag # "addr"
    BY <1>1, <1>4, <2>1
  <2> QED
    BY <1>3, <1>4, <1>6, <2>2
<1> QED
  BY <1>5, <1>6

\* The heart of the proof: one round of the loop over a group of ports or wrappers,
\* whatever the group.  A descriptor of the group is kept and read past; the first of
\* another group is put back, which leaves the reader where it was if it is one word,
\* and inside the descriptor if it is longer; an entry that is no descriptor ends the
\* round; after the last round the group is done.
LEMMA RoundStep ==
  ASSUME rom \in Seq(Component), num \in Nat, num + 1 \in 1 .. Len(rom), window = "erom", left \in Nat,
         NEW lo \in Nat, NEW hi \in Nat, NEW rounds \in Nat, NEW more \in Nat, lo <= hi, hi <= Len(Descs(rom[num + 1])), rounds = 0 => lo = hi,
         NEW group, NEW types, NEW field, NEW next,
         AtGroup(rom, num + 1, pos, core, left, lo, hi, rounds),
         Round(group, types, field, next, more),
         \A t \in lo + 1 .. hi : Descs(rom[num + 1])[t].type \in types,
         hi < Len(Descs(rom[num + 1])) => Descs(rom[num + 1])[hi + 1].type \notin types,
         \A t \in lo .. hi : t < hi =>
            [ReadSoFar(rom[num + 1], t) EXCEPT ![field] = Append(@, Descs(rom[num + 1])[t + 1].type)] = ReadSoFar(rom[num + 1], t + 1),
         hi < Len(Descs(rom[num + 1])) /\ Len(Descs(rom[num + 1])[hi + 1].extra) > 0 =>
            SplitUp(rom[num + 1]) /\ Quiet(rom[num + 1]),
         Slaves(rom[num + 1]) <= hi
  PROVE  \/ /\ pc' = next /\ left' = more /\ pos' = pos /\ core' = core
            /\ Carried(rom, num + 1, pos, core, hi)
         \/ /\ pc' = pc /\ left' \in Nat /\ pos' \in Nat /\ core' \in Listing \cup {core}
            /\ AtGroup(rom, num + 1, pos', core', left', lo, hi, rounds)
<1> DEFINE r == rom
           i == num + 1
           c == rom[num + 1]
           n == Len(Descs(rom[num + 1]))
           d == get_addr_desc(pos)
           w == Entries(rom)[pos + 1]
<1>1. n \in Nat /\ Descs(c) \in Seq(AnyDesc) /\ c \in Component
  BY PlaceFacts, HeadFacts
<1>2. left \in 0 .. rounds /\ (InOrder(r, i, pos, core, left, lo, hi, rounds) \/ Astray(r, i, pos, core))
  BY DEF AtGroup
<1>3. left = 0 => Carried(r, i, pos, core, hi)
  <2> SUFFICES ASSUME left = 0, InOrder(r, i, pos, core, left, lo, hi, rounds) PROVE Carried(r, i, pos, core, hi)
    BY <1>2 DEF Carried
  <2>1. PICK t \in lo .. hi : pos = Place(r, i, t + 1) /\ core = ReadSoFar(c, t) /\ (left < rounds => t = hi)
    BY DEF InOrder
  <2>2. t = hi
    <3>1. CASE rounds = 0
      BY <3>1
    <3>2. CASE rounds # 0
      <4>1. left < rounds
        BY <3>2
      <4> QED
        BY <2>1, <4>1
    <3> QED
      BY <3>1, <3>2
  <2> QED
    BY <2>1, <2>2 DEF Carried
<1>4. pos \in Nat /\ At(pos) = w
  <2>1. CASE Astray(r, i, pos, core)
    <3>1. pos \in Nat /\ pos < Base(r, i + 1)
      BY <2>1 DEF Astray
    <3>2. Base(r, i + 1) \in Nat /\ Base(r, i + 1) < Len(Entries(r)) /\ Len(Entries(r)) \in Nat
      BY HeadFacts, LayoutFacts
    <3>3. pos < Len(Entries(r))
      BY <3>1, <3>2
    <3> QED
      BY <3>1, <3>3, Shown
  <2>2. CASE InOrder(r, i, pos, core, left, lo, hi, rounds)
    <3>1. PICK t \in lo .. hi : pos = Place(r, i, t + 1)
      BY <2>2 DEF InOrder
    <3>2. t \in 0 .. n
      BY <1>1
    <3>3. pos \in Nat /\ pos < Len(Entries(r))
      BY <3>1, <3>2, ShownThere
    <3> QED
      BY <3>3, Shown
  <2> QED
    BY <1>2, <2>1, <2>2
<1>5. w.tag = "addr" => d = [type |-> w.type, behind |-> pos + 1 + w.more] /\ d # None /\ d.type = w.type /\ d.behind = pos + 1 + w.more
  BY <1>4, NotNone DEF get_addr_desc
<1>6. w.tag # "addr" => d = None
  BY <1>4 DEF get_addr_desc
<1> HIDE DEF d, w
<1>7. CASE left = 0 /\ left' = more /\ Goto(next) /\ UNCHANGED <<pos, core>>
  BY <1>3, <1>7 DEF Goto
<1>8. CASE left > 0 /\ left' = left - 1 /\ UNCHANGED <<core, pc>> /\ d = None /\ UNCHANGED pos
  <2>1. left' \in Nat /\ left' \in 0 .. rounds /\ left' < rounds
    BY <1>2, <1>8
  <2>2. CASE Astray(r, i, pos, core)
    <3>1. AtGroup(rom, num + 1, pos', core', left', lo, hi, rounds)
      BY <1>8, <2>1, <2>2 DEF AtGroup
    <3> QED
      BY <1>4, <1>8, <2>1, <3>1
  <2>3. CASE InOrder(r, i, pos, core, left, lo, hi, rounds)
    <3>1. PICK t \in lo .. hi : pos = Place(r, i, t + 1) /\ core = ReadSoFar(c, t)
      BY <2>3 DEF InOrder
    <3>2. t \in 0 .. n
      BY <1>1
    <3>3. ~(t < n)
      BY <1>5, <1>8, <3>1, <3>2, ShownThere DEF w
    <3>4. t = hi
      BY <1>1, <3>2, <3>3
    <3>5. InOrder(rom, num + 1, pos', core', left', lo, hi, rounds)
      BY <1>8, <3>1, <3>4 DEF InOrder
    <3>6. AtGroup(rom, num + 1, pos', core', left', lo, hi, rounds)
      BY <2>1, <3>5 DEF AtGroup
    <3> QED
      BY <1>4, <1>8, <2>1, <3>6
  <2> QED
    BY <1>2, <2>2, <2>3
<1>9. CASE /\ left > 0 /\ left' = left - 1 /\ UNCHANGED <<core, pc>> /\ d # None /\ d.type \notin types
           /\ pos' = PushBack(d.behind)
  <2>1. left' \in Nat /\ left' \in 0 .. rounds /\ left' < rounds
    BY <1>2, <1>9
  <2>2. w.tag = "addr"
    BY <1>6, <1>9
  <2>3. ~Astray(r, i, pos, core)
    BY <2>2 DEF Astray, w
  <2>4. PICK t \in lo .. hi : pos = Place(r, i, t + 1) /\ core = ReadSoFar(c, t)
    BY <1>2, <2>3 DEF InOrder
  <2>5. t \in 0 .. n /\ t < n
    <3>1. t \in 0 .. n
      BY <1>1
    <3> QED
      BY <2>2, <2>4, <3>1, ShownThere DEF w
  <2>6. t + 1 \in 1 .. n
    BY <1>1, <2>5
  <2> DEFINE e == Descs(c)[t + 1]
             m == Len(e.extra)
  <2>7. w.type = e.type /\ w.more = m /\ m \in Nat /\ Place(r, i, t + 1 + 1) = pos + 1 + m /\ Place(r, i, t + 1 + 1) <= Base(r, i + 1)
        /\ e \in AnyDesc /\ DOMAIN e.extra = 1 .. m /\ \A k \in 1 .. m : Entries(r)[pos + 1 + k].tag = e.extra[k]
    <3>1. DescStands(r, i, t + 1)
      BY <2>6, DescFacts
    <3>2. /\ e \in AnyDesc /\ Len(e.extra) \in Nat /\ DOMAIN e.extra = 1 .. Len(e.extra)
          /\ Place(r, i, t + 1 + 1) = Place(r, i, t + 1) + 1 + Len(e.extra) /\ Place(r, i, t + 1 + 1) <= Base(r, i + 1)
          /\ Entries(r)[Place(r, i, t + 1) + 1].type = e.type /\ Entries(r)[Place(r, i, t + 1) + 1].more = Len(e.extra)
          /\ \A k \in 1 .. Len(e.extra) : Entries(r)[Place(r, i, t + 1) + 1 + k].tag = e.extra[k]
      BY <3>1 DEF DescStands
    <3> HIDE DEF e
    <3> QED
      BY <2>4, <3>2 DEF w
  <2>8. t = hi
    <3> SUFFICES ASSUME t # hi PROVE FALSE
      OBVIOUS
    <3>1. t + 1 \in lo + 1 .. hi
      OBVIOUS
    <3>2. e.type \in types
      BY <3>1
    <3> QED
      BY <1>5, <1>9, <2>2, <2>7, <3>2
  <2>9. pos' = pos + m /\ pos' \in Nat
    <3>1. pos' = (pos + 1 + m) - 1
      BY <1>5, <1>9, <2>2, <2>7 DEF PushBack
    <3> HIDE DEF m
    <3> QED
      BY <1>4, <2>7, <3>1
  <2>10. CASE m = 0
    <3>1. pos' = pos
      BY <1>4, <2>9, <2>10
    <3>2. InOrder(rom, num + 1, pos', core', left', lo, hi, rounds)
      BY <1>9, <2>4, <2>8, <3>1 DEF InOrder
    <3>3. AtGroup(rom, num + 1, pos', core', left', lo, hi, rounds)
      BY <2>1, <3>2 DEF AtGroup
    <3> QED
      BY <1>9, <2>1, <2>9, <3>3
  <2>11. CASE m # 0
    <3>1. SplitUp(c) /\ Quiet(c)
      <4>1. hi < n /\ m > 0
        BY <2>5, <2>7, <2>8, <2>11
      <4> QED
        BY <2>8, <4>1
    <3>2. m \in 1 .. m /\ t + 1 \in DOMAIN Descs(c)
      <4>1. m \in 1 .. m
        BY <2>7, <2>11
      <4>2. DOMAIN Descs(c) = 1 .. n
        BY <1>1, SeqFacts
      <4> QED
        BY <2>6, <4>1, <4>2
    <3>3. e.extra[m] = "invalid"
      BY <2>7, <3>1, <3>2 DEF Quiet
    <3>4. Entries(r)[pos + 1 + m].tag = "invalid"
      BY <2>7, <3>2, <3>3
    <3>5. pos' + 1 = pos + 1 + m
      <4> HIDE DEF m
      <4> QED
        BY <1>4, <2>7, <2>9
    <3>6. core.addresses = TypesOf(c.slaves)
      BY <1>1, <2>4, <2>5, <2>8, ReadFacts
    <3>7. Base(r, i) + 2 <= pos' /\ pos' < Base(r, i + 1)
      <4>1. t + 1 \in 1 .. n + 1
        BY <1>1, <2>6
      <4>2. Base(r, i) + 2 + c.nmp <= pos /\ c.nmp \in Nat /\ Base(r, i) \in Nat /\ Base(r, i + 1) \in Nat
        BY <1>1, <2>4, <4>1, PlaceFacts, HeadFacts DEF Component
      <4>3. \A b, u, x, q, e1, y \in Nat : b + 2 + u <= x /\ q = x + y /\ y # 0 /\ x + 1 + y <= e1 => b + 2 <= q /\ q < e1
        OBVIOUS
      <4> DEFINE b == Base(r, i)
                 e1 == Base(r, i + 1)
                 u == c.nmp
      <4>4. b \in Nat /\ u \in Nat /\ e1 \in Nat /\ m \in Nat /\ pos \in Nat /\ pos' \in Nat
            /\ b + 2 + u <= pos /\ pos' = pos + m /\ m # 0 /\ pos + 1 + m <= e1
        BY <1>4, <2>7, <2>9, <2>11, <4>2
      <4> HIDE DEF m, b, u, e1
      <4>5. b + 2 <= pos' /\ pos' < e1
        BY <4>3, <4>4
      <4> QED
        BY <4>5 DEF b, e1
    <3>8. Astray(rom, num + 1, pos', core')
      BY <1>9, <2>9, <3>1, <3>4, <3>5, <3>6, <3>7 DEF Astray
    <3>9. AtGroup(rom, num + 1, pos', core', left', lo, hi, rounds)
      BY <2>1, <3>8 DEF AtGroup
    <3> QED
      BY <1>9, <2>1, <2>9, <3>9
  <2> QED
    BY <2>10, <2>11
<1>10. CASE /\ left > 0 /\ d # None /\ d.type \in types
            /\ pos' = d.behind
            /\ core' = [core EXCEPT ![field] = Append(@, d.type)]
            /\ UNCHANGED <<left, pc>>
  <2>2. w.tag = "addr"
    BY <1>6, <1>10
  <2>3. ~Astray(r, i, pos, core)
    BY <2>2 DEF Astray, w
  <2>4. PICK t \in lo .. hi : pos = Place(r, i, t + 1) /\ core = ReadSoFar(c, t) /\ (left < rounds => t = hi)
    BY <1>2, <2>3 DEF InOrder
  <2>5. t \in 0 .. n /\ t < n
    <3>1. t \in 0 .. n
      BY <1>1
    <3> QED
      BY <2>2, <2>4, <3>1, ShownThere DEF w
  <2>6. t + 1 \in 1 .. n
    BY <1>1, <2>5
  <2> DEFINE e == Descs(c)[t + 1]
             m == Len(e.extra)
  <2>7. w.type = e.type /\ w.more = m /\ Place(r, i, t + 1 + 1) = pos + 1 + m /\ Place(r, i, t + 1 + 1) \in Nat
    <3>1. DescStands(r, i, t + 1)
      BY <2>6, DescFacts
    <3>2. /\ Place(r, i, t + 1 + 1) = Place(r, i, t + 1) + 1 + Len(e.extra) /\ Place(r, i, t + 1 + 1) \in Nat
          /\ Entries(r)[Place(r, i, t + 1) + 1].type = e.type /\ Entries(r)[Place(r, i, t + 1) + 1].more = Len(e.extra)
      BY <3>1 DEF DescStands
    <3> HIDE DEF e
    <3> QED
      BY <2>4, <3>2 DEF w
  <2>8. t < hi
    <3> SUFFICES ASSUME t = hi PROVE FALSE
      OBVIOUS
    <3>1. e.type \notin types
      BY <2>5
    <3> QED
      BY <1>5, <1>10, <2>2, <2>7, <3>1
  <2>9. pos' = Place(r, i, t + 1 + 1) /\ pos' \in Nat
    BY <1>5, <1>10, <2>2, <2>7
  <2>10. core' = ReadSoFar(c, t + 1)
    <3>1. d.type = e.type
      BY <1>5, <2>2, <2>7
    <3> QED
      BY <1>10, <2>4, <2>8, <3>1
  <2>11. t + 1 \in lo .. hi /\ ~(left' < rounds) /\ left' = left
    BY <1>2, <1>10, <2>4, <2>8
  <2>12. InOrder(rom, num + 1, pos', core', left', lo, hi, rounds)
    BY <2>9, <2>10, <2>11 DEF InOrder
  <2>13. AtGroup(rom, num + 1, pos', core', left', lo, hi, rounds)
    BY <1>2, <2>11, <2>12 DEF AtGroup
  <2>14. core' \in Listing
    <3>1. t + 1 \in 0 .. n
      BY <1>1, <2>6
    <3> QED
      BY <1>1, <2>10, <3>1, ReadFacts
  <2> QED
    BY <1>10, <2>9, <2>11, <2>13, <2>14
<1> QED
  BY <1>7, <1>8, <1>9, <1>10 DEF Round, d

-----------------------------------------------------------------------------
\* The steps of the reader.

\* The first descriptor of the next group; if it is a long one, its component is split.
LEMMA GroupEdge ==
  ASSUME NEW c \in Component, NEW hi, hi \in {Slaves(c), Masters(c)}, hi < Len(Descs(c))
  PROVE  /\ Descs(c)[hi + 1].type \in {"mwrap", "swrap"}
         /\ hi = Masters(c) => Descs(c)[hi + 1].type = "swrap"
         /\ Len(Descs(c)[hi + 1].extra) > 0 => SplitUp(c)
<1>1. /\ Slaves(c) \in Nat /\ Masters(c) \in Nat /\ Len(Descs(c)) \in Nat /\ Len(c.mwraps) \in Nat /\ Len(c.swraps) \in Nat
      /\ Masters(c) = Slaves(c) + Len(c.mwraps) /\ Len(Descs(c)) = Masters(c) + Len(c.swraps)
  BY GroupTypes
<1>2. \A d : Len(d.extra) > 0 => d.extra # <<>>
  <2> SUFFICES ASSUME NEW d, Len(d.extra) > 0, d.extra = <<>> PROVE FALSE
    OBVIOUS
  <2>1. Len(<<>>) = 0
    OBVIOUS
  <2> QED
    BY <2>1
<1>3. CASE hi < Masters(c)
  <2>1. hi = Slaves(c) /\ hi + 1 \in Slaves(c) + 1 .. Masters(c) /\ Len(c.mwraps) > 0 /\ hi # Masters(c)
    BY <1>1, <1>3
  <2>2. Descs(c)[hi + 1].type = "mwrap"
    BY <2>1, GroupTypes
  <2>3. Descs(c)[hi + 1] = c.mwraps[1]
    <3>1. 1 \in 1 .. Len(c.mwraps)
      BY <1>1, <2>1
    <3>2. \A j \in 1 .. Len(c.mwraps) : Descs(c)[Len(c.slaves) + j] = c.mwraps[j]
      BY ComponentDescs
    <3> QED
      BY <2>1, <3>1, <3>2 DEF Slaves
  <2>4. c.mwraps # <<>>
    <3> SUFFICES ASSUME c.mwraps = <<>> PROVE FALSE
      OBVIOUS
    <3>1. Len(<<>>) = 0
      OBVIOUS
    <3> QED
      BY <2>1, <3>1
  <2> QED
    BY <1>2, <2>1, <2>2, <2>3, <2>4 DEF SplitUp, Long
<1>4. CASE ~(hi < Masters(c))
  <2>1. hi = Masters(c) /\ hi + 1 \in Masters(c) + 1 .. Len(Descs(c)) /\ Len(c.swraps) > 0
    BY <1>1, <1>4, SMTT(30)
  <2>2. Descs(c)[hi + 1].type = "swrap"
    BY <2>1, GroupTypes
  <2>3. Descs(c)[hi + 1] = c.swraps[1]
    <3>1. 1 \in 1 .. Len(c.swraps)
      BY <1>1, <2>1
    <3>2. \A j \in 1 .. Len(c.swraps) : Descs(c)[Len(c.slaves) + Len(c.mwraps) + j] = c.swraps[j]
      BY ComponentDescs
    <3> QED
      BY <2>1, <3>1, <3>2 DEF Masters
  <2>4. c.swraps # <<>>
    <3> SUFFICES ASSUME c.swraps = <<>> PROVE FALSE
      OBVIOUS
    <3>1. Len(<<>>) = 0
      OBVIOUS
    <3> QED
      BY <2>1, <3>1
  <2> QED
    BY <1>2, <2>1, <2>2, <2>3, <2>4 DEF SplitUp, Long
<1> QED
  BY <1>3, <1>4

\* The invariant in a state where the reader can follow the ROM.
ListInvNow == rom \in Seq(Component) /\ Followed /\ ListType /\ EromShown /\ ReaderInv

\* The component being read.
LEMMA AtComponent ==
  ASSUME ListInvNow, pc \in Grouping
  PROVE  /\ num \in Nat /\ num + 1 \in 1 .. Len(rom) /\ rom[num + 1] \in Component /\ Kept(rom[num + 1])
         /\ cib.nmw = Len(rom[num + 1].mwraps) /\ cib.nsw = Len(rom[num + 1].swraps)
         /\ rom[num + 1].nsp \in Nat /\ rom[num + 1].nsp > 0
         /\ SplitUp(rom[num + 1]) => Quiet(rom[num + 1])
<1>1. num \in Nat /\ num < Len(rom) /\ Kept(rom[num + 1]) /\ cib = Entries(rom)[Base(rom, num + 1) + 2]
  BY DEF ListInvNow, ListType, ReaderInv, Taking
<1>2. num + 1 \in 1 .. Len(rom) /\ DOMAIN rom = 1 .. Len(rom)
  BY <1>1, SeqFacts DEF ListInvNow
<1>3. rom[num + 1] \in Component /\ cib.nmw = Len(rom[num + 1].mwraps) /\ cib.nsw = Len(rom[num + 1].swraps)
  BY <1>1, <1>2, HeadFacts DEF ListInvNow
<1>4. rom[num + 1].nsp \in Nat /\ rom[num + 1].nsp > 0
  BY <1>1, <1>3 DEF Kept, Component
<1>5. SplitUp(rom[num + 1]) => Quiet(rom[num + 1])
  BY <1>2 DEF ListInvNow, Followed, Readable
<1> QED
  BY <1>1, <1>2, <1>3, <1>4, <1>5

\* A step inside a component keeps the invariant when it keeps what is known of the group.
LEMMA GroupFrame ==
  ASSUME ListInvNow, pc \in Grouping, UNCHANGED <<rom, windowVars, num, cib, cores, saved>>,
         pc' \in Grouping, left' \in Nat, pos' \in Nat, core' \in Listing,
         pc' = "slaves" => AtGroup(rom, num + 1, pos', core', left', 0, Slaves(rom[num + 1]), rom[num + 1].nsp),
         pc' = "mwraps" => AtGroup(rom, num + 1, pos', core', left', Slaves(rom[num + 1]), Masters(rom[num + 1]), Len(rom[num + 1].mwraps)),
         pc' = "swraps" => AtGroup(rom, num + 1, pos', core', left', Masters(rom[num + 1]), Len(Descs(rom[num + 1])), Len(rom[num + 1].swraps)),
         pc' = "append" => Carried(rom, num + 1, pos', core', Len(Descs(rom[num + 1])))
  PROVE  ListType' /\ EromShown' /\ ReaderInv'
<1>1. ListType'
  BY DEF ListInvNow, ListType
<1>2. pc \in Reading /\ pc' \in Reading
  BY DEF Grouping, Reading
<1>3. EromShown'
  BY <1>2 DEF ListInvNow, EromShown, windowVars, Grouping
<1>4. Collected(rom, cores, num) /\ Taking(rom, num, cib) /\ ~saved
  <2>1. pc # "done"
    BY DEF Grouping
  <2> QED
    BY <1>2, <2>1 DEF ListInvNow, ReaderInv
<1>5. rom' = rom /\ num' = num /\ cib' = cib /\ cores' = cores /\ saved' = saved
  OBVIOUS
<1>6. pc' \notin Before /\ pc' \notin {"is_end", "get_ci"} /\ pc' # "get_ci" /\ pc' # "skip" /\ pc' \notin {"finished", "save"}
  BY DEF Grouping, Before
<1>7. Collected(rom', cores', num') /\ Taking(rom', num', cib') /\ ~saved'
  BY <1>4, <1>5
<1>8. pc' = "append" => (pos' = Base(rom', num' + 1 + 1) /\ core' = ReadSoFar(rom'[num' + 1], Len(Descs(rom'[num' + 1])))) \/ Astray(rom', num' + 1, pos', core')
  <2>1. Place(rom, num + 1, Len(Descs(rom[num + 1])) + 1) = Base(rom, num + 1 + 1)
    BY AtComponent, PlaceFacts DEF ListInvNow
  <2> QED
    BY <1>5, <2>1 DEF Carried
<1>9. /\ pc' = "slaves" => AtGroup(rom', num' + 1, pos', core', left', 0, Slaves(rom'[num' + 1]), rom'[num' + 1].nsp)
      /\ pc' = "mwraps" => AtGroup(rom', num' + 1, pos', core', left', Slaves(rom'[num' + 1]), Masters(rom'[num' + 1]), Len(rom'[num' + 1].mwraps))
      /\ pc' = "swraps" => AtGroup(rom', num' + 1, pos', core', left', Masters(rom'[num' + 1]), Len(Descs(rom'[num' + 1])), Len(rom'[num' + 1].swraps))
  BY <1>5
<1>10. ReaderInv'
  BY <1>6, <1>7, <1>8, <1>9 DEF ReaderInv
<1> QED
  BY <1>1, <1>3, <1>10

\* The three groups are three uses of RoundStep.
LEMMA SlavesStep == ASSUME ListInvNow, ReadSlaves PROVE ListType' /\ EromShown' /\ ReaderInv'
<1> DEFINE c == rom[num + 1]
<1>1. pc = "slaves" /\ pc \in Grouping /\ UNCHANGED <<rom, windowVars, num, cib, cores, saved>>
  BY DEF ReadSlaves, Round, Untouched, Grouping
<1>2. window = "erom" /\ left \in Nat /\ pos \in Nat /\ core \in Listing /\ rom \in Seq(Component)
  BY <1>1 DEF ListInvNow, EromShown, ListType, Reading
<1>3. /\ num \in Nat /\ num + 1 \in 1 .. Len(rom) /\ c \in Component /\ c.nsp \in Nat /\ c.nsp > 0 /\ cib.nmw = Len(c.mwraps)
      /\ SplitUp(c) => Quiet(c)
  BY <1>1, AtComponent
<1>4. AtGroup(rom, num + 1, pos, core, left, 0, Slaves(c), c.nsp)
  BY <1>1 DEF ListInvNow, ReaderInv
<1>5. /\ Slaves(c) \in Nat /\ Masters(c) \in Nat /\ Slaves(c) <= Masters(c) /\ Slaves(c) <= Len(Descs(c)) /\ Len(c.mwraps) \in Nat
  <2> DEFINE a == Slaves(c)
             b == Masters(c)
             n == Len(Descs(c))
             m == Len(c.mwraps)
             s == Len(c.swraps)
  <2>1. a \in Nat /\ b \in Nat /\ n \in Nat /\ m \in Nat /\ s \in Nat /\ b = a + m /\ n = b + s
    BY <1>3, GroupTypes
  <2> HIDE DEF a, b, n, m, s
  <2>2. a <= b /\ a <= n
    BY <2>1
  <2> QED
    BY <2>1, <2>2 DEF a, b, n, m, s
<1>6. \A t \in 0 + 1 .. Slaves(c) : Descs(c)[t].type \in {"slave", "bridge"}
  BY <1>3, GroupTypes
<1>7. /\ Slaves(c) < Len(Descs(c)) => Descs(c)[Slaves(c) + 1].type \notin {"slave", "bridge"}
      /\ Slaves(c) < Len(Descs(c)) /\ Len(Descs(c)[Slaves(c) + 1].extra) > 0 => SplitUp(c) /\ Quiet(c)
  BY <1>3, GroupEdge
<1>8. \A t \in 0 .. Slaves(c) : t < Slaves(c) =>
            [ReadSoFar(c, t) EXCEPT !["addresses"] = Append(@, Descs(c)[t + 1].type)] = ReadSoFar(c, t + 1)
  <2> SUFFICES ASSUME NEW t \in 0 .. Slaves(c), t < Slaves(c)
               PROVE  [ReadSoFar(c, t) EXCEPT !["addresses"] = Append(@, Descs(c)[t + 1].type)] = ReadSoFar(c, t + 1)
    OBVIOUS
  <2>1. t \in Nat
    BY <1>5
  <2> QED
    BY <1>3, <2>1, ReadSlave
<1>9. (c.nsp = 0 => 0 = Slaves(c)) /\ 0 \in Nat /\ 0 <= Slaves(c) /\ Slaves(c) <= Slaves(c)
  BY <1>3, <1>5
<1>10. Round("slaves", {"slave", "bridge"}, "addresses", "mwraps", Len(c.mwraps))
  BY <1>3 DEF ReadSlaves
<1>11. \/ /\ pc' = "mwraps" /\ left' = Len(c.mwraps) /\ pos' = pos /\ core' = core
          /\ Carried(rom, num + 1, pos, core, Slaves(c))
       \/ /\ pc' = pc /\ left' \in Nat /\ pos' \in Nat /\ core' \in Listing \cup {core}
          /\ AtGroup(rom, num + 1, pos', core', left', 0, Slaves(c), c.nsp)
  BY <1>2, <1>3, <1>4, <1>5, <1>6, <1>7, <1>8, <1>9, <1>10, RoundStep, Zenon
<1>12. CASE /\ pc' = "mwraps" /\ left' = Len(c.mwraps) /\ pos' = pos /\ core' = core
            /\ Carried(rom, num + 1, pos, core, Slaves(c))
  <2>1. AtGroup(rom, num + 1, pos', core', left', Slaves(c), Masters(c), Len(c.mwraps))
    <3>1. Slaves(c) \in Slaves(c) .. Masters(c) /\ left' \in 0 .. Len(c.mwraps) /\ ~(left' < Len(c.mwraps))
      BY <1>5, <1>12
    <3> QED
      BY <1>12, <3>1 DEF AtGroup, Carried, InOrder
  <2> QED
    BY <1>1, <1>2, <1>5, <1>12, <2>1, GroupFrame DEF Grouping
<1>13. CASE /\ pc' = pc /\ left' \in Nat /\ pos' \in Nat /\ core' \in Listing \cup {core}
            /\ AtGroup(rom, num + 1, pos', core', left', 0, Slaves(c), c.nsp)
  BY <1>1, <1>2, <1>13, GroupFrame DEF Grouping
<1> QED
  BY <1>11, <1>12, <1>13

LEMMA MwrapsStep == ASSUME ListInvNow, ReadMwraps PROVE ListType' /\ EromShown' /\ ReaderInv'
<1> DEFINE c == rom[num + 1]
<1>1. pc = "mwraps" /\ pc \in Grouping /\ UNCHANGED <<rom, windowVars, num, cib, cores, saved>>
  BY DEF ReadMwraps, Round, Untouched, Grouping
<1>2. window = "erom" /\ left \in Nat /\ pos \in Nat /\ core \in Listing /\ rom \in Seq(Component)
  BY <1>1 DEF ListInvNow, EromShown, ListType, Reading
<1>3. num \in Nat /\ num + 1 \in 1 .. Len(rom) /\ c \in Component /\ cib.nsw = Len(c.swraps) /\ (SplitUp(c) => Quiet(c))
  BY <1>1, AtComponent
<1>4. AtGroup(rom, num + 1, pos, core, left, Slaves(c), Masters(c), Len(c.mwraps))
  BY <1>1 DEF ListInvNow, ReaderInv
<1>5. /\ Slaves(c) \in Nat /\ Masters(c) \in Nat /\ Slaves(c) <= Masters(c) /\ Masters(c) <= Len(Descs(c)) /\ Len(c.mwraps) \in Nat /\ Len(c.swraps) \in Nat
      /\ Len(Descs(c)) \in Nat /\ (Len(c.mwraps) = 0 => Slaves(c) = Masters(c))
  <2> DEFINE a == Slaves(c)
             b == Masters(c)
             n == Len(Descs(c))
             m == Len(c.mwraps)
             s == Len(c.swraps)
  <2>1. a \in Nat /\ b \in Nat /\ n \in Nat /\ m \in Nat /\ s \in Nat /\ b = a + m /\ n = b + s
    BY <1>3, GroupTypes
  <2> HIDE DEF a, b, n, m, s
  <2>2. a <= b /\ b <= n /\ (m = 0 => a = b)
    BY <2>1
  <2> QED
    BY <2>1, <2>2 DEF a, b, n, m, s
<1>6. \A t \in Slaves(c) + 1 .. Masters(c) : Descs(c)[t].type \in {"mwrap"}
  BY <1>3, GroupTypes
<1>7. /\ Masters(c) < Len(Descs(c)) => Descs(c)[Masters(c) + 1].type \notin {"mwrap"}
      /\ Masters(c) < Len(Descs(c)) /\ Len(Descs(c)[Masters(c) + 1].extra) > 0 => SplitUp(c) /\ Quiet(c)
  BY <1>3, GroupEdge
<1>8. \A t \in Slaves(c) .. Masters(c) : t < Masters(c) =>
            [ReadSoFar(c, t) EXCEPT !["wrappers"] = Append(@, Descs(c)[t + 1].type)] = ReadSoFar(c, t + 1)
  <2> SUFFICES ASSUME NEW t \in Slaves(c) .. Masters(c)
               PROVE  [ReadSoFar(c, t) EXCEPT !["wrappers"] = Append(@, Descs(c)[t + 1].type)] = ReadSoFar(c, t + 1)
    OBVIOUS
  <2>1. t \in Nat /\ Slaves(c) <= t
    BY <1>5
  <2> QED
    BY <1>3, <2>1, ReadWrap
<1>10. Round("mwraps", {"mwrap"}, "wrappers", "swraps", Len(c.swraps))
  BY <1>3 DEF ReadMwraps
<1>11. \/ /\ pc' = "swraps" /\ left' = Len(c.swraps) /\ pos' = pos /\ core' = core
          /\ Carried(rom, num + 1, pos, core, Masters(c))
       \/ /\ pc' = pc /\ left' \in Nat /\ pos' \in Nat /\ core' \in Listing \cup {core}
          /\ AtGroup(rom, num + 1, pos', core', left', Slaves(c), Masters(c), Len(c.mwraps))
  BY <1>2, <1>3, <1>4, <1>5, <1>6, <1>7, <1>8, <1>10, RoundStep
<1>12. CASE /\ pc' = "swraps" /\ left' = Len(c.swraps) /\ pos' = pos /\ core' = core
            /\ Carried(rom, num + 1, pos, core, Masters(c))
  <2>1. AtGroup(rom, num + 1, pos', core', left', Masters(c), Len(Descs(c)), Len(c.swraps))
    <3>1. Masters(c) \in Masters(c) .. Len(Descs(c)) /\ left' \in 0 .. Len(c.swraps) /\ ~(left' < Len(c.swraps))
      BY <1>5, <1>12
    <3> QED
      BY <1>12, <3>1 DEF AtGroup, Carried, InOrder
  <2> QED
    BY <1>1, <1>2, <1>5, <1>12, <2>1, GroupFrame DEF Grouping
<1>13. CASE /\ pc' = pc /\ left' \in Nat /\ pos' \in Nat /\ core' \in Listing \cup {core}
            /\ AtGroup(rom, num + 1, pos', core', left', Slaves(c), Masters(c), Len(c.mwraps))
  BY <1>1, <1>2, <1>13, GroupFrame DEF Grouping
<1> QED
  BY <1>11, <1>12, <1>13

LEMMA SwrapsStep == ASSUME ListInvNow, ReadSwraps PROVE ListType' /\ EromShown' /\ ReaderInv'
<1> DEFINE c == rom[num + 1]
<1>1. pc = "swraps" /\ pc \in Grouping /\ UNCHANGED <<rom, windowVars, num, cib, cores, saved>>
  BY DEF ReadSwraps, Round, Untouched, Grouping
<1>2. window = "erom" /\ left \in Nat /\ pos \in Nat /\ core \in Listing /\ rom \in Seq(Component)
  BY <1>1 DEF ListInvNow, EromShown, ListType, Reading
<1>3. num \in Nat /\ num + 1 \in 1 .. Len(rom) /\ c \in Component /\ (SplitUp(c) => Quiet(c))
  BY <1>1, AtComponent
<1>4. AtGroup(rom, num + 1, pos, core, left, Masters(c), Len(Descs(c)), Len(c.swraps))
  BY <1>1 DEF ListInvNow, ReaderInv
<1>5. /\ Slaves(c) \in Nat /\ Masters(c) \in Nat /\ Slaves(c) <= Masters(c) /\ Masters(c) <= Len(Descs(c)) /\ Len(c.mwraps) \in Nat /\ Len(c.swraps) \in Nat
      /\ Len(Descs(c)) \in Nat /\ (Len(c.swraps) = 0 => Masters(c) = Len(Descs(c))) /\ Slaves(c) <= Len(Descs(c))
  <2> DEFINE a == Slaves(c)
             b == Masters(c)
             n == Len(Descs(c))
             m == Len(c.mwraps)
             s == Len(c.swraps)
  <2>1. a \in Nat /\ b \in Nat /\ n \in Nat /\ m \in Nat /\ s \in Nat /\ b = a + m /\ n = b + s
    BY <1>3, GroupTypes
  <2> HIDE DEF a, b, n, m, s
  <2>2. a <= b /\ b <= n /\ (s = 0 => b = n) /\ a <= n
    BY <2>1
  <2> QED
    BY <2>1, <2>2 DEF a, b, n, m, s
<1>6. \A t \in Masters(c) + 1 .. Len(Descs(c)) : Descs(c)[t].type \in {"swrap"}
  BY <1>3, GroupTypes
<1>7. ~(Len(Descs(c)) < Len(Descs(c))) /\ Len(Descs(c)) <= Len(Descs(c)) /\ 0 \in Nat
  BY <1>5
<1>8. \A t \in Masters(c) .. Len(Descs(c)) : t < Len(Descs(c)) =>
            [ReadSoFar(c, t) EXCEPT !["wrappers"] = Append(@, Descs(c)[t + 1].type)] = ReadSoFar(c, t + 1)
  <2> SUFFICES ASSUME NEW t \in Masters(c) .. Len(Descs(c))
               PROVE  [ReadSoFar(c, t) EXCEPT !["wrappers"] = Append(@, Descs(c)[t + 1].type)] = ReadSoFar(c, t + 1)
    OBVIOUS
  <2>1. t \in Nat /\ Slaves(c) <= t
    BY <1>5
  <2> QED
    BY <1>3, <2>1, ReadWrap
<1>10. Round("swraps", {"swrap"}, "wrappers", "append", 0)
  BY DEF ReadSwraps
<1>11. \/ /\ pc' = "append" /\ left' = 0 /\ pos' = pos /\ core' = core
          /\ Carried(rom, num + 1, pos, core, Len(Descs(c)))
       \/ /\ pc' = pc /\ left' \in Nat /\ pos' \in Nat /\ core' \in Listing \cup {core}
          /\ AtGroup(rom, num + 1, pos', core', left', Masters(c), Len(Descs(c)), Len(c.swraps))
  BY <1>2, <1>3, <1>4, <1>5, <1>6, <1>7, <1>8, <1>10, RoundStep, Zenon
<1>12. CASE /\ pc' = "append" /\ left' = 0 /\ pos' = pos /\ core' = core
            /\ Carried(rom, num + 1, pos, core, Len(Descs(c)))
  BY <1>1, <1>2, <1>12, GroupFrame DEF Grouping
<1>13. CASE /\ pc' = pc /\ left' \in Nat /\ pos' \in Nat /\ core' \in Listing \cup {core}
            /\ AtGroup(rom, num + 1, pos', core', left', Masters(c), Len(Descs(c)), Len(c.swraps))
  BY <1>1, <1>2, <1>13, GroupFrame DEF Grouping
<1> QED
  BY <1>11, <1>12, <1>13

\* The same of the next state; the steps of the other actions follow.
ListInvNext == ListType' /\ EromShown' /\ ReaderInv'

\* Only the reader's variables matter to what is known of it.
LEMMA Stays ==
  ASSUME ReaderInv, UNCHANGED <<rom, pc, readerVars, cores, saved>>
  PROVE  ReaderInv'
BY DEF ReaderInv, readerVars

\* Before the reader starts, the list is empty.
LEMMA BeforeStep ==
  ASSUME ListInvNow, pc \in Before, pc' \in Before \cup {"done", "return"}, UNCHANGED <<rom, readerVars, cores, saved>>
  PROVE  ListType' /\ ReaderInv'
<1>1. ListType'
  BY DEF ListInvNow, ListType, readerVars
<1>2. num = 0 /\ cores = <<>> /\ ~saved
  <2>1. pc # "done"
    BY DEF Before
  <2> QED
    BY <2>1 DEF ListInvNow, ReaderInv
<1>3. num' = 0 /\ cores' = <<>> /\ ~saved'
  BY <1>2 DEF readerVars
<1>4. pc' \notin Reading \cup Grouping \cup {"is_end", "get_ci", "skip", "slaves", "mwraps", "swraps", "append", "finished", "save"}
  BY DEF Before, Reading, Grouping
<1> QED
  BY <1>1, <1>3, <1>4 DEF ReaderInv

LEMMA Starting ==
  ASSUME ListInvNow, Refuse \/ SaveWindow \/ OpenBar \/ SelectChipCommon \/ ReadBase \/ SelectErom
  PROVE  ListInvNext
<1>1. pc \in Before /\ pc' \in Before \cup {"done", "return"} /\ UNCHANGED <<rom, readerVars, cores, saved>>
  BY DEF Refuse, SaveWindow, OpenBar, SelectChipCommon, ReadBase, SelectErom, Goto, Before
<1>2. EromShown
  BY DEF ListInvNow
<1>3. EromShown'
  BY <1>2 DEF EromShown, Refuse, SaveWindow, OpenBar, SelectChipCommon, ReadBase, SelectErom, Goto, Turn, Reading, windowVars
<1> QED
  BY <1>1, <1>3, BeforeStep DEF ListInvNext

\* The reader starts at the first component, with nothing collected.
LEMMA RawStep == ASSUME ListInvNow, ReadRaw PROVE ListInvNext
<1>1. pc = "raw" /\ pc' = "is_end" /\ pos' = 0 /\ UNCHANGED <<rom, windowVars, num, left, cib, core, cores, saved>>
  BY DEF ReadRaw, Goto
<1>2. num = 0 /\ cores = <<>> /\ ~saved
  BY <1>1 DEF ListInvNow, ReaderInv, Before
<1>3. ListType'
  BY <1>1 DEF ListInvNow, ListType
<1>4. EromShown'
  BY <1>1 DEF ListInvNow, EromShown, Reading, windowVars
<1>5. Between(rom, 0, 0)
  <2>1. Len(rom) \in Nat /\ Base(rom, 0 + 1) = 0
    BY LayoutFacts DEF ListInvNow
  <2> QED
    BY <2>1 DEF Between, NoStop
<1>6. Collected(rom, <<>>, 0)
  BY DEF Collected
<1>7. Between(rom', num', pos') /\ Collected(rom', cores', num') /\ ~saved'
  BY <1>1, <1>2, <1>5, <1>6
<1>8. ReaderInv'
  BY <1>1, <1>7 DEF ReaderInv, Before, Grouping
<1> QED
  BY <1>3, <1>4, <1>8 DEF ListInvNext

\* An exception leaves the list unsaved.
LEMMA RaiseStep == ASSUME ListInvNow, Raise PROVE ListInvNext
<1>1. pc \in Working /\ pc' = "raised" /\ UNCHANGED <<rom, windowVars, readerVars, cores, saved>>
  BY DEF Raise, Goto
<1>2. ~saved'
  BY <1>1 DEF ListInvNow, ReaderInv, Working
<1>3. ListType'
  BY <1>1 DEF ListInvNow, ListType, readerVars
<1>4. EromShown'
  BY <1>1 DEF EromShown, Reading
<1>5. ReaderInv'
  BY <1>1, <1>2 DEF ReaderInv, Before, Reading, Grouping
<1> QED
  BY <1>3, <1>4, <1>5 DEF ListInvNext

\* Between components the next stop is the head of the next component, or the end.
LEMMA BetweenFacts ==
  ASSUME ListInvNow, pc \in {"is_end", "get_ci"}
  PROVE  LET w == Entries(rom)[pos + 1]
         IN /\ window = "erom" /\ pos \in Nat /\ num \in Nat /\ num <= Len(rom) /\ At(pos) = w /\ ~saved
            /\ Between(rom, num, pos) /\ Collected(rom, cores, num)
            /\ Base(rom, num + 1) \in Nat
            /\ pos <= Base(rom, num + 1)
            /\ w.tag \in {"ci", "end"} => pos = Base(rom, num + 1)
            /\ pos = Base(rom, num + 1) => w.tag \in {"ci", "end"}
            /\ w.tag = "ci" => num + 1 \in 1 .. Len(rom)
            /\ w.tag = "end" => num = Len(rom)
<1>1. window = "erom" /\ pos \in Nat /\ num \in Nat /\ ~saved /\ Between(rom, num, pos) /\ Collected(rom, cores, num) /\ rom \in Seq(Component)
  BY DEF ListInvNow, EromShown, ListType, ReaderInv, Reading
<1>2. num <= Len(rom) /\ pos <= Base(rom, num + 1) /\ NoStop(rom, pos, Base(rom, num + 1))
  BY <1>1 DEF Between
<1>3. Len(rom) \in Nat /\ num + 1 \in 1 .. Len(rom) + 1
  BY <1>1, <1>2, SeqFacts
<1>4. Base(rom, num + 1) \in Nat /\ Base(rom, num + 1) < Len(Entries(rom)) /\ Len(Entries(rom)) \in Nat
  BY <1>1, <1>3, LayoutFacts
<1>5. At(pos) = Entries(rom)[pos + 1]
  <2>1. pos < Len(Entries(rom))
    BY <1>1, <1>2, <1>4
  <2> QED
    BY <1>1, <2>1, Shown
<1>6. Entries(rom)[pos + 1].tag \in {"ci", "end"} => pos = Base(rom, num + 1)
  BY <1>1, <1>2, <1>4 DEF NoStop
<1>7. CASE num = Len(rom)
  <2>1. Entries(rom)[Base(rom, num + 1) + 1].tag = "end"
    BY <1>1, <1>7, LayoutFacts
  <2> QED
    BY <1>1, <1>2, <1>4, <1>5, <1>6, <1>7, <2>1
<1>8. CASE num # Len(rom)
  <2>1. num + 1 \in 1 .. Len(rom)
    BY <1>1, <1>2, <1>3, <1>8
  <2>2. Entries(rom)[Base(rom, num + 1) + 1].tag = "ci"
    BY <1>1, <2>1, HeadFacts
  <2> QED
    BY <1>1, <1>2, <1>4, <1>5, <1>6, <2>1, <2>2
<1> QED
  BY <1>7, <1>8

\* The end is found behind the last component only: then the list is complete.
LEMMA EndStep == ASSUME ListInvNow, is_end PROVE ListInvNext
<1>1. pc = "is_end" /\ UNCHANGED <<rom, windowVars, readerVars, cores, saved>>
      /\ pc' = IF At(pos).tag = "end" THEN "finished" ELSE "get_ci"
  BY DEF is_end, Goto, Untouched
<1>2. ListType'
  BY <1>1 DEF ListInvNow, ListType, readerVars
<1>3. EromShown'
  BY <1>1 DEF ListInvNow, EromShown, Reading, windowVars
<1>4. /\ At(pos) = Entries(rom)[pos + 1] /\ Between(rom, num, pos) /\ Collected(rom, cores, num) /\ ~saved
      /\ At(pos).tag = "end" => num = Len(rom)
  BY <1>1, BetweenFacts
<1>5. rom' = rom /\ num' = num /\ pos' = pos /\ cores' = cores /\ ~saved'
  BY <1>1, <1>4 DEF readerVars
<1>6. CASE At(pos).tag = "end"
  <2>1. pc' = "finished" /\ Collected(rom', cores', Len(rom'))
    BY <1>1, <1>4, <1>5, <1>6
  <2> QED
    BY <1>2, <1>3, <1>5, <2>1 DEF ListInvNext, ReaderInv, Before, Reading, Grouping
<1>7. CASE At(pos).tag # "end"
  <2>1. pc' = "get_ci" /\ Collected(rom', cores', num') /\ Between(rom', num', pos') /\ Entries(rom')[pos' + 1].tag # "end"
    BY <1>1, <1>4, <1>5, <1>7
  <2> QED
    BY <1>2, <1>3, <1>5, <2>1 DEF ListInvNext, ReaderInv, Before, Reading, Grouping
<1> QED
  BY <1>6, <1>7

\* The clean-up and the saving keep the list.
LEMMA FinallyStep == ASSUME ListInvNow, Finally PROVE ListInvNext
<1>1. /\ pc \in {"finished", "raised", "return"} /\ UNCHANGED <<rom, readerVars, cores, saved>>
      /\ pc' = IF pc = "finished" THEN "save" ELSE "done"
  BY DEF Finally, Goto
<1>2. ListType'
  BY <1>1 DEF ListInvNow, ListType, readerVars
<1>3. EromShown'
  BY <1>1 DEF EromShown, Reading
<1>4. ~saved' /\ (pc = "finished" => Collected(rom', cores', Len(rom')))
  BY <1>1 DEF ListInvNow, ReaderInv
<1>5. ReaderInv'
  BY <1>1, <1>4 DEF ReaderInv, Before, Reading, Grouping
<1> QED
  BY <1>2, <1>3, <1>5 DEF ListInvNext

LEMMA SaveStep == ASSUME ListInvNow, Save PROVE ListInvNext
<1>1. pc = "save" /\ pc' = "done" /\ saved' = TRUE /\ UNCHANGED <<rom, windowVars, readerVars, cores>>
  BY DEF Save, Goto
<1>2. ListType'
  BY <1>1 DEF ListInvNow, ListType, readerVars
<1>3. EromShown'
  BY <1>1 DEF EromShown, Reading
<1>4. Collected(rom', cores', Len(rom'))
  BY <1>1 DEF ListInvNow, ReaderInv
<1>5. ReaderInv'
  BY <1>1, <1>4 DEF ReaderInv, Before, Reading, Grouping
<1> QED
  BY <1>2, <1>3, <1>5 DEF ListInvNext

\* The driver turns the window before or after the script, or the ROM is not followed.
LEMMA DriverStep == ASSUME ListInvNow, DriverMoves, ~moved' PROVE ListInvNext
<1>1. pc \in {"start", "done"} /\ UNCHANGED <<rom, pc, readerVars, cores, saved>>
  BY DEF DriverMoves
<1>2. ListType'
  BY <1>1 DEF ListInvNow, ListType, readerVars
<1>3. EromShown'
  BY <1>1 DEF EromShown, Reading
<1>4. ReaderInv'
  BY <1>1, Stays DEF ListInvNow
<1> QED
  BY <1>2, <1>3, <1>4 DEF ListInvNext

\* A word that begins no component is passed over.
LEMMA PassOverStep ==
  ASSUME ListInvNow, get_ci, At(pos).tag # "ci"
  PROVE  ListInvNext
<1>1. pc = "get_ci" /\ pc' = "is_end" /\ pos' = pos + 1 /\ UNCHANGED <<rom, windowVars, num, left, cib, core, cores, saved>>
  BY DEF get_ci, Goto, Untouched, PassOver
<1> DEFINE b == Base(rom, num + 1)
           w == Entries(rom)[pos + 1]
<1>2. /\ pos \in Nat /\ b \in Nat /\ At(pos) = w /\ Between(rom, num, pos) /\ Collected(rom, cores, num) /\ ~saved
      /\ pos <= b /\ (pos = b => w.tag \in {"ci", "end"})
  BY <1>1, BetweenFacts
<1>3. w.tag # "end"
  BY <1>1 DEF ListInvNow, ReaderInv
<1>4. pos # b
  BY <1>2, <1>3
<1>5. Between(rom, num, pos + 1)
  <2>1. num <= Len(rom) /\ NoStop(rom, pos, b)
    BY <1>2 DEF Between
  <2> HIDE DEF b, w
  <2>2. pos + 1 <= b /\ \A s \in Nat : pos + 1 <= s => pos <= s
    BY <1>2, <1>4
  <2>3. NoStop(rom, pos + 1, b)
    BY <2>1, <2>2 DEF NoStop
  <2> QED
    BY <2>1, <2>2, <2>3 DEF Between, b
<1>6. ListType'
  BY <1>1, <1>2 DEF ListInvNow, ListType
<1>7. EromShown'
  BY <1>1 DEF ListInvNow, EromShown, Reading, windowVars
<1>8. Between(rom', num', pos') /\ Collected(rom', cores', num') /\ ~saved'
  BY <1>1, <1>2, <1>5
<1>9. ReaderInv'
  BY <1>1, <1>8 DEF ReaderInv, Before, Grouping
<1> QED
  BY <1>6, <1>7, <1>9 DEF ListInvNext

\* At a component, the two words of its head are read.
LEMMA HeadRead ==
  ASSUME ListInvNow, pc = "get_ci", At(pos).tag = "ci"
  PROVE  LET c == rom[num + 1]
             b == Base(rom, num + 1)
         IN /\ num \in Nat /\ num + 1 \in 1 .. Len(rom) /\ num < Len(rom) /\ c \in Component /\ pos = b /\ b \in Nat
            /\ At(pos).id = c.id /\ At(pos + 1) = Entries(rom)[b + 2]
            /\ At(pos + 1).nmp = c.nmp /\ At(pos + 1).nsp = c.nsp
            /\ Collected(rom, cores, num) /\ ~saved
            /\ Skipped(At(pos).id, At(pos + 1)) <=> ~Kept(c)
<1> DEFINE c == rom[num + 1]
           b == Base(rom, num + 1)
           e == Base(rom, num + 1 + 1)
<1>1. /\ window = "erom" /\ num \in Nat /\ At(pos) = Entries(rom)[pos + 1] /\ Collected(rom, cores, num) /\ ~saved
      /\ pos = b /\ num + 1 \in 1 .. Len(rom)
  BY BetweenFacts
<1>2. /\ rom \in Seq(Component) /\ c \in Component /\ b \in Nat /\ e \in Nat /\ b + 2 + c.nmp <= e /\ e < Len(Entries(rom))
      /\ Entries(rom)[b + 1].id = c.id /\ Entries(rom)[b + 2].nmp = c.nmp /\ Entries(rom)[b + 2].nsp = c.nsp
      /\ Len(Entries(rom)) \in Nat /\ Len(rom) \in Nat
  <2>1. rom \in Seq(Component)
    BY DEF ListInvNow
  <2>2. Len(Entries(rom)) \in Nat /\ Len(rom) \in Nat
    BY <2>1, LayoutFacts
  <2> QED
    BY <1>1, <2>1, <2>2, HeadFacts
<1>3. c.nmp \in Nat /\ c.nsp \in Nat /\ c.id \in {"core", "arm default"}
  BY <1>2 DEF Component
<1>4. At(pos + 1) = Entries(rom)[b + 2]
  <2>1. \A x, y, z, v \in Nat : x + 2 + y <= z /\ z < v => x + 1 \in Nat /\ x + 1 < v /\ (x + 1) + 1 = x + 2
    OBVIOUS
  <2>2. b + 1 \in Nat /\ b + 1 < Len(Entries(rom)) /\ (b + 1) + 1 = b + 2
    BY <1>2, <1>3, <2>1, Zenon
  <2>3. At(b + 1) = Entries(rom)[(b + 1) + 1]
    BY <1>1, <1>2, <2>2, Shown
  <2> QED
    BY <1>1, <2>2, <2>3
<1>5. Skipped(At(pos).id, At(pos + 1)) <=> ~Kept(c)
  <2>1. At(pos).id = c.id /\ At(pos + 1).nsp = c.nsp
    BY <1>1, <1>2, <1>4
  <2>5. \A x \in Nat : x > 0 <=> ~(x = 0)
    OBVIOUS
  <2>2. c.nsp > 0 <=> ~(c.nsp = 0)
    BY <1>3, <2>5
  <2>3. c.id = "core" <=> ~(c.id = "arm default")
    BY <1>3
  <2>4. Skipped(At(pos).id, At(pos + 1)) <=> (c.id = "arm default" \/ c.nsp = 0)
    BY <2>1 DEF Skipped
  <2> QED
    BY <2>2, <2>3, <2>4, Zenon DEF Kept
<1>6. num < Len(rom)
  BY <1>1, <1>2
<1> QED
  BY <1>1, <1>2, <1>4, <1>5, <1>6

\* A component that is not listed is skipped; one that is listed is begun.
LEMMA SkipAhead ==
  ASSUME ListInvNow, get_ci, At(pos).tag = "ci", Skipped(At(pos).id, At(pos + 1))
  PROVE  ListInvNext
<1>1. pc = "get_ci" /\ pc' = "skip" /\ pos' = pos + 2 /\ UNCHANGED <<rom, windowVars, num, left, cib, core, cores, saved>>
  BY DEF get_ci, Goto, Untouched
<1>2. /\ num < Len(rom) /\ ~Kept(rom[num + 1]) /\ pos = Base(rom, num + 1) /\ pos \in Nat /\ Collected(rom, cores, num) /\ ~saved
  BY <1>1, HeadRead
<1>3. ListType'
  BY <1>1, <1>2 DEF ListInvNow, ListType
<1>4. EromShown'
  BY <1>1 DEF ListInvNow, EromShown, Reading, windowVars
<1>5. num' < Len(rom') /\ ~Kept(rom'[num' + 1]) /\ pos' = Base(rom', num' + 1) + 2 /\ Collected(rom', cores', num') /\ ~saved'
  BY <1>1, <1>2
<1>6. ReaderInv'
  BY <1>1, <1>5 DEF ReaderInv, Before, Grouping
<1> QED
  BY <1>3, <1>4, <1>6 DEF ListInvNext

LEMMA BeginComponent ==
  ASSUME ListInvNow, get_ci, At(pos).tag = "ci", ~Skipped(At(pos).id, At(pos + 1))
  PROVE  ListInvNext
<1> DEFINE c == rom[num + 1]
<1>1. /\ pc = "get_ci" /\ pc' = "slaves" /\ UNCHANGED <<rom, windowVars, num, cores, saved>>
      /\ cib' = At(pos + 1) /\ pos' = pos + 2 + cib'.nmp /\ left' = cib'.nsp /\ core' = Blank
  BY DEF get_ci, Goto, Untouched
<1>2. /\ num \in Nat /\ num + 1 \in 1 .. Len(rom) /\ num < Len(rom) /\ Kept(c) /\ c \in Component /\ pos = Base(rom, num + 1)
      /\ pos \in Nat /\ Collected(rom, cores, num) /\ ~saved
      /\ cib' = Entries(rom)[Base(rom, num + 1) + 2] /\ cib'.nmp = c.nmp /\ cib'.nsp = c.nsp
  BY <1>1, HeadRead
<1>3. c.nmp \in Nat /\ c.nsp \in Nat /\ pos' \in Nat /\ left' \in Nat
  <2>1. c.nmp \in Nat /\ c.nsp \in Nat
    BY <1>2 DEF Component
  <2> QED
    BY <1>1, <1>2, <2>1, SMTT(30)
<1>4. core' = ReadSoFar(c, 0) /\ core' \in Listing /\ Slaves(c) \in Nat
  <2>1. 0 \in 0 .. Len(Descs(c)) /\ Slaves(c) \in Nat
    BY <1>2, GroupTypes
  <2> QED
    BY <1>1, <1>2, <2>1, ReadNone, ReadFacts
<1>5. pos' = Place(rom, num + 1, 0 + 1)
  <2>1. Place(rom, num + 1, 1) = Base(rom, num + 1) + 2 + c.nmp
    BY <1>2, PlaceFacts DEF ListInvNow
  <2> QED
    BY <1>1, <1>2, <2>1
<1>6. AtGroup(rom, num + 1, pos', core', left', 0, Slaves(c), c.nsp)
  <2>1. 0 \in 0 .. Slaves(c) /\ left' \in 0 .. c.nsp /\ ~(left' < c.nsp)
    BY <1>1, <1>2, <1>3, <1>4
  <2> QED
    BY <1>4, <1>5, <2>1 DEF AtGroup, InOrder
<1>7. ListType'
  BY <1>1, <1>3, <1>4 DEF ListInvNow, ListType
<1>8. EromShown'
  BY <1>1 DEF ListInvNow, EromShown, Reading, windowVars
<1>9. Taking(rom', num', cib') /\ Collected(rom', cores', num') /\ ~saved'
  BY <1>1, <1>2 DEF Taking
<1>10. AtGroup(rom', num' + 1, pos', core', left', 0, Slaves(rom'[num' + 1]), rom'[num' + 1].nsp)
  BY <1>1, <1>6
<1>11. ReaderInv'
  BY <1>1, <1>9, <1>10 DEF ReaderInv, Before
<1> QED
  BY <1>7, <1>8, <1>11 DEF ListInvNext

LEMMA ComponentStep == ASSUME ListInvNow, get_ci PROVE ListInvNext
BY PassOverStep, SkipAhead, BeginComponent

\* A component that is not listed leaves the list right about one more.
LEMMA OneMore ==
  ASSUME NEW r \in Seq(Component), NEW cs, NEW m \in Nat, Collected(r, cs, m), ~Kept(r[m + 1])
  PROVE  Collected(r, cs, m + 1)
<1>1. {i \in 1 .. m + 1 : Kept(r[i])} = {i \in 1 .. m : Kept(r[i])}
  <2>1. 1 .. m + 1 = (1 .. m) \cup {m + 1}
    OBVIOUS
  <2> QED
    BY <2>1
<1> QED
  BY <1>1 DEF Collected

\* The next stop of a skipped quiet component is the component behind it.
LEMMA SkipStep == ASSUME ListInvNow, skip_component, Size \in Nat PROVE ListInvNext
<1> DEFINE stops == {p \in pos .. Size - 1 : At(p).tag \in {"ci", "end"}}
           b == Base(rom, num + 1)
           e == Base(rom, num + 1 + 1)
<1>1. /\ pc = "skip" /\ stops # {} /\ pos' = CHOOSE p \in stops : \A q \in stops : p <= q
      /\ num' = num + 1 /\ pc' = "is_end" /\ UNCHANGED <<rom, windowVars, left, cib, core, cores, saved>>
  BY DEF skip_component, Goto, Untouched
<1>2. /\ rom \in Seq(Component) /\ window = "erom" /\ num \in Nat /\ pos \in Nat /\ ~saved
      /\ num < Len(rom) /\ ~Kept(rom[num + 1]) /\ pos = b + 2 /\ Collected(rom, cores, num)
  BY <1>1 DEF ListInvNow, EromShown, ListType, ReaderInv, Reading
<1>3. num + 1 \in 1 .. Len(rom) /\ Len(rom) \in Nat /\ DOMAIN rom = 1 .. Len(rom)
  BY <1>2, SeqFacts
<1>4. b \in Nat /\ e \in Nat /\ e < Len(Entries(rom)) /\ Len(Entries(rom)) \in Nat /\ Entries(rom)[e + 1].tag \in {"ci", "end"}
  BY <1>2, <1>3, HeadFacts, LayoutFacts
<1>5. b + 2 <= e
  <2>1. rom[num + 1].nmp \in Nat /\ b + 2 + rom[num + 1].nmp <= e
    BY <1>2, <1>3, HeadFacts DEF Component
  <2> QED
    BY <1>4, <2>1
<1>6. NoStop(rom, b + 2, e)
  <2>1. Quiet(rom[num + 1])
    BY <1>2, <1>3 DEF ListInvNow, Followed, Readable
  <2> QED
    BY <1>2, <1>3, <2>1, QuietInside
<1> HIDE DEF b, e
<1>7. \A p \in Nat : p < Len(Entries(rom)) => At(p) = Entries(rom)[p + 1]
  BY <1>2, Shown
<1>8. \A p \in stops : p \in Nat /\ e <= p
  <2> SUFFICES ASSUME NEW p \in stops, ~(e <= p) PROVE FALSE
    BY <1>2
  <2>1. p \in Nat /\ b + 2 <= p /\ p < e /\ At(p).tag \in {"ci", "end"}
    BY <1>2, <1>4
  <2>2. p < Len(Entries(rom))
    BY <1>4, <2>1
  <2> QED
    BY <1>6, <1>7, <2>1, <2>2 DEF NoStop
<1>9. e \in stops
  <2>1. PICK p \in stops : TRUE
    BY <1>1
  <2>2. p \in pos .. Size - 1 /\ e <= p /\ p \in Nat
    BY <1>8
  <2>3. e \in pos .. Size - 1
    BY <1>2, <1>4, <1>5, <2>2
  <2>4. At(e).tag \in {"ci", "end"}
    BY <1>4, <1>7
  <2> QED
    BY <2>3, <2>4
<1> HIDE DEF stops
<1>10. pos' = e
  <2>1. e \in stops /\ \A q \in stops : e <= q
    BY <1>8, <1>9
  <2>2. pos' \in stops /\ \A q \in stops : pos' <= q
    BY <1>1, <2>1
  <2> QED
    BY <1>4, <1>8, <2>1, <2>2
<1>11. Between(rom, num + 1, e)
  <2>1. NoStop(rom, e, e)
    BY <1>4 DEF NoStop
  <2> QED
    BY <1>2, <1>3, <1>4, <2>1 DEF Between, e
<1>12. Collected(rom, cores, num + 1)
  BY <1>2, OneMore
<1>13. ListType'
  <2>1. left' = left /\ core' = core /\ cores' = cores
    BY <1>1
  <2>2. pos' \in Nat
    BY <1>4, <1>10
  <2>3. num' \in Nat
    BY <1>1, <1>2
  <2> QED
    BY <2>1, <2>2, <2>3 DEF ListInvNow, ListType
<1>14. EromShown'
  BY <1>1 DEF ListInvNow, EromShown, Reading, windowVars
<1>15. Between(rom', num', pos') /\ Collected(rom', cores', num') /\ ~saved'
  BY <1>1, <1>2, <1>10, <1>11, <1>12
<1>16. ReaderInv'
  BY <1>1, <1>15 DEF ReaderInv, Before, Grouping
<1> QED
  BY <1>13, <1>14, <1>16 DEF ListInvNext

\* An entry that is right leaves the list right about one more.
LEMMA Taken ==
  ASSUME NEW r \in Seq(Component), NEW T, NEW cs \in Seq(T), NEW m \in Nat, Collected(r, cs, m), Kept(r[m + 1]),
         NEW e \in T, e.index = m, RightEntry(r, e), \A k \in DOMAIN cs : cs[k].index \in Nat
  PROVE  Collected(r, Append(cs, e), m + 1)
<1> DEFINE new == Append(cs, e)
           n == Len(cs)
<1>1. n \in Nat /\ DOMAIN cs = 1 .. n /\ DOMAIN new = 1 .. n + 1 /\ new[n + 1] = e /\ \A k \in 1 .. n : new[k] = cs[k]
  OBVIOUS
<1>2. 1 .. m + 1 = (1 .. m) \cup {m + 1} /\ 1 .. n + 1 = (1 .. n) \cup {n + 1}
  BY <1>1
<1> HIDE DEF new, n
<1>3. {new[k].index + 1 : k \in DOMAIN new} = {cs[k].index + 1 : k \in DOMAIN cs} \cup {m + 1}
  BY <1>1, <1>2
<1>4. {i \in 1 .. m + 1 : Kept(r[i])} = {i \in 1 .. m : Kept(r[i])} \cup {m + 1}
  BY <1>2
<1>5. \A k \in 1 .. n : cs[k].index \in Nat /\ cs[k].index < m
  <2> SUFFICES ASSUME NEW k \in 1 .. n PROVE cs[k].index \in Nat /\ cs[k].index < m
    OBVIOUS
  <2>1. cs[k].index + 1 \in 1 .. m /\ cs[k].index \in Nat
    BY <1>1 DEF Collected
  <2> QED
    BY <2>1
<1>6. \A k, l \in DOMAIN new : k < l => new[k].index < new[l].index
  <2> SUFFICES ASSUME NEW k \in 1 .. n + 1, NEW l \in 1 .. n + 1, k < l PROVE new[k].index < new[l].index
    BY <1>1
  <2>1. k \in 1 .. n
    BY <1>1
  <2>2. CASE l \in 1 .. n
    BY <1>1, <2>1, <2>2 DEF Collected
  <2>3. CASE l = n + 1
    BY <1>1, <1>5, <2>1, <2>3
  <2> QED
    BY <1>2, <2>2, <2>3
<1>7. \A k \in DOMAIN new : RightEntry(r, new[k])
  BY <1>1, <1>2 DEF Collected
<1> QED
  BY <1>3, <1>4, <1>6, <1>7 DEF Collected, new

\* A component that was read is listed right, also when the reader ended inside it.
LEMMA AppendStep == ASSUME ListInvNow, AppendCore PROVE ListInvNext
<1> DEFINE c == rom[num + 1]
           n == Len(Descs(c))
           e == Base(rom, num + 1 + 1)
           T == [index : Nat, addresses : Seq(Types), wrappers : Seq(Types)]
           new == [index |-> num, addresses |-> core.addresses, wrappers |-> core.wrappers]
<1>1. /\ pc = "append" /\ pc \in Grouping /\ pc' = "is_end" /\ cores' = Append(cores, new) /\ num' = num + 1
      /\ UNCHANGED <<rom, windowVars, pos, left, cib, core, saved>>
  BY DEF AppendCore, Goto, Untouched, Grouping
<1>2. /\ num \in Nat /\ num + 1 \in 1 .. Len(rom) /\ c \in Component /\ Kept(c) /\ (SplitUp(c) => Quiet(c))
  BY <1>1, AtComponent
<1>3. /\ rom \in Seq(Component) /\ pos \in Nat /\ core \in Listing /\ cores \in Seq(T) /\ Collected(rom, cores, num) /\ ~saved
      /\ (pos = e /\ core = ReadSoFar(c, n)) \/ Astray(rom, num + 1, pos, core)
  BY <1>1 DEF ListInvNow, ListType, ReaderInv, Reading
<1>4. e \in Nat /\ Len(rom) \in Nat
  BY <1>2, <1>3, HeadFacts, LayoutFacts
<1>5. new \in T
  BY <1>2, <1>3 DEF Listing
<1>6. core.addresses = TypesOf(c.slaves) /\ (core.wrappers = TypesOf(c.mwraps) \o TypesOf(c.swraps) \/ SplitUp(c))
  <2>1. CASE core = ReadSoFar(c, n)
    <3>1. n \in 0 .. n /\ n >= Slaves(c)
      <4> DEFINE a == Slaves(c)
                 b == Masters(c)
                 x == Len(c.mwraps)
                 y == Len(c.swraps)
      <4>1. a \in Nat /\ b \in Nat /\ x \in Nat /\ y \in Nat /\ n \in Nat /\ b = a + x /\ n = b + y
        BY <1>2, GroupTypes
      <4> HIDE DEF a, b, x, y, n
      <4>2. n \in 0 .. n /\ n >= a
        BY <4>1
      <4> QED
        BY <4>2 DEF a
    <3> QED
      BY <1>2, <2>1, <3>1, ReadFacts
  <2>2. CASE Astray(rom, num + 1, pos, core)
    BY <2>2 DEF Astray
  <2> QED
    BY <1>3, <2>1, <2>2
<1>7. RightEntry(rom, new)
  BY <1>6 DEF RightEntry
<1>8. \A k \in DOMAIN cores : cores[k].index \in Nat
  <2>1. DOMAIN cores = 1 .. Len(cores) /\ \A k \in 1 .. Len(cores) : cores[k] \in T
    BY <1>3, SeqFacts
  <2> QED
    BY <2>1
<1>9. Collected(rom, Append(cores, new), num + 1)
  <2>1. new.index = num
    OBVIOUS
  <2> HIDE DEF new, T
  <2> QED
    BY <1>2, <1>3, <1>5, <1>7, <1>8, <2>1, Taken
<1>10. Between(rom, num + 1, pos)
  <2>1. num + 1 <= Len(rom)
    BY <1>2, <1>4
  <2>2. CASE pos = e
    BY <1>3, <1>4, <2>1, <2>2 DEF Between, NoStop
  <2>3. CASE Astray(rom, num + 1, pos, core)
    <3>1. pos < e /\ Base(rom, num + 1) + 2 <= pos /\ Quiet(c)
      BY <1>2, <2>3 DEF Astray
    <3>2. NoStop(rom, Base(rom, num + 1) + 2, e) /\ Base(rom, num + 1) \in Nat
      BY <1>2, <1>3, <3>1, QuietInside, HeadFacts
    <3> HIDE DEF e
    <3>3. \A s \in Nat : pos <= s => Base(rom, num + 1) + 2 <= s
      BY <1>3, <3>1, <3>2
    <3>4. NoStop(rom, pos, e)
      BY <3>2, <3>3 DEF NoStop
    <3>5. pos <= e
      BY <1>3, <1>4, <3>1
    <3> QED
      BY <2>1, <3>4, <3>5 DEF Between, e
  <2> QED
    BY <1>3, <2>2, <2>3
<1>11. ListType'
  <2>1. Append(cores, new) \in Seq(T)
    BY <1>3, <1>5
  <2> HIDE DEF new
  <2> QED
    BY <1>1, <1>2, <2>1 DEF ListInvNow, ListType
<1>12. EromShown'
  BY <1>1 DEF ListInvNow, EromShown, Reading, windowVars
<1>13. Between(rom', num', pos') /\ Collected(rom', cores', num') /\ ~saved'
  BY <1>1, <1>3, <1>9, <1>10
<1>14. ReaderInv'
  BY <1>1, <1>13 DEF ReaderInv, Before, Grouping
<1> QED
  BY <1>11, <1>12, <1>14 DEF ListInvNext

-----------------------------------------------------------------------------
\* The theorem.

\* The invariant holds at first and is kept by every step.
LEMMA InitList == Init => ListInv
<1> SUFFICES ASSUME Init PROVE ListInv
  OBVIOUS
<1>1. rom \in Seq(Component)
  BY EnumerationAssumption DEF Init
<1>2. /\ pc = "start" /\ num = 0 /\ pos = 0 /\ left = 0 /\ core = Blank /\ cores = <<>> /\ saved = FALSE
  BY DEF Init
<1>3. ListType
  <2>1. Blank \in Listing
    BY DEF Blank, Listing
  <2> QED
    BY <1>2, <2>1 DEF ListType
<1>4. EromShown
  BY <1>2 DEF EromShown, Reading
<1>5. ReaderInv
  BY <1>2 DEF ReaderInv, Before, Reading, Grouping
<1> QED
  BY <1>1, <1>3, <1>4, <1>5 DEF ListInv

LEMMA NextList == ListInv /\ [Next]_vars => ListInv'
<1> SUFFICES ASSUME ListInv, [Next]_vars PROVE ListInv'
  OBVIOUS
<1>1. rom \in Seq(Component) /\ rom' = rom
  <2>1. rom \in Seq(Component)
    BY DEF ListInv
  <2>2. CASE DriverMoves
    BY <2>1, <2>2 DEF DriverMoves
  <2>3. CASE Script
    BY <2>1, <2>3 DEF Script, Refuse, SaveWindow, OpenBar, SelectChipCommon, ReadBase, SelectErom, ReadRaw, Raise, is_end, get_ci,
          skip_component, ReadSlaves, ReadMwraps, ReadSwraps, Round, AppendCore, Finally, Save, Untouched
  <2>4. CASE UNCHANGED vars
    BY <2>1, <2>4 DEF vars
  <2> QED
    BY <2>2, <2>3, <2>4 DEF Next
<1>2. ASSUME ~moved' PROVE ~moved
  <2>1. CASE DriverMoves
    BY <1>2, <2>1 DEF DriverMoves
  <2>2. CASE Script
    BY <1>2, <2>2 DEF Script, Refuse, SaveWindow, OpenBar, SelectChipCommon, ReadBase, SelectErom, ReadRaw, Raise, is_end, get_ci,
          skip_component, ReadSlaves, ReadMwraps, ReadSwraps, Round, AppendCore, Finally, Save, Untouched, Turn, windowVars
  <2>3. CASE UNCHANGED vars
    BY <1>2, <2>3 DEF vars, windowVars
  <2> QED
    BY <2>1, <2>2, <2>3 DEF Next
<1>3. ASSUME Followed' PROVE ListInvNext
  <2>1. ~moved' /\ Readable(rom)
    BY <1>1, <1>3 DEF Followed
  <2>2. ListInvNow
    BY <1>1, <1>2, <2>1 DEF ListInvNow, Followed, ListInv
  <2>3. CASE DriverMoves
    BY <2>1, <2>2, <2>3, DriverStep
  <2>4. CASE Refuse \/ SaveWindow \/ OpenBar \/ SelectChipCommon \/ ReadBase \/ SelectErom
    BY <2>2, <2>4, Starting
  <2>5. CASE ReadRaw
    BY <2>2, <2>5, RawStep
  <2>6. CASE Raise
    BY <2>2, <2>6, RaiseStep
  <2>7. CASE is_end
    BY <2>2, <2>7, EndStep
  <2>8. CASE get_ci
    BY <2>2, <2>8, ComponentStep
  <2>9. CASE skip_component
    BY <2>2, <2>9, SkipStep, EnumerationAssumption
  <2>10. CASE ReadSlaves
    BY <2>2, <2>10, SlavesStep DEF ListInvNext
  <2>11. CASE ReadMwraps
    BY <2>2, <2>11, MwrapsStep DEF ListInvNext
  <2>12. CASE ReadSwraps
    BY <2>2, <2>12, SwrapsStep DEF ListInvNext
  <2>13. CASE AppendCore
    BY <2>2, <2>13, AppendStep
  <2>14. CASE Finally
    BY <2>2, <2>14, FinallyStep
  <2>15. CASE Save
    BY <2>2, <2>15, SaveStep
  <2>16. CASE UNCHANGED vars
    <3>1. ListType' /\ EromShown'
      BY <2>2, <2>16 DEF ListInvNow, ListType, EromShown, vars, readerVars, windowVars
    <3>2. ReaderInv'
      BY <2>2, <2>16, Stays DEF ListInvNow, vars
    <3> QED
      BY <3>1, <3>2 DEF ListInvNext
  <2> QED
    BY <2>3, <2>4, <2>5, <2>6, <2>7, <2>8, <2>9, <2>10, <2>11, <2>12, <2>13, <2>14, <2>15, <2>16 DEF Next, Script
<1> QED
  BY <1>1, <1>3 DEF ListInv, ListInvNext

\* The inductive invariant of the list holds for every chip that is in Seq(Component).
THEOREM ListIsKept == Spec => []ListInv
BY InitList, NextList, PTL DEF Spec

\* The invariant of a saved list is what CoresAreRight says of it.
LEMMA ListImplies == ListInv => CoresAreRight
<1> SUFFICES ASSUME ListInv, saved, ~moved, \A i \in DOMAIN rom : ~Lookalike(i)
    PROVE  /\ {cores[k].index + 1 : k \in DOMAIN cores} = {i \in DOMAIN rom : Keeps(i)}
           /\ \A k, l \in DOMAIN cores : k < l => cores[k].index < cores[l].index
           /\ \A k \in DOMAIN cores : ListedRight(cores[k])
  BY DEF CoresAreRight
<1>1. \A i : (Keeps(i) <=> Kept(rom[i])) /\ (Split(i) <=> SplitUp(rom[i]))
  BY DEF Keeps, Kept, Split, SplitUp
<1>2. Followed
  <2> SUFFICES ASSUME NEW i \in DOMAIN rom, ~Kept(rom[i]) \/ SplitUp(rom[i]) PROVE Quiet(rom[i])
    BY DEF Followed, Readable
  <2>1. \A d \in Range(Descs(rom[i])) : \A w \in Range(d.extra) : w = "invalid"
    BY <1>1 DEF Lookalike
  <2>2. \A s : \A k \in DOMAIN s : s[k] \in Range(s)
    BY DEF Range
  <2> QED
    BY <2>1, <2>2 DEF Quiet
<1>3. Collected(rom, cores, Len(rom)) /\ DOMAIN rom = 1 .. Len(rom)
  BY <1>2, SeqFacts DEF ListInv, ReaderInv
<1>4. \A k \in DOMAIN cores : RightEntry(rom, cores[k])
  BY <1>3 DEF Collected
<1>5. \A k \in DOMAIN cores : ListedRight(cores[k])
  BY <1>1, <1>4 DEF RightEntry, ListedRight
<1>6. {i \in DOMAIN rom : Keeps(i)} = {i \in 1 .. Len(rom) : Kept(rom[i])}
  BY <1>1, <1>3
<1> QED
  BY <1>3, <1>5, <1>6 DEF Collected

\* The file that is saved lists the chip's cores, in its order, each once, with its
\* number, addresses and wrappers (unless the driver turned the window meanwhile, or a
\* word inside a component was taken for an entry): CoresAreRight, for every list of
\* components, every number of their ports and every length of their descriptors.
THEOREM CoresAreRightHolds == Spec => []CoresAreRight
BY ListIsKept, ListImplies, PTL
=============================================================================
