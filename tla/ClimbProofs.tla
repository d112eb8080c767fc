---------------------------- MODULE ClimbProofs ----------------------------
(***************************************************************************)
(* What the walk of Climb establishes for every call graph, every entry    *)
(* point and every depth limit.                                            *)
(***************************************************************************)
EXTENDS Climb, TLAPS, FiniteSetTheorems, SequenceTheorems

\* The parts of the inductive invariant that are not properties of their own.
Split ==
  /\ root \in seen
  /\ seen = read \cup cut \cup Queued
Frontier ==
  /\ \A n \in read : edge[n] \subseteq seen /\ level[n] <= last
  /\ \A n \in cut : level[n] = last + 1
Levelled ==
  /\ \A k \in DOMAIN queue : level[queue[k][1]] = queue[k][2]
  /\ \A j, k \in DOMAIN queue : j < k => queue[j][2] <= queue[k][2]
  /\ queue # <<>> => \A n \in seen : level[n] <= Head(queue)[2] + 1
  /\ \A n \in seen : level[n] <= last + 1
ClimbInv == /\ ClimbTypeOK /\ Split /\ Frontier /\ Levelled
            /\ ReachedIsReachable /\ PathsAreReal /\ LevelsAreShortest

\* The orders of a finite set list exactly its members.
LEMMA OrdersList ==
  ASSUME NEW S, IsFiniteSet(S), NEW o \in Orders(S)
  PROVE  /\ Cardinality(S) \in Nat
         /\ o \in [1 .. Cardinality(S) -> S]
         /\ \A n \in S : \E k \in 1 .. Cardinality(S) : o[k] = n
<1>1. Cardinality(S) \in Nat
  BY FS_CardinalityType
<1> QED
  BY <1>1 DEF Orders

\* A function on 1 .. c is a sequence of length c.
LEMMA Listed ==
  ASSUME NEW T, NEW c \in Nat, NEW s \in [1 .. c -> T]
  PROVE  s \in Seq(T) /\ Len(s) = c
<1>1. s \in Seq(T)
  OBVIOUS
<1>2. DOMAIN s = 1 .. Len(s) /\ Len(s) \in Nat
  BY <1>1, LenProperties
<1>3. 1 .. Len(s) = 1 .. c
  BY <1>2
<1>4. Len(s) = c
  BY <1>2, <1>3
<1> QED
  BY <1>1, <1>4

\* Taking the head off a queue and appending keeps what was behind the head, in
\* its order, before what is new.
LEMMA Requeued ==
  ASSUME NEW T, NEW q \in Seq(T), q # <<>>, NEW new \in Seq(T)
  PROVE  LET r == Tail(q) \o new
         IN /\ r \in Seq(T)
            /\ Len(q) \in Nat \ {0} /\ Len(new) \in Nat
            /\ Head(q) = q[1] /\ q[1] \in T
            /\ DOMAIN r = 1 .. (Len(q) - 1 + Len(new))
            /\ \A k \in 1 .. Len(q) - 1 : r[k] = q[k + 1]
            /\ \A k \in 1 .. Len(new) : r[Len(q) - 1 + k] = new[k]
<1>1. Tail(q) \in Seq(T) /\ Len(Tail(q)) = Len(q) - 1
  BY HeadTailProperties
<1>2. \A k \in 1 .. Len(q) - 1 : Tail(q)[k] = q[k + 1]
  BY HeadTailProperties
<1>3. Len(q) \in Nat \ {0} /\ q[1] \in T /\ Head(q) = q[1]
  BY EmptySeq, HeadTailProperties, LenProperties
<1>4. Tail(q) \o new \in Seq(T) /\ Len(Tail(q) \o new) = Len(q) - 1 + Len(new)
  BY <1>1, ConcatProperties
<1>5. \A k \in 1 .. (Len(q) - 1 + Len(new)) :
        (Tail(q) \o new)[k] = IF k <= Len(q) - 1 THEN Tail(q)[k] ELSE new[k - (Len(q) - 1)]
  BY <1>1, <1>4, ConcatProperties
<1>6. Len(new) \in Nat
  BY LenProperties
<1>7. DOMAIN (Tail(q) \o new) = 1 .. (Len(q) - 1 + Len(new))
  BY <1>4, LenProperties
<1>8. \A k \in 1 .. Len(new) : (Tail(q) \o new)[Len(q) - 1 + k] = new[k]
  <2> SUFFICES ASSUME NEW k \in 1 .. Len(new) PROVE (Tail(q) \o new)[Len(q) - 1 + k] = new[k]
    OBVIOUS
  <2>1. /\ Len(q) - 1 + k \in 1 .. (Len(q) - 1 + Len(new))
        /\ ~ (Len(q) - 1 + k <= Len(q) - 1)
        /\ Len(q) - 1 + k - (Len(q) - 1) = k
    BY <1>3, <1>6
  <2> QED
    BY <2>1, <1>5
<1>9. \A k \in 1 .. Len(q) - 1 : (Tail(q) \o new)[k] = q[k + 1]
  BY <1>2, <1>3, <1>5, <1>6
<1> QED
  BY <1>3, <1>4, <1>6, <1>7, <1>8, <1>9

-----------------------------------------------------------------------------
\* What one reading step does to the queue and to the seen set.
Reads(fn, depth, fresh) ==
  /\ fn = queue[1][1] /\ depth = queue[1][2] /\ depth <= last
  /\ Head(queue) = queue[1] /\ 1 \in DOMAIN queue
  /\ fresh = edge[fn] \ seen
  /\ seen' = seen \cup fresh
  /\ parent' = [n \in Node |-> IF n \in fresh THEN fn ELSE parent[n]]
  /\ level' = [n \in Node |-> IF n \in fresh THEN depth + 1 ELSE level[n]]
  /\ read' = read \cup {fn}
  /\ UNCHANGED <<edge, root, last, cut>>
  /\ queue' \in Seq(Node \X Nat)
  /\ Queued \subseteq {fn} \cup Queued'
  /\ fresh \subseteq Queued'
  /\ \A k \in DOMAIN queue' : \/ k \in 1 .. Len(queue) - 1 /\ k + 1 \in DOMAIN queue /\ queue'[k] = queue[k + 1]
                              \/ /\ k > Len(queue) - 1
                                 /\ queue'[k][1] \in fresh /\ queue'[k][2] = depth + 1

LEMMA FollowStep ==
  ASSUME ClimbTypeOK, Follow
  PROVE  \E fn \in Node, depth \in Nat, fresh \in SUBSET Node : Reads(fn, depth, fresh)
<1> DEFINE fn == Head(queue)[1]
           depth == Head(queue)[2]
           fresh == edge[fn] \ seen
           c == Cardinality(fresh)
<1>1. queue \in Seq(Node \X Nat) /\ queue # <<>> /\ depth <= last
  BY DEF ClimbTypeOK, Follow
<1>2. Head(queue) = queue[1] /\ Head(queue) \in Node \X Nat
  BY <1>1, HeadTailProperties, EmptySeq, LenProperties
<1>3. fn \in Node /\ depth \in Nat
  BY <1>2
<1>4. fresh \in SUBSET Node /\ IsFiniteSet(fresh)
  BY <1>3, NodeAssumption, FS_Subset DEF ClimbTypeOK
<1>5. PICK o \in Orders(fresh) :
         /\ seen' = seen \cup fresh
         /\ parent' = [n \in Node |-> IF n \in fresh THEN fn ELSE parent[n]]
         /\ level' = [n \in Node |-> IF n \in fresh THEN depth + 1 ELSE level[n]]
         /\ queue' = Tail(queue) \o [k \in 1 .. c |-> <<o[k], depth + 1>>]
         /\ read' = read \cup {fn}
         /\ UNCHANGED <<edge, root, last, cut>>
  BY DEF Follow, graph
<1> DEFINE new == [k \in 1 .. c |-> <<o[k], depth + 1>>]
<1>6. /\ c \in Nat /\ o \in [1 .. c -> fresh]
      /\ \A n \in fresh : \E k \in 1 .. c : o[k] = n
  BY <1>4, OrdersList
<1>7. new \in Seq(Node \X Nat) /\ Len(new) = c
  <2>1. new \in [1 .. c -> Node \X Nat]
    <3> HIDE DEF fn, depth, fresh, c
    <3>1. \A k \in 1 .. c : o[k] \in Node /\ depth + 1 \in Nat
      BY <1>3, <1>4, <1>6
    <3> QED
      BY <3>1
  <2> HIDE DEF new, c
  <2> QED
    BY <1>6, <2>1, Listed
<1> HIDE DEF fn, depth, fresh, c
<1>8. /\ queue' \in Seq(Node \X Nat)
      /\ Len(queue) \in Nat \ {0}
      /\ DOMAIN queue' = 1 .. (Len(queue) - 1 + c)
      /\ \A k \in 1 .. Len(queue) - 1 : queue'[k] = queue[k + 1]
      /\ \A k \in 1 .. c : queue'[Len(queue) - 1 + k] = <<o[k], depth + 1>>
  <2> HIDE DEF new
  <2>1. /\ Tail(queue) \o new \in Seq(Node \X Nat)
        /\ Len(queue) \in Nat \ {0}
        /\ DOMAIN (Tail(queue) \o new) = 1 .. (Len(queue) - 1 + c)
        /\ \A k \in 1 .. Len(queue) - 1 : (Tail(queue) \o new)[k] = queue[k + 1]
        /\ \A k \in 1 .. c : (Tail(queue) \o new)[Len(queue) - 1 + k] = new[k]
    BY <1>1, <1>7, Requeued
  <2>2. queue' = Tail(queue) \o new
    BY <1>5 DEF new
  <2>3. \A k \in 1 .. c : new[k] = <<o[k], depth + 1>>
    BY DEF new
  <2> QED
    BY <2>1, <2>2, <2>3
<1>9. DOMAIN queue = 1 .. Len(queue)
  BY <1>1, LenProperties
<1>10. Queued \subseteq {fn} \cup Queued'
  <2> SUFFICES ASSUME NEW k \in DOMAIN queue, k # 1
               PROVE  queue[k][1] \in Queued'
    BY <1>2 DEF Queued, fn
  <2>1. k - 1 \in 1 .. Len(queue) - 1 /\ k - 1 \in DOMAIN queue'
    BY <1>6, <1>8, <1>9
  <2>2. queue'[k - 1] = queue[k]
    <3>1. queue'[k - 1] = queue[(k - 1) + 1]
      BY <1>8, <2>1
    <3>2. (k - 1) + 1 = k
      BY <1>8, <1>9
    <3> QED
      BY <3>1, <3>2
  <2> QED
    BY <2>1, <2>2 DEF Queued
<1>11. fresh \subseteq Queued'
  <2> SUFFICES ASSUME NEW n \in fresh PROVE n \in Queued'
    OBVIOUS
  <2>1. PICK k \in 1 .. c : o[k] = n
    BY <1>6
  <2>2. Len(queue) - 1 + k \in DOMAIN queue' /\ queue'[Len(queue) - 1 + k][1] = n
    BY <1>6, <1>8, <2>1
  <2> QED
    BY <2>2 DEF Queued
<1>12. \A k \in DOMAIN queue' : \/ k \in 1 .. Len(queue) - 1 /\ k + 1 \in DOMAIN queue /\ queue'[k] = queue[k + 1]
                                \/ /\ k > Len(queue) - 1
                                   /\ queue'[k][1] \in fresh /\ queue'[k][2] = depth + 1
  <2> SUFFICES ASSUME NEW k \in DOMAIN queue'
               PROVE  \/ k \in 1 .. Len(queue) - 1 /\ k + 1 \in DOMAIN queue /\ queue'[k] = queue[k + 1]
                      \/ /\ k > Len(queue) - 1
                         /\ queue'[k][1] \in fresh /\ queue'[k][2] = depth + 1
    OBVIOUS
  <2>1. k \in 1 .. (Len(queue) - 1 + c)
    BY <1>8
  <2>2. CASE k <= Len(queue) - 1
    <3>1. k \in 1 .. Len(queue) - 1 /\ k + 1 \in DOMAIN queue
      BY <1>6, <1>8, <1>9, <2>1, <2>2
    <3> QED
      BY <1>8, <3>1
  <2>3. CASE k > Len(queue) - 1
    <3> DEFINE j == k - (Len(queue) - 1)
    <3>0. c \in Nat /\ Len(queue) \in Nat \ {0}
      BY <1>6, <1>8
    <3>1. j \in 1 .. c /\ k = Len(queue) - 1 + j
      BY <3>0, <2>1, <2>3
    <3> HIDE DEF j
    <3>2. queue'[Len(queue) - 1 + j] = <<o[j], depth + 1>>
      BY <1>8, <3>1
    <3>3. o[j] \in fresh
      BY <1>6, <3>1
    <3> QED
      BY <2>3, <3>1, <3>2, <3>3
  <2> QED
    BY <1>6, <1>8, <2>1, <2>2, <2>3
<1>13. fn = queue[1][1] /\ depth = queue[1][2] /\ depth <= last /\ 1 \in DOMAIN queue
  BY <1>1, <1>2, <1>8, <1>9 DEF fn, depth
<1>14. fresh = edge[fn] \ seen
  BY DEF fresh
<1>15. Reads(fn, depth, fresh)
  BY <1>2, <1>5, <1>8, <1>10, <1>11, <1>12, <1>13, <1>14 DEF Reads
<1> QED
  BY <1>3, <1>4, <1>15

\* What taking a function off the queue unread does.
LEMMA TooDeepStep ==
  ASSUME ClimbTypeOK, TooDeep
  PROVE  /\ queue[1] \in Node \X Nat /\ queue[1][2] > last /\ 1 \in DOMAIN queue
         /\ Head(queue) = queue[1]
         /\ cut' = cut \cup {queue[1][1]}
         /\ UNCHANGED <<edge, root, last, seen, parent, level, read>>
         /\ queue' \in Seq(Node \X Nat)
         /\ Queued \subseteq {queue[1][1]} \cup Queued'
         /\ \A k \in DOMAIN queue' : k \in 1 .. Len(queue) - 1 /\ k + 1 \in DOMAIN queue /\ queue'[k] = queue[k + 1]
<1>1. queue \in Seq(Node \X Nat) /\ queue # <<>> /\ queue' = Tail(queue)
  BY DEF ClimbTypeOK, TooDeep
<1>2. /\ Head(queue) = queue[1] /\ queue[1] \in Node \X Nat
      /\ Len(queue) \in Nat \ {0} /\ DOMAIN queue = 1 .. Len(queue)
  BY <1>1, HeadTailProperties, EmptySeq, LenProperties
<1>3. /\ queue' \in Seq(Node \X Nat)
      /\ DOMAIN queue' = 1 .. Len(queue) - 1
      /\ \A k \in 1 .. Len(queue) - 1 : queue'[k] = queue[k + 1]
  BY <1>1, HeadTailProperties, LenProperties
<1>4. Queued \subseteq {queue[1][1]} \cup Queued'
  <2> SUFFICES ASSUME NEW k \in DOMAIN queue, k # 1
               PROVE  queue[k][1] \in Queued'
    BY DEF Queued
  <2>1. k - 1 \in DOMAIN queue' /\ (k - 1) + 1 = k
    BY <1>2, <1>3
  <2>2. queue'[k - 1] = queue[k]
    BY <1>3, <2>1
  <2> QED
    BY <2>1, <2>2 DEF Queued
<1>5. \A k \in DOMAIN queue' : k \in 1 .. Len(queue) - 1 /\ k + 1 \in DOMAIN queue /\ queue'[k] = queue[k + 1]
  BY <1>2, <1>3
<1> QED
  BY <1>2, <1>3, <1>4, <1>5 DEF TooDeep, graph, found

-----------------------------------------------------------------------------
\* The walk starts with the invariant.
LEMMA ClimbInitInv == ClimbInit => ClimbInv
<1> SUFFICES ASSUME ClimbInit PROVE ClimbInv
  OBVIOUS
<1> USE DEF ClimbInit, ClimbStart
<1>1. /\ queue = << <<root, 0>> >> /\ DOMAIN queue = {1} /\ queue[1] = <<root, 0>>
      /\ Head(queue) = <<root, 0>> /\ queue \in Seq(Node \X Nat)
  OBVIOUS
<1>2. Queued = {root}
  BY <1>1 DEF Queued
<1>3. ClimbTypeOK
  BY <1>1 DEF ClimbTypeOK
<1>4. Split /\ Frontier
  BY <1>2 DEF Split, Frontier
<1>5. Levelled
  BY <1>1 DEF Levelled
<1>6. ReachedIsReachable /\ PathsAreReal /\ LevelsAreShortest
  BY DEF ReachedIsReachable, PathsAreReal, LevelsAreShortest
<1> QED
  BY <1>3, <1>4, <1>5, <1>6 DEF ClimbInv

\* Reading a function keeps it.
LEMMA FollowInv == ClimbInv /\ Follow => ClimbInv'
<1> SUFFICES ASSUME ClimbInv, Follow PROVE ClimbInv'
  OBVIOUS
<1>0. ClimbTypeOK
  BY DEF ClimbInv
<1>1. PICK fn \in Node, depth \in Nat, fresh \in SUBSET Node : Reads(fn, depth, fresh)
  BY <1>0, FollowStep
<1>2. fn \in seen /\ level[fn] = depth /\ queue # <<>>
  BY <1>1 DEF Reads, ClimbInv, Split, Levelled, Queued, Follow
<1>3. \A n \in seen : n \notin fresh /\ level'[n] = level[n] /\ parent'[n] = parent[n]
  BY <1>0, <1>1 DEF Reads, ClimbTypeOK
<1>4. \A n \in fresh : level'[n] = depth + 1 /\ parent'[n] = fn /\ n \in edge[fn]
  BY <1>1 DEF Reads
<1>5. ClimbTypeOK'
  BY <1>0, <1>1 DEF Reads, ClimbTypeOK
<1>6. Queued' \subseteq Queued \cup fresh
  BY <1>1 DEF Reads, Queued
<1>7. Split'
  BY <1>1, <1>2, <1>6 DEF Reads, ClimbInv, Split
<1>8. edge[fn] \subseteq seen'
  BY <1>1 DEF Reads
<1>9. Frontier'
  <2>1. /\ edge' = edge /\ last' = last /\ cut' = cut /\ depth <= last
        /\ read' = read \cup {fn} /\ seen \subseteq seen'
        /\ read \subseteq seen /\ cut \subseteq seen
    BY <1>1 DEF Reads, ClimbInv, Split
  <2>2. \A n \in read : edge[n] \subseteq seen /\ level[n] <= last
    BY DEF ClimbInv, Frontier
  <2>3. \A n \in cut : level[n] = last + 1
    BY DEF ClimbInv, Frontier
  <2>4. level'[fn] = depth
    BY <1>2, <1>3
  <2>5. \A n \in read' : edge'[n] \subseteq seen' /\ level'[n] <= last'
    BY <1>3, <1>8, <2>1, <2>2, <2>4
  <2>6. \A n \in cut' : level'[n] = last' + 1
    BY <1>3, <2>1, <2>3
  <2> QED
    BY <2>5, <2>6 DEF Frontier
<1>10. Levelled'
  <2>1. \A k \in DOMAIN queue' : level'[queue'[k][1]] = queue'[k][2]
    <3> SUFFICES ASSUME NEW k \in DOMAIN queue' PROVE level'[queue'[k][1]] = queue'[k][2]
      OBVIOUS
    <3>1. CASE k + 1 \in DOMAIN queue /\ queue'[k] = queue[k + 1]
      <4>1. queue[k + 1][1] \in seen /\ level[queue[k + 1][1]] = queue[k + 1][2]
        BY <3>1 DEF ClimbInv, Split, Levelled, Queued
      <4> QED
        BY <1>3, <3>1, <4>1
    <3>2. CASE queue'[k][1] \in fresh /\ queue'[k][2] = depth + 1
      BY <1>4, <3>2
    <3> QED
      BY <1>1, <3>1, <3>2 DEF Reads
  <2>2. \A j, k \in DOMAIN queue' : j < k => queue'[j][2] <= queue'[k][2]
    <3> SUFFICES ASSUME NEW j \in DOMAIN queue', NEW k \in DOMAIN queue', j < k
                 PROVE  queue'[j][2] <= queue'[k][2]
      OBVIOUS
    <3>0. /\ DOMAIN queue = 1 .. Len(queue) /\ Len(queue) \in Nat
          /\ DOMAIN queue' \subseteq Nat
      <4>1. queue \in Seq(Node \X Nat) /\ queue' \in Seq(Node \X Nat)
        BY <1>0, <1>5 DEF ClimbTypeOK
      <4>2. DOMAIN queue = 1 .. Len(queue) /\ Len(queue) \in Nat
        BY <4>1, LenProperties
      <4>3. DOMAIN queue' = 1 .. Len(queue') /\ Len(queue') \in Nat
        BY <4>1, LenProperties
      <4> QED
        BY <4>2, <4>3
    <3>1. CASE k \in 1 .. Len(queue) - 1 /\ k + 1 \in DOMAIN queue /\ queue'[k] = queue[k + 1]
      <4>1. j \in 1 .. Len(queue) - 1
        BY <1>1, <3>0, <3>1 DEF Reads
      <4>2. j + 1 \in DOMAIN queue /\ queue'[j] = queue[j + 1]
        BY <1>1, <3>0, <4>1 DEF Reads
      <4>3. j + 1 < k + 1
        BY <3>0
      <4> QED
        BY <3>1, <4>2, <4>3 DEF ClimbInv, Levelled
    <3>2. CASE queue'[k][1] \in fresh /\ queue'[k][2] = depth + 1
      <4>1. CASE j + 1 \in DOMAIN queue /\ queue'[j] = queue[j + 1]
        <5>1. queue[j + 1][1] \in seen /\ level[queue[j + 1][1]] = queue[j + 1][2]
          BY <4>1 DEF ClimbInv, Split, Levelled, Queued
        <5>2. level[queue[j + 1][1]] <= Head(queue)[2] + 1
          BY <1>2, <5>1 DEF ClimbInv, Levelled
        <5> QED
          BY <1>1, <3>2, <4>1, <5>1, <5>2 DEF Reads
      <4>2. CASE queue'[j][2] = depth + 1
        BY <3>2, <4>2
      <4> QED
        BY <1>1, <4>1, <4>2 DEF Reads
    <3> QED
      BY <1>1, <3>1, <3>2 DEF Reads
  <2>3. ASSUME queue' # <<>>, NEW n \in seen'
        PROVE  level'[n] <= Head(queue')[2] + 1
    <3>1. 1 \in DOMAIN queue' /\ Head(queue') = queue'[1] /\ queue'[1][2] \in Nat
      BY <1>5, <2>3, HeadTailProperties, EmptySeq, LenProperties DEF ClimbTypeOK
    <3>2. depth <= queue'[1][2]
      <4>1. CASE 1 + 1 \in DOMAIN queue /\ queue'[1] = queue[1 + 1]
        BY <1>1, <4>1 DEF Reads, ClimbInv, Levelled
      <4>2. CASE queue'[1][2] = depth + 1
        BY <4>2
      <4> QED
        BY <1>1, <3>1, <4>1, <4>2 DEF Reads
    <3>3. level'[n] <= depth + 1
      <4>1. CASE n \in seen
        <5>1. level[n] <= Head(queue)[2] + 1
          BY <1>2, <4>1 DEF ClimbInv, Levelled
        <5> QED
          BY <1>1, <1>3, <4>1, <5>1 DEF Reads
      <4>2. CASE n \in fresh
        BY <1>4, <4>2
      <4> QED
        BY <1>1, <4>1, <4>2 DEF Reads
    <3>4. level'[n] \in Nat
      BY <1>5, <2>3 DEF ClimbTypeOK
    <3> QED
      BY <3>1, <3>2, <3>3, <3>4
  <2>4. \A n \in seen' : level'[n] <= last' + 1
    <3> SUFFICES ASSUME NEW n \in seen' PROVE level'[n] <= last' + 1
      OBVIOUS
    <3>1. last' = last /\ last \in Nat /\ depth <= last
      BY <1>0, <1>1 DEF Reads, ClimbTypeOK
    <3>2. CASE n \in seen
      BY <1>3, <3>1, <3>2 DEF ClimbInv, Levelled
    <3>3. CASE n \in fresh
      BY <1>4, <3>1, <3>3
    <3> QED
      BY <1>1, <3>2, <3>3 DEF Reads
  <2> QED
    BY <2>1, <2>2, <2>3, <2>4 DEF Levelled
<1>11. ReachedIsReachable'
  BY <1>1, <1>2 DEF Reads, ClimbInv, ReachedIsReachable, Closed
<1>12. PathsAreReal'
  <2> SUFFICES ASSUME NEW n \in seen'
               PROVE  \/ n = root' /\ level'[n] = 0
                      \/ /\ parent'[n] \in read' /\ n \in edge'[parent'[n]]
                         /\ level'[n] = level'[parent'[n]] + 1
    BY DEF PathsAreReal
  <2>1. CASE n \in seen
    <3>1. \/ n = root /\ level[n] = 0
          \/ /\ parent[n] \in read /\ n \in edge[parent[n]]
             /\ level[n] = level[parent[n]] + 1
      BY <2>1 DEF ClimbInv, PathsAreReal
    <3>2. read \subseteq seen
      BY DEF ClimbInv, Split
    <3>3. /\ root' = root /\ edge' = edge /\ read \subseteq read'
          /\ level'[n] = level[n] /\ parent'[n] = parent[n]
      BY <1>1, <1>3, <2>1 DEF Reads
    <3>4. parent[n] \in read => level'[parent[n]] = level[parent[n]]
      BY <1>3, <3>2
    <3> QED
      BY <3>1, <3>3, <3>4
  <2>2. CASE n \in fresh
    BY <1>1, <1>2, <1>3, <1>4, <2>2 DEF Reads
  <2> QED
    BY <1>1, <2>1, <2>2 DEF Reads
<1>13. LevelsAreShortest'
  <2> SUFFICES ASSUME NEW n \in read', NEW t \in edge'[n]
               PROVE  t \in seen' /\ level'[t] <= level'[n] + 1
    BY DEF LevelsAreShortest
  <2>1. edge' = edge /\ seen' = seen \cup fresh /\ read' = read \cup {fn}
    BY <1>1 DEF Reads
  <2>2. CASE n = fn
    <3>1. level'[n] = depth
      BY <1>2, <1>3, <2>2
    <3>2. CASE t \in seen
      <4>1. level[t] <= Head(queue)[2] + 1
        BY <1>2, <3>2 DEF ClimbInv, Levelled
      <4> QED
        BY <1>1, <1>3, <2>1, <3>1, <3>2, <4>1 DEF Reads
    <3>3. CASE t \in fresh
      BY <1>4, <2>1, <3>1, <3>3
    <3> QED
      BY <1>8, <2>1, <2>2, <3>2, <3>3
  <2>3. CASE n \in read
    <3>1. t \in seen /\ level[t] <= level[n] + 1 /\ n \in seen
      BY <2>1, <2>3 DEF ClimbInv, LevelsAreShortest, Split
    <3> QED
      BY <1>3, <2>1, <3>1
  <2> QED
    BY <2>1, <2>2, <2>3
<1> QED
  BY <1>5, <1>7, <1>9, <1>10, <1>11, <1>12, <1>13 DEF ClimbInv

\* Taking a function off unread keeps it.
LEMMA TooDeepInv == ClimbInv /\ TooDeep => ClimbInv'
<1> SUFFICES ASSUME ClimbInv, TooDeep PROVE ClimbInv'
  OBVIOUS
<1>0. ClimbTypeOK
  BY DEF ClimbInv
<1> DEFINE fn == queue[1][1]
<1>1. /\ queue[1] \in Node \X Nat /\ queue[1][2] > last /\ 1 \in DOMAIN queue
      /\ Head(queue) = queue[1]
      /\ cut' = cut \cup {fn}
      /\ UNCHANGED <<edge, root, last, seen, parent, level, read>>
      /\ queue' \in Seq(Node \X Nat)
      /\ Queued \subseteq {fn} \cup Queued'
  BY <1>0, TooDeepStep
<1>2. \A k \in DOMAIN queue' : k \in 1 .. Len(queue) - 1 /\ k + 1 \in DOMAIN queue /\ queue'[k] = queue[k + 1]
  BY <1>0, TooDeepStep
<1>3. fn \in seen /\ level[fn] = queue[1][2]
  BY <1>1 DEF ClimbInv, Split, Levelled, Queued
<1>4. ClimbTypeOK'
  BY <1>0, <1>1 DEF ClimbTypeOK
<1>5. Queued' \subseteq Queued
  BY <1>2 DEF Queued
<1>6. Split'
  BY <1>1, <1>3, <1>5 DEF ClimbInv, Split
<1>7. Frontier'
  <2>1. level[fn] = last + 1
    <3>1. level[fn] <= last + 1
      BY <1>3 DEF ClimbInv, Levelled
    <3> QED
      BY <1>0, <1>1, <1>3, <3>1 DEF ClimbTypeOK
  <2> QED
    BY <1>1, <2>1 DEF ClimbInv, Frontier
<1>8. Levelled'
  <2>1. \A k \in DOMAIN queue' : level'[queue'[k][1]] = queue'[k][2]
    BY <1>1, <1>2 DEF ClimbInv, Levelled
  <2>2. \A j, k \in DOMAIN queue' : j < k => queue'[j][2] <= queue'[k][2]
    <3> SUFFICES ASSUME NEW j \in DOMAIN queue', NEW k \in DOMAIN queue', j < k
                 PROVE  queue'[j][2] <= queue'[k][2]
      OBVIOUS
    <3>1. /\ j + 1 \in DOMAIN queue /\ queue'[j] = queue[j + 1] /\ j \in Nat
          /\ k + 1 \in DOMAIN queue /\ queue'[k] = queue[k + 1] /\ k \in Nat
      <4>1. DOMAIN queue' = 1 .. Len(queue') /\ Len(queue') \in Nat
        BY <1>1, LenProperties
      <4> QED
        BY <1>2, <4>1
    <3>2. j + 1 < k + 1
      BY <3>1
    <3> QED
      BY <3>1, <3>2 DEF ClimbInv, Levelled
  <2>3. ASSUME queue' # <<>>, NEW n \in seen'
        PROVE  level'[n] <= Head(queue')[2] + 1
    <3>1. 1 \in DOMAIN queue' /\ Head(queue') = queue'[1] /\ queue'[1][2] \in Nat
      BY <1>4, <2>3, HeadTailProperties, EmptySeq, LenProperties DEF ClimbTypeOK
    <3>2. 1 + 1 \in DOMAIN queue /\ queue'[1] = queue[1 + 1]
      BY <1>2, <3>1
    <3>3. queue[1][2] <= queue'[1][2]
      BY <1>1, <3>2 DEF ClimbInv, Levelled
    <3>4. level'[n] = level[n] /\ level[n] \in Nat /\ queue # <<>>
      BY <1>0, <1>1, <2>3 DEF ClimbTypeOK, TooDeep
    <3>5. level[n] <= queue[1][2] + 1
      BY <1>1, <2>3, <3>4 DEF ClimbInv, Levelled
    <3> QED
      BY <1>1, <3>1, <3>3, <3>4, <3>5
  <2>4. \A n \in seen' : level'[n] <= last' + 1
    BY <1>1 DEF ClimbInv, Levelled
  <2> QED
    BY <2>1, <2>2, <2>3, <2>4 DEF Levelled
<1>9. ReachedIsReachable'
  BY <1>1 DEF ClimbInv, ReachedIsReachable, Closed
<1>10. PathsAreReal' /\ LevelsAreShortest'
  BY <1>1 DEF ClimbInv, PathsAreReal, LevelsAreShortest
<1> QED
  BY <1>4, <1>6, <1>7, <1>8, <1>9, <1>10 DEF ClimbInv

-----------------------------------------------------------------------------
\* The invariant holds throughout every walk: each step keeps it.
THEOREM ClimbInvariant == ClimbSpec => []ClimbInv
<1>1. ClimbInv /\ [ClimbNext]_climbVars => ClimbInv'
  <2> SUFFICES ASSUME ClimbInv, [ClimbNext]_climbVars PROVE ClimbInv'
    OBVIOUS
  <2>1. CASE Follow
    BY <2>1, FollowInv
  <2>2. CASE TooDeep
    BY <2>2, TooDeepInv
  <2>3. CASE UNCHANGED climbVars
    <3>1. ClimbTypeOK'
      BY <2>3 DEF climbVars, ClimbInv, ClimbTypeOK
    <3>2. Split' /\ Frontier'
      BY <2>3 DEF climbVars, ClimbInv, Split, Frontier, Queued
    <3>3. Levelled'
      BY <2>3 DEF climbVars, ClimbInv, Levelled
    <3>4. ReachedIsReachable'
      BY <2>3 DEF climbVars, ClimbInv, ReachedIsReachable, Closed
    <3>5. PathsAreReal' /\ LevelsAreShortest'
      BY <2>3 DEF climbVars, ClimbInv, PathsAreReal, LevelsAreShortest
    <3> QED
      BY <3>1, <3>2, <3>3, <3>4, <3>5 DEF ClimbInv
  <2> QED
    BY <2>1, <2>2, <2>3 DEF ClimbNext
<1> QED
  BY <1>1, ClimbInitInv, PTL DEF ClimbSpec

\* Types, for every call graph.
THEOREM ClimbTypes == ClimbSpec => []ClimbTypeOK
<1>1. ClimbInv => ClimbTypeOK
  BY DEF ClimbInv
<1> QED
  BY <1>1, ClimbInvariant, PTL

\* What a script lists as reached, the entry point does lead to (on the graph the
\* script read): no function is reached through a stale queue entry.
THEOREM ReachedHolds == ClimbSpec => []ReachedIsReachable
<1>1. ClimbInv => ReachedIsReachable
  BY DEF ClimbInv
<1> QED
  BY <1>1, ClimbInvariant, PTL

\* "Not reached", printed after a walk that cut nothing off, is the truth on that
\* graph: what was seen is closed under the edges.
THEOREM NotReachedHolds == ClimbSpec => []NotReachedIsUnreachable
<1>1. ClimbInv => NotReachedIsUnreachable
  BY DEF ClimbInv, Split, Frontier, NotReachedIsUnreachable, ClimbDone, Closed, Queued
<1> QED
  BY <1>1, ClimbInvariant, PTL

\* With a limit, what is lost lies below the last level read and nowhere else.
THEOREM CutHolds == ClimbSpec => []CutIsTheFrontier
<1>1. ClimbInv => CutIsTheFrontier
  <2> SUFFICES ASSUME ClimbInv PROVE CutIsTheFrontier
    OBVIOUS
  <2>1. \A n \in cut : level[n] = last + 1
    BY DEF ClimbInv, Frontier
  <2>2. ASSUME ClimbDone, NEW n \in seen, level[n] <= last
        PROVE  edge[n] \subseteq seen
    <3>1. Queued = {}
      BY <2>2 DEF ClimbDone, Queued
    <3>2. n \notin cut
      BY <2>1, <2>2 DEF ClimbInv, ClimbTypeOK
    <3>3. n \in read
      BY <3>1, <3>2 DEF ClimbInv, Split
    <3> QED
      BY <3>3 DEF ClimbInv, Frontier
  <2> QED
    BY <2>1, <2>2 DEF CutIsTheFrontier
<1> QED
  BY <1>1, ClimbInvariant, PTL

\* The printed paths are paths of the graph, up to the entry point.
THEOREM PathsHold == ClimbSpec => []PathsAreReal
<1>1. ClimbInv => PathsAreReal
  BY DEF ClimbInv
<1> QED
  BY <1>1, ClimbInvariant, PTL

\* No shorter way is overlooked: with the paths being real, a function's level is
\* its distance from the entry point.
THEOREM LevelsHold == ClimbSpec => []LevelsAreShortest
<1>1. ClimbInv => LevelsAreShortest
  BY DEF ClimbInv
<1> QED
  BY <1>1, ClimbInvariant, PTL

\* The report of a walk can be taken at its word, for every call graph, every
\* entry point and every depth limit: WalkIsSound.
THEOREM WalkSound == ClimbSpec => []WalkIsSound
BY NotReachedHolds, CutHolds, PathsHold, LevelsHold, PTL DEF WalkIsSound
=============================================================================
