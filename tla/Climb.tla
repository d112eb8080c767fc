------------------------------- MODULE Climb -------------------------------
(***************************************************************************)
(* The breadth-first walk by which the reachability scripts of phase6      *)
(* (t299n, q, r, s, t, x, z) decide that a function of the firmware is     *)
(* live or dead: over callees from an entry point, or over callers from a  *)
(* suspect.  All use the same loop: a queue of functions with their depth, *)
(* a seen set filled when a function is queued, a parent for the path      *)
(* that is printed, and a depth at which a function is taken off the queue *)
(* without being read.  What was not seen is reported as not reached.      *)
(*                                                                         *)
(* edge is the call graph as the script reads it: a script computes        *)
(* edge[fn] when it takes fn off the queue, and nothing changes the image  *)
(* meanwhile.  The order in which the fresh targets of one function are    *)
(* queued is ascending in all scripts but t299r, where it is that of a     *)
(* Python set; every order is allowed here.                                *)
(***************************************************************************)
EXTENDS Naturals, Sequences, FiniteSets

CONSTANT Node                  \* addresses that can be a function's entry
ASSUME NodeAssumption == IsFiniteSet(Node)

VARIABLES
  edge,                        \* the targets (upward: the callers) of each function
  root,                        \* where the walk starts
  last,                        \* the deepest level that is still read
  queue,                       \* q: <<function, depth>> in the order they were found
  seen,
  parent,                      \* parent[n]: who led to n first; n itself when nobody did
  level,                       \* the depth n was queued with
  read,                        \* the functions whose targets were followed
  cut                          \* those taken off the queue below the last level

graph == <<edge, root, last>>
found == <<seen, parent, level>>
climbVars == <<edge, root, last, queue, seen, parent, level, read, cut>>

\* The ways to list a set once each.
Orders(S) == {o \in [1 .. Cardinality(S) -> S] : \A n \in S : \E k \in 1 .. Cardinality(S) : o[k] = n}

ClimbStart ==
  /\ queue = << <<root, 0>> >>
  /\ seen = {root}
  /\ parent = [n \in Node |-> n]
  /\ level = [n \in Node |-> 0]
  /\ read = {}
  /\ cut = {}

ClimbInit ==
  /\ edge \in [Node -> SUBSET Node]
  /\ root \in Node
  /\ last \in Nat
  /\ ClimbStart

\* A script that has read the graph e starts at r and reads as deep as level l.
Begin(e, r, l) ==
  /\ edge' = e /\ root' = r /\ last' = l
  /\ queue' = << <<r, 0>> >>
  /\ seen' = {r}
  /\ parent' = [n \in Node |-> n]
  /\ level' = [n \in Node |-> 0]
  /\ read' = {}
  /\ cut' = {}

\* The next function is read: what it leads to and was not seen yet is queued.
Follow ==
  /\ queue # <<>>
  /\ Head(queue)[2] <= last
  /\ LET fn == Head(queue)[1]
         depth == Head(queue)[2]
         fresh == edge[fn] \ seen
     IN \E o \in Orders(fresh) :
          /\ seen' = seen \cup fresh
          /\ parent' = [n \in Node |-> IF n \in fresh THEN fn ELSE parent[n]]
          /\ level' = [n \in Node |-> IF n \in fresh THEN depth + 1 ELSE level[n]]
          /\ queue' = Tail(queue) \o [k \in 1 .. Cardinality(fresh) |-> <<o[k], depth + 1>>]
          /\ read' = read \cup {fn}
  /\ UNCHANGED <<graph, cut>>

\* Slip: the limit is taken off by one, so the last level may be lost.
TooDeep_Early ==
  /\ queue # <<>>
  /\ Head(queue)[2] >= last
  /\ queue' = Tail(queue)
  /\ cut' = cut \cup {Head(queue)[1]}
  /\ UNCHANGED <<graph, found, read>>
\* The next function lies too deep: it counts as reached and is not read.
TooDeep ==
  /\ queue # <<>>
  /\ Head(queue)[2] > last
  /\ queue' = Tail(queue)
  /\ cut' = cut \cup {Head(queue)[1]}
  /\ UNCHANGED <<graph, found, read>>

ClimbNext == Follow \/ TooDeep
ClimbSpec == ClimbInit /\ [][ClimbNext]_climbVars /\ WF_climbVars(ClimbNext)

Queued == {queue[k][1] : k \in DOMAIN queue}
ClimbDone == queue = <<>>
Closed(S) == \A n \in S : edge[n] \subseteq S

\* The path t299r, t299s and t299t print: back over the parents to the root.
Parents(n, k) ==
  LET up[j \in 0 .. k] == IF j = 0 THEN n ELSE parent[up[j - 1]] IN up[k]
Path(n) == [k \in 1 .. level[n] + 1 |-> Parents(n, level[n] + 1 - k)]

-----------------------------------------------------------------------------
ClimbTypeOK ==
  /\ edge \in [Node -> SUBSET Node]
  /\ root \in Node
  /\ last \in Nat
  /\ queue \in Seq(Node \X Nat)
  /\ seen \subseteq Node
  /\ parent \in [Node -> Node]
  /\ level \in [Node -> Nat]
  /\ read \subseteq Node
  /\ cut \subseteq Node

\* Only functions the root leads to are reported as reached: seen lies in every
\* set that holds the root and is closed under the edges.
ReachedIsReachable == \A S \in SUBSET Node : root \in S /\ Closed(S) => seen \subseteq S

\* "Not reached" means not reachable on the graph, once the walk has ended and
\* nothing was cut off by the depth limit.
NotReachedIsUnreachable == ClimbDone /\ cut = {} => Closed(seen)

\* A walk cuts off only what lies one level below the last it reads, so all that
\* the root leads to in fewer steps has been followed.
CutIsTheFrontier ==
  /\ \A n \in cut : level[n] = last + 1
  /\ ClimbDone => \A n \in seen : level[n] <= last => edge[n] \subseteq seen

\* The printed path is a path: each function on it was read, names the next one
\* among its targets, and stands one level above it; only the root has no parent.
PathsAreReal ==
  \A n \in seen :
    \/ n = root /\ level[n] = 0
    \/ /\ parent[n] \in read
       /\ n \in edge[parent[n]]
       /\ level[n] = level[parent[n]] + 1

\* The level of a function is the least over the ways to it that were followed, so
\* the depth limit never cuts off a function a shorter path leads to.
LevelsAreShortest == \A n \in read : \A t \in edge[n] : t \in seen /\ level[t] <= level[n] + 1

\* What a reader may take from the report of a walk: its "not reached" is meant
\* for the whole graph above the depth limit, and each path it prints exists.
WalkIsSound == NotReachedIsUnreachable /\ CutIsTheFrontier /\ PathsAreReal /\ LevelsAreShortest
=============================================================================
