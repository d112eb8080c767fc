--------------------------- MODULE FunctionBounds ---------------------------
(***************************************************************************)
(* Where a function of the image begins and ends.  The firmware has no     *)
(* symbols, so each script guesses from prologues (push with lr) and       *)
(* returns (pop with pc, bx lr).  Every guess below is one script's; they  *)
(* differ in what they take for a prologue, in how far they look, and in   *)
(* whether a return seen on the way closes the function.                   *)
(***************************************************************************)
EXTENDS Thumb

Pushes == {i \in Ins : is_push_lr(i)}
Rets == {i \in Ins : Returns(i)}
Pushes16 == {i \in Ins : Push16(i)}
Rets16 == {i \in Ins : Return16(i)}
\* Depth counting from address c: +1 at a prologue, -1 at a return, the end is
\* behind the return that brings the depth back to zero.
Closings(c, pushes, rets) ==
  LET first == Earliest({a \in Addresses(pushes) : a >= c})
      depth(r) == Cardinality({i \in pushes : c <= i.a /\ i.a <= r.a})
                  - Cardinality({i \in rets : first < i.a /\ i.a <= r.a})
  IN {r \in rets : first # None /\ r.a > first /\ depth(r) = 0}
DepthEnd(c, pushes, rets) ==
  LET closing == Closings(c, pushes, rets)
  IN IF closing = {} THEN None ELSE Min({After(r) : r \in closing})

\* The prologues of `pushes` with no return of `ends` between them and addr.
OpenPush(pushes, ends, addr) ==
  Latest({p \in Addresses(pushes) : ~ \E r \in ends : r.a > p /\ r.a <= addr})

\* --- t299i and its copies: nearest prologue; end by depth, else the limit -----
find_fn_start(addr) == Latest(Addresses({i \in Ins : is_push_lr(i) /\ i.a <= addr}))
find_fn_end(start, max_size) ==
  LET close == {r \in Closings(start, Pushes, Rets) : r.a <= start + max_size}
  IN IF close = {} THEN start + max_size ELSE Min({After(r) : r \in close})
Listing(start, end) == {i \in Ins : i.a >= start /\ i.a < end}
Body(start, max_size) == Listing(start, find_fn_end(start, max_size))

\* --- t297: last 16-bit push decoded from a fixed distance before addr ---------
T297_find_fn_start(addr) ==
  LET from == Max({0, addr - Win(1536)})
  IN Latest(Addresses({i \in Range(Disasm(from, addr)) : Push16(i)}))

\* --- t297b: the latest push still open at addr, from a decode of its own; it
\* looks four bytes past addr.  The end is the first return. -------------------
T297b_find_fn_start(addr, scan_back) ==
  LET seen == Range(Disasm(Max({0, addr - scan_back}), addr + 4))
  IN OpenPush({i \in seen : Push16(i)}, {i \in seen : Return16(i)}, addr)
T297b_find_fn_end(addr) ==
  LET end == Min({data.len, addr + Win(16384)})
      rets == {i \in Range(Disasm(addr, end)) : Return16(i)}
  IN IF rets = {} THEN end ELSE Min({After(r) : r \in rets})

\* --- t297g, t297i: the same on the swept instructions -------------------------
T297g_find_fn_start(addr, scan_back) ==
  LET seen == Within(addr - scan_back, addr)
  IN OpenPush({i \in seen : Push16(i)}, {i \in seen : Return16(i)}, addr)
T297i_find_fn_end(start) ==
  LET rets == {i \in Ins : i.a >= start /\ Return16(i)}
  IN IF rets = {} THEN None ELSE Min({After(r) : r \in rets})

\* --- t298l, t298m: which of the last ten prologues before addr still encloses it
T298l_containing(addr) ==
  {c \in Addresses({i \in Within(0, addr) : Push16(i)}) :
     /\ Cardinality({i \in Within(c, addr) : Push16(i)}) <= 10
     /\ DepthEnd(c, Pushes16, Rets16) > addr}
T298m_containing(addr) ==
  {c \in Addresses({i \in Within(0, addr) : is_push_lr(i)}) :
     /\ Cardinality({i \in Within(c, addr) : is_push_lr(i)}) <= 10
     /\ DepthEnd(c, Pushes, Rets) > addr}

\* --- t298n and its copies: the latest prologue whose counted end lies behind addr
find_containing_fn(addr) ==
  Latest({c \in Addresses({i \in Within(0, addr) : is_push_lr(i)}) :
            DepthEnd(c, Pushes, Rets) > addr})

\* --- t298r: a b.w at depth one is a tail call and ends the function too -------
\* Slip: only returns close a function, as in the scripts before.
T298r_end_NoTail(c) == DepthEnd(c, Pushes, Rets)
T298r_end(c) ==
  LET opened(i) == {j \in Ins : j.a >= c /\ j.a <= i.a /\ is_push_lr(j)}
      closed(i) == {j \in Ins : j.a > Min(Addresses(opened(i))) /\ j.a <= i.a /\ Returns(j)}
      tails == {i \in Ins : i.a > c /\ i.m = "b.w" /\ Direct(i)
                              /\ Cardinality(opened(i)) - Cardinality(closed(i)) = 1}
      ends == {After(r) : r \in tails \cup Closings(c, Pushes, Rets)}
  IN Earliest(ends)
T298r_find_containing_fn(addr) ==
  Latest({c \in Addresses({i \in Within(0, addr) : is_push_lr(i)}) : T298r_end(c) > addr})
=============================================================================
