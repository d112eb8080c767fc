---------------------------- MODULE CallSearch ----------------------------
(***************************************************************************)
(* Who calls a function: the question most of phase6 turns on, since a     *)
(* function nobody calls is taken for dead code.  A call is found as a     *)
(* branch whose operand is the entry, or as a pointer to the entry (its    *)
(* address with the Thumb bit) somewhere in the image.  The scripts differ *)
(* in the branches they count, in the alignment they ask of a pointer, and *)
(* in how they name the function a call lies in.                           *)
(***************************************************************************)
EXTENDS FunctionBounds

\* Sites and the function each is reported in.
In(S, enclosing(_)) == {<<i.a, enclosing(i.a)>> : i \in S}

\* T298 (isr_b04_id): the prologue found by stepping back two bytes at a time
\* from a call, decoding afresh each time.
T298_isr_prologue(site) ==
  Latest({i.a : i \in {j \in EveryHalfword(site - Win(198), site) : Push16(j)}})
T298_isr_literals(fn) ==
  {<<i.a, Literal(i)>> : i \in {j \in Range(disasm_range(fn, fn + Win(64))) : Literal(j) # None}}
T298_isr_strings(site) ==
  {<<i.a, Literal(i)>> : i \in {j \in EveryHalfword(site - Win(254), site - 2) :
                                  Literal(j) \in data.text}}

\* T298 (isr_callers): a decode at every halfword; both spellings of the target,
\* then the pool words loaded in the 96 bytes before each call.
T298_isr_calls(fn) ==
  {i.a : i \in {j \in EveryHalfword(0, data.len - 5) :
                  j.m \in Calls /\ Direct(j) /\ j.imm \in {fn, ThumbPtr(fn)}}}
T298_isr_arguments(fn) ==
  [c \in T298_isr_calls(fn) |->
     {<<i.a, Literal(i)>> : i \in {j \in EveryHalfword(c - Win(94), c - 2) : Literal(j) # None}}]

\* T298g: calls of either spelling, the aligned pointers, and the enclosing function.
T298g_callers(fn) ==
  LET direct == {i \in Ins : i.m \in Calls /\ Direct(i) /\ i.imm \in {fn, ThumbPtr(fn)}}
      enclosing(a) == T297g_find_fn_start(a, Win(16384))
  IN [direct |-> In(direct, enclosing), ptr |-> AlignedWord(ThumbPtr(fn))]

\* T298i: the caller's function, looked for much further back, and the dump of
\* the callee to its first return.
T298i_caller(site) == T297g_find_fn_start(site, Win(65536))
T298i_callee(fn) == Annotated(UntilReturn(fn, fn + Win(384)))

\* T298j: the 16-bit prologues and returns around the site; calls; aligned pointers.
T298j_boundaries(lo, hi) ==
  [push |-> {i.a : i \in {j \in Within(lo, hi) : Push16(j)}},
   ret |-> {i.a : i \in {j \in Within(lo, hi) : Return16(j)}}]
T298j_callers(fn) ==
  [direct |-> Addresses(BranchesTo(fn, Calls)), ptr |-> AlignedWord(ThumbPtr(fn))]

\* T298k: the prologues seen when the same stretch is decoded from three starts,
\* and the word-aligned pointers in it.
T298k_prologues(lo, mid, hi) ==
  [p \in {lo, lo + 2, mid} |-> {i.a : i \in {j \in Range(Disasm(p, hi)) : Push16(j)}}]
T298k_pointers(fn, lo, hi) == {a \in AlignedWord(ThumbPtr(fn)) : lo <= a /\ a < hi}

\* T298n: calls with their function by depth counting; aligned pointers.
T298n_dump(fn) == Annotated(Range(Disasm(fn, fn + Win(256))))
T298n_callers(fn) ==
  [direct |-> In(BranchesTo(fn, Calls), find_containing_fn), ptr |-> AlignedWord(ThumbPtr(fn))]

\* T298o: the same for the two functions that arm and disarm the wake mask.
T298o_callers(arm, disarm) ==
  [arm |-> In(BranchesTo(arm, Calls), find_containing_fn),
   arm_ptr |-> AlignedWord(ThumbPtr(arm)),
   disarm |-> In(BranchesTo(disarm, Calls), find_containing_fn)]

\* T298p: from a store to the function around it to that function's callers.
T298p_callers(site) ==
  LET fn == find_containing_fn(site)
  IN IF fn = None THEN [fn |-> None, direct |-> {}, ptr |-> {}]
     ELSE [fn |-> fn, direct |-> In(BranchesTo(fn, Calls), find_containing_fn),
           ptr |-> AlignedWord(ThumbPtr(fn))]

\* T298q: what those searches missed: tail branches, pointers at any alignment,
\* a constant anywhere in the image and in the code.
T298q_checks(fn, v) ==
  [tail |-> Addresses(BranchesTo(fn, Branches)),
   ptr |-> FindWord(ThumbPtr(fn)),
   word |-> FindWord(v),
   code |-> {i.a : i \in {j \in Ins : j.m \in {"mov.w", "movw", "movt", "mov"} /\ j.imm = v}
                          \cup LoadsOf(v, Ins)}]

\* T298r: from a tail branch to the wrapper it ends, and to the wrapper's callers
\* by call, by tail branch and by aligned pointer.
T298r_callers(site) ==
  LET fn == T298r_find_containing_fn(site)
  IN IF fn = None THEN [fn |-> None, direct |-> {}, tail |-> {}, ptr |-> {}]
     ELSE [fn |-> fn,
           direct |-> In(BranchesTo(fn, Calls), T298r_find_containing_fn),
           tail |-> In(BranchesTo(fn, Branches), T298r_find_containing_fn),
           ptr |-> AlignedWord(ThumbPtr(fn))]

\* T298s: calls, tail branches and pointers at any alignment to each entry of a
\* wrapper that has no prologue of its own.
\* Slip: the address is searched for without its Thumb bit.
T298s_callers_Plain(entries) ==
  [fn \in entries |-> [direct |-> Addresses(BranchesTo(fn, Calls)),
                       tail |-> Addresses(BranchesTo(fn, Branches)),
                       ptr |-> FindWord(fn)]]
T298s_callers(entries) ==
  [fn \in entries |-> [direct |-> Addresses(BranchesTo(fn, Calls)),
                       tail |-> Addresses(BranchesTo(fn, Branches)),
                       ptr |-> FindWord(ThumbPtr(fn))]]

\* T298t: calls and tail branches past the wrapper, straight to what it ends in.
T298t_callers(fn) == [direct |-> Addresses(BranchesTo(fn, Calls)),
                      tail |-> Addresses(BranchesTo(fn, Branches))]
=============================================================================
