----------------------------- MODULE LiveOrDead -----------------------------
(***************************************************************************)
(* T299: is the code that arms the wake mask live?  Its scripts ask, of    *)
(* one function after another, who calls it, who holds a pointer to it and *)
(* who names it in a message, and take "nobody" for "never runs".  A       *)
(* function's name is that of a string it loads.                           *)
(***************************************************************************)
EXTENDS CallSearch, StoreSearch

AnyBranch == Calls \cup Branches
\* fn_strings(start, end): the strings a function loads.
fn_strings(fn, end) == {Literal(i) : i \in {j \in Listing(fn, end) : Literal(j) \in data.text}}
ContainingEnd(a) == DepthEnd(find_containing_fn(a), Pushes, Rets)
Named(S) ==
  {<<i.a, find_containing_fn(i.a),
     IF find_containing_fn(i.a) = None THEN {} ELSE fn_strings(find_containing_fn(i.a), ContainingEnd(i.a))>> :
   i \in S}

\* T299a: calls, tail branches, pointers at any alignment; callers named by strings.
T299a_callers(fn) == [direct |-> Named(BranchesTo(fn, Calls)), tail |-> Named(BranchesTo(fn, Branches)),
                      ptr |-> FindWord(ThumbPtr(fn))]
T299a_strings(fn, end) == fn_strings(fn, end)

\* T299b: whatever loads or holds the entry or the pointer; a move of the value is
\* looked for, a movw of its low half never is (the test before it takes every movw).
T299b_bytes(fn) == FindWord(fn) \cup FindWord(ThumbPtr(fn))
T299b_constructions(fn) ==
  {i \in Ins : IF PcLoad(i) THEN Literal(i) \in {fn, ThumbPtr(fn)}
               ELSE /\ i.m \in {"mov", "mov.w", "movw"}
                    /\ Mentions(i, fn) \/ Mentions(i, ThumbPtr(fn))}
T299b_next(fn) == Annotated(UntilReturn(fn, fn + Win(64)))

\* T299c: from the string of a name to the function that loads it.
T299c_refs(text) == In(LoadsOf(text, Ins), find_containing_fn)

\* T299d: the same search as T299a's, for each step of the bring-up.
T299d_find_callers(fn) == <<BranchesTo(fn, Calls), BranchesTo(fn, Branches), FindWord(ThumbPtr(fn))>>
T299d_callers(fn) == [direct |-> Named(T299d_find_callers(fn)[1]), tail |-> Named(T299d_find_callers(fn)[2]),
                      ptr |-> T299d_find_callers(fn)[3]]

\* T299e: an entry dumped, forty instructions at most; the tail branch that would
\* end it in another function shows, and does not end the dump.
T299e_dump(fn) ==
  LET body == UntilReturn(fn, fn + Win(768))
  IN {i \in body : Cardinality({j \in body : j.a <= i.a}) <= 40}
T299e_tails(fn, targets) == {i.a : i \in {j \in T299e_dump(fn) : j.m \in Branches /\ j.imm \in targets}}

\* T299f: the callers of the caller, and the loads and copies of a command name.
T299f_callers(fn) == [direct |-> In(BranchesTo(fn, Calls), find_containing_fn),
                      tail |-> In(BranchesTo(fn, Branches), find_containing_fn),
                      ptr |-> FindWord(ThumbPtr(fn))]
T299f_name(text) == [refs |-> In(LoadsOf(text, Ins), find_containing_fn), words |-> FindWord(text)]

\* T299g: who loads, and who holds, the base of a handlers table or of the
\* structure around it.
T299g_readers(base, table) ==
  [entries |-> {<<a, WordAt(a)>> : a \in {b \in DOMAIN data.word : b >= base /\ b < base + 64 /\ b % 4 = 0}},
   loads |-> [t \in {base, table} |-> Addresses(LoadsOf(t, Ins))],
   words |-> [t \in {base, table} |-> FindWord(t)]]

\* T299h: the strings of the other mode that some code loads.
T299h_live_strings == {<<s, Addresses(LoadsOf(s, Ins))>> : s \in {t \in data.text : LoadsOf(t, Ins) # {}}}

\* T299i: the function around each printed address, string references, callers of
\* the two steps.
T299i_locate(addr) == IF find_fn_start(addr) = None THEN {} ELSE Body(find_fn_start(addr), Win(1536))
T299i_refs(text) == In(LoadsOf(text, Ins), find_fn_start)
T299i_callers(fn) == [direct |-> In(BranchesTo(fn, AnyBranch), find_fn_start), ptr |-> FindWord(ThumbPtr(fn))]

\* T299k: callers, then the constants built by a movw and the next movt of its
\* register no more than 16 bytes on.
T299k_callers(fn) == [direct |-> In(BranchesTo(fn, AnyBranch), find_fn_start), ptr |-> FindWord(ThumbPtr(fn))]
T299k_pairs ==
  {<<w.a, t.a, t.imm * 65536 + w.imm>> :
     <<w, t>> \in {<<w, t>> \in Ins \X Ins :
        /\ w.m = "movw" /\ t.m = "movt" /\ t.rd = w.rd
        /\ t.a > w.a /\ t.a - w.a <= Win(16)
        /\ ~ \E x \in Ins : x.a > w.a /\ x.a < t.a /\ x.rd = w.rd /\ x.m \in {"movw", "movt"}}}
T299k_constructed(fn) == {p \in T299k_pairs : p[3] \in {fn, ThumbPtr(fn)}}

\* T299l: callers of a probe function, its table, and who loads its name.
T299l_callers(fn) == [direct |-> In(BranchesTo(fn, AnyBranch), find_fn_start), ptr |-> FindWord(ThumbPtr(fn))]
T299l_table(base) == {<<a, WordAt(a) - 1>> : a \in {b \in DOMAIN data.word : b >= base /\ b < base + 64
                                                                      /\ b % 4 = 0 /\ WordAt(b) % 2 = 1}}
T299l_named(text) == In(LoadsOf(text, Ins), find_fn_start)

\* T299m: callers, pointers, and words near the entry's page; a second look at who
\* loads the pointer through a pool.
T299m_caller_scan(fn) ==
  LET page == (fn \div Win(256)) * Win(256)
  IN [direct |-> In(BranchesTo(fn, AnyBranch), find_fn_start),
      ptr |-> FindWord(ThumbPtr(fn)),
      tagged |-> {a \in DOMAIN data.word : /\ a % 2 = 0
                    /\ WordAt(a) >= page - Win(16) /\ WordAt(a) <= page + Win(256)}]
T299m_constant(v) == {<<a, find_fn_start(a)>> : a \in FindWord(v)}
T299m_writer(fn) == [body |-> Annotated(UntilReturn(fn, fn + Win(256))),
                     stores |-> {i.a : i \in {j \in UntilReturn(fn, fn + Win(256)) :
                                                 j.m \in {"str", "str.w", "strh", "strb"}}}]
T299m_pool_loads(fn) ==
  {<<i.a, find_fn_start(i.a)>> : i \in {j \in Ins : PcLoad(j) /\ j.imm \in AlignedWord(ThumbPtr(fn))}}

\* T299o: a table of pointers, walked both ways from a known entry while its words
\* look like a function or a string, and whoever loads an address inside it.
T299o_table_like(v) == (v % 2 = 1 /\ 0 < v /\ v < data.len) \/ v \in data.text
T299o_start(known, lo) ==
  Min({s \in Even(lo, known) : (known - s) % 4 = 0
         /\ \A a \in {b \in s .. known - 4 : (known - b) % 4 = 0} : T299o_table_like(WordAt(a))})
T299o_end(known, hi) ==
  Max({e \in Even(known, hi) : (e - known) % 4 = 0
         /\ \A a \in {b \in known .. e - 4 : (b - known) % 4 = 0} : T299o_table_like(WordAt(a))})
T299o_shims(entries, lo, hi) == [fn \in entries |-> {a \in FindWord(ThumbPtr(fn)) : lo <= a /\ a < hi}]
T299o_readers(lo, hi) == In({i \in Ins : Literal(i) >= lo /\ Literal(i) < hi /\ Literal(i) # None}, find_fn_start)

\* T299p: what a function does with a pointer it is handed: it calls through a
\* register, or it stores r2; and who else calls it.
T299p_uses(addr) ==
  LET body == Body(IF find_fn_start(addr) = None THEN addr ELSE find_fn_start(addr), Win(2048))
  IN [invokes |-> {i.a : i \in {j \in body : j.m = "blx" /\ ~Direct(j)}},
      saves |-> {i.a : i \in {j \in body : j.m \in {"str", "str.w"} /\ "r2" \in {j.rd, j.rs}}}]
T299p_callers(fn) == [direct |-> In(BranchesTo(fn, AnyBranch), find_fn_start), ptr |-> FindWord(ThumbPtr(fn))]

\* T299u: the exception dispatcher dumped, the words behind it that could be
\* pointers, and the vectors that branch to it.
T299u_dispatcher(fn) ==
  LET body == UntilReturn(fn, fn + Win(512))
  IN [indirect |-> {i.a : i \in {j \in body : j.m \in {"bx", "blx"} /\ ~Direct(j) /\ j.rd # "lr"}},
      loads |-> {i.a : i \in {j \in body : j.m \in Loads /\ j.rs # "pc"}},
      stores |-> {i.a : i \in {j \in body : j.m \in {"str", "str.w"}}},
      words |-> {<<a, WordAt(a)>> : a \in {b \in DOMAIN data.word : b >= fn /\ b < fn + Win(456)}}]
T299u_vectors(fn) == Addresses(BranchesTo(fn, AnyBranch))

\* T299v: who installs a handler in a global: loads its address, stores through the
\* register within twenty instructions; the value is what the stored register was
\* last loaded with.
T299v_loaders(global) == LoadsOf(global, Ins)
T299v_stores(global) ==
  {<<l, s>> \in T299v_loaders(global) \X Ins :
     s \in FollowedBy(l, 20) /\ s.a < l.a + Win(64) /\ s.m \in {"str", "str.w"} /\ s.rs = l.rd}
T299v_value(s) ==
  LET loads == {i \in Ins : i.a < s.a /\ i.a > s.a - Win(64) /\ i.m \in Loads /\ i.rd = s.rd}
  IN IF loads = {} THEN None ELSE Literal(CHOOSE i \in loads : \A j \in loads : j.a <= i.a)
T299v_installed(global) == {T299v_value(p[2]) : p \in T299v_stores(global)} \ {None}

\* T299w: every instruction that could enable interrupts or wait for one.
T299w_controls == {i \in Ins : i.m \in {"cpsie", "cpsid", "cps", "msr", "wfi", "wfe", "sev"}}

\* T299y: the prologue before the wait, and the branches and pointers to it.
T299y_prologues(site, lo) ==
  [push |-> {i.a : i \in {j \in Ins : is_push_lr(j) /\ j.a >= lo /\ j.a <= site + Win(34)}},
   ret |-> {i.a : i \in {j \in Ins : is_pop_pc(j) /\ j.a >= lo /\ j.a <= site + Win(34)}}]
T299y_callers(sites) == [direct |-> {<<i.a, i.imm>> : i \in UNION {BranchesTo(t, AnyBranch) : t \in sites}},
                         ptr |-> UNION {FindWord(ThumbPtr(t)) : t \in sites}]
=============================================================================
