-------------------------- MODULE RegisterTracking --------------------------
(***************************************************************************)
(* Where a function goes: the targets the reachability scripts (t299n, q,  *)
(* r, s, t, x, z) read out of its code.  Downward, a function is what      *)
(* decodes from its entry to the first 16-bit return, and its targets are  *)
(* the fixed branches and, in the later scripts, the registers a pool word *)
(* was last loaded into.  Upward, a call belongs to the nearest prologue   *)
(* before it.                                                              *)
(***************************************************************************)
EXTENDS LiveOrDead

CONSTANT Vectors   \* where the exception vectors end: 0x100 in the scripts
ASSUME VectorsAssumption == Vectors \in Nat

Fixed == Calls \cup Branches
InImage(t) == t >= 0 /\ t < data.len
\* disasm_from: decode up to and with the first return the script knows, or the
\* instruction after the `most`-th.
Scanned(start, bytes, most) ==
  LET run == Disasm(start, Min({data.len, start + Win(bytes)}))
      ends == {k \in DOMAIN run : Return16(run[k]) \/ k = most + 1}
  IN IF ends = {} THEN run ELSE SubSeq(run, 1, Min(ends))
FixedTargets(seq) == {seq[k].imm : k \in {j \in DOMAIN seq : seq[j].m \in Fixed /\ Direct(seq[j])}}

\* --- t299q, t299x: fixed branches only ----------------------------------------
T299q_disasm_from(start) == Scanned(start, 1536, 200)
T299q_targets(start) == FixedTargets(T299q_disasm_from(start))
T299q_dump_at(start) == Annotated(Range(Scanned(start, 768, 79)))
fn_targets_simple(start) == {t \in FixedTargets(Scanned(start, 2048, data.len)) : InImage(t)}

\* --- t299r: what each register was last loaded with from a pool.  A load from a
\* structure does not touch it: the value it holds then is stale. ----------------
LoadsPool(i) == PcLoad(i) /\ Literal(i) # None
Copies(i) == i.m = "mov" /\ i.imm = None
Through(i) == i.m \in {"bx", "blx"} /\ ~Direct(i) /\ i.rd \notin {"lr", "ip", "sp", "pc"}
Pointer(v) == v % 2 = 1 /\ Vectors < v /\ v < data.len
Registers == {At(p).rd : p \in DOMAIN data.at} \cup {At(p).rs : p \in DOMAIN data.at}
Unknown == [r \in Registers |-> None]
Put(f, r, v) == [f EXCEPT ![r] = v]
\* What `track` makes of `known` over the instructions before the k-th.
KnownAt(track(_, _), known, run, k) ==
  LET state[j \in 1 .. k] == IF j = 1 THEN known ELSE track(state[j - 1], run[j - 1])
  IN state[k]
Copy(f, i) == IF f[i.rs] = None THEN f ELSE Put(f, i.rd, f[i.rs])

T299r_disasm_from(start) == Scanned(start, 2048, 250)
T299r_dump(start) == Annotated(Range(Scanned(start, 1536, 249)))
T299r_track(lit, i) ==
  CASE LoadsPool(i) -> Put(lit, i.rd, Literal(i))
    [] Copies(i) -> Copy(lit, i)
    [] OTHER -> lit
T299r_fn_targets(start) ==
  LET run == T299r_disasm_from(start)
      lit(k) == KnownAt(T299r_track, Unknown, run, k)
      through == {k \in DOMAIN run : Through(run[k])}
      value(k) == lit(k)[run[k].rd]
      known == {k \in through : value(k) # None}
  IN {<<run[k].imm, "direct">> : k \in {j \in DOMAIN run : run[j].m \in Calls /\ Direct(run[j])}}
     \cup {<<run[k].imm, "tail">> : k \in {j \in DOMAIN run : run[j].m \in Branches /\ Direct(run[j])}}
     \cup {<<value(k) - 1, "indirect_pool">> : k \in {j \in known : Pointer(value(j))}}
     \cup {<<value(k), "indirect_pool_data">> : k \in {j \in known : ~Pointer(value(j))}}
     \cup (IF known = through THEN {} ELSE {<<None, "indirect_unknown">>})
\* Who loads the pointer from a pool; the sweep is written out once more.
T299r_loaders(fn) == Addresses(LoadsOf(ThumbPtr(fn), Ins))

\* --- t299s: a load from a structure forgets the pool word, and is remembered
\* as the source of an indirect call. -------------------------------------------
T299s_disasm_from(start) == Scanned(start, 2048, 250)
NothingLoaded == [lit |-> Unknown, load |-> [r \in Registers |-> <<>>]]
FromStruct(i) == i.m \in Loads /\ i.rs \notin {"none", "pc"}
\* Slip: the pool word outlives the load from a structure, as in t299r.
T299s_track_Stale(known, i) ==
  CASE LoadsPool(i) -> [lit |-> Put(known.lit, i.rd, Literal(i)), load |-> Put(known.load, i.rd, <<"pc", i.imm>>)]
    [] FromStruct(i) -> [known EXCEPT !.load[i.rd] = <<i.rs, i.imm>>]
    [] Copies(i) -> [known EXCEPT !.lit = Copy(known.lit, i)]
    [] OTHER -> known
T299s_track(known, i) ==
  CASE LoadsPool(i) -> [lit |-> Put(known.lit, i.rd, Literal(i)), load |-> Put(known.load, i.rd, <<"pc", i.imm>>)]
    [] FromStruct(i) -> [lit |-> Put(known.lit, i.rd, None), load |-> Put(known.load, i.rd, <<i.rs, i.imm>>)]
    [] Copies(i) -> [lit |-> Copy(known.lit, i),
                     load |-> IF known.load[i.rs] = <<>> THEN known.load
                              ELSE Put(known.load, i.rd, known.load[i.rs])]
    [] OTHER -> known
T299s_fn_targets(start) ==
  LET run == T299s_disasm_from(start)
      before(k) == KnownAt(T299s_track, NothingLoaded, run, k)
      through == {k \in DOMAIN run : Through(run[k])}
      value(k) == before(k).lit[run[k].rd]
      source(k) == before(k).load[run[k].rd]
  IN [direct |-> FixedTargets(run)
                 \cup {value(k) - 1 : k \in {j \in through : value(j) # None /\ Pointer(value(j))}},
      indirect |-> {<<run[k].a, run[k].rd, source(k)>> : k \in {j \in through : value(j) = None}}]
T299s_targets(start) == {t \in T299s_fn_targets(start).direct : InImage(t)}
T299s_dump(fn) == Annotated(Range(Scanned(fn, 768, 79)))
\* The call sites left over in the functions reached, one each.
T299s_sites(reached) == UNION {T299s_fn_targets(fn).indirect : fn \in {f \in reached : InImage(f)}}
\* The file of live functions t300 reads back.
T299s_live_set(reached) == reached

\* --- t299t: the same from the exception vectors; a pool word leaves no source --
T299t_disasm_from(start) == Scanned(start, 2048, 250)
T299t_track(known, i) ==
  CASE LoadsPool(i) -> [known EXCEPT !.lit[i.rd] = Literal(i)]
    [] OTHER -> T299s_track(known, i)
T299t_fn_targets(start) ==
  LET run == T299t_disasm_from(start)
      before(k) == KnownAt(T299t_track, NothingLoaded, run, k)
      through == {k \in DOMAIN run : Through(run[k])}
      value(k) == before(k).lit[run[k].rd]
  IN [direct |-> FixedTargets(run)
                 \cup {value(k) - 1 : k \in {j \in through : value(j) # None /\ Pointer(value(j))}},
      indirect |-> {<<run[k].a, run[k].rd, before(k).load[run[k].rd]>> :
                      k \in {j \in through : value(j) = None}}]
T299t_targets(start) == {t \in T299t_fn_targets(start).direct : InImage(t)}
\* A vector dumped up to the next one, whatever it branches to.
T299t_vector(addr) ==
  LET run == Disasm(addr, addr + Win(128))
  IN {run[k] : k \in {j \in DOMAIN run : j <= 31 /\ \A i \in 1 .. j - 1 : After(run[i]) < addr + Win(64)}}

\* --- upward: t299n, t299z -------------------------------------------------------
T299n_find_callers(fn) == [direct |-> In(BranchesTo(fn, Fixed), find_fn_start), ptr |-> FindWord(ThumbPtr(fn))]
fn_containing(addr) == Latest(Addresses({i \in Ins : is_push_lr(i) /\ i.a <= addr}))
T299n_callers_of(fn) == {fn_containing(i.a) : i \in BranchesTo(fn, Fixed)} \ {None}
T299n_dump(fn) == {i \in Body(fn, Win(1536)) : Cardinality(Within(fn, i.a)) < 150}
T299n_root(fn) == T299n_callers_of(fn) = {}
T299z_wrapper(fn) == [direct |-> Addresses(BranchesTo(fn, Fixed)), ptr |-> FindWord(ThumbPtr(fn))]
T299z_find_fn_start_loose(addr) ==
  Latest(Addresses({i \in Ins : is_push_lr(i) /\ i.a <= addr /\ i.a >= addr - Win(128)}))
T299z_rev_cg(fn) == {fn_containing(i.a) : i \in BranchesTo(fn, Fixed)} \ {None}
T299z_landing(lo, hi) == {<<i.a, i.imm>> : i \in {j \in Ins : /\ j.m \in Fixed /\ Direct(j)
                                                              /\ lo <= j.imm /\ j.imm <= hi}}
T299z_boundaries(lo, hi) ==
  [push |-> {i.a : i \in {j \in Within(lo, hi) : is_push_lr(j)}},
   ret |-> {i.a : i \in {j \in Within(lo, hi) : Returns(j)}}]
T299z_text(lo, hi) == {a \in data.text : lo <= a /\ a < hi}

\* --- t299x: the functions around the wait and the interrupt enable ---------------
T299x_containing(addr) == LET fn == find_fn_start(addr)
                          IN [fn |-> fn, end |-> IF fn = None THEN None ELSE find_fn_end(fn, Win(1536))]
T299x_controls(addr) ==
  LET in == T299x_containing(addr)
  IN IF in.fn = None THEN {} ELSE {i \in Range(Disasm(in.fn, in.end)) : i.m \in {"cpsie", "cpsid", "wfi", "wfe"}}
T299x_callers(fn) == [direct |-> In(BranchesTo(fn, Fixed), find_fn_start), ptr |-> FindWord(ThumbPtr(fn))]

\* --- t299j: a string to the functions that load it; every trace of an entry -----
T299j_dump(fn) == {i \in Body(fn, Win(4096)) : Cardinality(Within(fn, i.a)) < 400}
T299j_refs(text) == In(LoadsOf(text, Ins), find_fn_start)
T299j_traces(fn, lo, hi) ==
  [exact |-> [t \in {fn, ThumbPtr(fn)} |-> FindWord(t)],
   tagged |-> {a \in DOMAIN data.word : a % 2 = 0 /\ lo <= WordAt(a) /\ WordAt(a) <= hi},
   adr |-> {i.a : i \in {j \in Ins : j.m = "adr" /\ lo <= j.imm /\ j.imm <= hi}}]
T299j_callers(fn) == [direct |-> In(BranchesTo(fn, Fixed), find_fn_start), ptr |-> FindWord(ThumbPtr(fn))]

\* --- t300: which stores to the interrupt mask lie in a live function -------------
T300_stores(off) == {i \in Ins : i.m \in Stores \ {"strd"} /\ Mentions(i, off)}
T300_live(off, live) == {i \in T300_stores(off) : fn_containing(i.a) \in live}
T300_setcore(si_setcoreidx, core) ==
  {fn_containing(i.a) : i \in {j \in Ins : /\ j.m = "bl" /\ Mentions(j, si_setcoreidx)
                                           /\ \E p \in Ins : /\ p.m \in Moves \cup {"movt"}
                                                             /\ Mentions(p, core) /\ p.a < j.a
                                                             /\ Cardinality(Within(p.a, j.a)) <= 8}} \ {None}
T300_both(off, setcore) == setcore \cap ({fn_containing(i.a) : i \in T300_stores(off)} \ {None})
T300_loaders(v) == In(LoadsOf(v, Ins), fn_containing)

\* --- t307: a bl decoded by hand at every halfword, and nothing else that calls ---
T307_find_bl_callers(target) == {i.a : i \in {j \in EveryHalfword(0, data.len - 5) : j.m = "bl" /\ j.imm = target}}
T307_literal_pool(v) == {a \in FindWord(v) : a % 2 = 0 /\ a % 4 = 0}
\* A movw with the movt of its register right behind it.
T307_movw_movt(v) ==
  {a \in Even(0, data.len - 9) :
     /\ Decodable(a) /\ At(a).m = "movw" /\ At(a).imm = Lo(v)
     /\ Decodable(a + 4) /\ At(a + 4).m = "movt" /\ At(a + 4).rd = At(a).rd /\ At(a + 4).imm = Hi(v)}
\* The loads of a pool word in the 4 KB before it, as far as one decode gets.
T307_consumers(v) ==
  UNION {{<<h, i.a>> : i \in {j \in Range(Disasm(Max({0, h - Win(4096)}), h + 4)) : PcLoad(j) /\ j.imm = h}} :
         h \in T307_literal_pool(v)}
\* Up to the first return that is not among the first three instructions, and the
\* words behind it.
T307_body(entry, size) ==
  LET run == Disasm(entry, entry + Win(size))
      ends == {k \in 4 .. Len(run) : Return16(run[k])}
      last == IF ends = {} THEN Len(run) ELSE Min(ends)
  IN [code |-> SubSeq(run, 1, last),
      pool |-> IF ends = {} THEN {}
               ELSE {a \in DOMAIN data.word : /\ After(run[last]) <= a
                                              /\ a < Min({After(run[last]) + Win(64), entry + Win(size)})}]
=============================================================================
