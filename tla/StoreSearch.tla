---------------------------- MODULE StoreSearch ----------------------------
(***************************************************************************)
(* Who writes a field of a structure, and what is written: the scripts of  *)
(* T297 and T298 that decided whether the firmware arms its wake mask.     *)
(* A field is known by its offset only, so a store is found when its       *)
(* bracketed operand names that offset; the other ways to reach the field  *)
(* (an address computed first, a paired store, a register offset) are      *)
(* separate passes, in the scripts that have them.                         *)
(***************************************************************************)
EXTENDS FunctionBounds

\* parse_off and parse_base: a store to [reg, #off], the stack left out.
StoresTo(off, S, mnemonics) == {i \in S : i.m \in mnemonics /\ Field(i, off) /\ i.rs # "sp"}

\* T297: the sites asked about, and its "is the list exhaustive" re-scan, which
\* is ONE decode of the image from 0 and ends at the first bytes that are no code.
T297_report(sites, off) ==
  LET found == {i \in Range(Disasm(0, data.len)) : Field(i, off)}
  IN [fn |-> [s \in sites |-> T297_find_fn_start(s)],
      context |-> [s \in sites |-> Range(Disasm(Max({0, s - Win(24)}), Min({data.len, s + Win(24)})))],
      hits |-> {i \in found : i.m \in Stores32},
      sub_hits |-> {i \in found : i.m \in Stores \ Stores32}]

\* T297b: every [r4, #] store of the function around a site, with the pool word
\* seen last, whichever register it was loaded into.
LastLiteral(S, before) ==
  LET lits == {i \in S : Literal(i) # None /\ i.a <= before}
  IN IF lits = {} THEN None ELSE Literal(CHOOSE i \in lits : \A j \in lits : j.a <= i.a)
T297b_r4_stores(site) ==
  LET fn == T297b_find_fn_start(site, Win(24576))
      body == IF fn = None THEN {} ELSE Range(Disasm(fn, T297b_find_fn_end(fn)))
  IN {[a |-> i.a, off |-> i.imm, val |-> LastLiteral(body, i.a)] :
        i \in {j \in body : j.m \in {"str", "str.w"} /\ j.rs = "r4" /\ j.imm # None}}

\* T297c: prologues and returns in the stretch before the site, and decodes
\* tried from four alignments of it.
T297c_scan(from, site, alignments) ==
  LET seen == Range(Disasm(from, site))
  IN [push |-> {i.a : i \in {j \in seen : Push16(j)}},
      ret |-> {i.a : i \in {j \in seen : Return16(j)}},
      tries |-> [p \in alignments |-> Disasm(p, p + Win(128))]]

\* T297d: the same pairing of stores and last pool word over a fixed block, then
\* what each word of its pool could be.
T297d_stores(lo, hi) ==
  LET block == Range(Disasm(lo, hi))
  IN {[a |-> i.a, base |-> i.rs, off |-> i.imm, val |-> LastLiteral(block, i.a)] :
        i \in {j \in block : j.m \in {"str", "str.w"} /\ j.rs \in {"r3", "r4"} /\ j.imm # None}}
T297d_classify(v) ==
  CASE v = 0 -> "zero"
    [] v % 2 = 1 /\ v < data.len -> "thumb fn"
    [] v \in data.text /\ v % 2 = 0 -> "string"
    [] OTHER -> "base or unclassified"

\* T297e: stores to any of three fields; a cluster is two on one register within
\* 256 bytes, a strong match all three.
T297e_hits(fields) == UNION {StoresTo(off, Ins, Stores) : off \in fields}
T297e_nearby(h, key, fields) ==
  {j \in T297e_hits(fields) \ {h} :
     j.rs = h.rs /\ j.a - h.a \in -Win(256) .. Win(256) /\ j.imm \in fields \ {key}}
T297e_clusters(key, fields) ==
  {h \in T297e_hits(fields) : h.imm = key /\ T297e_nearby(h, key, fields) # {}}
T297e_strong(key, fields) ==
  {h \in T297e_clusters(key, fields) :
     {j.imm : j \in T297e_nearby(h, key, fields)} = fields \ {key}}

\* T297f: the five passes for one word and its neighbour: stores, the two ways to
\* build the address, and the constant for an indexed store.  The verdict counts
\* what lies outside the consumer's own body [lo, hi); a constant does not count.
T297f_passes(off) ==
  [store |-> StoresTo(off, Ins, Stores),
   add |-> {i \in Ins : i.m \in Adds /\ Mentions(i, off)},
   mov |-> {i \in Ins : i.m \in Moves /\ Mentions(i, off)}]
T297f_producers(off, lo, hi) ==
  {i \in T297f_passes(off).store : ~(lo <= i.a /\ i.a < hi)} \cup T297f_passes(off).add
T297f_no_software_writer(offs, lo, hi) == \A off \in offs : T297f_producers(off, lo, hi) = {}

\* T297g: the enclosing function and the neighbourhood of each known site.
T297g_section(sites) ==
  [s \in sites |-> [fn |-> T297g_find_fn_start(s, Win(4096)),
                    context |-> {i \in Ins : i.a - s \in -Win(32) .. Win(32)}]]

\* T297h: the fields touched through a pointer read from a field, within 200
\* bytes of the read.  Nothing ends the stretch, not even a new value in the register.
T297h_pointer_loads(off) == {i \in Ins : i.m \in {"ldr", "ldr.w"} /\ Field(i, off) /\ i.rs # "sp"}
T297h_layout(off) ==
  {[off |-> i.imm, a |-> i.a, store |-> i.m \in Stores, site |-> l.a] :
     <<l, i>> \in {<<l, i>> \in T297h_pointer_loads(off) \X Ins :
                     /\ i.a > l.a /\ i.a <= l.a + Win(200)
                     /\ i.m \in Stores \cup Loads
                     /\ i.rs = l.rd /\ i.imm # None}}

\* T297i: the stores through r4 in the function open at the first site.
T297i_body(site) ==
  LET fn == T297g_find_fn_start(site, Win(16384))
      end == T297i_find_fn_end(fn)
      body == IF fn = None THEN {} ELSE {i \in Ins : i.a >= fn /\ (end = None \/ i.a < end)}
  IN {i \in body : i.m \in Stores /\ i.rs = "r4"}

\* T297j: a constant in the image: aligned words, moves, and a movt whose movw of
\* the low half into the same register lies within 32 bytes before.
Hi(v) == v \div 65536
Lo(v) == v % 65536
T297j_constant(v) ==
  [lits |-> AlignedWord(v),
   mov |-> {i \in Ins : i.m \in {"mov", "mov.w", "movw"} /\ Mentions(i, v)},
   movt |-> {<<w, t>> \in Ins \X Ins :
               /\ t.m = "movt" /\ Mentions(t, Hi(v))
               /\ w.m = "movw" /\ w.rd = t.rd /\ Mentions(w, Lo(v))
               /\ w.a < t.a /\ w.a >= t.a - Win(32)}]

\* T297k: a pointer read from one field and stored in another, within twelve
\* instructions, until the register is loaded anew.
FollowedBy(l, n) == {i \in Ins : i.a > l.a /\ Cardinality({j \in Ins : j.a > l.a /\ j.a <= i.a}) <= n}
T297k_pointer_loads(off) == {i \in T297h_pointer_loads(off) : i.rs # "pc"}
T297k_candidates(off) ==
  {<<l, i>> \in T297k_pointer_loads(off) \X Ins :
     /\ i \in FollowedBy(l, 12)
     /\ i.m \in {"str", "str.w", "strb", "strh", "strd"} /\ i.rd = l.rd
     /\ ~ \E w \in Ins : /\ w.a > l.a /\ w.a < i.a
                         /\ w.m \in {"ldr", "ldr.w", "mov", "mov.w", "movw", "movt"}
                         /\ w.rd = l.rd}
T297k_matches(off, to) == {p \in T297k_candidates(off) : p[2].imm = to}

\* T297l: every mention of a table's offsets, stack and pool apart, and the
\* loads with a scaled register index, where no offset shows.
T297l_mentions(off) == {i \in Ins : Mentions(i, off) /\ i.rs \notin {"sp", "pc"}}
T297l_indexed == {i \in Ins : i.m \in {"ldr", "ldr.w"} /\ i.ri # "none"}

\* T297m: the fields a function touches, from its entry to its first return.
T297m_fields(fn, keys) ==
  {i \in UntilReturn(fn, fn + Win(512)) : i.rs # "none" /\ i.imm \in keys}
=============================================================================
