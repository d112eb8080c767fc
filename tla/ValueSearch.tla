---------------------------- MODULE ValueSearch ----------------------------
(***************************************************************************)
(* What value a store writes, and what a dispatcher tests: the T298        *)
(* scripts that read the wake mask out of the code.  The value of a store  *)
(* is taken from the last instruction, in a window before it, that the     *)
(* script counts as writing the stored register.                           *)
(***************************************************************************)
EXTENDS StoreSearch

Orrs == {"orr", "orr.w", "orrs"}
Before(h, bytes) == {i \in Ins : i.a < h.a /\ i.a >= h.a - Win(bytes)}
LastOf(S) == IF S = {} THEN [m |-> "none"] ELSE CHOOSE i \in S : \A j \in S : j.a <= i.a

\* T298a: an entry dumped to its first return; the summary lists the calls of the
\* whole stretch, those behind the return included.
T298a_dump(fn) ==
  [body |-> Annotated(UntilReturn(fn, fn + Win(240))),
   calls |-> Annotated(Range(Disasm(fn, fn + Win(240)))).calls]

\* T298b, T298c: an entry dumped to its first return, with its pool words.
T298b_dump(fn) == Annotated(UntilReturn(fn, fn + Win(320))).lits
T298c_dump(fn, caller) ==
  [fn |-> Annotated(UntilReturn(fn, fn + Win(200))).lits,
   caller |-> Annotated(UntilReturn(caller, caller + Win(120)))]

\* T298d: the masks a dispatcher tests its event word (r5) against; here a return
\* in the first part of the body does not end it.
T298d_masks(fn) ==
  LET seen == Range(Disasm(fn, fn + Win(1536)))
      ret == Earliest({i.a : i \in {j \in seen : j.m = "pop" /\ "pc" \in j.list /\ j.a > fn + Win(256)}})
  IN {i.imm : i \in {j \in seen : /\ ret = None \/ j.a <= ret
                                  /\ j.m \in {"tst", "tst.w", "ands", "and.w"}
                                  /\ j.rd = "r5" /\ j.imm # None}}

\* T298e: the plain stores to a mask, and the constants seen in the 32 bytes
\* before each, whatever register they went to.
T298e_writers(off) == StoresTo(off, Ins, {"str", "str.w"})
T298e_context(off) ==
  [h \in T298e_writers(off) |->
     LET near == {i \in Ins : i.a >= h.a - Win(32) /\ i.a <= h.a + 4}
     IN {Literal(i) : i \in {j \in near : Literal(j) # None}}
        \cup {i.imm : i \in {j \in near : j.m \in Moves /\ j.imm # None}}]

\* T298f: the writer of the stored register within 32 bytes, and the bucket it
\* puts the store in.
\* Slip: a movt does not count, so half of a mask is taken for the mask.
T298f_source_NoMovt(h) ==
  LastOf({i \in Before(h, 32) :
            \/ i.m \in Moves \cup {"ldr", "ldr.w"} /\ i.rd = h.rd
            \/ i.m \in Orrs /\ (i.rd = h.rd \/ i.rs = h.rd)})
T298f_source(h) ==
  LastOf({i \in Before(h, 32) :
            \/ i.m \in Moves \cup {"ldr", "ldr.w", "movt"} /\ i.rd = h.rd
            \/ i.m \in Orrs /\ (i.rd = h.rd \/ i.rs = h.rd)})
T298f_bucket(h) ==
  LET src == T298f_source(h)
  IN CASE src.m = "none" -> <<"unknown", None>>
       [] src.m \in Moves /\ src.imm # None -> IF src.imm = 0 THEN <<"zero", 0>>
                                                ELSE <<"constant_nonzero", src.imm>>
       [] src.m \in Loads /\ src.rs = "pc" -> <<"from_pc_lit", Literal(src)>>
       [] src.m \in Loads /\ src.rs # "pc" -> <<"from_memory", None>>
       [] src.m \in Orrs -> <<"from_orr", None>>
       [] OTHER -> <<"unknown", None>>
T298f_buckets(off) == {[a |-> h.a, is |-> T298f_bucket(h)] : h \in T298e_writers(off)}

\* T298h: the same for another mask, 40 bytes back; movt is no writer here.
T298h_source(h) ==
  LastOf({i \in Before(h, 40) : i.m \in Moves \cup {"ldr", "ldr.w"} \cup Orrs /\ i.rd = h.rd})
T298h_value(h) ==
  LET src == T298h_source(h)
  IN CASE src.m \in Moves -> src.imm
       [] src.m \in Loads -> Literal(src)
       [] OTHER -> None
T298h_values(off) == {[a |-> h.a, val |-> T298h_value(h)] : h \in T298e_writers(off)}

\* T298i: the constants written to the interrupt mask, by stores of any width;
\* no orr and no movt counts as a writer, and a pool word is not resolved.
T298i_source(h) ==
  LastOf({i \in Before(h, 40) : i.m \in Moves \cup {"ldr", "ldr.w"} /\ i.rd = h.rd})
T298i_constants(off) ==
  {[a |-> h.a, val |-> IF T298i_source(h).m \in Moves THEN T298i_source(h).imm ELSE None] :
     h \in StoresTo(off, Ins, Stores)}

\* T298t: the ways to make a mask: a move, a movw with a movt of the same register
\* in the 16 bytes after it.
T298t_construction(v) ==
  [mov |-> {i \in Ins : i.m \in Moves /\ Mentions(i, v)},
   movt |-> {<<w, t>> \in Ins \X Ins :
               /\ w.m = "movw" /\ Mentions(w, Lo(v))
               /\ t.m = "movt" /\ t.rd = w.rd /\ t.imm = Hi(v)
               /\ t.a > w.a /\ t.a <= w.a + Win(16)}]
\* ... and what the callers of the set-mask wrapper load into r1 before the call.
T298t_arguments(sites) ==
  [s \in sites |->
     LET near == {i \in Ins : i.a >= s - Win(24) /\ i.a <= s + 4 /\ i.rd = "r1"}
     IN {i.imm : i \in {j \in near : j.m \in Moves /\ j.imm # None}}
        \cup {Literal(i) : i \in {j \in near : Literal(j) # None}}]
=============================================================================
