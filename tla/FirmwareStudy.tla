--------------------------- MODULE FirmwareStudy ---------------------------
(***************************************************************************)
(* The offline study of the firmware image as one system: the toolchain    *)
(* links some program, a script sweeps the image once and asks its         *)
(* questions, and a reachability script walks the graph it reads out of    *)
(* the code.  The properties compare every answer with what is true of the *)
(* program.  The scripts guess, so an answer may be wrong; each property   *)
(* names, script by script, what can make it wrong, and says that nothing  *)
(* else does.                                                              *)
(***************************************************************************)
EXTENDS FirmwareImage, RegisterTracking, ValueSearch, Climb

CONSTANT Deepest             \* script |-> the last level its walk reads
Walkers == {"t299q", "t299r", "t299s", "t299t", "t299x", "t299n", "t299z"}
Upward == {"t299n", "t299z"}
ASSUME StudyAssumption == Deepest \in [Walkers -> Nat]

VARIABLES phase,             \* "source", "image", "swept", "walking"
          script             \* the walking script

studyVars == <<prog, data, all_ins, phase, script, climbVars>>

\* How each script reads the targets (the callers) of one function.
Targets(s, fn) ==
  CASE s = "t299q" -> T299q_targets(fn)
    [] s = "t299r" -> {t[1] : t \in T299r_fn_targets(fn)} \ {None}
    [] s = "t299s" -> T299s_targets(fn)
    [] s = "t299t" -> T299t_targets(fn)
    [] s = "t299x" -> fn_targets_simple(fn)
    [] s = "t299n" -> T299n_callers_of(fn)
    [] s = "t299z" -> T299z_rev_cg(fn)
\* Where a walk can come by: an entry, the target of a branch, a pool word.
Places == ({Entry(i) : i \in 1 .. N}
           \cup {At(p).imm : p \in {q \in DOMAIN data.at : At(q).m \in Fixed}}
           \cup {WordAt(a) : a \in DOMAIN data.word} \cup {WordAt(a) - 1 : a \in DOMAIN data.word}) \cap Node
Graph(s) == [n \in Node |-> IF n \in Places THEN Targets(s, n) \cap Node ELSE {}]

Init ==
  /\ prog \in {p \in Programs : WellFormed(p)}
  /\ data = [len |-> 0] /\ all_ins = <<>>
  /\ phase = "source" /\ script = "none"
  /\ edge = [n \in Node |-> {}] /\ root = 0 /\ last = 0
  /\ queue = <<>> /\ seen = {} /\ read = {} /\ cut = {}
  /\ parent = [n \in Node |-> n] /\ level = [n \in Node |-> 0]

Link ==
  /\ phase = "source" /\ phase' = "image"
  /\ data' = Linked
  /\ UNCHANGED <<prog, all_ins, script, climbVars>>

\* all_ins = list(iter_all()): once, before any question.
Sweep ==
  /\ phase = "image" /\ phase' = "swept"
  /\ all_ins' = iter_all
  /\ UNCHANGED <<prog, data, script, climbVars>>

\* A script builds its graph and starts to walk it.
Walk(s, from) ==
  /\ phase = "swept" /\ phase' = "walking"
  /\ script' = s
  /\ Begin(Graph(s), from, Deepest[s])
  /\ UNCHANGED <<prog, data, all_ins>>
\* Down from where the firmware starts.
T299q_walk == Walk("t299q", Entry(1))
T299r_walk == Walk("t299r", Entry(1))
T299s_walk == Walk("t299s", Entry(1))
T299t_walk == Walk("t299t", Entry(1))
T299x_walk == Walk("t299x", Entry(1))
\* Up from the function in question.
T299n_walk == Walk("t299n", Entry(N))
T299z_walk == Walk("t299z", Entry(N))

Step == phase = "walking" /\ ClimbNext /\ UNCHANGED <<prog, data, all_ins, phase, script>>

Next == \/ Link \/ Sweep
        \/ T299q_walk \/ T299r_walk \/ T299s_walk \/ T299t_walk \/ T299x_walk
        \/ T299n_walk \/ T299z_walk
        \/ Step
Spec == Init /\ [][Next]_studyVars

-----------------------------------------------------------------------------
\* What is odd about function i, in the words of the tables below.
Lost(a) == a \notin Addresses(Ins)
Odd(i) ==
  {c \in {"leaf", "push.w", "early", "tail", "lost", "undef"} :
     CASE c = "leaf" -> prog[i].pro = "none"
       [] c = "push.w" -> prog[i].pro = "push.w"
       [] c = "early" -> prog[i].early
       [] c = "tail" -> prog[i].link = "tail"
       [] c = "lost" -> Lost(Entry(i))
       [] c = "undef" -> \E k \in 1 .. i - 1 : prog[k].const = "undef"}
Asking == phase = "swept"

\* Which function a site lies in, as each script guesses it, and what misleads it.
Guessers == {"nearest", "nearest16", "open16", "far16", "redecoded", "halfword", "counted", "counted16", "open", "counted tail",
             "loose"}
Guess(g, a) ==
  CASE g = "nearest" -> find_fn_start(a)
    [] g = "nearest16" -> T297_find_fn_start(a)
    [] g = "open16" -> T297g_find_fn_start(a, Win(16384))
    [] g = "far16" -> T298i_caller(a)
    [] g = "redecoded" -> T297b_find_fn_start(a, Win(24576))
    [] g = "halfword" -> T298_isr_prologue(a)
    [] g = "counted" -> find_containing_fn(a)
    [] g = "counted16" -> Latest(T298l_containing(a))
    [] g = "open" -> Latest(T298m_containing(a))
    [] g = "loose" -> T299z_find_fn_start_loose(a)
    [] g = "counted tail" -> T298r_find_containing_fn(a)
Misled(g) ==
  CASE g = "nearest" -> {"leaf", "lost"}
    [] g = "nearest16" -> {"leaf", "push.w", "lost", "undef"}
    [] g = "open16" -> {"leaf", "push.w", "early", "lost"}
    [] g = "far16" -> {"leaf", "push.w", "early", "lost"}
    [] g = "redecoded" -> {"leaf", "push.w", "early", "lost", "undef"}
    [] g = "halfword" -> {"leaf", "push.w"}
    [] g = "counted" -> {"leaf", "early", "tail", "lost"}
    [] g = "open" -> {"early", "tail", "lost"}
    [] g = "loose" -> {"leaf", "lost"}
    [] g = "counted16" -> {"push.w", "early", "tail", "lost"}
    [] g = "counted tail" -> {"leaf", "early", "lost"}

\* The function a site is reported in is the one it lies in, unless that function
\* is odd in a way this script cannot read; each script can read the others.
SitesAreRight ==
  \A g \in Guessers, i \in {k \in 1 .. N : Transfers(k)} :
    Guess(g, Site(i)) = Entry(i) \/ Odd(i) \cap Misled(g) # {}

\* From the string of a function's name to the function that loads it.
NameSearches == {"t299c", "t299f", "t299i", "t299j", "t299l", "t300"}
Refs(s, text) ==
  CASE s = "t299c" -> T299c_refs(text)
    [] s = "t299f" -> T299f_name(text).refs
    [] s = "t299i" -> T299i_refs(text)
    [] s = "t299j" -> T299j_refs(text)
    [] s = "t299l" -> T299l_named(text)
    [] s = "t300" -> T300_loaders(text)
NameGuess(s) == IF s \in {"t299c", "t299f"} THEN "counted" ELSE "nearest"
NamesAreRight ==
  \A i \in {k \in 1 .. N : HasConst(prog[k])} :
    LET load == NameSite(i).a
    IN /\ \A s \in NameSearches :
            <<load, Entry(i)>> \in Refs(s, Name(i)) \/ Odd(i) \cap Misled(NameGuess(s)) # {}
       /\ <<Name(i), {load}>> \in T299h_live_strings
       /\ Name(i) \in T299a_strings(Entry(i), Entry(i + 1))
       /\ <<load, Name(i)>> \in T298_isr_literals(Entry(i)) \cap T298_isr_strings(load + 2)

\* The entries and returns a script lists for a stretch of the image, here all of it.
Boundaries(s) ==
  CASE s = "t297c" -> LET b == T297c_scan(0, data.len, {}) IN [push |-> b.push, ret |-> b.ret]
    [] s = "t298j" -> T298j_boundaries(0, data.len)
    [] s = "t298k" -> [push |-> T298k_prologues(0, 0, data.len)[0], ret |-> {}]
    [] s = "t299y" -> T299y_prologues(data.len, 0)
    [] s = "t299z" -> T299z_boundaries(0, data.len)
Unlisted(s) == CASE s \in {"t297c", "t298k"} -> {"leaf", "push.w", "lost", "undef"}
                 [] s = "t298j" -> {"leaf", "push.w", "lost"}
                 [] s \in {"t299y", "t299z"} -> {"leaf", "lost"}
Exit(i) == CHOOSE a \in Addresses(Placed(i)) : \A b \in Addresses(Placed(i)) : b <= a
BoundariesAreListed ==
  \A i \in 1 .. N :
    /\ \A s \in {"t297c", "t298j", "t298k", "t299y", "t299z"} :
         Entry(i) \in Boundaries(s).push \/ Odd(i) \cap Unlisted(s) # {}
    /\ \A s \in {"t298j", "t299z"} :
         Exit(i) \in Boundaries(s).ret \/ prog[i].link = "tail" \/ (s = "t298j" /\ prog[i].pro = "push.w")
EnclosingIsRight == Asking => SitesAreRight /\ NamesAreRight /\ BoundariesAreListed

\* Who calls function i: the sites, and the words that hold its pointer.
Searches == {"t298_isr", "t298g", "t298j", "t298k", "t298n", "t298o", "t298p", "t298q", "t298r", "t298s", "t298t",
             "t299a", "t299b", "t299d", "t299f", "t299i", "t299j", "t299k", "t299l", "t299m", "t299n", "t299o",
             "t299p", "t299u", "t299x", "t299y", "t299z", "t307"}
Firsts(pairs) == {p[1] : p \in pairs}
SitesAndWords(c) == [sites |-> Firsts(c.direct), words |-> c.ptr]
Found(s, i) ==
  LET fn == Entry(i)
      h == StoreSite(i).a
  IN CASE s = "t298_isr" -> [sites |-> T298_isr_calls(fn), words |-> {}]
       [] s = "t298g" -> SitesAndWords(T298g_callers(fn))
       [] s = "t298j" -> [sites |-> T298j_callers(fn).direct, words |-> T298j_callers(fn).ptr]
       [] s = "t298k" -> [sites |-> {}, words |-> T298k_pointers(fn, 0, data.len)]
       [] s = "t298n" -> SitesAndWords(T298n_callers(fn))
       [] s = "t298o" -> [sites |-> Firsts(T298o_callers(fn, fn).arm), words |-> T298o_callers(fn, fn).arm_ptr]
       [] s = "t298p" -> SitesAndWords(T298p_callers(h))
       [] s = "t298q" -> [sites |-> T298q_checks(fn, 0).tail, words |-> T298q_checks(fn, 0).ptr]
       [] s = "t298r" -> LET c == T298r_callers(h) IN [sites |-> Firsts(c.direct \cup c.tail), words |-> c.ptr]
       [] s = "t298s" -> LET c == T298s_callers({fn})[fn] IN [sites |-> c.direct \cup c.tail, words |-> c.ptr]
       [] s = "t298t" -> [sites |-> T298t_callers(fn).direct \cup T298t_callers(fn).tail, words |-> {}]
       [] s = "t299a" -> LET c == T299a_callers(fn) IN [sites |-> Firsts(c.direct \cup c.tail), words |-> c.ptr]
       [] s = "t299b" -> [sites |-> {}, words |-> T299b_bytes(fn)]
       [] s = "t299d" -> LET c == T299d_callers(fn) IN [sites |-> Firsts(c.direct \cup c.tail), words |-> c.ptr]
       [] s = "t299f" -> LET c == T299f_callers(fn) IN [sites |-> Firsts(c.direct \cup c.tail), words |-> c.ptr]
       [] s = "t299i" -> SitesAndWords(T299i_callers(fn))
       [] s = "t299j" -> SitesAndWords(T299j_callers(fn))
       [] s = "t299k" -> SitesAndWords(T299k_callers(fn))
       [] s = "t299l" -> SitesAndWords(T299l_callers(fn))
       [] s = "t299m" -> SitesAndWords(T299m_caller_scan(fn))
       [] s = "t299n" -> SitesAndWords(T299n_find_callers(fn))
       [] s = "t299o" -> [sites |-> {}, words |-> T299o_shims({fn}, 0, data.len)[fn]]
       [] s = "t299p" -> SitesAndWords(T299p_callers(fn))
       [] s = "t299u" -> [sites |-> T299u_vectors(fn), words |-> {}]
       [] s = "t299x" -> SitesAndWords(T299x_callers(fn))
       [] s = "t299y" -> SitesAndWords(T299y_callers({fn}))
       [] s = "t299z" -> [sites |-> T299z_wrapper(fn).direct, words |-> T299z_wrapper(fn).ptr]
       [] s = "t307" -> [sites |-> T307_find_bl_callers(fn), words |-> {}]
\* The transfers a search is blind to, and what misleads one that first has to find
\* the function around a known store.
Blind(s) ==
  CASE s \in {"t298_isr", "t307"} -> {"tail", "pool", "table"}
    [] s \in {"t298g", "t298j", "t298n", "t298o", "t298p"} -> {"tail"}
    [] s \in {"t298t", "t299u"} -> {"pool", "table"}
    [] s = "t298q" -> {"bl"}
    [] s \in {"t298k", "t299b", "t299o"} -> {"bl", "tail"}
    [] OTHER -> {}
Around(s) == CASE s = "t298p" -> Misled("counted") [] s = "t298r" -> Misled("counted tail") [] OTHER -> {}
Trace(i) == IF prog[i].link = "pool" THEN PtrWord(i) ELSE TableWord(i)

\* "Nobody calls it", on which phase6 declares code dead: a search sees every way
\* control is handed over except those it is blind to.
CallersAreFound ==
  \A s \in Searches, i \in {k \in 1 .. N : Transfers(k)} :
    LET f == Found(s, i + 1)
    IN \/ Site(i) \in f.sites \/ Trace(i) \in f.words
       \/ prog[i].link \in Blind(s)
       \/ Odd(i + 1) \cap Around(s) # {}

\* Where function i goes, as a listing of it shows: the targets of its calls.
Listings == {"t298a", "t298c", "t298i", "t298n", "t299m", "t299q", "t299r", "t299s"}
CallsShown(s, i) ==
  LET fn == Entry(i)
  IN CASE s = "t298a" -> T298a_dump(fn).body.calls
       [] s = "t298c" -> T298c_dump(fn, fn).caller.calls
       [] s = "t298i" -> T298i_callee(fn).calls
       [] s = "t298n" -> T298n_dump(fn).calls
       [] s = "t299m" -> T299m_writer(fn).body.calls
       [] s = "t299q" -> T299q_dump_at(fn).calls
       [] s = "t299r" -> T299r_dump(fn).calls
       [] s = "t299s" -> T299s_dump(fn).calls
CallsAreShown ==
  \A s \in Listings, i \in {k \in 1 .. N : prog[k].link = "bl"} :
    \/ <<Site(i), Entry(i + 1)>> \in CallsShown(s, i)
    \/ "early" \in Odd(i)

\* What a dump says of the other ways out of function i: the branch at its end, the
\* call through a register with the field the register came from.
WaysOutAreShown ==
  \A i \in {k \in 1 .. N : prog[k].link # "none"} :
    LET fn == Entry(i)
        out == Site(i)
        sources == {<<out, "r3", <<"r0", Slot>>>>}
        early == "early" \in Odd(i)
    IN CASE prog[i].link = "bl" -> <<out, Entry(i + 1)>> \in T299z_landing(Entry(i + 1), Entry(i + 1))
         [] prog[i].link = "tail" -> early \/ out \in T299e_tails(fn, {Entry(i + 1)})
         [] OTHER -> /\ early \/ out \in T299u_dispatcher(fn).indirect
                     /\ early \/ out \in T299p_uses(out).invokes \/ Odd(i) \cap Misled("nearest") # {}
                     /\ prog[i].link = "pool" \/ sources \subseteq T299s_sites({fn}) \/ early

\* A pointer to function i + 1 in a literal pool or in the table is traced from either
\* end: from the word to the load, from a listing to the word.
PtrLoad(i) == CHOOSE j \in Placed(i) : j.m = "ldr" /\ j.rs = "pc" /\ j.imm = PtrWord(i)
PointersAreTraced ==
  /\ \A i \in {k \in 1 .. N : HasPtr(prog[k])} :
       LET fn == Entry(i + 1)
           at == PtrLoad(i).a
       IN /\ at \in T299r_loaders(fn) \cap Firsts(T299m_pool_loads(fn)) \cap Addresses(T299b_constructions(fn))
          /\ <<PtrWord(i), at>> \in T307_consumers(ThumbPtr(fn)) \/ \E k \in 1 .. i : "undef" \in Odd(k)
          /\ <<at, ThumbPtr(fn)>> \in T298b_dump(Entry(i)) \/ "early" \in Odd(i)
  /\ \A i \in {k \in 1 .. N : prog[k].link = "table"} :
       /\ <<TableWord(i), Entry(i + 1)>> \in T299l_table(Entry(N + 1))
       /\ T299o_start(TableWord(i), Entry(N + 1)) <= TableWord(i)
       /\ T299o_end(TableWord(i), data.len) > TableWord(i)
EveryCallIsFound == Asking => CallersAreFound /\ CallsAreShown /\ WaysOutAreShown /\ PointersAreTraced

\* The writers of a field: the sweep finds every store again behind a constant it
\* took for code, the single decode of t297 finds none behind the first bytes that
\* decode to nothing.  Those who look only in the function around a known site, or
\* in a listing of it, see the store when that function reads as one.
Writers == {"t297", "t297b", "t297d", "t297e", "t297f", "t297i", "t297m", "t298e", "t298i", "t299m", "t300"}
Written(s, i) ==
  LET h == StoreSite(i)
  IN CASE s = "t297" -> Addresses(T297_report({h.a}, MaskField).hits)
       [] s = "t297b" -> Addresses(T297b_r4_stores(h.a))
       [] s = "t297d" -> Addresses(T297d_stores(Entry(i), Entry(i + 1)))
       [] s = "t297e" -> Addresses(T297e_hits({MaskField, MaskField + 4}))
       [] s = "t297f" -> Addresses(T297f_producers(MaskField, h.a - 4, h.a))
       [] s = "t297i" -> Addresses(T297i_body(h.a))
       [] s = "t297m" -> Addresses(T297m_fields(Entry(i), {MaskField}))
       [] s = "t298e" -> Addresses(T298e_writers(MaskField))
       [] s = "t298i" -> Addresses(T298i_constants(MaskField))
       [] s = "t299m" -> T299m_writer(Entry(i)).stores
       [] s = "t300" -> Addresses(T300_stores(MaskField))
Overlooks(s) ==
  CASE s = "t297" -> {"undef"}
    [] s = "t297b" -> Misled("redecoded")
    [] s = "t297i" -> Misled("open16")
    [] s \in {"t297m", "t299m"} -> {"early"}
    [] OTHER -> {}
StoresAreFound ==
  \A s \in Writers, i \in 1 .. N : StoreSite(i).a \in Written(s, i) \/ Odd(i) \cap Overlooks(s) # {}

\* "No software writer" is said of a field nobody writes, and of no other.  A
\* structure is recognised by two fields written through one register close together:
\* whoever writes both is found; who else is taken for it borrows the second field
\* from a neighbour, whose register only has the same name.
Handler == 8
StructuresAreFound ==
  LET matches == T297e_strong(MaskField, {MaskField, Handler})
      both == {i \in 1 .. N : prog[i].link = "callback"}
  IN /\ T297f_no_software_writer({Handler}, 0, 0) <=> both = {}
     /\ \A i \in both : StoreSite(i) \in matches
     /\ both = {} => matches = {}

\* The value a store writes is right or not given, except that t298h and t298i read
\* only the low half of a movw, movt pair; and who looks for a value finds where it is
\* made, unless the move is the first of a leaf and the sweep lost it.
ValuesAreRight ==
  \A i \in 1 .. N :
    LET h == StoreSite(i)
        v == MaskValue(prog[i])
        wide == prog[i].mask = "wide"
        made(S) == \E a \in S : h.a - 10 < a /\ a < h.a
        unseen == {"leaf", "lost"} \subseteq Odd(i)
        starts(pairs) == {p[1].a : p \in pairs}
    IN /\ T298f_bucket(h)[2] \in {v, None}
       /\ T298h_value(h) \in {v, None} \/ wide
       /\ T298i_source(h).m = "none" \/ T298i_source(h).imm = v \/ wide
       /\ unseen \/ (IF wide THEN Lo(v) ELSE v) \in T298e_context(MaskField)[h]
       /\ unseen \/ wide \/ made(Addresses(T298t_construction(v).mov))
       /\ wide => /\ made(starts(T298t_construction(v).movt)) /\ made(starts(T297j_constant(v).movt))
                  /\ made(Firsts({p \in T299k_pairs : p[3] = v})) /\ made(T307_movw_movt(v))
WritersAreFound == Asking => StoresAreFound /\ StructuresAreFound /\ ValuesAreRight

-----------------------------------------------------------------------------
Finished == phase = "walking" /\ ClimbDone
Down == script \notin Upward

\* "Reached" from the entry point means live, and a caller found climbing up is one:
\* unless a downward scan ran past a wide return, which none of them knows, a
\* register kept a stale pointer (t299r), or a call was laid to the function before
\* its own because the sweep lost a prologue.
ReachedIsLive ==
  Finished => \A i \in 1 .. N : Entry(i) \in seen =>
    IF Down
    THEN \/ i \in Lives
         \/ \E k \in 1 .. i - 1 : \/ prog[k].pro = "push.w"
                                  \/ script = "t299r" /\ prog[k].link = "callback"
    ELSE \A k \in i .. N - 1 : Transfers(k) \/ \E j \in k + 1 .. N - 1 : "lost" \in Odd(j)

\* "Not reached" means dead: unless an early return hid a call, the call goes
\* through a table (or, for the two scripts that follow no register, a pool), or the
\* function lies below the depth limit.  Upward, only fixed branches count, and a
\* function without a prologue of its own is no caller.
NotReachedIsDead ==
  Finished => \A i \in 1 .. N : Entry(i) \notin seen =>
    IF Down
    THEN \/ i \notin Lives
         \/ \E k \in 1 .. i - 1 : \/ prog[k].early \/ prog[k].link = "table"
                                  \/ prog[k].link = "pool" /\ script \in {"t299q", "t299x"}
         \/ i - 1 > last + 1
    ELSE \/ \E k \in i .. N - 1 : \/ prog[k].link \notin {"bl", "tail"}
                                  \/ Odd(k) \cap {"leaf", "lost"} # {}
         \/ N - i > last + 1

\* t300 closes the study: a store to the mask counts as live when the function it is
\* laid to is on t299s's list.  It inherits what misled that walk, and lays a store
\* in a function without a visible prologue to the one before.
MaskVerdictsAreRight ==
  Finished /\ script = "t299s" =>
    \A i \in 1 .. N :
      LET live == StoreSite(i) \in T300_live(MaskField, T299s_live_set(seen))
      IN \/ live <=> i \in Lives
         \/ Odd(i) \cap Misled("loose") # {}
         \/ \E k \in 1 .. i - 1 : IF live THEN prog[k].pro = "push.w"
                                 ELSE prog[k].early \/ prog[k].link = "table"

\* The verdicts a reader takes from the scripts: a function is live, or dead, and so
\* is what it writes.
VerdictsAreRight == ReachedIsLive /\ NotReachedIsDead /\ MaskVerdictsAreRight
=============================================================================
