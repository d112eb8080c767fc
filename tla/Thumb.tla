------------------------------- MODULE Thumb -------------------------------
(***************************************************************************)
(* The firmware image as the analysis scripts of phase5 and phase6 see it, *)
(* and the primitives every one of them is written with: the decoder       *)
(* (capstone, external), the linear sweep, the tests on one instruction,   *)
(* and the searches for a word and for a pc-relative literal.              *)
(*                                                                         *)
(* An instruction is a record: its address a, size n (2 or 4), mnemonic m, *)
(* first register rd, base register rs of a bracketed operand, index       *)
(* register ri, register list, and immediate imm (branch target, address   *)
(* of a pc-relative pool word, field offset or constant; None when it has  *)
(* none).  data.at gives what capstone decodes at every even address, code *)
(* or not; where it decodes nothing the mnemonic is "undef".               *)
(***************************************************************************)
EXTENDS Integers, Sequences, FiniteSets, SequencesExt, FiniteSetsExt

CONSTANT Scale     \* bytes of the firmware one byte of the model image stands for
ASSUME ScaleAssumption == Scale \in Nat \ {0}

VARIABLES
  data,            \* the image: [len, at: even address -> instruction, word: address -> value,
                   \* text: the addresses where printable text begins]
  all_ins          \* the instructions of the sweep, in address order

None == -1
Win(n) == n \div Scale          \* a distance of n bytes in the scripts' own units

Even(from, upto) == {p \in from .. upto : p % 2 = 0}
Decodable(p) == p \in DOMAIN data.at /\ data.at[p].m # "undef" /\ p + data.at[p].n <= data.len
At(p) == data.at[p]
After(i) == i.a + i.n
Earliest(S) == IF S = {} THEN None ELSE Min(S)
Latest(S) == IF S = {} THEN None ELSE Max(S)

\* md.disasm(data[start:end], start): until the first bytes it cannot decode.
Disasm(start, end) ==
  LET run[p \in 0 .. data.len] ==
        IF p < end /\ Decodable(p) /\ p + At(p).n <= end
        THEN <<At(p)>> \o run[p + At(p).n] ELSE <<>>
  IN IF start \in 0 .. data.len THEN run[start] ELSE <<>>

\* iter_all(): decode on; at bytes that decode to nothing skip a halfword.  It
\* stops once it is within two bytes of the end.
iter_all ==
  LET run[p \in 0 .. data.len] ==
        IF p >= data.len - 2 THEN <<>>
        ELSE IF Decodable(p) THEN <<At(p)>> \o run[p + At(p).n]
        ELSE run[p + 2]
  IN run[0]

\* disasm_range(start, end): the same walk over a range, four bytes at a time.
disasm_range(start, end) ==
  LET run[p \in 0 .. data.len] ==
        IF p >= end THEN <<>>
        ELSE IF Decodable(p) THEN <<At(p)>> \o run[p + At(p).n]
        ELSE run[p + 2]
  IN IF start \in 0 .. data.len THEN run[start] ELSE <<>>

\* A scan that decodes afresh at every halfword, whatever the sweep made of it.
EveryHalfword(from, upto) == {At(p) : p \in {q \in Even(from, upto) : q >= 0 /\ Decodable(q)}}

Ins == Range(all_ins)
Within(lo, hi) == {i \in Ins : i.a >= lo /\ i.a < hi}

is_push_lr(i) == i.m \in {"push", "push.w"} /\ "lr" \in i.list
is_pop_pc(i) == i.m \in {"pop", "pop.w"} /\ "pc" \in i.list
is_bx_lr(i) == i.m = "bx" /\ i.rd = "lr"
Returns(i) == is_pop_pc(i) \/ is_bx_lr(i)
\* The earlier scripts know the 16-bit forms only.
Push16(i) == i.m = "push" /\ "lr" \in i.list
Return16(i) == (i.m = "pop" /\ "pc" \in i.list) \/ is_bx_lr(i)

Stores32 == {"str", "str.w", "strd"}
Stores == Stores32 \cup {"strb", "strb.w", "strh", "strh.w"}
Loads == {"ldr", "ldr.w", "ldrb", "ldrh", "ldrd"}
Calls == {"bl", "blx"}
Branches == {"b", "b.w"}
Moves == {"mov", "mov.w", "movs", "movw"}
Adds == {"add", "add.w", "adds"}

\* An operand "#0x..." alone: a branch or a call to a fixed address.
Direct(i) == i.imm # None /\ i.rd = "none" /\ i.rs = "none"
BranchesTo(t, mnemonics) == {i \in Ins : Direct(i) /\ i.imm = t /\ i.m \in mnemonics}

\* "#0x168" in ins.op_str: also the constants whose text only begins so.
Mentions(i, v) == i.imm # None /\ (i.imm = v \/ \E k \in 0 .. 15 : v > 0 /\ i.imm = 16 * v + k)
\* ", #0x88]" in ins.op_str: a bracketed operand with exactly that offset.
Field(i, off) == i.rs # "none" /\ i.imm = off

WordAt(a) == IF a \in DOMAIN data.word THEN data.word[a] ELSE None
PcLoad(i) == i.m \in Loads /\ i.rs = "pc"
\* resolve_pc_lit: the pool word of a pc-relative load, if it lies in the image.
Literal(i) == IF PcLoad(i) /\ i.imm + 4 <= data.len THEN WordAt(i.imm) ELSE None
LoadsOf(v, S) == {i \in S : Literal(i) = v /\ v # None}

\* data.find(needle) again and again: a word's every occurrence, at any alignment.
FindWord(v) == {a \in DOMAIN data.word : data.word[a] = v}
AlignedWord(v) == {a \in FindWord(v) : a % 4 = 0}
ThumbPtr(fn) == fn + 1

Addresses(S) == {i.a : i \in S}

\* A dump from a known entry: decode up to and with the first 16-bit
\* return.
UntilReturn(start, end) ==
  LET seen == Range(Disasm(start, end))
      first == Earliest(Addresses({i \in seen : Return16(i)}))
  IN {i \in seen : first = None \/ i.a <= first}
\* The pool words and the direct calls a dump annotates.
Annotated(S) == [lits |-> {<<i.a, Literal(i)>> : i \in {j \in S : Literal(j) # None}},
                 calls |-> {<<i.a, i.imm>> : i \in {j \in S : j.m = "bl" /\ Direct(j)}}]
=============================================================================
