--------------------------- MODULE FirmwareImage ---------------------------
(***************************************************************************)
(* External: what the vendor's compiler and linker put into the image the  *)
(* scripts study, and what is true of it.  The image is N functions, one   *)
(* behind the other, then a table of pointers and the strings.  Function i *)
(* transfers control to function i + 1 in one of the ways the firmware     *)
(* uses, or not at all:                                                    *)
(*   bl        a call                                                      *)
(*   tail      a branch after the registers are restored                   *)
(*   pool      a call through a register loaded from its literal pool      *)
(*   table     a call through a field; a table in the image holds the      *)
(*             pointer                                                     *)
(*   callback  it stores a pointer to i + 1 away for others to call, then  *)
(*             calls something else through a field                        *)
(* A prologue may be narrow, wide, or absent; there may be an early        *)
(* return; the constant at the function's end may by chance look like a    *)
(* prologue, like the first half of a wide instruction, or like nothing.   *)
(* Every function writes the mask of the study, small or wide.             *)
(***************************************************************************)
EXTENDS Thumb, TLC

CONSTANTS N,                 \* functions in the image
          Programs           \* the programs the toolchain may be given
ASSUME ImageAssumption == N \in Nat \ {0}

VARIABLE prog                \* the program: what the scripts cannot see

Prologues == {"push", "push.w", "none"}
Links == {"none", "bl", "tail", "pool", "table", "callback"}
Looks == {"absent", "plain", "push", "wide", "undef"}
Masks == {"narrow", "wide"}
Function == [pro : Prologues, early : BOOLEAN, link : Links, const : Looks, mask : Masks]
\* A function that saves no return address makes no calls; the last calls nobody.
WellFormed(p) == /\ \A i \in 1 .. N : p[i].pro = "none" => p[i].link \in {"none", "tail"}
                 /\ p[N].link = "none"

Op(m, n) == [a |-> None, n |-> n, m |-> m, rd |-> "none", rs |-> "none", ri |-> "none",
             list |-> {}, imm |-> None]
Load(rd, rs, imm) == [Op("ldr", 2) EXCEPT !.rd = rd, !.rs = rs, !.imm = imm]
Store(rd, imm) == [Op("str", 2) EXCEPT !.rd = rd, !.rs = "r4", !.imm = imm]
To(m, n, t) == [Op(m, n) EXCEPT !.imm = t]
Nop == Op("nop", 2)
MaskField == 12              \* the field every function writes: the mask of the study
MaskValue(f) == IF f.mask = "wide" THEN 4 * 65536 + 32896 ELSE 5
Slot == 4                    \* the field of an indirect call

Enter(f) == CASE f.pro = "push" -> <<[Op("push", 2) EXCEPT !.list = {"r4", "lr"}]>>
              [] f.pro = "push.w" -> <<[Op("push.w", 4) EXCEPT !.list = {"r4", "r8", "lr"}]>>
              [] f.pro = "none" -> <<>>
Return(f) == CASE f.pro = "push" -> <<[Op("pop", 2) EXCEPT !.list = {"r4", "pc"}]>>
               [] f.pro = "push.w" -> <<[Op("pop.w", 4) EXCEPT !.list = {"r4", "r8", "pc"}]>>
               [] f.pro = "none" -> <<[Op("bx", 2) EXCEPT !.rd = "lr"]>>
Leave(f) == CASE f.pro = "push" -> <<[Op("pop", 2) EXCEPT !.list = {"r4", "lr"}]>>
              [] f.pro = "push.w" -> <<[Op("pop.w", 4) EXCEPT !.list = {"r4", "r8", "lr"}]>>
              [] f.pro = "none" -> <<>>
Early(f) == IF f.early THEN <<Op("beq", 2)>> \o Return(f) ELSE <<>>
SetMask(f) ==
  (IF f.mask = "wide" THEN <<[To("movw", 4, MaskValue(f) % 65536) EXCEPT !.rd = "r2"],
                             [To("movt", 4, MaskValue(f) \div 65536) EXCEPT !.rd = "r2"]>>
   ELSE <<[To("movs", 2, MaskValue(f)) EXCEPT !.rd = "r2"]>>)
  \o <<Store("r2", MaskField)>>
\* The function as far as the transfer of control; `name` and `ptr` are the
\* addresses of its constant and of its pool word for the next function.
UpToTransfer(f, name, ptr) ==
  Enter(f) \o Early(f)
  \o (IF f.const = "absent" THEN <<>> ELSE <<Load("r1", "pc", name)>>)
  \o SetMask(f)
  \o (IF f.link \in {"pool", "callback"} THEN <<Load("r3", "pc", ptr)>> ELSE <<>>)
  \o (IF f.link = "callback" THEN <<Store("r3", 8)>> ELSE <<>>)
  \o (IF f.link \in {"table", "callback"} THEN <<Load("r3", "r0", Slot)>> ELSE <<>>)
  \o (IF f.link = "tail" THEN Leave(f) ELSE <<>>)
Transfer(f, next) ==
  CASE f.link = "bl" -> <<To("bl", 4, next)>>
    [] f.link = "tail" -> <<To("b.w", 4, next)>>
    [] f.link \in {"pool", "table", "callback"} -> <<[Op("blx", 2) EXCEPT !.rd = "r3"]>>
    [] OTHER -> <<>>
Code(f, name, ptr, next) ==
  UpToTransfer(f, name, ptr) \o Transfer(f, next) \o (IF f.link = "tail" THEN <<>> ELSE Return(f))

Bytes(seq) == LET sum[k \in 0 .. Len(seq)] == IF k = 0 THEN 0 ELSE sum[k - 1] + seq[k].n
              IN sum[Len(seq)]
HasPtr(f) == f.link \in {"pool", "callback"}
HasConst(f) == f.const # "absent"
Aligned(n) == n + ((4 - (n % 4)) % 4)
\* Sizes do not depend on addresses.
CodeBytes(f) == Bytes(Code(f, 0, 0, 0))
Size(f) == Aligned(CodeBytes(f)) + (IF HasPtr(f) THEN 4 ELSE 0) + (IF HasConst(f) THEN 4 ELSE 0)
Entry(i) == LET at[k \in 1 .. i] == IF k = 1 THEN 0 ELSE at[k - 1] + Size(prog[k - 1])
            IN at[i]
PtrWord(i) == Entry(i) + Aligned(CodeBytes(prog[i]))
ConstWord(i) == PtrWord(i) + (IF HasPtr(prog[i]) THEN 4 ELSE 0)
CodeOf(i) == Code(prog[i], ConstWord(i), PtrWord(i), IF i < N THEN Entry(i + 1) ELSE 0)
\* Behind the code: the table, then one string per function.
TableWord(i) == Entry(N + 1) + 4 * (i - 1)
Name(i) == TableWord(N + 1) + 4 * (i - 1)
ImageLength == Name(N) + 8
\* Address |-> word, for the words function i brings.
WordsOf(i) ==
  (IF HasPtr(prog[i]) THEN PtrWord(i) :> Entry(i + 1) + 1 ELSE <<>>)
  @@ (IF prog[i].link = "table" THEN TableWord(i) :> Entry(i + 1) + 1 ELSE <<>>)
  @@ (IF HasConst(prog[i]) THEN ConstWord(i) :> Name(i) ELSE <<>>)

\* The instructions of function i at their addresses.
Placed(i) ==
  LET code == CodeOf(i)
  IN {[code[k] EXCEPT !.a = Entry(i) + Bytes(SubSeq(code, 1, k - 1))] : k \in DOMAIN code}
Truth == UNION {Placed(i) : i \in 1 .. N}
\* What the constant's upper half looks like to a decoder.
LooksLike(look) == CASE look = "push" -> [Op("push", 2) EXCEPT !.list = {"lr"}]
                     [] look = "wide" -> Op("wide", 4)
                     [] look = "undef" -> Op("undef", 2)
                     [] OTHER -> Nop
\* Decoding at an address that begins no instruction: inside a long branch it
\* starts a wide one; a constant shows its look; the rest is harmless.
Linked ==
  LET truth == Truth
      starts == [p \in Addresses(truth) |-> CHOOSE i \in truth : i.a = p]
      inside == {i.a + 2 : i \in {j \in truth : j.m \in {"bl", "b.w"}}}
      looks == [p \in {ConstWord(i) + 2 : i \in {k \in 1 .. N : HasConst(prog[k])}} |->
                  LooksLike(prog[CHOOSE i \in 1 .. N : HasConst(prog[i]) /\ p = ConstWord(i) + 2].const)]
      between(p) == IF p \in inside THEN Op("wide", 4)
                    ELSE IF p \in DOMAIN looks THEN looks[p] ELSE Nop
      words == [i \in 1 .. N |-> WordsOf(i)]
      length == ImageLength
  IN [len |-> length,
      at |-> [p \in Even(0, length - 2) |->
                IF p \in DOMAIN starts THEN starts[p] ELSE [between(p) EXCEPT !.a = p]],
      word |-> [a \in UNION {DOMAIN words[i] : i \in 1 .. N} |->
                  words[CHOOSE i \in 1 .. N : a \in DOMAIN words[i]][a]],
      text |-> {Name(i) : i \in 1 .. N}]

\* What is true of the program.
Site(i) == Entry(i) + Bytes(UpToTransfer(prog[i], 0, 0))
Transfers(i) == prog[i].link \in {"bl", "tail", "pool", "table"}
NameSite(i) == CHOOSE j \in Placed(i) : j.m = "ldr" /\ j.rs = "pc" /\ j.imm = ConstWord(i)
StoreSite(i) == CHOOSE j \in Placed(i) : j.m = "str" /\ j.imm = MaskField
\* The functions that run once the first one does.
Lives == {i \in 1 .. N : \A k \in 1 .. i - 1 : Transfers(k)}
=============================================================================
