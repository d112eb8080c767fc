-------------------------- MODULE CoreEnumeration --------------------------
(***************************************************************************)
(* phase1's enumerate_cores.py: it turns the BAR0 window of the running    *)
(* card to ChipCommon and to the enumeration ROM, reads the ROM's entries  *)
(* into a list of cores, and turns the window back "so the wl driver keeps *)
(* working".  The driver owns the window all the while and can turn it     *)
(* too; nothing keeps the two apart.                                       *)
(*                                                                         *)
(* One action is one call of EromReader, or one access to the window; the  *)
(* words one call reads come from one position of the window.  A word of   *)
(* the ROM is known by what a reader takes it for (tag) and, where that    *)
(* matters, by what it says.  Reading past the mapping raises.             *)
(*                                                                         *)
(* A component has an identity, master ports, slave ports and descriptors: *)
(* slaves, then master wrappers, then slave wrappers.  A descriptor is its *)
(* type and its extra words (the upper half of an address, a size), each   *)
(* by the tag a reader would see in it.                                    *)
(***************************************************************************)
EXTENDS Naturals, Sequences, SequencesExt

CONSTANTS
  Roms,        \* the component lists the chip may have
  Size,        \* words in the mapping
  MaxMoves     \* bound: how often the driver turns the window

\* What a ROM may be made of.
Tags == {"ci", "mp", "addr", "end", "invalid"}
Descriptors(types) == Seq([type : types, extra : Seq(Tags)])
Component == [id : {"core", "arm default"}, nmp : Nat, nsp : Nat, slaves : Descriptors({"slave", "bridge"}),
              mwraps : Descriptors({"mwrap"}), swraps : Descriptors({"swrap"})]
ASSUME EnumerationAssumption == Size \in Nat \ {0} /\ MaxMoves \in Nat /\ Roms \subseteq Seq(Component)

VARIABLES
  rom,         \* the components of the chip
  window,      \* the BAR0 window: "driver" and "driver2" are the driver's positions
  driver,      \* where the driver turned it last
  moves,
  moved,       \* the driver turned it while the script was at work
  pc,          \* where the script is
  original,    \* original_bar0_win
  pos,         \* the reader's position
  num,         \* core_num
  left,        \* rounds left in the loop over a group of ports or wrappers
  cib,         \* what the component being read says of itself
  core,        \* its addresses and wrappers so far
  cores,       \* results["cores"]
  saved        \* core_enumeration.json is written

windowVars == <<window, driver, moves, moved>>
readerVars == <<pos, num, left, cib, core>>
vars == <<rom, windowVars, pc, original, readerVars, cores, saved>>

None == [none |-> TRUE]
Blank == [addresses |-> <<>>, wrappers |-> <<>>]

-----------------------------------------------------------------------------
\* The words of the ROM, as the chip lays its components out.
Word(tag) == [tag |-> tag, id |-> "core", nmp |-> 0, nsp |-> 0, nmw |-> 0, nsw |-> 0,
              type |-> "slave", more |-> 0]
DescWords(d) == <<[Word("addr") EXCEPT !.type = d.type, !.more = Len(d.extra)]>>
                \o [k \in DOMAIN d.extra |-> Word(d.extra[k])]
Descs(c) == c.slaves \o c.mwraps \o c.swraps
ComponentWords(c) ==
  <<[Word("ci") EXCEPT !.id = c.id],
    [Word("ci") EXCEPT !.nmp = c.nmp, !.nsp = c.nsp, !.nmw = Len(c.mwraps), !.nsw = Len(c.swraps)]>>
  \o [k \in 1 .. c.nmp |-> Word("mp")]
  \o FlattenSeq([k \in DOMAIN Descs(c) |-> DescWords(Descs(c)[k])])
Entries(list) == FlattenSeq([k \in DOMAIN list |-> ComponentWords(list[k])]) \o <<Word("end")>>
\* What the mapping shows: the ROM, or registers of another core, which may look like
\* anything.
Registers == [w \in {"chipcommon", "driver"} |-> "invalid"] @@ [w \in {"driver2"} |-> "end"]
             @@ [w \in {"elsewhere"} |-> "ci"]
At(p) == IF window # "erom" THEN Word(Registers[window])
         ELSE IF p < Len(Entries(rom)) THEN Entries(rom)[p + 1] ELSE Word("invalid")
Mapped(p) == p < Size

-----------------------------------------------------------------------------
Init ==
  /\ rom \in Roms
  /\ window = "driver" /\ driver = "driver" /\ moves = 0 /\ moved = FALSE
  /\ pc = "start" /\ original = "none"
  /\ pos = 0 /\ num = 0 /\ left = 0 /\ cib = Word("ci") /\ core = Blank
  /\ cores = <<>> /\ saved = FALSE

\* External: the wl driver turns the window to another core for its own accesses.
DriverMoves ==
  /\ moves < MaxMoves /\ moves' = moves + 1
  /\ driver' \in {"driver", "driver2"} \ {window}
  /\ window' = driver'
  /\ moved' = (moved \/ pc \notin {"start", "done"})
  /\ UNCHANGED <<rom, pc, original, readerVars, cores, saved>>

Turn(w) == window' = w /\ UNCHANGED <<driver, moves, moved>>
Goto(l) == pc' = l
Untouched == UNCHANGED <<rom, windowVars, original>>

\* Not root, no device, or a config space that does not open.
Refuse == /\ pc = "start" /\ Goto("done")
          /\ UNCHANGED <<rom, windowVars, original, readerVars, cores, saved>>
SaveWindow == /\ pc = "start" /\ Goto("open")
              /\ original' = window
              /\ UNCHANGED <<rom, windowVars, readerVars, cores, saved>>
\* BAR0 is opened and mapped, outside the try.
OpenBar == /\ pc = "open" /\ pc' \in {"chip", "done"}
           /\ UNCHANGED <<rom, windowVars, original, readerVars, cores, saved>>
SelectChipCommon == /\ pc = "chip" /\ Goto("base")
                    /\ Turn("chipcommon")
                    /\ UNCHANGED <<rom, original, readerVars, cores, saved>>
\* The chip's identity and the ROM's base; a chip in a bad state, or another core
\* in the window, gives zeros, all ones or anything.  0 and ~0 end the script.
ReadBase ==
  /\ pc = "base"
  /\ \/ Goto("erom") /\ window = "chipcommon"
     \/ Goto("elsewhere") /\ window # "chipcommon"
     \/ Goto("return")
  /\ UNCHANGED <<rom, windowVars, original, readerVars, cores, saved>>
SelectErom == /\ pc \in {"erom", "elsewhere"} /\ Goto("raw")
              /\ Turn(pc)
              /\ UNCHANGED <<rom, original, readerVars, cores, saved>>
\* The first 64 entries are listed; then the reader starts over.
ReadRaw == /\ pc = "raw" /\ Goto("is_end") /\ pos' = 0
           /\ UNCHANGED <<rom, windowVars, original, num, left, cib, core, cores, saved>>

\* struct.error or ValueError past the mapping, or the user's interrupt.
Working == {"chip", "base", "erom", "elsewhere", "raw", "is_end", "get_ci", "skip", "slaves", "mwraps", "swraps", "append"}
Raise == /\ pc \in Working /\ Goto("raised")
         /\ UNCHANGED <<rom, windowVars, original, readerVars, cores, saved>>

\* while not reader.is_end(): the entry is read and put back.
is_end == /\ pc = "is_end" /\ Mapped(pos)
          /\ Goto(IF At(pos).tag = "end" THEN "finished" ELSE "get_ci")
          /\ Untouched /\ UNCHANGED <<readerVars, cores, saved>>
Skipped(id, c) == id = "arm default" \/ c.nsp = 0
\* slip: the word that was put back is not read again
PassOver_Not(p) == p
\* A word that begins no component is read again, to get past it.
PassOver(p) == p + 1
\* Two words make a component; the master ports are read with them.
get_ci ==
  /\ pc = "get_ci" /\ Mapped(pos)
  /\ \/ /\ At(pos).tag # "ci" /\ Goto("is_end")
        /\ pos' = PassOver(pos) /\ UNCHANGED <<num, left, cib, core>>
     \/ /\ At(pos).tag = "ci" /\ Mapped(pos + 1)
        /\ Skipped(At(pos).id, At(pos + 1)) /\ Goto("skip")
        /\ pos' = pos + 2 /\ UNCHANGED <<num, left, cib, core>>
     \/ /\ At(pos).tag = "ci" /\ Mapped(pos + 1 + At(pos + 1).nmp)
        /\ ~Skipped(At(pos).id, At(pos + 1)) /\ Goto("slaves")
        /\ cib' = At(pos + 1) /\ pos' = pos + 2 + cib'.nmp
        /\ left' = cib'.nsp /\ core' = Blank /\ UNCHANGED num
  /\ Untouched /\ UNCHANGED <<cores, saved>>
\* On to the next component or the end; the skipped one keeps its number.
skip_component ==
  LET stops == {p \in pos .. Size - 1 : At(p).tag \in {"ci", "end"}}
  IN /\ pc = "skip" /\ stops # {}
     /\ pos' = CHOOSE p \in stops : \A q \in stops : p <= q
     /\ num' = num + 1 /\ Goto("is_end")
     /\ Untouched /\ UNCHANGED <<left, cib, core, cores, saved>>

\* One address descriptor: its type and the position behind all of its words, or
\* None with nothing read.
get_addr_desc(p) == IF At(p).tag # "addr" THEN None
                    ELSE [type |-> At(p).type, behind |-> p + 1 + At(p).more]
\* slip: a descriptor of the next group is used up by the group before
PushBack_Not(behind) == behind
\* push_back: one word, whatever the descriptor took.
PushBack(behind) == behind - 1

\* A step of the loop over a group's ports: descriptors of the group's types are
\* kept; the first of another type is put back and ends the round, as does an entry
\* that is no descriptor.
Round(group, types, field, next, rounds) ==
  /\ pc = group
  /\ LET d == get_addr_desc(pos)
         over == left > 0 /\ left' = left - 1 /\ UNCHANGED <<core, pc>>
     IN \/ /\ left = 0 /\ left' = rounds /\ Goto(next) /\ UNCHANGED <<pos, core>>
        \/ over /\ Mapped(pos) /\ d = None /\ UNCHANGED pos
        \/ /\ over /\ Mapped(pos) /\ d # None /\ Mapped(d.behind - 1) /\ d.type \notin types
           /\ pos' = PushBack(d.behind)
        \/ /\ left > 0 /\ Mapped(pos) /\ d # None /\ Mapped(d.behind - 1) /\ d.type \in types
           /\ pos' = d.behind
           /\ core' = [core EXCEPT ![field] = Append(@, d.type)]
           /\ UNCHANGED <<left, pc>>
  /\ Untouched /\ UNCHANGED <<num, cib, cores, saved>>
ReadSlaves  == Round("slaves", {"slave", "bridge"}, "addresses", "mwraps", cib.nmw)
ReadMwraps  == Round("mwraps", {"mwrap"}, "wrappers", "swraps", cib.nsw)
ReadSwraps  == Round("swraps", {"swrap"}, "wrappers", "append", 0)
AppendCore ==
  /\ pc = "append" /\ Goto("is_end")
  /\ cores' = Append(cores, [index |-> num, addresses |-> core.addresses, wrappers |-> core.wrappers])
  /\ num' = num + 1
  /\ Untouched /\ UNCHANGED <<pos, left, cib, core, saved>>

\* slip: an early return is taken for one that needs no clean-up
Finally_NotOnReturn ==
  /\ pc \in {"finished", "raised", "return"}
  /\ IF pc = "return" THEN UNCHANGED windowVars ELSE Turn(original)
  /\ Goto(IF pc = "finished" THEN "save" ELSE "done")
  /\ UNCHANGED <<rom, original, readerVars, cores, saved>>
\* finally: the window is turned back, on every way out of the try.
Finally ==
  /\ pc \in {"finished", "raised", "return"}
  /\ Turn(original)
  /\ Goto(IF pc = "finished" THEN "save" ELSE "done")
  /\ UNCHANGED <<rom, original, readerVars, cores, saved>>
Save == /\ pc = "save" /\ Goto("done") /\ saved' = TRUE
        /\ UNCHANGED <<rom, windowVars, original, readerVars, cores>>

Script == \/ Refuse \/ SaveWindow \/ OpenBar \/ SelectChipCommon \/ ReadBase \/ SelectErom \/ ReadRaw
          \/ Raise \/ is_end \/ get_ci \/ skip_component
          \/ ReadSlaves \/ ReadMwraps \/ ReadSwraps \/ AppendCore \/ Finally \/ Save
Next == DriverMoves \/ Script
Spec == Init /\ [][Next]_vars /\ WF_vars(Script)

-----------------------------------------------------------------------------
\* However the script ends (not allowed, no card, no ROM, a read past the mapping,
\* an interrupt, a list of cores), the window is at a position of the driver, and at
\* the one it chose unless it chose it while the script was at work: the value put
\* back is the one saved at the start.
WindowGivenBack ==
  pc \in {"start", "open", "save", "done"} =>
    window \in {"driver", "driver2"} /\ (~moved => window = driver)

\* The ROM's own account of component i, and what the reader cannot follow: it puts
\* back one word of a wrapper that ends a group, so of a longer one the rest is read
\* as entries, as are all words of a component that is passed over.
TypesOf(descs) == [k \in DOMAIN descs |-> descs[k].type]
Keeps(i) == rom[i].id = "core" /\ rom[i].nsp > 0
Long(descs) == descs # <<>> /\ descs[1].extra # <<>>
Split(i) == Long(rom[i].mwraps) \/ Long(rom[i].swraps)
Lookalike(i) == (~Keeps(i) \/ Split(i))
                /\ \E d \in Range(Descs(rom[i])) : \E w \in Range(d.extra) : w # "invalid"

\* The file that is saved lists the chip's cores, in its order, each once, with its
\* number, addresses and wrappers: unless the driver turned the window in between, or
\* the reader read a wrapper of several words, which loses wrappers of that core, or
\* took a word inside a descriptor for an entry.
ListedRight(entry) ==
  LET i == entry.index + 1
      c == rom[i]
  IN /\ entry.addresses = TypesOf(c.slaves)
     /\ entry.wrappers = TypesOf(c.mwraps) \o TypesOf(c.swraps) \/ Split(i)
CoresAreRight ==
  saved /\ ~moved /\ (\A i \in DOMAIN rom : ~Lookalike(i)) =>
    /\ {cores[k].index + 1 : k \in DOMAIN cores} = {i \in DOMAIN rom : Keeps(i)}
    /\ \A k, l \in DOMAIN cores : k < l => cores[k].index < cores[l].index
    /\ \A k \in DOMAIN cores : ListedRight(cores[k])

\* The script ends whatever the window shows: each round of its loops gets further,
\* and the mapping has an end.
ScriptEnds == (pc # "start") ~> (pc = "done")
=============================================================================
