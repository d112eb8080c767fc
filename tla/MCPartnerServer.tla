-------------------------- MODULE MCPartnerServer --------------------------
(***************************************************************************)
(* Two calls side by side over two files, one of a blocked suffix.         *)
(***************************************************************************)
EXTENDS PartnerServer

Api(files, allow) == [tool |-> "deepseek", files |-> files, allow |-> allow, readonly |-> FALSE, cwd |-> "none"]
Cli(tool, readonly, cwd) == [tool |-> tool, files |-> <<>>, allow |-> FALSE, readonly |-> readonly, cwd |-> cwd]
MCRequests ==
  {Api(<<>>, FALSE)} \cup {Api(<<"notes.md", "wl.ko">>, b) : b \in BOOLEAN}
  \cup {Api(<<"notes.md", "notes.md">>, FALSE)}
  \cup {Cli("gemini", b, "none") : b \in BOOLEAN} \cup {Cli("kilo", FALSE, w) : w \in {"dir", "relative"}}
=============================================================================
