----------------------------- MODULE MCBootPath -----------------------------
(***************************************************************************)
(* Test parameters in the combinations that differ in what they do.        *)
(***************************************************************************)
EXTENDS BootPath

Alone == {"241", "242", "243", "240", "258", "259", "264", "269", "284", "247"}

MCTestSets ==
  {{}, {"235"}, {"236"}, {"236", "245"}, {"247", "241"}} \union {{"238", t} : t \in Alone} \union
  {{"238", "236", "276", "284", "288a"}, {"238", "276", "280", "279"},
   {"238", "276", "280", "288a", "268"}, {"238", "288a", "258"}, {"238", "268"}}

SharedInfoSets == {{"238", "236", "276"}}
MaskSets == {{"238", "284"}}

MCNvramLens == {0, 228}
OneNvram == {228}
=============================================================================
