------------------------- MODULE MCCoreEnumeration -------------------------
(***************************************************************************)
(* Two components: one in all its shapes, with the words a descriptor may  *)
(* take beyond its first, and a plain one before or behind it.             *)
(***************************************************************************)
EXTENDS CoreEnumeration

Extras == {<<>>, <<"invalid">>, <<"ci">>, <<"end">>, <<"addr">>, <<"invalid", "invalid">>, <<"ci", "invalid">>}
Desc(t, extra) == [type |-> t, extra |-> extra]
Plain == [id |-> "core", nmp |-> 1, nsp |-> 1, slaves |-> <<Desc("slave", <<>>)>>,
          mwraps |-> <<Desc("mwrap", <<>>)>>, swraps |-> <<>>]
Wrappers(t) == {<<>>, <<Desc(t, <<>>), Desc(t, <<"invalid">>)>>} \cup {<<Desc(t, e)>> : e \in Extras}
Shapes ==
  [id : {"core"}, nmp : {0}, nsp : {1}, slaves : {<<Desc("slave", <<"invalid">>)>>},
   mwraps : Wrappers("mwrap"), swraps : Wrappers("swrap")]
  \cup [id : {"core"}, nmp : {2}, nsp : {2},
        slaves : {<<Desc("slave", e), Desc(t, <<>>)>> : e \in Extras, t \in {"slave", "bridge"}},
        mwraps : {<<>>}, swraps : {<<>>, <<Desc("swrap", <<>>)>>}]
  \cup [id : {"arm default", "core"}, nmp : {1}, nsp : {0}, slaves : {<<>>},
        mwraps : {<<Desc("mwrap", e)>> : e \in Extras}, swraps : {<<>>}]
  \cup [id : {"arm default"}, nmp : {0}, nsp : {1}, slaves : {<<Desc("slave", e)>> : e \in Extras},
        mwraps : {<<>>}, swraps : {<<>>}]
MCRoms == {<<s, Plain>> : s \in Shapes} \cup {<<Plain, s>> : s \in Shapes}
=============================================================================
