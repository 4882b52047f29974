------------------------------ MODULE MCAssets ------------------------------
(***************************************************************************)
(* Assets with a root index, a directory with one, and another file.       *)
(***************************************************************************)
EXTENDS Assets

MCPath == {<<>>, <<"index">>, <<"d">>, <<"d", "index">>, <<"x">>}

MCTree ==
  {t \in [MCPath -> {"file", "dir", "none"}] :
     /\ t[<<>>] = "dir" /\ t[<<"index">>] # "dir" /\ t[<<"d", "index">>] # "dir" /\ t[<<"x">>] # "dir"
     /\ t[<<"d", "index">>] = "file" => t[<<"d">>] = "dir"}

=============================================================================
