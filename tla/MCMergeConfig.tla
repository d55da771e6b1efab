--------------------------- MODULE MCMergeConfig ---------------------------
(* One value in one table. *)
EXTENDS MergeConfig

OneValue == {<<>>, <<"ctrl">>, <<"ctrl", "cycle_ms">>}

=============================================================================
