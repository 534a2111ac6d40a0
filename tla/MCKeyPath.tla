------------------------------ MODULE MCKeyPath -------------------------------
(* KeyPath over three and four sites, in both directions. *)
EXTENDS KeyPath

MCRoutes == {<<"a", "b", "c">>, <<"a", "b", "d", "c">>, <<"c", "b", "a">>}
===============================================================================
