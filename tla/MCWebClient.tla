---------------------------- MODULE MCWebClient -----------------------------
(* The web client on small instances.                                        *)
EXTENDS WebClient

MCDrop == {<<"a", "b">>, <<"c">>}
=============================================================================
