---------------------------- MODULE MCRemoteTree ----------------------------
(***************************************************************************)
(* RemoteTree for TLC: a directory t with entries a and b, an entry of a,  *)
(* and a directory o outside with an entry of its own.                     *)
(***************************************************************************)
EXTENDS RemoteTree, TLC

CONSTANTS c1, r1, r2

MCName == {"t", "o", "a", "b", "x"}

MCPath == {<<"t">>, <<"t", "a">>, <<"t", "b">>, <<"t", "a", "x">>, <<"o">>, <<"o", "x">>}

MCElsewhere == <<"o">>

\* One removal takes all of t, another the directory that is created in it.
MCPlace == (c1 :> <<"t", "a", "x">>) @@ (r1 :> <<"t">>) @@ (r2 :> <<"t", "a">>)

MCAt == [x \in Task |-> MCPlace[x]]

=============================================================================
