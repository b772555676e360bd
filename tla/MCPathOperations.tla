-------------------------- MODULE MCPathOperations --------------------------
(***************************************************************************)
(* PathOperations for TLC: two callers of one session and one of another.  *)
(***************************************************************************)
EXTENDS PathOperations, TLC

CONSTANTS c1, c2, c3, s1, s2, accessTime, modifyTime, size

MCSessionOf == (c1 :> s1) @@ (c2 :> s1) @@ (c3 :> s2)

MCGroups == {{accessTime, modifyTime}, {size}}

MCSymmetry == Permutations({c1, c2}) \cup Permutations(Path) \cup Permutations(File)
                  \cup Permutations({accessTime, modifyTime})

=============================================================================
