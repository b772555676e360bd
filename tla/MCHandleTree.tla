---------------------------- MODULE MCHandleTree ----------------------------
(***************************************************************************)
(* HandleTree for TLC: a session with a channel c and an SFTP session s;   *)
(* s has a directory d and a file f, and f a request a.                    *)
(***************************************************************************)
EXTENDS HandleTree, TLC

CONSTANTS r, c, s, d, f, a

MCHandle == {r, c, s, d, f, a}

MCAncestors == (r :> {}) @@ (c :> {r}) @@ (s :> {r}) @@ (d :> {r, s}) @@ (f :> {r, s})
                   @@ (a :> {r, s, f})

=============================================================================
