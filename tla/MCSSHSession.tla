---------------------------- MODULE MCSSHSession ----------------------------
(***************************************************************************)
(* SSHSession for TLC: identifiers are model values.                       *)
(***************************************************************************)
EXTENDS SSHSession

CONSTANTS s1, s2, f2

\* There is a directory, and one in a second SFTP session, which opens no
\* file; or there is a second file in the first session.
MCOneSibling ==
    /\ \A id \in held \cap SFTPFileID : id.sftpId = s1
    /\ \/ \A id \in held \cap SFTPFileID : id.uuid # f2
       \/ held \cap ({s2} \cup SFTPDirectoryID) = {}

\* No action reads whether the error of a freed SFTP session was read, so states
\* that differ in nothing else have the same behaviours.
MCView ==
    <<registry, held, [heap EXCEPT !.misuse = @ \ {"sftp_get_error"}], link, code, last>>

=============================================================================
