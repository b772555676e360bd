---------------------------- MODULE MCSSHClient ----------------------------
(***************************************************************************)
(* SSHClient for TLC: an SFTP session with a file is what a body needs to  *)
(* let handles of two depths escape.                                       *)
(***************************************************************************)
EXTENDS SSHClient

=============================================================================
