---------------------------- MODULE MCSSHConnect ----------------------------
(***************************************************************************)
(* SSHConnect for TLC.                                                     *)
(***************************************************************************)
EXTENDS SSHConnect

=============================================================================
