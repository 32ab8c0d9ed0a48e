------------------------------ MODULE MCProcess ------------------------------
(* ProcessManager for TLC. *)
EXTENDS ProcessManager
=============================================================================
