---------------------------- MODULE MCEchoServer ----------------------------
(* Instances of EchoServer for TLC. *)
EXTENDS EchoServer
=============================================================================
