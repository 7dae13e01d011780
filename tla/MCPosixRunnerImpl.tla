-------------------------- MODULE MCPosixRunnerImpl --------------------------
(* An instance of PosixRunnerImpl for TLC.                                 *)
EXTENDS PosixRunnerImpl

=============================================================================
