------------------------- MODULE MCSshConnectionPool -------------------------
(* Small instances of SshConnectionPool. *)
EXTENDS SshConnectionPool, TLC
=============================================================================
