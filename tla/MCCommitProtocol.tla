--------------------------- MODULE MCCommitProtocol ---------------------------
(* Small instances of CommitProtocol for TLC. *)
EXTENDS CommitProtocol, TLC

CONSTANTS t1, t2

\* Two states that share a table: the shared one is stored once.
MCStates == {{t1}, {t1, t2}}
===============================================================================
