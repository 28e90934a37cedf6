--------------------------- MODULE MCHistoryReaders ---------------------------
(* A small instance of HistoryReaders for TLC. *)
EXTENDS HistoryReaders, TLC

CONSTANTS t1, t2

\* Two states that share a table.
MCStates == {{t1}, {t1, t2}}

\* The commits of odd and those of even length share a prefix each.
MCShort(c) == Len(c) % 2
===============================================================================
