-------------------------------- MODULE Ledger --------------------------------
(***************************************************************************)
(* What a dbsnap repository promises whoever commits to it: an append-only *)
(* log of captured database states, in which two neighbouring entries are  *)
(* never the same state.  `dbsnap commit` either appends one entry or, when*)
(* the state is the one recorded last, leaves the log as it is.            *)
(***************************************************************************)
EXTENDS Naturals, Sequences

CONSTANT States        \* the database states a capture can return

VARIABLE log           \* the states recorded so far, oldest first

LedgerTypeOK == log \in Seq(States)

LedgerInit == log = <<>>

\* The state s becomes the newest entry of the log.
Record(s) ==
    /\ log # <<>> => log[Len(log)] # s
    /\ log' = Append(log, s)

LedgerNext == \E s \in States : Record(s)

LedgerSpec == LedgerInit /\ [][LedgerNext]_log
===============================================================================
