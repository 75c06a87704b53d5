------------------------- MODULE SelectionRegister --------------------------
(***************************************************************************)
(* What ExtensionSessionState promises of one session, without a word of   *)
(* how: a register of the selection the journal commits to, and the        *)
(* selection the session is granted.  A grant is always what the journal   *)
(* commits to, and the journal gets another selection only while nothing   *)
(* is granted, so no consumer uses a selection that has been replaced.     *)
(* Only a crash may bring back an older one, and it takes the grant away.  *)
(***************************************************************************)
CONSTANTS Values, NoValue

VARIABLES
    stored,    \* the last committed selection of the journal
    granted    \* the selection the session's consumers may use, or none

Init == stored \in Values \cup {NoValue} /\ granted = NoValue

\* The gates deny: before a transaction, after a failure, at a restart.
Withdraw ==
    /\ granted # NoValue
    /\ granted' = NoValue /\ UNCHANGED stored

\* A selection is committed, and may be granted by the same step.
Store(value) ==
    /\ granted = NoValue
    /\ stored' = value /\ granted' \in {NoValue, value}

\* The committed selection is granted: after a failure, or a restart.
Grant ==
    /\ granted = NoValue /\ stored # NoValue
    /\ granted' = stored /\ UNCHANGED stored

\* A crash loses the end of the journal, and every grant.
Crash ==
    /\ granted' = NoValue /\ stored' \in Values \cup {NoValue}

Next == Withdraw \/ Grant \/ Crash \/ \E value \in Values : Store(value)

Spec == Init /\ [][Next]_<<stored, granted>>
=============================================================================
