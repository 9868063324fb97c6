----------------------------- MODULE MCReminders -----------------------------
EXTENDS Reminders, TLC

\* The first and the last instant of the fourth day.
LaterTimes == {9, 11}

Symmetric == Permutations(Workers)
=============================================================================
