---------------------------- MODULE MCAckLifecycle ----------------------------
\* Instances of AckLifecycle for TLC.
EXTENDS AckLifecycle, TLC

CONSTANTS i1, i2, k1, o1, o2, a1, a2, a3, a4, a5, a6, a7, t1

\* i1 and i2 are two attempts of a peer at one operation.
TwoAttempts == [m \in Messages |-> IF m \in Incoming THEN t1 ELSE NoToken]
===============================================================================
