------------------------------- MODULE MCRouter -------------------------------
\* Instances of Router for TLC: two agents, up to three streams, the first agent
\* with two competing ones.
EXTENDS Router, TLC

CONSTANTS a1, a2, m1, m2, m3, s1, s2, s3

\* Both messages come from outside: every known agent is a target.
OutsideProducers == [m \in Msgs |-> Outsider]

\* m1 comes from agent a1, which must not get its own message.
MixedProducers == [m \in Msgs |-> IF m = m1 THEN a1 ELSE Outsider]

TwoAgentStreams == [s \in Streams |-> IF s = s2 THEN a2 ELSE a1]

OneAgentStreams == [s \in Streams |-> a1]
===============================================================================
