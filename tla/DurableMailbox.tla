---------------------------- MODULE DurableMailbox ----------------------------
(***************************************************************************)
(* What the router promises its clients, without queues, threads or        *)
(* restarts: a copy of a message for a recipient is stored before it is    *)
(* promised, it is only handed over while stored, and a promised copy is   *)
(* discarded only once its recipient has received it.                      *)
(***************************************************************************)
CONSTANTS Messages, Recipients

VARIABLES stored,     \* copies in durable storage
          promised,   \* copies the sender was told are delivered
          received    \* copies that reached their recipient

vars == <<stored, promised, received>>

Copies == Messages \X Recipients

Init == /\ stored = {}
        /\ promised = {}
        /\ received = {}

Store(c) == /\ stored' = stored \cup {c}
            /\ UNCHANGED <<promised, received>>

Promise(S) == /\ S \subseteq stored \cup received
              /\ promised' = promised \cup S
              /\ UNCHANGED <<stored, received>>

HandOver(c) == /\ c \in stored
               /\ received' = received \cup {c}
               /\ UNCHANGED <<stored, promised>>

Discard(c) == /\ c \in promised => c \in received
              /\ stored' = stored \ {c}
              /\ UNCHANGED <<promised, received>>

Next == \/ \E c \in Copies : Store(c) \/ HandOver(c) \/ Discard(c)
        \/ \E S \in SUBSET Copies : Promise(S)

Spec == Init /\ [][Next]_vars
===============================================================================
