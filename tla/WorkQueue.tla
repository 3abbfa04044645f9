----------------------------- MODULE WorkQueue -----------------------------
(***************************************************************************)
(* What ProcessingMessageThreadPool promises to the session: messages are  *)
(* started in the order they were handed over, each exactly once, and each *)
(* worker has one at a time.                                               *)
(***************************************************************************)
EXTENDS Integers

CONSTANTS
    Workers

VARIABLES
    next,       \* number of the next message to start
    last,       \* number of the last message handed over
    running,    \* number of the message a worker works on, or 0
    finished    \* numbers of the messages done with

vars == <<next, last, running, finished>>

Init ==
    /\ next = 1 /\ last = 0
    /\ running = [w \in Workers |-> 0]
    /\ finished = {}

HandOver ==
    /\ last' = last + 1
    /\ UNCHANGED <<next, running, finished>>

Start(w) ==
    /\ next <= last /\ running[w] = 0
    /\ running' = [running EXCEPT ![w] = next]
    /\ next' = next + 1
    /\ UNCHANGED <<last, finished>>

Finish(w) ==
    /\ running[w] # 0
    /\ finished' = finished \cup {running[w]}
    /\ running' = [running EXCEPT ![w] = 0]
    /\ UNCHANGED <<next, last>>

Next == HandOver \/ \E w \in Workers : Start(w) \/ Finish(w)

Spec == Init /\ [][Next]_vars
=============================================================================
