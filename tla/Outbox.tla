------------------------------- MODULE Outbox -------------------------------
(***************************************************************************)
(* What MessageDeque promises to the commands that push danmaku: a text is *)
(* accepted whole, its pieces leave in the order they were accepted, one   *)
(* at a time, and each is offered to bilibili at most once.  A piece whose *)
(* request fails is lost, never sent again.                                *)
(***************************************************************************)
EXTENDS Sequences

CONSTANTS
    Batches     \* the piece sequences a caller may hand over in one call

VARIABLES
    queue,      \* pieces accepted and not yet taken
    inFlight,   \* the piece being sent: a sequence of length at most one
    delivered   \* pieces bilibili received, in the order it received them

vars == <<queue, inFlight, delivered>>

Init == queue = <<>> /\ inFlight = <<>> /\ delivered = <<>>

Accept(batch) ==
    /\ queue' = queue \o batch
    /\ UNCHANGED <<inFlight, delivered>>

Take ==
    /\ inFlight = <<>> /\ queue # <<>>
    /\ inFlight' = <<Head(queue)>>
    /\ queue' = Tail(queue)
    /\ UNCHANGED delivered

Deliver ==
    /\ inFlight # <<>>
    /\ delivered' = delivered \o inFlight
    /\ inFlight' = <<>>
    /\ UNCHANGED queue

Lose ==
    /\ inFlight # <<>>
    /\ inFlight' = <<>>
    /\ UNCHANGED <<queue, delivered>>

Next == (\E batch \in Batches : Accept(batch)) \/ Take \/ Deliver \/ Lose

Spec == Init /\ [][Next]_vars
=============================================================================
