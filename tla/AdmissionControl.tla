-------------------------- MODULE AdmissionControl --------------------------
(***************************************************************************)
(* What per-provider backpressure promises a caller, whatever the          *)
(* mechanism: at most Limit callers are served at once, those in excess    *)
(* wait in arrival order, at most MaxQueueDepth of them, and a caller is   *)
(* turned away only when the service is full.  The detailed module is      *)
(* ConcurrencyController, which implements this one with a semaphore and   *)
(* a counter.                                                              *)
(***************************************************************************)
EXTENDS Integers, FiniteSets

CONSTANTS
    Callers,        \* the coroutines that ask for a slot
    Unbounded,      \* those of them that are never turned away
    Limit,          \* callers served at once
    MaxQueueDepth   \* callers that may wait behind them

VARIABLES
    serving,   \* callers that own a slot
    queue,     \* callers waiting for one
    ahead,     \* the pairs of them of which the first arrived before the second
    leaving,   \* callers that gave up and have not yet been told so
    refused    \* callers turned away by their last attempt

vars == <<serving, queue, ahead, leaving, refused>>

Present == serving \cup queue \cup leaving

(* max_queue_depth is an unchecked setting: a negative one admits nobody. *)
Capacity == IF MaxQueueDepth < 0 THEN 0 ELSE Limit + MaxQueueDepth

Init == /\ serving = {}
        /\ queue = {}
        /\ ahead = {}
        /\ leaving = {}
        /\ refused = {}

(* Those who go leave the order of the others as it is. *)
Dequeue(gone) ==
    /\ queue' = queue \ gone
    /\ ahead' = {p \in ahead : p[1] \notin gone /\ p[2] \notin gone}

(* Slots are handed to some of the waiting callers, never past one of them. *)
HandOver(rest, chosen) ==
    /\ chosen \subseteq queue
    /\ \A c \in chosen, d \in queue \ chosen : <<c, d>> \in ahead
    /\ Dequeue(chosen)
    /\ serving' = rest \cup chosen
    /\ Cardinality(serving') <= Limit

MayEnter(c) == c \in Unbounded \/ Cardinality(Present) < Capacity

Start(c) ==
    /\ c \notin Present
    /\ MayEnter(c)
    /\ queue = {}
    /\ Cardinality(serving) < Limit
    /\ serving' = serving \cup {c}
    /\ refused' = refused \ {c}
    /\ UNCHANGED <<queue, ahead, leaving>>

Join(c) ==
    /\ c \notin Present
    /\ MayEnter(c)
    /\ queue' = queue \cup {c}
    /\ ahead' = ahead \cup (queue \X {c})
    /\ refused' = refused \ {c}
    /\ UNCHANGED <<serving, leaving>>

TurnAway(c) ==
    /\ c \notin Present
    /\ ~ MayEnter(c)
    /\ refused' = refused \cup {c}
    /\ UNCHANGED <<serving, queue, ahead, leaving>>

GiveUp(c) ==
    /\ c \in serving \cup queue
    /\ serving' = serving \ {c}
    /\ Dequeue({c})
    /\ leaving' = leaving \cup {c}
    /\ UNCHANGED refused

Finish(c) ==
    /\ c \in serving
    /\ \E chosen \in SUBSET queue : HandOver(serving \ {c}, chosen)
    /\ UNCHANGED <<leaving, refused>>

Leave(c) ==
    /\ c \in leaving
    /\ leaving' = leaving \ {c}
    /\ \E chosen \in SUBSET queue : HandOver(serving, chosen)
    /\ UNCHANGED refused

Promote ==
    /\ \E chosen \in SUBSET queue : HandOver(serving, chosen)
    /\ UNCHANGED <<leaving, refused>>

Next == \/ \E c \in Callers : \/ Start(c)
                              \/ Join(c)
                              \/ TurnAway(c)
                              \/ GiveUp(c)
                              \/ Finish(c)
                              \/ Leave(c)
        \/ Promote

Spec == Init /\ [][Next]_vars
=============================================================================
