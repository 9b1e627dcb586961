------------------------------ MODULE Transport ------------------------------
(***************************************************************************)
(* What the network listener promises the server runtime that owns it      *)
(* (networkmcpe.Server, which hands everything on to the RakNet server):   *)
(* connections are served only while it is open, each one at most once, and*)
(* Close returns only when the last of them is no longer served.           *)
(* RaknetServer implements this; ServerLifecycle is built on it.           *)
(***************************************************************************)
CONSTANT Conns

VARIABLES
    stage,  \* "none", "failed" (Listen), "open", "closing" or "closed"
    live,   \* the connections that are registered and served
    over    \* the connections that were served and no longer are

tvars == <<stage, live, over>>

Init == stage = "none" /\ live = {} /\ over = {}

Listen ==
    /\ stage = "none"
    /\ stage' = "open"
    /\ UNCHANGED <<live, over>>

ListenFails ==
    /\ stage = "none"
    /\ stage' = "failed"
    /\ UNCHANGED <<live, over>>

Open(c) ==
    /\ stage = "open"
    /\ c \notin live \cup over
    /\ live' = live \cup {c}
    /\ UNCHANGED <<stage, over>>

End(c) ==
    /\ c \in live
    /\ live' = live \ {c}
    /\ over' = over \cup {c}
    /\ UNCHANGED stage

Close ==
    /\ stage = "open"
    /\ stage' = "closing"
    /\ UNCHANGED <<live, over>>

\* Close returns.
Closed ==
    /\ stage = "closing"
    /\ live = {}
    /\ stage' = "closed"
    /\ UNCHANGED <<live, over>>

Next ==
    \/ Listen \/ ListenFails \/ Close \/ Closed
    \/ \E c \in Conns : Open(c) \/ End(c)

Spec == Init /\ [][Next]_tvars
=============================================================================
