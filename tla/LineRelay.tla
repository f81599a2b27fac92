----------------------------- MODULE LineRelay ------------------------------
(***************************************************************************)
(* What the connection pool and sendCarbonMetric promise a relay worker,   *)
(* without connections, deadlines and retries.                             *)
(*                                                                         *)
(* The process opens one lane to the backend for each worker and starts    *)
(* only when all are open.  A worker hands over one line at a time.  While *)
(* the call is in progress the backend receives the line at most once; the *)
(* call then returns, and "dropped" means that the backend has no copy.    *)
(* ("sent" does not mean that it has one: a peer that has just hung up     *)
(* still lets a write succeed.)  A lane lost while a call is in progress   *)
(* stays lost, and the process dies only when a worker sends with fewer    *)
(* lanes than workers.                                                     *)
(***************************************************************************)
EXTENDS Integers

CONSTANTS
    Workers,
    Size        \* the number of lanes: one for each worker

VARIABLES
    phase,      \* "starting", "running" or "dead"
    lanes,      \* the number of open lanes
    busy,       \* per worker: a call is in progress
    delivered,  \* per worker: copies of its latest line the backend has
    outcome     \* per worker: how its latest call returned

vars == <<phase, lanes, busy, delivered, outcome>>

Init ==
    /\ phase = "starting"
    /\ lanes = 0
    /\ busy = [w \in Workers |-> FALSE]
    /\ delivered = [w \in Workers |-> 0]
    /\ outcome = [w \in Workers |-> "none"]

OpenLane ==
    /\ phase = "starting" /\ lanes < Size
    /\ lanes' = lanes + 1
    /\ UNCHANGED <<phase, busy, delivered, outcome>>

Launch ==
    /\ phase = "starting"
    /\ phase' = IF lanes = Size THEN "running" ELSE "dead"
    /\ UNCHANGED <<lanes, busy, delivered, outcome>>

Call(w) ==
    /\ phase = "running" /\ ~busy[w]
    /\ busy' = [busy EXCEPT ![w] = TRUE]
    /\ delivered' = [delivered EXCEPT ![w] = 0]
    /\ outcome' = [outcome EXCEPT ![w] = "none"]
    /\ UNCHANGED <<phase, lanes>>

Deliver(w) ==
    /\ phase = "running" /\ busy[w] /\ delivered[w] = 0
    /\ delivered' = [delivered EXCEPT ![w] = 1]
    /\ UNCHANGED <<phase, lanes, busy, outcome>>

LoseLane(w) ==
    /\ phase = "running" /\ busy[w] /\ lanes > 0
    /\ lanes' = lanes - 1
    /\ UNCHANGED <<phase, busy, delivered, outcome>>

Return(w) ==
    /\ phase = "running" /\ busy[w]
    /\ busy' = [busy EXCEPT ![w] = FALSE]
    /\ \E o \in {"sent", "dropped"} :
          /\ o = "dropped" => delivered[w] = 0
          /\ outcome' = [outcome EXCEPT ![w] = o]
    /\ UNCHANGED <<phase, lanes, delivered>>

Crash(w) ==
    /\ phase = "running" /\ busy[w] /\ lanes < Size
    /\ phase' = "dead"
    /\ UNCHANGED <<lanes, busy, delivered, outcome>>

Next ==
    \/ OpenLane \/ Launch
    \/ \E w \in Workers :
          Call(w) \/ Deliver(w) \/ LoseLane(w) \/ Return(w) \/ Crash(w)

Spec == Init /\ [][Next]_vars

\* A call ends: it returns or takes the process with it.
FairSpec == Spec /\ \A w \in Workers : WF_vars(Return(w) \/ Crash(w))
=============================================================================
