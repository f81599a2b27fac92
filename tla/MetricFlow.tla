---------------------------- MODULE MetricFlow ------------------------------
(***************************************************************************)
(* What the daemon promises for the lines clients send, without channels,  *)
(* goroutines and stores.                                                  *)
(*                                                                         *)
(* A line is taken in once.  Then it is rejected, or it is settled, once,  *)
(* together with other lines of its key and of no other: the report of     *)
(* their aggregate reaches the backend or is lost.  Only under the         *)
(* daemon's own keys are lines replaced without a report.  The process may *)
(* stop at any time, and what it then holds stays where it is.             *)
(***************************************************************************)
EXTENDS Naturals

CONSTANTS
    Lines, Valid, KeyOf(_),
    OwnKeys         \* the keys under which the daemon replaces what it holds

VARIABLES stage, up

vars == <<stage, up>>

Stages == {"client", "inside", "rejected", "reported", "lost"}

Init == stage = [l \in Lines |-> "client"] /\ up = TRUE

Take(l) ==
    /\ up /\ stage[l] = "client"
    /\ stage' = [stage EXCEPT ![l] = "inside"]
    /\ UNCHANGED up

Reject(l) ==
    /\ up /\ stage[l] = "inside" /\ l \notin Valid
    /\ stage' = [stage EXCEPT ![l] = "rejected"]
    /\ UNCHANGED up

Inside == {l \in Valid : stage[l] = "inside"}

\* One aggregate leaves the daemon.
Settle(S, outcome) ==
    /\ up /\ S # {}
    /\ \A l, m \in S : KeyOf(l) = KeyOf(m)
    /\ stage' = [l \in Lines |-> IF l \in S THEN outcome ELSE stage[l]]
    /\ UNCHANGED up

\* The daemon's own values take the place of what it holds under its own keys.
Overwrite(S) ==
    /\ up /\ S # {}
    /\ \A l \in S : KeyOf(l) \in OwnKeys
    /\ stage' = [l \in Lines |-> IF l \in S THEN "lost" ELSE stage[l]]
    /\ UNCHANGED up

Stop == up /\ up' = FALSE /\ UNCHANGED stage

SettleLine(l) ==
    \E S \in SUBSET Inside, outcome \in {"reported", "lost"} :
        l \in S /\ Settle(S, outcome)

OverwriteLine(l) == \E S \in SUBSET Inside : l \in S /\ Overwrite(S)

Next ==
    \/ \E l \in Lines : Take(l) \/ Reject(l)
    \/ \E S \in SUBSET Inside :
          \/ \E outcome \in {"reported", "lost"} : Settle(S, outcome)
          \/ Overwrite(S)
    \/ Stop

Spec == Init /\ [][Next]_vars

\* A line that was taken in does not stay inside while the process runs.
FairSpec ==
    /\ Spec
    /\ \A l \in Lines :
          WF_vars(/\ stage[l] = "inside"
                  /\ Reject(l) \/ SettleLine(l) \/ OverwriteLine(l) \/ Stop)
=============================================================================
