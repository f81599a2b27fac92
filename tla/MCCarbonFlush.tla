--------------------------- MODULE MCCarbonFlush ----------------------------
(***************************************************************************)
(* A small instance of CarbonFlush for TLC.                                *)
(***************************************************************************)
EXTENDS CarbonFlush

Entry(w, t) == [owner |-> w, type |-> t]
EntryType(m) == m.type
EntryOwner(m) == m.owner

CONSTANTS w1, w2

SomeMetrics ==
    {Entry(w1, "gauge"), Entry(w1, "set"), Entry(w2, "timer")}
=============================================================================
