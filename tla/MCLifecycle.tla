---------------------------- MODULE MCLifecycle -----------------------------
(***************************************************************************)
(* A small instance of Lifecycle for TLC.                                  *)
(***************************************************************************)
EXTENDS Lifecycle, TLC

SomeHosts == {"local", "named"}
SomeTokens == {"token-name", "t"}

Full == [valid |-> TRUE, auth |-> TRUE, off |-> {}, host |-> "named",
         relay |-> TRUE, tokens |-> "t" :> TRUE]
NoUnix == [valid |-> TRUE, auth |-> TRUE, off |-> {"unix"}, host |-> "",
           relay |-> TRUE, tokens |-> "t" :> FALSE]
Broken == [valid |-> FALSE, auth |-> FALSE, off |-> {}, host |-> "",
           relay |-> FALSE, tokens |-> <<>>]

SomeFiles == {Full, NoUnix, Broken}
=============================================================================
