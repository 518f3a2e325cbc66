---------------------------- MODULE MCOpSolver ----------------------------
(***************************************************************************)
(* Settings of OpSolver for TLC.                                           *)
(***************************************************************************)
EXTENDS OpSolver

AllOptions ==
    [priority : BOOLEAN, stepping : BOOLEAN, noopiter : BOOLEAN,
     itl6 : {0, 2}, guess : BOOLEAN, forced : BOOLEAN]

DefaultOptions ==
    {[priority |-> FALSE, stepping |-> TRUE, noopiter |-> FALSE,
      itl6 |-> 0, guess |-> FALSE, forced |-> FALSE]}
=============================================================================
