------------------------------ MODULE MCFindings ------------------------------
(***************************************************************************)
(* The two parts of the program that raise findings.  They share no state, *)
(* so a behaviour runs one of them and leaves the other where it starts.   *)
(***************************************************************************)
EXTENDS Leak, Watchtower, TLC

FindingsInit == Init /\ WatchInit

FindingsNext ==
    \/ Next /\ WatchInit /\ UNCHANGED watchVars
    \/ WatchNext /\ Init /\ UNCHANGED vars

FindingsSpec == FindingsInit /\ [][FindingsNext]_<<vars, watchVars>>

\* On the tolerance, above it, and five times above it.
MCDeltas == {[upstream |-> 5, local |-> 0], [upstream |-> 6, local |-> 0],
             [upstream |-> 36, local |-> 0]}

Alike == Permutations(Calls) \cup Permutations(Admins)
=============================================================================
