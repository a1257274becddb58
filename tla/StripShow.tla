------------------------------ MODULE StripShow ------------------------------
(***************************************************************************)
(* What the run command promises whoever watches the strip, without        *)
(* sockets, tasks, clocks or errors.  Music frames come in one by one; the *)
(* strip's universes show them in order: a universe moves on to any frame  *)
(* that is not older than its own, may skip frames, and is never ahead of  *)
(* the universe before it, so that what is seen of a frame is always its   *)
(* first part.  Nothing is ever shown that was not received.               *)
(*                                                                         *)
(* Abstracts run_pipeline (audiophore-cli/src/main.rs:146-219).  A frame   *)
(* is its number, 0 stands for what the strip showed before.               *)
(***************************************************************************)
EXTENDS Naturals, Sequences

VARIABLES
    latest,     \* the number of frames received
    shown       \* shown[j]: the frame the strip's j-th universe shows

vars == <<latest, shown>>

Init ==
    /\ latest = 0
    /\ shown \in Seq({0})

Receive ==
    /\ latest' = latest + 1
    /\ UNCHANGED shown

\* The newest frame the j-th universe may show.
Ahead(j) == IF j = 1 THEN latest ELSE shown[j - 1]

Show(j) ==
    /\ \E v \in shown[j]..Ahead(j) : shown' = [shown EXCEPT ![j] = v]
    /\ UNCHANGED latest

Next == Receive \/ \E j \in DOMAIN shown : Show(j)

Spec == Init /\ [][Next]_vars
=============================================================================
