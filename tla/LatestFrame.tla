---------------------------- MODULE LatestFrame ----------------------------
(***************************************************************************)
(* What the frame bus promises its readers, without clocks, devices or     *)
(* errors.  One producer publishes an ever newer frame; a reader that      *)
(* looks gets the newest frame there is at that moment, may skip any       *)
(* number of frames in between, and never meets an older frame again.      *)
(* A reader may leave for good; no reader's pace shows in what the         *)
(* producer or another reader may do.                                      *)
(*                                                                         *)
(* Abstracts Bus (audiophore-engine/src/lib.rs:27-91).  A frame is its     *)
(* version: version n is the n-th frame published, 0 is the frame the bus  *)
(* was seeded with.                                                        *)
(***************************************************************************)
EXTENDS Naturals

CONSTANTS
    Readers,    \* the render loops that look at the bus
    Prompt      \* those of them that keep looking as long as they are attached

VARIABLES
    latest,     \* version of the frame in the bus
    seen,       \* seen[r]: version r obtained last; 0 also before its first look
    attached    \* the readers that have not left

vars == <<latest, seen, attached>>

Init ==
    /\ latest = 0
    /\ seen = [r \in Readers |-> 0]
    /\ attached = Readers

Publish ==
    /\ latest' = latest + 1
    /\ UNCHANGED <<seen, attached>>

Read(r) ==
    /\ r \in attached
    /\ seen' = [seen EXCEPT ![r] = latest]
    /\ UNCHANGED <<latest, attached>>

Leave(r) ==
    /\ attached' = attached \ {r}
    /\ UNCHANGED <<latest, seen>>

Next ==
    \/ Publish
    \/ \E r \in Readers : Read(r) \/ Leave(r)

SafetySpec == Init /\ [][Next]_vars

Spec == SafetySpec /\ \A r \in Prompt : WF_vars(Read(r))
============================================================================
