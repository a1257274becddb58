--------------------------- MODULE MCRenderLoop ---------------------------
(* Small instances of RenderLoop.  Time is counted in units of tokio's     *)
(* tolerance for a late tick or less, so the periods differ by adapter.    *)
EXTENDS RenderLoop

CONSTANTS a1, a2

MCAdapters == {a1, a2}

\* a1 is the CLI's adapter (log and continue), a2 stops at its first error.
MCPolicy == [a \in MCAdapters |-> IF a = a1 THEN "LogAndContinue" ELSE "LogAndStop"]

\* Two different rates, both slower than the tolerance.
MCPeriod == [a \in MCAdapters |-> IF a = a1 THEN 2 ELSE 3]

\* --fps above 200: a period shorter than the tolerance.
FastPeriod == [a \in MCAdapters |-> 1]
===========================================================================
