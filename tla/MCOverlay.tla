----------------------------- MODULE MCOverlay -----------------------------
(* Small instances of the overlay for TLC: at most two paths, two sizes.   *)
EXTENDS OverlayRefinement

CONSTANTS a, b, small, large

MCSizeOf == [d \in Contents |-> IF d = small THEN 1 ELSE 2]
NoSeeds == [i \in Ids |-> None]
BothSeeds == [i \in Ids |-> IF i = 1 THEN a ELSE IF i = 2 THEN b ELSE None]
SeedA == [i \in Ids |-> IF i = 1 THEN a ELSE None]
=============================================================================
