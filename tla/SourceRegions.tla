--------------------------- MODULE SourceRegions ---------------------------
(* The operational regions of a source pipeline, as their indexes in the   *)
(* configuration.                                                          *)
EXTENDS Naturals

CONSTANTS
  RegionCount,  \* number of operational regions
  None

ASSUME RegionAssumption == RegionCount \in Nat \ {0}

Regions == 0..(RegionCount - 1)
=============================================================================
