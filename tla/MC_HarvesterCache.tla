------------------------- MODULE MC_HarvesterCache -------------------------
(* Two harvesters with two plot lists each.  The interval is one time     *)
(* unit and expiry comes at twice it instead of ten times: the code only  *)
(* compares ages with the two bounds, and two keeps "needs update" and    *)
(* "expired" apart.                                                       *)
EXTENDS HarvesterCache, TLC

CONSTANTS hv1, hv2, d1, d2

MCHarvesters == {hv1, hv2}
MCData == {d1, d2}
MCInterval == 1
MCExpiryFactor == 2

====
