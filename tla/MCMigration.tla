---------------------------- MODULE MCMigration ----------------------------
(* Catalog before orders, two steps of two polls; the reports lie at the limits
   of the SLO. *)
EXTENDS Migration, TLC

CONSTANTS blue, green, catalog, orders

OtherColor == (blue :> green) @@ (green :> blue)
CatalogFirst == <<catalog, orders>>
TwoSteps == <<25, 100>>
Stat(n, errors, p95) == [requests |-> n, errors |-> errors, p95 |-> p95]
AtTheLimits == {Stat(100, 1, 3), Stat(20, 0, 2)}
BeyondThem == {Stat(20, 1, 2), Stat(20, 0, 5)}
TooFew == {Stat(19, 19, 9)}
=============================================================================
