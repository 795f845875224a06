--------------------------- MODULE MCMaintenance ---------------------------
(* Values for checking Maintenance: three open runs of which a report names one,    *)
(* two tables, and intervals that do not divide each other.                         *)
EXTENDS Maintenance

MCRuns == 1..3
=============================================================================
