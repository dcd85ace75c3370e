---------------------------- MODULE MCFtlService ----------------------------
(* Two sectors, one of which the map's capacity covers.                    *)
EXTENDS FtlService
CONSTANTS s1, s2, d1
=============================================================================
