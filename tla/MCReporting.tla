---------------------------- MODULE MCReporting ----------------------------
(* Three lines, a rotation and two cut polls; two callers and three notices; *)
(* one player, one page and two changes; five pals in pages of two, three    *)
(* lists that overlap, two filters and two snapshots.                        *)
EXTENDS Reporting

CONSTANTS a, b, c, d, e

MCListings == {<<a, b, c, d, e>>, <<d, b>>, <<c, a, e>>}
=============================================================================
