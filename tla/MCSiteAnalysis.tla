--------------------------- MODULE MCSiteAnalysis ---------------------------
EXTENDS SiteAnalysis

Ask(area, global, avoid, marks, asked, n) ==
    [area |-> area, global |-> global, avoid |-> avoid, marks |-> marks,
     storm |-> asked, threshold |-> 60, sites |-> n]

MCRequests ==
    {Ask(TRUE, FALSE, avoid, marks, "own", n) : avoid, marks \in BOOLEAN, n \in {1, 2}}
    \cup {Ask(TRUE, TRUE, TRUE, TRUE, asked, 2) : asked \in {"none", "default"}}
    \cup {Ask(FALSE, FALSE, TRUE, TRUE, "own", n) : n \in {1, 2}}
    \cup {Ask(FALSE, TRUE, TRUE, FALSE, "own", 1)}
    \cup {[Ask(TRUE, FALSE, TRUE, TRUE, "own", 1) EXCEPT !.threshold = 0]}
=============================================================================
