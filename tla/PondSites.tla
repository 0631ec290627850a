----------------------------- MODULE PondSites ------------------------------
(***************************************************************************)
(* Candidate pond sites of a scored terrain: identify_candidate_sites()    *)
(* and _carve_region() of app/services/pond_site.py.  Lengths are in       *)
(* cells, areas in numbers of cells.  The composite score that ranks the   *)
(* sites is floating point and not computed.                               *)
(***************************************************************************)
EXTENDS Grid

CONSTANTS
    Threshold,   \* suitability_threshold
    Steepest4,   \* max_slope_deg, as four times the squared rise per cell
    MinCells,    \* min_pond_area_m2
    MaxCells,    \* max_pond_footprint_m2
    MinWidth     \* min_pond_width_m, two cells if not given

ASSUME PondAssumption ==
    /\ {Threshold, Steepest4, MinCells, MinWidth} \subseteq Nat
    /\ MaxCells \in Nat \ {0}

SumOver(S, f(_)) == MapThenSumSet(f, S)

\* np.gradient(): central differences, one-sided at the edges; doubled.
Slope2(dem, c, i, last) ==
    LET at(v) == dem[[c EXCEPT ![i] = v]]
    IN  IF last = 0 THEN 0
        ELSE IF c[i] = 0 THEN 2 * (at(1) - at(0))
        ELSE IF c[i] = last THEN 2 * (at(last) - at(last - 1))
        ELSE at(c[i] + 1) - at(c[i] - 1)

Steep(dem, c) ==
    LET down == Slope2(dem, c, 1, Rows - 1)
        right == Slope2(dem, c, 2, Cols - 1)
    IN  down * down + right * right > Steepest4

\* The cells a pond may cover.
Suitable(dem, score) == {c \in Cells : score[c] >= Threshold /\ ~Steep(dem, c)}
----------------------------------------------------------------------------
(* _carve_region() *)

\* The best cell: the highest score, then the lowest ground, then the first.
Preferable(dem, score, c, d) ==
    \/ score[c] > score[d]
    \/ score[c] = score[d] /\ dem[c] < dem[d]
    \/ score[c] = score[d] /\ dem[c] = dem[d] /\ Before(c, d)

BestCell(dem, score, S) ==
    CHOOSE c \in S : \A d \in S \ {c} : Preferable(dem, score, c, d)

\* The n cells of S nearest to c, the first ones among equals.
Nearest(S, c, n) ==
    LET nearer(d, e) == \/ Apart2(c, d) < Apart2(c, e)
                        \/ Apart2(c, d) = Apart2(c, e) /\ Before(d, e)
    IN  {e \in S : Cardinality({d \in S : nearer(d, e)}) < n}

\* Slip: what the best cell is not connected with is kept too.
CarvedLoose(dem, score, region) ==
    Nearest(region, BestCell(dem, score, region), MaxCells)

Carved(dem, score, region) ==
    LET best == BestCell(dem, score, region)
    IN  Part(Nearest(region, best, MaxCells), best)

Footprint(dem, score, region) ==
    IF Cardinality(region) > MaxCells THEN Carved(dem, score, region) ELSE region
----------------------------------------------------------------------------
(* The shape of a footprint, from its second moments: each is 12 n^2 times  *)
(* the one in the code, n being the number of cells.                        *)

Moment(S, i, j) ==
    LET n == Cardinality(S)
        total(k) == SumOver(S, LAMBDA c : c[k])
    IN  12 * (n * SumOver(S, LAMBDA c : c[i] * c[j]) - total(i) * total(j))
        + (IF i = j THEN n * n ELSE 0)

Spread(S) == Moment(S, 1, 1) + Moment(S, 2, 2)

Det(S) == Moment(S, 1, 1) * Moment(S, 2, 2) - Moment(S, 1, 2) * Moment(S, 1, 2)

\* The axes are the roots of the eigenvalues; their ratio exceeds 3.5 if the
\* eigenvalues have a ratio above 49/4.
Elongated(S) == 196 * Spread(S) * Spread(S) > 2809 * Det(S)

\* Four times the root of the smaller eigenvalue is less than MinWidth.
Slender(S) ==
    LET n2 == 12 * Cardinality(S) * Cardinality(S)
        w == MinWidth * MinWidth * n2
    IN  \/ 2 * w > 16 * Spread(S)
        \/ w * w - 16 * Spread(S) * w + 256 * Det(S) < 0

\* The widest inscribed circle: twice the distance to the nearest cell that
\* is not in the footprint, one ring around the raster included.
Narrow(S) ==
    LET outside == ((-1 .. Rows) \X (-1 .. Cols)) \ S
    IN  \A c \in S : \E d \in outside : 4 * Apart2(c, d) < MinWidth * MinWidth

Accepted(S) ==
    Cardinality(S) >= MinCells /\ ~Elongated(S) /\ ~Slender(S) /\ ~Narrow(S)

Footprints(dem, score) ==
    {S \in {Footprint(dem, score, region) : region \in Parts(Suitable(dem, score))} :
        Accepted(S)}
----------------------------------------------------------------------------
(* The pin of a site: the weighted centre of its footprint, or the cell of  *)
(* the footprint nearest to it.                                             *)

Weight(score, c) == score[c] - Threshold + 1

\* round(): to the nearest, and from the middle to the even number.
Rounded(p, q) ==
    LET low == p \div q
        rest == 2 * (p % q)
    IN  IF rest < q \/ (rest = q /\ low % 2 = 0) THEN low ELSE low + 1

\* rowcol_to_utm() at the centre of a cell and utm_to_rowcol() back: the
\* floor of p/q + 1/2.  A whole number is met only up to the precision of
\* the coordinates.
Mapped(p, q) ==
    LET there == (2 * p + q) \div (2 * q)
    IN  IF (2 * p + q) % (2 * q) = 0 THEN {there, there - 1} ELSE {there}

\* The rows (i = 1) or columns (i = 2) in which the pin may come to lie.
Pins(score, S) ==
    LET q == SumOver(S, LAMBDA c : Weight(score, c))
        p(i) == SumOver(S, LAMBDA c : Weight(score, c) * c[i])
        off(c) == (c[1] * q - p(1)) * (c[1] * q - p(1)) + (c[2] * q - p(2)) * (c[2] * q - p(2))
    IN  IF <<Rounded(p(1), q), Rounded(p(2), q)>> \in S
        THEN {c \in Cells : c[1] \in Mapped(p(1), q) /\ c[2] \in Mapped(p(2), q)}
        ELSE {c \in S : \A d \in S : off(c) < off(d) \/ (off(c) = off(d) /\ ~Before(d, c))}
=============================================================================
