------------------------------ MODULE Contours ------------------------------
(***************************************************************************)
(* From an uploaded contour map to a terrain: the elevations that          *)
(* app/services/kml_parser.py reads off the placemarks of a KML file, and  *)
(* the surfaces that app/services/dem_builder.py lays through them.        *)
(*                                                                         *)
(* A file is [readable, placemarks].  A placemark has a sequence of         *)
(* elements, each a set of shapes (a MultiGeometry has several), and up to *)
(* four texts or numbers that may hold its elevation.  A shape is          *)
(* [tag, coords], with the cells that it passes through.  A text is        *)
(* [number, keyword, unit, spaced, others]: its first number, whether a    *)
(* word like "Contour" or "Elev" stands before it, the unit after it,      *)
(* whether a space separates the two, and how many more numbers follow.    *)
(***************************************************************************)
EXTENDS Grid, Sequences

CONSTANTS
    NoText,        \* the placemark has no such element
    NoElevation,   \* None
    FeetPerMetre   \* 1 / 0.3048, rounded: heights are whole numbers here

ASSUME FeetAssumption == FeetPerMetre \in Nat \ {0}
----------------------------------------------------------------------------
(* _extract_geometry_from_element() *)

Kind == [Point |-> "point", LineString |-> "line", LinearRing |-> "line", Polygon |-> "area"]
Fewest == [Point |-> 1, LineString |-> 2, LinearRing |-> 3, Polygon |-> 3]

\* A shape with too few coordinates is none.
Drawn(element) == {shape \in element : Cardinality(shape.coords) >= Fewest[shape.tag]}

\* The first element that holds a shape.
Geometry(p) ==
    LET some == SelectSeq(p.elements, LAMBDA element : Drawn(element) # {})
    IN  IF some = <<>> THEN {} ELSE Drawn(Head(some))
----------------------------------------------------------------------------
(* _extract_elevation_from_placemark() *)

\* _parse_float_from_string(): feet are recognised as a word of their own, so
\* not where they follow the digits immediately.
Converted(t) ==
    IF t.unit = "ft" /\ t.spaced THEN t.number \div FeetPerMetre ELSE t.number

\* Strategy 1: an attribute of ExtendedData with an elevation key.
FromData(p) == IF p.data = NoText THEN NoElevation ELSE Converted(p.data)

\* Strategy 2: the name.  Behind a keyword, or alone, the number is taken as
\* it stands.
FromName(p) ==
    IF p.name = NoText THEN NoElevation
    ELSE IF ~p.name.keyword /\ p.name.unit # "none" THEN Converted(p.name)
    ELSE IF p.name.keyword \/ p.name.others = 0 THEN p.name.number
    ELSE NoElevation

\* Strategy 3: the description, behind a keyword.
FromDescription(p) ==
    IF p.desc # NoText /\ p.desc.keyword THEN p.desc.number ELSE NoElevation

\* Strategy 4: the mean altitude of the coordinates, 0 as well.
Elevation(p) ==
    LET found == SelectSeq(<<FromData(p), FromName(p), FromDescription(p), p.altitude>>,
                           LAMBDA e : e # NoElevation)
    IN  IF found = <<>> THEN NoElevation ELSE Head(found)

\* _read_kml_bytes(): neither a KMZ without a KML in it, nor broken XML.
Readable(file) == file.readable

\* KMLParserService.parse(): placemarks without a geometry or an elevation
\* are passed over.
Parsed(file) ==
    SelectSeq(file.placemarks, LAMBDA p : Geometry(p) # {} /\ Elevation(p) # NoElevation)
----------------------------------------------------------------------------
(* DEMBuilderService.build_dem() *)

\* _sample_points_along_geometry() knows lines, areas and points, one or
\* many of a kind; of a mixed MultiGeometry it takes nothing.
Path(p) ==
    IF Cardinality({Kind[shape.tag] : shape \in Geometry(p)}) > 1 THEN {}
    ELSE UNION {shape.coords : shape \in Geometry(p)}

Sampled(contours) == UNION {Path(contours[i]) : i \in DOMAIN contours}

\* Of the samples at one place the first is kept.
SampleAt(contours, c) ==
    LET through == {i \in DOMAIN contours : c \in Path(contours[i])}
    IN  Elevation(contours[CHOOSE i \in through : \A j \in through : i <= j])

Elevations(contours) == {SampleAt(contours, c) : c \in Sampled(contours)}

\* griddata() needs a triangle, and of a single line has none; the second
\* attempt, with "linear", fails as the first did.  Nor is there a surface
\* without a sample.
Flat(S) ==
    \A a, b, c \in S :
        (b[1] - a[1]) * (c[2] - a[2]) = (b[2] - a[2]) * (c[1] - a[1])

\* The interpolation meets the samples and stays between them; outside their
\* hull it takes the nearest.
Surfaces(contours) ==
    LET range == Min(Elevations(contours)) .. Max(Elevations(contours))
    IN  {[c \in Cells |-> IF c \in Sampled(contours) THEN SampleAt(contours, c) ELSE between[c]] :
            between \in [Cells \ Sampled(contours) -> range]}
=============================================================================
