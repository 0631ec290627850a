------------------------- MODULE MCTerrainPipeline --------------------------
(* Contour maps, tiles, scores and zones on a raster of 3 x 5 cells. *)
EXTENDS TerrainPipeline

Column(i) == {c \in Cells : c[2] = i}
Row(i) == {c \in Cells : c[1] = i}

Says(number, keyword, unit, spaced, others) ==
    [number |-> number, keyword |-> keyword, unit |-> unit, spaced |-> spaced, others |-> others]

Element(tag, cells) == {[tag |-> tag, coords |-> cells]}

Placemark(elements, data, name, desc, altitude) ==
    [elements |-> elements, data |-> data, name |-> name, desc |-> desc, altitude |-> altitude]

Line(cells, data, name, desc, altitude) ==
    Placemark(<<Element("LineString", cells)>>, data, name, desc, altitude)

Map(placemarks) == [readable |-> TRUE, placemarks |-> placemarks]

\* "Contour 1", "2 m" and an attribute, with the altitude 0 on every point.
Valley ==
    Map(<<Line(Column(0), NoText, Says(1, TRUE, "none", TRUE, 0), NoText, 0),
          Line(Column(2), Says(0, FALSE, "none", TRUE, 0), Says(7, FALSE, "none", TRUE, 1), NoText, 0),
          Line(Column(4), NoText, Says(2, FALSE, "m", FALSE, 0), NoText, 0)>>)

\* Feet in an attribute, a description, an altitude, two lines that cross, a
\* line with one point before the one that counts, a name without geometry,
\* and a geometry without elevation.
Slope ==
    Map(<<Line(Row(0), Says(6, FALSE, "ft", TRUE, 0), NoText, NoText, NoElevation),
          Line(Row(2), NoText, Says(4, FALSE, "none", TRUE, 2), Says(0, TRUE, "none", TRUE, 0), NoElevation),
          Placemark(<<Element("LineString", {<<1, 4>>}), Element("Polygon", Column(0))>>,
                    NoText, NoText, NoText, 1),
          Line({}, NoText, Says(9, TRUE, "none", TRUE, 0), NoText, NoElevation),
          Line(Column(1), NoText, Says(8, FALSE, "none", TRUE, 2), NoText, NoElevation)>>)

\* One straight contour, and a spot height with a line beside it.
Single ==
    Map(<<Line(Row(1), NoText, Says(2, FALSE, "none", TRUE, 0), NoText, NoElevation),
          Placemark(<<Element("LineString", Row(0)) \cup Element("Point", {<<2, 4>>})>>,
                    NoText, Says(3, FALSE, "none", TRUE, 0), NoText, NoElevation)>>)

\* No contour with an elevation.
Roads == Map(<<Line(Row(1), NoText, Says(2, FALSE, "none", TRUE, 3), NoText, NoElevation)>>)

Broken == [readable |-> FALSE, placemarks |-> <<>>]

MapsHere == {Valley, Slope, Single, Roads, Broken}

\* Feet right behind the digits.
FeetMap ==
    Map(<<Line(Row(0), NoText, Says(6, FALSE, "ft", FALSE, 0), NoText, NoElevation),
          Line(Row(2), NoText, Says(3, FALSE, "ft", TRUE, 0), NoText, NoElevation)>>)

WithFeet == {Slope, FeetMap}

\* Level ground with up to three bumps or hollows.
Bumps ==
    {[c \in Cells |-> IF c \in up THEN 2 ELSE IF c \in down THEN 0 ELSE 1] :
        up \in {{}, {<<0, 1>>}, {<<1, 1>>, <<1, 2>>}},
        down \in {{}, {<<2, 4>>}, {<<1, 2>>}, {<<0, 0>>, <<2, 2>>}}}

Where(S, low, high) == [c \in Cells |-> IF c \in S THEN high ELSE low]

Hook == {<<0, 0>>, <<1, 0>>, <<2, 0>>, <<2, 1>>, <<2, 2>>, <<1, 2>>, <<0, 2>>}
Arc == {<<0, 1>>, <<0, 2>>, <<1, 0>>, <<1, 3>>}

MapsOfScores ==
    {Where(Cells, 0, 2), Where(Hook, 0, 2),
     [Where(Hook, 0, 2) EXCEPT ![<<0, 0>>] = 3],
     Where(Arc, 0, 2), Where(Cells \ Column(2), 0, 2), Where(Column(2), 1, 3), Where({}, 0, 1)}

ZonesHere == {{}, Column(2), {<<1, 1>>, <<1, 2>>}}
Nowhere == {{}}
None == {}
=============================================================================
