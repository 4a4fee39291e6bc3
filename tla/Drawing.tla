-------------------------------- MODULE Drawing --------------------------------
(***************************************************************************)
(* How the drawings of an EasyEDA component become a KiCad symbol and a    *)
(* KiCad footprint: EasyedaSymbolImporter and EasyedaFootprintImporter     *)
(* (easyeda/easyeda_importer.py) read the shapes line by line,             *)
(* ExporterSymbolKicad and ExporterFootprintKicad convert them.            *)
(*                                                                         *)
(* The reading is a machine: each step reads one line of the unit at hand, *)
(* which the designer may have drawn in any way.  The conversion is pure   *)
(* and is written as operators on what was read.  Both results are sets of *)
(* ink: what it is, the points where it ends, the points that shape it in  *)
(* between, and a tag.  Lengths are in half pixels (a centre may lie half  *)
(* way), the unit of length, so that px_to_mm is the identity on them.     *)
(* Widths, colours, fills, fonts, pin styles and names are left out, and   *)
(* so is the trigonometry of arcs: a line carries the middle of its arc.   *)
(***************************************************************************)
EXTENDS Integers, Sequences, FiniteSets, SequencesExt

CONSTANTS
    Grid,          \* _EASYEDA_SYMBOL_GRID_PX
    Symbols,       \* sequences of units [name, at, size, head]: the main
                   \* symbol and its subparts, with their BBox and head
    Heads,         \* heads of packages
    SymbolLines, PackageLines,   \* the shapes that may be drawn
    Cost(_), MaxCost,            \* bound of one component's shapes
    Nothing

ASSUME GridAssumption == Grid \in Nat \ {0}

Points == Int \X Int

\* A symbol has a main unit; lengths and coordinates are integers.
ASSUME UnitAssumption ==
    /\ Symbols \subseteq
          Seq([name : STRING, at : Points, size : Points, head : Points]) \ {<<>>}
    /\ Heads \subseteq Points /\ Nothing \notin Points \union {"B"}

\* A curve has one control point or two; "S" and what else is not understood
\* may have any number.
PathCommand(c) ==
    /\ c.to \in Points /\ c.via \in Seq(Points)
    /\ (c.cmd = "Q" => Len(c.via) >= 1) /\ (c.cmd = "C" => Len(c.via) >= 2)

ASSUME SymbolAssumption ==
    \A l \in SymbolLines :
        /\ l.kind \in {"P", "R"} => l.at \in Points
        /\ l.kind = "R" =>
              /\ l.fields \in Seq(Range(l.fields))
              /\ (Len(l.fields) >= 4 /\ (Len(l.fields) >= 6 \/
                     (l.fields[1] = Nothing /\ l.fields[2] = Nothing)))
                 => {l.fields[3], l.fields[4]} \subseteq Int
        /\ l.kind \in {"C", "E", "A"} => DOMAIN l.radii = {1, 2}
        /\ l.kind \in {"PL", "PG"} => l.points \in Seq(Points)
        /\ l.kind = "T" => l.parts \in Nat
        /\ l.kind = "PT" =>
              l.cmds \in Seq(Range(l.cmds)) /\ \A c \in Range(l.cmds) : PathCommand(c)

ASSUME PackageAssumption ==
    \A l \in PackageLines :
        /\ l.kind = "PAD" =>
              /\ l.shape \in {"ELLIPSE", "RECT", "OVAL", "POLYGON"} /\ l.turn \in Int
              /\ {l.at, l.size, <<l.hole, l.slot>>} \subseteq Points /\ l.hole >= 0
              /\ l.points \in Seq(Points)
        /\ l.kind = "TEXT" => l.turn \in Int
        /\ l.kind = "SOLIDREGION" =>
              /\ l.type \in {"solid", "npth", "cutout"} /\ l.parts \in Nat
              /\ l.cmds \in Seq(Range(l.cmds)) /\ \A c \in Range(l.cmds) : c.to \in Points

VARIABLES
    curves,     \* the library's format has Bezier curves
    stage,      \* "symbol", "footprint": reading; "done", "failed"
    drawn,      \* the units as drawn: [name, at, size, head, lines]
    unit,       \* the unit at hand
    symbol,     \* the EeSymbol of each unit read
    footprint,  \* the EeFootprint
    exported    \* unit number |-> ink; a footprint is number 0

drawingVars == <<curves, stage, drawn, unit, symbol, footprint, exported>>

Ink(what, ends, via, tag) ==
    [what |-> what, ends |-> ends, via |-> via, tag |-> tag]

\* A line without length leaves no ink.
Line(p, q, tag) == IF p = q THEN {} ELSE {Ink("line", {p, q}, <<>>, tag)}
Strokes(s, tag) == UNION {Line(s[i], s[i + 1], tag) : i \in 1..Len(s) - 1}

Moved(k, Place(_)) ==
    Ink(k.what, {Place(p) : p \in k.ends}, [i \in DOMAIN k.via |-> Place(k.via[i])], k.tag)

All(s, InkOf(_)) == UNION {InkOf(x) : x \in Range(s)}
-----------------------------------------------------------------------------
(* EasyedaSymbolImporter. *)

\* The first subpart's head is the origin of every unit.
NoSharedOrigin == Nothing
SharedOrigin == IF Len(drawn) > 1 THEN drawn[2].head ELSE Nothing

Origin(u) ==
    IF SharedOrigin # Nothing THEN SharedOrigin
    ELSE IF u.size[1] > 0 \/ u.size[2] > 0
         THEN <<u.at[1] + u.size[1] \div 2, u.at[2] + u.size[2] \div 2>>
         ELSE u.head

EmptySymbol(u) ==
    [name |-> u.name, origin |-> Origin(u), pins |-> <<>>, rectangles |-> <<>>,
     circles |-> <<>>, ellipses |-> <<>>, arcs |-> <<>>, polylines |-> <<>>,
     polygons |-> <<>>, paths |-> <<>>, texts |-> <<>>]

EmptyFootprint == [regions |-> <<>>, model |-> Nothing, shapes |-> <<>>]

Blank(us) ==
    [i \in DOMAIN us |-> [name |-> us[i].name, at |-> us[i].at, size |-> us[i].size,
                          head |-> us[i].head, lines |-> <<>>]]

Spent == LET Add(c, l) == c + Cost(l)
         IN  FoldLeft(LAMBDA c, u : FoldLeft(Add, c, u.lines), 0, drawn)
Room == Spent < MaxCost

\* The exporter is told the version of the library that is there; the formats
\* before 20220914, and the one of a new library, 20211014, have no curves.
DrawingInit ==
    /\ unit = 1 /\ symbol = <<>> /\ footprint = EmptyFootprint /\ exported = <<>>
    /\ \/ stage = "symbol" /\ curves \in BOOLEAN /\ \E us \in Symbols : drawn = Blank(us)
       \/ stage = "footprint" /\ curves = FALSE /\ \E h \in Heads : drawn = <<[head |-> h, lines |-> <<>>]>>

\* _extract_unit creates the unit before it reads its shapes.
OpenUnit ==
    /\ stage = "symbol" /\ Len(symbol) = unit - 1
    /\ symbol' = Append(symbol, EmptySymbol(drawn[unit]))
    /\ UNCHANGED <<curves, stage, drawn, unit, footprint, exported>>

Reads(l) ==
    /\ Spent + Cost(l) <= MaxCost
    /\ drawn' = [drawn EXCEPT ![unit].lines = Append(@, l)]
    /\ UNCHANGED <<curves, stage, unit, exported>>

ReadsSymbol(l) ==
    stage = "symbol" /\ Len(symbol) = unit /\ Reads(l) /\ UNCHANGED footprint

Keep(list, item) == symbol' = [symbol EXCEPT ![unit][list] = Append(@, item)]

PinNumber(l) == IF l.number # Nothing THEN l.number ELSE l.spice

PinOf(l) == [at |-> l.at, number |-> PinNumber(l)]

AddPin == Room /\ \E l \in SymbolLines :
    /\ l.kind = "P" /\ ReadsSymbol(l)
    /\ Keep("pins", PinOf(l))

\* The fields after x and y: rx, ry, width, height, then the stroke's; in the
\* fallback width and height come first.
RectangleSize(f) ==
    IF Len(f) >= 4 /\ (Len(f) >= 6 \/ (f[1] = Nothing /\ f[2] = Nothing))
    THEN <<f[3], f[4]>> ELSE <<f[1], f[2]>>

RectangleOf(l) == [at |-> l.at, size |-> RectangleSize(l.fields)]

AddRectangle == Room /\ \E l \in SymbolLines :
    /\ l.kind = "R" /\ ReadsSymbol(l)
    /\ Keep("rectangles", RectangleOf(l))

AddText == Room /\ \E l \in SymbolLines :
    /\ l.kind = "T" /\ ReadsSymbol(l)
    /\ IF l.parts < 13 \/ l.text = Nothing THEN UNCHANGED symbol ELSE Keep("texts", l)

Lists == [C |-> "circles", E |-> "ellipses", A |-> "arcs", PL |-> "polylines",
          PG |-> "polygons", PT |-> "paths"]

AddShape == Room /\ \E l \in SymbolLines :
    /\ l.kind \in DOMAIN Lists /\ ReadsSymbol(l)
    /\ Keep(Lists[l.kind], l)

SkipUnknown == Room /\ \E l \in SymbolLines :
    /\ l.kind \notin DOMAIN Lists \union {"P", "R", "T"} /\ ReadsSymbol(l)
    /\ UNCHANGED symbol

NextUnit ==
    /\ stage = "symbol" /\ Len(symbol) = unit /\ unit < Len(drawn)
    /\ unit' = unit + 1
    /\ UNCHANGED <<curves, stage, drawn, symbol, footprint, exported>>
-----------------------------------------------------------------------------
(* ExporterSymbolKicad. *)

\* Python's round(n / d): to the nearest, half way to the even one.
Round(n, d) ==
    LET q == n \div d  r == 2 * (n % d)
    IN  IF r > d \/ (r = d /\ q % 2 = 1) THEN q + 1 ELSE q

Snap(p) == <<Round(p[1], Grid) * Grid, Round(p[2], Grid) * Grid>>

\* Every coordinate is taken relative to the origin and y points up.
Rel(p, o) == <<p[1] - o[1], o[2] - p[2]>>
Flipped(k, o) == Moved(k, LAMBDA p : Rel(p, o))

PinInk(p, o) == {Ink("pin", {Snap(Rel(p.at, o))}, <<>>, p.number)}

Box(a, b) == {Ink("box", {a, b}, <<>>, Nothing)}
RectangleInk(r, o) ==
    LET a == Rel(r.at, o) IN Box(a, <<a[1] + r.size[1], a[2] - r.size[2]>>)

CircleInk(c, o) == {Ink("circle", {Rel(c.at, o)}, <<>>, c.radii[1])}

EllipseInk(e, o) == IF e.radii[1] = e.radii[2] THEN CircleInk(e, o) ELSE {}

\* Start and end change places, which the set of ends does not show.
ArcInk(a, o) ==
    IF ~a.wellformed \/ a.radii[1] = 0 \/ a.radii[2] = 0 THEN {}
    ELSE {Ink("arc", {Rel(a.start, o), Rel(a.end, o)}, <<Rel(a.middle, o)>>, Nothing)}

Closes(l) == l.kind = "PG" \/ l.filled
Ring(l) == IF Closes(l) THEN Append(l.points, l.points[1]) ELSE l.points
PolylineInk(l, o) == {Flipped(k, o) : k \in Strokes(Ring(l), Nothing)}

\* convert_ee_paths: the loop over the commands of one path.
PathStart == [poly |-> <<>>, cur |-> <<0, 0>>, first |-> Nothing,
              polygons |-> <<>>, beziers |-> <<>>]

Flush(s) ==
    [s EXCEPT !.polygons = IF Len(s.poly) >= 2 THEN Append(@, s.poly) ELSE @,
              !.poly = <<>>]

Bezier(s, c1, c2, to) ==
    [Flush(s) EXCEPT !.beziers = Append(@, <<s.cur, c1, c2, to>>),
                     !.cur = to, !.poly = <<to>>]

\* The point two thirds of the way from p to q (degree elevation).
Elevated(p, q) ==
    <<p[1] + (2 * (q[1] - p[1])) \div 3, p[2] + (2 * (q[2] - p[2])) \div 3>>

Command(s, c) ==
    CASE c.cmd = "M" -> [s EXCEPT !.cur = c.to, !.first = c.to, !.poly = Append(@, c.to)]
      [] c.cmd = "L" -> [s EXCEPT !.cur = c.to, !.poly = Append(@, c.to)]
      [] c.cmd = "Z" -> IF s.poly # <<>> /\ s.first # Nothing
                        THEN [s EXCEPT !.poly = Append(@, s.first)] ELSE s
      [] c.cmd = "C" -> Bezier(s, c.via[1], c.via[2], c.to)
      [] c.cmd = "Q" -> Bezier(s, Elevated(s.cur, c.via[1]), Elevated(c.to, c.via[1]), c.to)
      [] OTHER -> s

\* The state of the loop before the first command and after each.
Traced(cmds) ==
    LET s[n \in 0..Len(cmds)] == IF n = 0 THEN PathStart ELSE Command(s[n - 1], cmds[n])
    IN  s

\* KiSymbolBezier.export: without curves, the line from start to end.
CurveInk(b) ==
    IF curves THEN {Ink("curve", {}, b, Nothing)} ELSE Line(b[1], b[4], Nothing)

PathInk(l, o) ==
    LET s == Flush(Traced(l.cmds)[Len(l.cmds)])
    IN  {Flipped(k, o) :
            k \in All(s.polygons, LAMBDA pts : Strokes(pts, Nothing))
                  \union All(s.beziers, CurveInk)}

TextInk(t, o) == {Ink("text", {Rel(t.at, o)}, <<>>, t.text)}

SymbolInk(u) ==
    LET o == Snap(u.origin)
    IN  UNION {All(u.pins, LAMBDA p : PinInk(p, o)),
               All(u.rectangles, LAMBDA r : RectangleInk(r, o)),
               All(u.circles, LAMBDA c : CircleInk(c, o)),
               All(u.arcs, LAMBDA a : ArcInk(a, o)),
               All(u.ellipses, LAMBDA e : EllipseInk(e, o)),
               All(u.paths, LAMBDA l : PathInk(l, o)),
               All(u.polylines, LAMBDA l : PolylineInk(l, o)),
               All(u.polygons, LAMBDA l : PolylineInk(l, o)),
               All(u.texts, LAMBDA t : TextInk(t, o))}

\* A closed polyline without points has no first point to return to.
Raises(u) == \E l \in Range(u.polylines) \union Range(u.polygons) : Closes(l) /\ l.points = <<>>

\* integrate_sub_units looks for the main symbol's name in each sub-unit; the
\* found ones are passed to re.sub as a template.
Matched == {i \in 2..Len(symbol) : symbol[i].name = symbol[1].name}
Decoded(k) == IF k.what = "text" /\ k.tag = "escape" THEN [k EXCEPT !.tag = "decoded"] ELSE k

Integrated ==
    IF Matched = {} THEN [i \in {0} |-> SymbolInk(symbol[1])]
    ELSE [n \in {i - 1 : i \in Matched} |->
             {Decoded(k) : k \in SymbolInk(symbol[n + 1])}]

ExportSymbol ==
    /\ stage = "symbol" /\ Len(symbol) = Len(drawn)
    /\ IF \E u \in Range(symbol) : Raises(u)
       THEN stage' = "failed" /\ UNCHANGED exported
       ELSE stage' = "done" /\ exported' = Integrated
    /\ UNCHANGED <<curves, drawn, unit, symbol, footprint>>
-----------------------------------------------------------------------------
(* EasyedaFootprintImporter. *)

Graphics == {"PAD", "TRACK", "HOLE", "VIA", "CIRCLE", "ARC", "RECT", "TEXT"}

ReadsFootprint(l) == stage = "footprint" /\ Reads(l) /\ UNCHANGED symbol

AddGraphic == Room /\ \E l \in PackageLines :
    /\ l.kind \in Graphics /\ ReadsFootprint(l)
    /\ footprint' = [footprint EXCEPT !.shapes = Append(@, l)]

\* The last 3D model counts, also when it cannot be read (Nothing).
AddModel == Room /\ \E l \in PackageLines :
    /\ l.kind = "SVGNODE" /\ ReadsFootprint(l)
    /\ footprint' = [footprint EXCEPT !.model = l.model]

AddRegion == Room /\ \E l \in PackageLines :
    /\ l.kind = "SOLIDREGION" /\ ReadsFootprint(l)
    /\ footprint' = IF l.parts >= 4
                    THEN [footprint EXCEPT !.regions = Append(@, l)] ELSE footprint

SkipGraphic == Room /\ \E l \in PackageLines :
    /\ l.kind \notin Graphics \union {"SVGNODE", "SOLIDREGION"} /\ ReadsFootprint(l)
    /\ UNCHANGED footprint
-----------------------------------------------------------------------------
(* ExporterFootprintKicad.  A layer is a pair of a side and a use. *)

\* The board's outline, notes and mechanical layers have no side.
KiLayers ==
    [n \in 1..8 \union {10, 12, 13, 14, 15, 99, 100, 101} |->
        <<CASE n \in {2, 4, 6, 8, 14} -> "B" [] n \in {10, 12, 15} -> Nothing [] OTHER -> "F",
          CASE n \in {1, 2} -> "Cu"         [] n \in {3, 4, 101} -> "SilkS"
            [] n \in {5, 6} -> "Paste"      [] n \in {7, 8} -> "Mask"
            [] n \in {13, 14, 100} -> "Fab" [] n = 99 -> "CrtYd"
            [] n = 10 -> "Edge"             [] n = 12 -> "Cmts"
            [] n = 15 -> "Dwgs">>]
LayerOf(n) == IF n \in DOMAIN KiLayers THEN KiLayers[n] ELSE <<"F", "Fab">>

Off(p, o) == <<p[1] - o[1], p[2] - o[2]>>
Shifted(k, o) == Moved(k, LAMBDA p : Off(p, o))

AngleToKi(a) == IF a > 180 THEN -(360 - a) ELSE a

DrillToKiSwapped(hole, slot, size) ==
    IF hole > 0 THEN <<IF slot = 0 THEN hole ELSE slot, hole>> ELSE Nothing

\* hole is the diameter 2 * hole_radius.
DrillToKi(hole, slot, size) ==
    CASE hole > 0 /\ slot # 0 -> IF size[2] >= size[1] THEN <<hole, slot>> ELSE <<slot, hole>>
      [] hole > 0 /\ slot = 0 -> <<hole, hole>>
      [] OTHER -> Nothing

PadShape(l) == IF l.shape \in {"ELLIPSE", "RECT", "OVAL"} THEN l.shape ELSE "custom"

\* "A(1)" is the pad 1, whatever the label A: inside is the part in parentheses.
PadNumber(l) == IF l.inside # Nothing THEN l.inside ELSE l.number

Pad(l, o) ==
    LET outlined == PadShape(l) = "custom" /\ l.points # <<>>
        at == Off(l.at, o)
    IN  [at |-> at, size |-> l.size, through |-> l.hole > 0, number |-> PadNumber(l),
         drill |-> DrillToKi(l.hole, l.slot, l.size),
         turn |-> IF outlined THEN 0 ELSE AngleToKi(l.turn),
         polygon |-> IF outlined
                     THEN [i \in DOMAIN l.points |-> Off(Off(l.points[i], o), at)]
                     ELSE <<>>]

\* What KiCad draws for a pad: its polygon is turned with it.
Turned(p, a) ==
    CASE a % 360 = 0 -> p
      [] a % 360 = 90 -> <<p[2], -p[1]>>
      [] a % 360 = 180 -> <<-p[1], -p[2]>>
      [] OTHER -> <<-p[2], p[1]>>

PadInk(k) ==
    LET Corner(i) == LET q == Turned(k.polygon[i], k.turn)
                     IN  <<q[1] + k.at[1], q[2] + k.at[2]>>
        tag == <<k.number, k.through>>
    IN  {IF k.polygon = <<>> THEN Ink("pad", {k.at}, <<>>, <<tag, k.size, k.turn % 360>>)
         ELSE Ink("outline", {}, [i \in DOMAIN k.polygon |-> Corner(i)], tag)}
        \union (IF k.drill = Nothing THEN {} ELSE {Ink("drill", {k.at}, <<>>, k.drill)})

\* The four segments of a rectangle.
Sides(l) ==
    LET x == l.at[1]  y == l.at[2]  w == l.size[1]  h == l.size[2]
    IN  <<<<x, y>>, <<x + w, y>>, <<x + w, y + h>>, <<x, y + h>>, <<x, y>>>>

\* An arc is written with its centre, its end and its angle; ry = 0 has none.
FootprintArc(l, o) ==
    IF l.radii[2] # 0
    THEN Ink("arc", {Off(l.end, o)}, <<Off(l.centre, o)>>, <<l.extent, LayerOf(l.layer)>>)
    ELSE Ink("arc", {Off(l.end, o)}, <<<<0, 0>>>>, <<0, LayerOf(l.layer)>>)

TextLayer(l) ==
    LET k == LayerOf(l.layer)
    IN  IF l.type = "N" /\ k[2] = "SilkS" THEN <<k[1], "Fab">> ELSE k

FootprintText(l, o) ==
    Ink("text", {Off(l.at, o)}, <<>>,
        <<AngleToKi(l.turn) % 360, TextLayer(l), TextLayer(l)[1] = "B">>)

GraphicInk(l, o) ==
    LET Lined(s) == {Shifted(k, o) : k \in Strokes(s, LayerOf(l.layer))}
        Spot(what, tag) == {Ink(what, {Off(l.at, o)}, <<>>, tag)}
    IN  CASE l.kind = "PAD" -> PadInk(Pad(l, o))
          [] l.kind = "TRACK" -> Lined(l.points)
          [] l.kind = "RECT" -> Lined(Sides(l))
          [] l.kind = "HOLE" -> Spot("hole", 2 * l.radius)
          [] l.kind = "VIA" -> Spot("via", <<2 * l.radius, l.diameter>>)
          [] l.kind = "CIRCLE" -> Spot("circle", <<l.radius, LayerOf(l.layer)>>)
          [] l.kind = "ARC" -> {FootprintArc(l, o)}
          [] l.kind = "TEXT" -> {FootprintText(l, o)}

\* _parse_solid_region_path: an arc is its end, lower case is not understood.
RegionCommand(s, c) ==
    LET To(p) == [points |-> Append(s.points, p), cur |-> p]
    IN  CASE c.cmd \in {"M", "L", "A"} -> To(c.to)
          [] c.cmd = "H" -> To(<<c.to[1], s.cur[2]>>)
          [] c.cmd = "V" -> To(<<s.cur[1], c.to[2]>>)
          [] c.cmd = "Z" /\ s.points # <<>> /\ Head(s.points) # Last(s.points) ->
                [s EXCEPT !.points = Append(@, Head(@))]
          [] OTHER -> s

RegionStart == [points |-> <<>>, cur |-> <<0, 0>>]

RegionTraced(cmds) ==
    LET s[n \in 0..Len(cmds)] ==
            IF n = 0 THEN RegionStart ELSE RegionCommand(s[n - 1], cmds[n])
    IN  s

RegionPoints(l) == RegionTraced(l.cmds)[Len(l.cmds)].points

\* A courtyard is drawn as lines, another region as a filled polygon.
RegionInk(l, o) ==
    LET pts == RegionPoints(l)
        k == LayerOf(l.layer)
    IN  IF \/ l.layer \notin {3, 4, 13, 14, 99}
           \/ l.type \notin {"solid", "npth"}
           \/ Len(pts) < 3
        THEN {}
        ELSE {Shifted(i, o) :
                i \in Strokes(IF k = <<"F", "CrtYd">> THEN pts
                              ELSE Append(pts, Head(pts)), k)}

ModelInk(m) == IF m = Nothing THEN {} ELSE {Ink("model", {}, <<>>, m)}

FootprintInk(f, o) ==
    UNION {All(f.shapes, LAMBDA l : GraphicInk(l, o)),
           All(f.regions, LAMBDA l : RegionInk(l, o)), ModelInk(f.model)}

ExportPackage ==
    /\ stage = "footprint"
    /\ stage' = "done"
    /\ exported' = [i \in {0} |-> FootprintInk(footprint, drawn[1].head)]
    /\ UNCHANGED <<curves, drawn, unit, symbol, footprint>>

DrawingNext ==
    \/ OpenUnit \/ AddPin \/ AddRectangle \/ AddText \/ AddShape \/ SkipUnknown
    \/ NextUnit \/ ExportSymbol
    \/ AddGraphic \/ AddModel \/ AddRegion \/ SkipGraphic \/ ExportPackage

DrawingSpec == DrawingInit /\ [][DrawingNext]_drawingVars
-----------------------------------------------------------------------------
(* What the designer drew, on EasyEDA's canvas. *)

\* SVG's meaning of a path of one subpath: command i goes on from where the one
\* before it ended, and Z returns to the start.  A quadratic curve is written as
\* its cubic equal.
Pen(cmds, i) == IF cmds[i - 1].cmd = "Z" THEN cmds[1].to ELSE cmds[i - 1].to
Mix(p, q) == <<(p[1] + 2 * q[1]) \div 3, (p[2] + 2 * q[2]) \div 3>>

Segment(pen, start, c) ==
    LET Curve(c1, c2) == IF curves THEN {Ink("curve", {}, <<pen, c1, c2, c.to>>, Nothing)}
                         ELSE Line(pen, c.to, Nothing)
    IN  CASE c.cmd = "L" -> Line(pen, c.to, Nothing)
          [] c.cmd = "Z" -> Line(pen, start, Nothing)
          [] c.cmd = "C" -> Curve(c.via[1], c.via[2])
          [] c.cmd = "Q" -> Curve(Mix(pen, c.via[1]), Mix(c.to, c.via[1]))

Segments(cmds) ==
    UNION {Segment(Pen(cmds, i), cmds[1].to, cmds[i]) : i \in 2..Len(cmds)}

\* The paths that the importer traces: one subpath, no curve after a Z.
Simple(cmds) ==
    /\ cmds # <<>> /\ cmds[1].cmd = "M"
    /\ \A i \in 2..Len(cmds) :
          /\ cmds[i].cmd \in {"L", "Z", "C", "Q"}
          /\ cmds[i].cmd \in {"C", "Q"} => cmds[i - 1].cmd # "Z"

\* EasyEDA's own formats, on EasyEDA's grid.
Regular(l) ==
    CASE l.kind = "P" -> Snap(l.at) = l.at /\ l.number # Nothing
      [] l.kind = "R" -> /\ Len(l.fields) >= 4
                          /\ (Len(l.fields) >= 6 \/ (l.fields[1] = Nothing /\ l.fields[2] = Nothing))
      [] l.kind = "PT" -> Simple(l.cmds)
      [] l.kind = "T" -> l.text = "escape" => Len(drawn) = 1
      [] OTHER -> TRUE

\* A polygon and a filled polyline have a last side, back to the first point.
Outline(l) ==
    Strokes(l.points, Nothing) \union
    (IF l.points # <<>> /\ (l.kind = "PG" \/ l.filled)
     THEN Line(l.points[Len(l.points)], l.points[1], Nothing) ELSE {})

\* KiCad has no ellipse; incomplete shapes and unknown ones leave no ink.
Canvas(l) ==
    CASE l.kind = "P" -> {Ink("pin", {l.at}, <<>>, l.number)}
      [] l.kind = "R" -> Box(l.at, <<l.at[1] + l.fields[3], l.at[2] + l.fields[4]>>)
      [] l.kind = "C" \/ (l.kind = "E" /\ l.radii[1] = l.radii[2]) ->
            {Ink("circle", {l.at}, <<>>, l.radii[1])}
      [] l.kind = "A" /\ l.wellformed /\ 0 \notin Range(l.radii) ->
            {Ink("arc", {l.start, l.end}, <<l.middle>>, Nothing)}
      [] l.kind \in {"PL", "PG"} -> Outline(l)
      [] l.kind = "PT" -> Segments(l.cmds)
      [] l.kind = "T" /\ l.parts >= 13 /\ l.text # Nothing -> {Ink("text", {l.at}, <<>>, l.text)}
      [] OTHER -> {}

\* The numbers of the units of the symbol: its subparts if there are any.
Units == IF Len(drawn) = 1 THEN {0} ELSE 1..Len(drawn) - 1

\* The points of KiCad's grid that an origin may snap to.
Places ==
    {v \in {Snap(u.origin) : u \in Range(symbol)} : v[1] % Grid = 0 /\ v[2] % Grid = 0}

\* An exported symbol is the drawing as a whole: one vector of the grid takes
\* every shape of every unit to its place, turned upside down and otherwise
\* unchanged, and no unit, pin or stroke is lost or added (convert_to_kicad,
\* convert_ee_paths, snap_bbox, integrate_sub_units).  A curve of a path is
\* as drawn only in a library whose format has curves: in an older one, and that is
\* every library the tool creates, it is the straight line between its ends
\* (KiSymbolBezier.export).  It is said of drawings in EasyEDA's formats whose
\* subparts bear the symbol's name.
SymbolIsTheDrawing ==
    ( /\ stage = "done" /\ symbol # <<>>
      /\ \A u \in Range(drawn) : u.name = drawn[1].name /\ \A l \in Range(u.lines) : Regular(l) )
    => LET canvas == [n \in Units |-> All(drawn[n + 1].lines, Canvas)]
       IN  /\ DOMAIN exported = Units
           /\ \E v \in Places : \A n \in Units :
                 exported[n] = {Flipped(k, v) : k \in canvas[n]}
-----------------------------------------------------------------------------
\* SVG's meaning of a region's path: H and V keep the coordinate that the last
\* command before them gave.
LastBut(cmds, i, keeps) ==
    CHOOSE j \in 1..i : cmds[j].cmd # keeps /\ \A k \in j + 1..i : cmds[k].cmd = keeps

Corner(cmds, i) ==
    <<cmds[LastBut(cmds, i, "V")].to[1], cmds[LastBut(cmds, i, "H")].to[2]>>

\* Long slots that fit their pad one way only, arcs with a radius, regions of
\* one subpath that is closed at most at its end.
Slots(l) == {d \in {<<l.hole, l.slot>>, <<l.slot, l.hole>>} : d[1] <= l.size[1] /\ d[2] <= l.size[2]}

RegularGraphic(l) ==
    CASE l.kind = "PAD" -> l.hole > 0 /\ l.slot # 0 => l.slot >= l.hole /\ Cardinality(Slots(l)) = 1
      [] l.kind = "ARC" -> l.radii[2] # 0
      [] l.kind = "SOLIDREGION" ->
            /\ l.cmds # <<>> /\ l.cmds[1].cmd = "M"
            /\ \A i \in 2..Len(l.cmds) :
                  /\ l.cmds[i].cmd \in {"L", "H", "V", "A", "Z"}
                  /\ l.cmds[i].cmd = "Z" => i = Len(l.cmds)
      [] OTHER -> TRUE

Drill(l) ==
    CASE l.hole = 0 -> {}
      [] l.hole # 0 /\ l.slot = 0 -> {Ink("drill", {l.at}, <<>>, <<l.hole, l.hole>>)}
      [] OTHER -> {Ink("drill", {l.at}, <<>>, d) : d \in Slots(l)}

\* A rectangle's sides join the corners that share a coordinate.
Frame(l) ==
    LET corners == {l.at[1], l.at[1] + l.size[1]} \X {l.at[2], l.at[2] + l.size[2]}
        Side(p, q) == IF p[1] = q[1] \/ p[2] = q[2] THEN Line(p, q, LayerOf(l.layer)) ELSE {}
    IN  UNION {Side(p, q) : p, q \in corners}

\* Designer's layers, and courtyards, outlines and areas by their edges.
Edges(l) ==
    LET n == Len(l.cmds)
        closed == l.cmds[n].cmd = "Z"
        s == [i \in 1..(IF closed THEN n - 1 ELSE n) |-> Corner(l.cmds, i)]
    IN  IF l.parts < 4 \/ l.type = "cutout" \/ l.layer \notin {3, 4, 13, 14, 99} \/ n < 3
        THEN {}
        ELSE Strokes(IF l.layer = 99 /\ ~closed THEN s ELSE Append(s, s[1]), LayerOf(l.layer))

Bottom == {2, 4, 6, 8, 14}
PackageCanvas(l) ==
    CASE l.kind = "PAD" ->
            Drill(l) \union
            {IF l.shape = "POLYGON" /\ l.points # <<>>
             THEN Ink("outline", {}, l.points, <<PadNumber(l), l.hole > 0>>)
             ELSE Ink("pad", {l.at}, <<>>, <<<<PadNumber(l), l.hole > 0>>, l.size, l.turn % 360>>)}
      [] l.kind = "TRACK" -> Strokes(l.points, LayerOf(l.layer))
      [] l.kind = "RECT" -> Frame(l)
      [] l.kind = "HOLE" -> {Ink("hole", {l.at}, <<>>, 2 * l.radius)}
      [] l.kind = "VIA" -> {Ink("via", {l.at}, <<>>, <<2 * l.radius, l.diameter>>)}
      [] l.kind = "CIRCLE" -> {Ink("circle", {l.at}, <<>>, <<l.radius, LayerOf(l.layer)>>)}
      [] l.kind = "ARC" -> {Ink("arc", {l.end}, <<l.centre>>, <<l.extent, LayerOf(l.layer)>>)}
      [] l.kind = "TEXT" ->
            {Ink("text", {l.at}, <<>>, <<l.turn % 360, TextLayer(l), l.layer \in Bottom>>)}
      [] l.kind = "SOLIDREGION" -> Edges(l)
      [] l.kind = "SVGNODE" /\ l.model # Nothing -> {Ink("model", {}, <<>>, l.model)}
      [] OTHER -> {}

\* An exported footprint is the package's drawing as a whole, moved by one
\* vector: pads with their outlines, numbers and slots, lines, texts on their
\* side, regions and courtyards by their edges (generate_kicad_footprint,
\* drill_to_ki, angle_to_ki, _parse_solid_region_path).  It is said of packages
\* with one 3D model at most and one outline per region.
FootprintIsTheDrawing ==
    LET Lines == Range(drawn[1].lines)
        canvas == All(drawn[1].lines, PackageCanvas)
    IN  ( /\ stage = "done" /\ symbol = <<>>
          /\ \A l \in Lines : RegularGraphic(l)
          /\ Cardinality({i \in DOMAIN drawn[1].lines : drawn[1].lines[i].kind = "SVGNODE"}) <= 1 )
        => \E v \in Heads :
              exported[0] = {Shifted(k, v) : k \in canvas}
=============================================================================
