------------------------------- MODULE MCDrawing -------------------------------
(* Shapes of every kind, regular and irregular, on a grid of five pixels (ten *)
(* half pixels); two shapes per component, or one path of four commands.      *)
EXTENDS Drawing, TLC

Unit(name, at, size, head) == [name |-> name, at |-> at, size |-> size, head |-> head]

\* One unit with a BBox off the grid, one without a BBox; a symbol and two
\* subparts with BBoxes of their own, one of another name in the last document.
MCSymbols ==
    LET main == Unit("n", <<3, 7>>, <<22, 34>>, <<14, 14>>)
        first == Unit("n", <<10, 10>>, <<40, 40>>, <<14, 14>>)
        second == Unit("n", <<0, 0>>, <<20, 10>>, <<14, 14>>)
    IN  {<<main>>, <<[main EXCEPT !.size = <<0, 0>>]>>,
         <<[main EXCEPT !.head = <<60, 60>>], first, second>>,
         <<main, [first EXCEPT !.name = "m"], second>>}

MCHeads == {<<14, 14>>}

\* Corners of a square whose side three divides.
A == <<0, 0>>
B == <<30, 0>>
C == <<30, 30>>

Cmd(cmd, to, via) == [cmd |-> cmd, to |-> to, via |-> via]
PathCommands ==
    {Cmd("M", C, <<>>), Cmd("L", B, <<>>), Cmd("L", C, <<>>), Cmd("Z", A, <<>>),
     Cmd("C", C, <<B, A>>), Cmd("Q", B, <<C>>), Cmd("S", A, <<>>)}
Moves == Cmd("M", A, <<>>)

MCPaths ==
    {<<>>, <<Cmd("L", B, <<>>), Cmd("Z", A, <<>>)>>} \union
    {<<Moves>> \o s : s \in UNION {[1..n -> PathCommands] : n \in 1..3}}

Pin(at, number) == [kind |-> "P", at |-> at, number |-> number, spice |-> "0"]
Circle(kind, at, rx, ry) == [kind |-> kind, at |-> at, radii |-> <<rx, ry>>]
Arc(wellformed, rx) ==
    [kind |-> "A", wellformed |-> wellformed, radii |-> <<rx, 15>>,
     start |-> A, middle |-> C, end |-> B]
Poly(kind, filled, points) == [kind |-> kind, filled |-> filled, points |-> points]
Text(at, parts, text) == [kind |-> "T", at |-> at, parts |-> parts, text |-> text]
Rect(fields) == [kind |-> "R", at |-> A, fields |-> fields]

MCSymbolLines ==
    {Pin(A, "1"), Pin(B, "2"), Pin(<<3, 4>>, "3"), Pin(C, Nothing),
     Rect(<<Nothing, Nothing, 30, 20>>), Rect(<<5, 5, 30, 20, Nothing, Nothing>>), Rect(<<30, 20>>),
     Circle("C", C, 5, 5), Circle("E", B, 5, 5), Circle("E", B, 5, 9),
     Arc(TRUE, 15), Arc(TRUE, 0), Arc(FALSE, 15),
     Poly("PL", FALSE, <<A, B, C>>), Poly("PL", TRUE, <<A, B, C>>), Poly("PG", FALSE, <<A, C, B>>),
     Poly("PG", FALSE, <<>>), Poly("PL", FALSE, <<>>),
     Text(B, 13, "plain"), Text(A, 13, "escape"), Text(A, 12, "plain"), Text(A, 13, Nothing),
     [kind |-> "BE"]}
    \union {[kind |-> "PT", cmds |-> s] : s \in MCPaths}

PadLine(at, size, shape, hole, slot, number, turn, points) ==
    [kind |-> "PAD", at |-> at, size |-> size, shape |-> shape, hole |-> hole, slot |-> slot,
     number |-> number, inside |-> IF number = "A(1)" THEN "1" ELSE Nothing,
     turn |-> turn, points |-> points]
Flat(kind, layer, rest) == [kind |-> kind, layer |-> layer] @@ rest

Region(layer, type, parts, cmds) ==
    [kind |-> "SOLIDREGION", layer |-> layer, type |-> type, parts |-> parts, cmds |-> cmds]
RegionCommands ==
    {Cmd("L", B, <<>>), Cmd("H", <<12, 99>>, <<>>), Cmd("V", <<99, 18>>, <<>>),
     Cmd("A", C, <<>>), Cmd("Z", A, <<>>), Cmd("h", B, <<>>)}

MCPackageLines ==
    {PadLine(B, <<8, 6>>, "RECT", 0, 0, "A(1)", 270, <<>>), PadLine(C, <<4, 8>>, "OVAL", 3, 6, "2", 90, <<>>),
     PadLine(C, <<8, 4>>, "OVAL", 3, 6, "2", 0, <<>>), PadLine(A, <<8, 8>>, "ELLIPSE", 3, 0, "3", 180, <<>>),
     PadLine(A, <<8, 8>>, "ELLIPSE", 3, 6, "3", 0, <<>>),
     PadLine(B, <<4, 4>>, "POLYGON", 0, 0, "4", 90, <<A, B, C>>),
     PadLine(B, <<4, 4>>, "POLYGON", 0, 0, "4", 90, <<>>),
     Flat("TRACK", 3, [points |-> <<A, B, C>>]), Flat("TRACK", 100, [points |-> <<A>>]),
     Flat("RECT", 4, [at |-> B, size |-> <<4, 6>>]),
     [kind |-> "HOLE", at |-> C, radius |-> 4],
     [kind |-> "VIA", at |-> C, radius |-> 2, diameter |-> 6],
     Flat("CIRCLE", 99, [at |-> B, radius |-> 3]),
     Flat("ARC", 3, [radii |-> <<15, 15>>, centre |-> C, end |-> B, extent |-> 90]),
     Flat("ARC", 3, [radii |-> <<15, 0>>, centre |-> C, end |-> B, extent |-> 90]),
     Flat("TEXT", 4, [at |-> A, turn |-> 270, type |-> "N"]),
     Flat("TEXT", 3, [at |-> A, turn |-> 180, type |-> "P"]),
     [kind |-> "SVGNODE", model |-> "m"], [kind |-> "SVGNODE", model |-> Nothing],
     [kind |-> "PROTRACTOR"]}
    \union {Region(layer, "solid", 7, <<Moves>> \o s) :
               layer \in {3, 99}, s \in UNION {[1..n -> RegionCommands] : n \in 1..3}}
    \union {Region(5, "solid", 7, <<Moves, Cmd("L", B, <<>>), Cmd("L", C, <<>>)>>),
            Region(3, "cutout", 7, <<Moves, Cmd("L", B, <<>>), Cmd("L", C, <<>>)>>),
            Region(3, "solid", 3, <<Moves, Cmd("L", B, <<>>), Cmd("L", C, <<>>)>>)}

MCCost(l) ==
    IF l.kind \in {"PT", "SOLIDREGION"} /\ Len(l.cmds) > 2 THEN Len(l.cmds) ELSE 2
=============================================================================
