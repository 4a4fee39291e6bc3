------------------------------ MODULE MCPartMerge ------------------------------
(* Values with a second spelling ("x2" of "x"), providers that agree, differ, *)
(* say nothing, answer with another part, or with a datasheet that is no link.*)
EXTENDS PartMerge, TLC

Spelling == ("x2" :> "x") @@ ("a2" :> "a") @@ ("p2" :> "p")
MCNormal(v) == IF v \in DOMAIN Spelling THEN Spelling[v] ELSE v

Answer(provider, mpn, maker, package, lifecycle, sheet) ==
    [provider |-> provider, mpn |-> mpn, maker |-> maker, package |-> package,
     lifecycle |-> lifecycle, sheet |-> sheet, page |-> "page", number |-> "n"]

MCAnswers ==
    {Answer("lcsc", "x", "a", "p", None, "mirror"),
     Answer("lcsc", "x2", "b", None, "new", None),
     [Answer("lcsc", "x", "a2", "q", None, "site") EXCEPT !.number = "n2"],
     Answer("lcsc", "y", "a", "p", None, None),
     Answer("digikey", "x", "a2", "p2", "new", "site"),
     Answer("digikey", "x2", "b", "q", "old", "page"),
     Answer("digikey", "x", "a", "p", None, "file"),
     Answer("digikey", "y", "a", "p", "new", None),
     [Answer("mouser", "x", None, "q", None, "site2") EXCEPT !.page = None],
     [Answer("mouser", "x", "a", "q", None, "file2") EXCEPT !.page = "shelf"],
     Answer("mouser", "x", "a", "p", "old", "mirror"),
     Answer("mouser", "x", "c", None, "new", None)}

MCRequests ==
    {[mpn |-> "x", maker |-> maker, link |-> link] :
        maker \in {None, "a"}, link \in {None, "manufacturer", "lcsc", "digikey"}}

MCSymbols ==
    {[maker |-> maker, mpn |-> mpn, number |-> number, sheet |-> "mirror"] :
        maker \in {None, "a", "b"}, mpn \in {None, "x2", "y"}, number \in {None, "n"}}
=============================================================================
