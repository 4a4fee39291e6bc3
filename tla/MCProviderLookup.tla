--------------------------- MODULE MCProviderLookup ---------------------------
(* Two offers of the wanted part, another maker's, another part, and items  *)
(* without a name or a maker; pages of two, of which two are read.          *)
EXTENDS ProviderLookup

CONSTANTS m1, m2, f1, f2

Item(m, f, n) == [mpn |-> m, mfr |-> f, number |-> n]
MCItems == {Item(m1, f1, 1), Item(m1, f1, 2), Item(m1, f2, 3), Item(m2, f1, 4),
            Item(None, f1, 1), Item(m1, None, 5), Item(m1, f1, None)}

Other == Item(m2, f1, 4)
MCCatalogues == BoundedSeq(MCItems, 1)
                \cup {<<Item(m1, f1, 2), i>> : i \in MCItems}
                \cup {<<Other, Other, i>> : i \in MCItems}
                \cup {<<Other, i, Other, j>> : i \in {Item(m1, f1, 1), Item(m1, None, 5)}, j \in MCItems}
                \cup {<<Item(m1, f1, 1), Other, Other, Other, i>> : i \in MCItems}

Ask(o, f) == [op |-> o, mpn |-> m1, mfr |-> f, number |-> 1]
MCRequests == {Ask("exact", f1), Ask("exact", None), Ask("id", None),
               Ask("media", None), Ask("page", None)}
=============================================================================
