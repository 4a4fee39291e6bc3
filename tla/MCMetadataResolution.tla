------------------------ MODULE MCMetadataResolution ------------------------
(* Two names of everything: the requested one and another one.             *)
EXTENDS MetadataResolution

CONSTANTS m1, m2, f1, f2, c1, c2

MCMpns == {m1, m2}
MCMfrs == {f1, f2}
MCIds == {c1, c2}

Identities ==
    {r \in AllRequests : /\ r.mpn \in {m1, None}
                         /\ r.mfr \in {f1, None}
                         /\ r.id \in {c1, None}}

\* EasyEDA CAD with no distributor, one or two, and with or without the
\* catalogue's record.
EasyedaRequests ==
    {r \in Identities : /\ r.cadSource = "easyeda"
                        /\ "digikey" \in r.providers \/ r.providers = {"lcsc"}}

\* Handoffs of a distributor that was or was not selected.
HandoffRequests ==
    {r \in Identities : r.cadSource \in Distributors /\ "lcsc" \in r.providers}

MCRequests == EasyedaRequests \cup HandoffRequests
=============================================================================
