---------------------------- MODULE MCMetadataRun ----------------------------
(* Command lines that meet every branch after the resolution.              *)
EXTENDS MetadataRun

CONSTANTS m1, m2, f1, f2, c1, c2

MCMpns == {m1, m2}
MCMfrs == {f1}
MCIds == {c1}

MCRequests ==
    {r \in AllRequests :
        /\ r.mpn = m1 /\ r.mfr = f1 /\ r.id = None
        /\ \/ r.cadSource = "auto" /\ r.providers = {"lcsc", "digikey"}
           \/ r.cadSource = "digikey" /\ r.providers = {"lcsc"}}
    \cup {r \in AllRequests :
        /\ r.mpn \in {m1, None} /\ r.mfr \in {f1, None} /\ r.id = c1 /\ ~r.offline
        /\ r.cadSource \in {"easyeda", "auto"} /\ r.providers = {"lcsc"}}

Options(artifacts, flags, required) ==
    [artifacts |-> artifacts, full |-> "full" \in flags,
     candidates |-> "candidates" \in flags, locked |-> "locked" \in flags,
     register |-> "register" \in flags, manifest |-> "manifest" \in flags,
     requireCad |-> "cad" \in flags, requireJlcpcb |-> "jlcpcb" \in flags,
     requireProject |-> "project" \in flags, required |-> required]

MCOptions ==
    {Options({}, {"manifest", "jlcpcb"}, {"lcsc"}),
     Options({"symbol"}, {"manifest", "cad"}, {"digikey"}),
     Options({"symbol", "footprint"}, {"register", "manifest", "project"}, {}),
     Options(Artifacts, {"full", "register", "cad"}, {}),
     Options(Artifacts, {"candidates", "register", "manifest"}, {"lcsc", "digikey"}),
     Options({"symbol"}, {"candidates", "locked", "manifest", "cad"}, {})}
=============================================================================
