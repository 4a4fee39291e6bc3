-------------------------- MODULE EvidenceRegister --------------------------
(***************************************************************************)
(* What a cache entry promises (metadata/cache.py): one register that is   *)
(* empty, untrusted, or holds the evidence pair of one generation.  A read *)
(* takes time; an offline read reports a status that the entry really had  *)
(* at some moment of that read, and an online read returns a generation    *)
(* only if the entry held it meanwhile and it has not expired.             *)
(***************************************************************************)
CONSTANTS Readers, Gens

VARIABLES
    entry,    \* status of the entry
    expired,  \* generations older than the freshness limit
    offline,  \* offline[r]: the mode of the last read of r
    seen,     \* seen[r]: statuses of the entry since r began to read
    answer    \* answer[r]: "pending" while r reads, then its outcome

rvars == <<entry, expired, offline, seen, answer>>

Unusable == {"empty", "untrusted"}
Status == Unusable \cup Gens

Init ==
    /\ entry \in Status
    /\ expired = {}
    /\ offline \in [Readers -> BOOLEAN]
    /\ seen = [r \in Readers |-> {}]
    /\ answer = [r \in Readers |-> "none"]

Change ==
    /\ entry' \in Status
    /\ seen' = [r \in Readers |-> IF answer[r] = "pending"
                                  THEN seen[r] \cup {entry'} ELSE seen[r]]
    /\ UNCHANGED <<expired, offline, answer>>

Expire ==
    /\ expired \subseteq expired' /\ expired' \subseteq Gens
    /\ UNCHANGED <<entry, offline, seen, answer>>

Begin(r) ==
    /\ answer' = [answer EXCEPT ![r] = "pending"]
    /\ \E mode \in BOOLEAN : offline' = [offline EXCEPT ![r] = mode]
    /\ seen' = [seen EXCEPT ![r] = {entry}]
    /\ UNCHANGED <<entry, expired>>

Outcomes(r) ==
    {"io_error"} \cup
    IF offline[r]
    THEN seen[r]
    ELSE ((seen[r] \cap Gens) \ expired)
         \cup IF seen[r] \cap (Unusable \cup expired) # {} THEN {"none"} ELSE {}

Reply(r) ==
    /\ answer[r] = "pending"
    /\ \E a \in Outcomes(r) : answer' = [answer EXCEPT ![r] = a]
    /\ seen' = [seen EXCEPT ![r] = {}]
    /\ UNCHANGED <<entry, expired, offline>>

Next == Change \/ Expire \/ \E r \in Readers : Begin(r) \/ Reply(r)

Spec == Init /\ [][Next]_rvars
=============================================================================
