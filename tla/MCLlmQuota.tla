------------------------------ MODULE MCLlmQuota ------------------------------
(* Small instances of the LLM quotas. *)
EXTENDS LlmQuota, TLC

CONSTANTS c1, c2, c3, r1, r2, ipA

MCRuns == {r1, r2}
MCIPs == {ipA}

\* Two calls of a run that is charged to an address, one of a run that is not.
MCThreeCalls == {c1, c2, c3}
MCRunOfThree == (c1 :> r1) @@ (c2 :> r1) @@ (c3 :> r2)
MCMixedIps == (r1 :> ipA) @@ (r2 :> NoIP)

\* One call each of two runs from one address.
MCTwoCalls == {c1, c2}
MCRunOfTwo == (c1 :> r1) @@ (c2 :> r2)
MCSameIp == (r1 :> ipA) @@ (r2 :> ipA)

MCTight == [s \in Scopes |-> 1]
MCLoose == [s \in Scopes |-> IF s = "ip_day" THEN 1 ELSE 2]

\* One day, and four days in months of one, two and one.
MCFourDays == [d \in 0..3 |-> <<0, 1, 1, 3>>[d + 1]]
MCOneDay == [d \in 0..0 |-> 0]
=============================================================================
