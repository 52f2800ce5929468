------------------------------- MODULE MCEngine -------------------------------
(***************************************************************************)
(* EngineConsensus on small logs of commits.                               *)
(***************************************************************************)
EXTENDS EngineInvariants

A(n) == [sender |-> "a", nonce |-> n, tag |-> 0]
B(n) == [sender |-> "b", nonce |-> n, tag |-> 0]

Log(stamps, contents) ==
    [i \in DOMAIN contents |->
        [round |-> i, timestamp_ms |-> stamps[i], transactions |-> contents[i]]]

\* Nonces out of order within and across batches, one transaction committed
\* twice; each batch ends in a later second.
EverySecond ==
    Log(<<500, 1100, 1900, 2300, 2800, 3600, 4000>>,
        << <<A(1)>>, <<A(0)>>, <<A(3)>>, <<A(2), A(0)>>, <<B(0)>>, << >>, <<A(4)>> >>)

\* An ancestor that comes two batches late, and an empty batch.
LateAncestor ==
    Log(<<1000, 2000, 2500, 3000, 3500, 4000>>,
        << <<A(1)>>, <<A(2)>>, << >>, << >>, <<B(0), A(0)>>, << >> >>)

\* The second batch ends in the second in which the first one does.
SameSecond == Log(<<1000, 1300, 1500, 1900>>, << <<A(0)>>, << >>, <<A(1)>>, << >> >>)

LogsOfAllKinds == {EverySecond, LateAncestor, SameSecond}

SubdagsOfAllKinds ==
    Range(EverySecond) \cup Range(LateAncestor) \cup Range(SameSecond)
=============================================================================
