------------------------------ MODULE MCPipeline ------------------------------
(***************************************************************************)
(* PipelineConsensus on small logs of commits.                             *)
(***************************************************************************)
EXTENDS PipelineInvariants

A(n) == [sender |-> "a", nonce |-> n, tag |-> 0]
B(n) == [sender |-> "b", nonce |-> n, tag |-> 0]

\* A competing transaction for nonce n of sender a.
A2(n) == [sender |-> "a", nonce |-> n, tag |-> 1]

Log(stamps, contents) ==
    [i \in DOMAIN contents |->
        [round |-> i, timestamp_ms |-> stamps[i], transactions |-> contents[i]]]

\* Nonces out of order within and across commits, and a first commit without
\* a timestamp.
OutOfOrder == Log(<<0, 900, 1700, 2400>>,
                  << <<A(1)>>, <<B(0), A(0)>>, <<A(3), B(2)>>, <<A(2), B(1)>> >>)

\* One transaction committed twice, two transactions for one nonce, and an
\* ancestor that only comes with a later batch.
Duplicates == Log(<<1000, 1000, 2500, 2500>>,
                  << <<A(0), B(1)>>, <<A(0)>>, <<A(0), A(1)>>, <<A2(1), B(0)>> >>)

\* One commit to a block.
OneByOne == Log(<<1000, 2000, 3000>>, << <<B(1), A(0)>>, <<A(1), B(0)>>, <<A(2)>> >>)

LogsOneByOne == {OneByOne}

\* Three batches of two, and an ancestor two batches late.
SixCommits == Log(<<1000, 1000, 2000, 2000, 3000, 3000>>,
                  << <<A(1)>>, << >>, <<B(1)>>, <<B(0)>>, << >>, <<A(0)>> >>)

LogsOfAllKinds == {OutOfOrder, Duplicates, SixCommits}

SubdagsOf(logs) == UNION {Range(log) : log \in logs}
SubdagsOfAllKinds == SubdagsOf(LogsOfAllKinds)
SubdagsOneByOne == SubdagsOf(LogsOneByOne)
=============================================================================
