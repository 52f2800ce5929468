------------------------------- MODULE MCBeacon -------------------------------
(***************************************************************************)
(* BeaconState with a few sub-DAGs, votes and reveals.                     *)
(***************************************************************************)
EXTENDS BeaconState

CONSTANTS t1, t2, d1, d2, p1

SubDag(round, index, stamp, blocks) ==
    [round |-> round, index |-> index, timestamp_ms |-> stamp, blocks |-> blocks]

\* Two of the same length that differ in the odd last transaction, an empty one, and a
\* leader's round below an earlier one's.
MCSubdags == {SubDag(1, 1, 1500, << <<t1, t2>>, <<t1>> >>),
              SubDag(4, 2, 2000, << <<t1>>, <<t2, t2>> >>),
              SubDag(2, 3, 2100, << << >> >>)}

Body(reveal, data, payload) ==
    [randao_reveal |-> reveal, eth1_data |-> data, execution_payload |-> payload]

MCBodies == {Body({<<0, 0>>}, d1, None), Body({<<0, 0>>, <<1, 1>>}, d1, [block_hash |-> p1]), Body({<<1, 0>>}, d2, None)}
MCEth1Datas == {d1, d2}

\* The Merkle root commits to the transactions and their order, among lists of one length.
\* (Lists of different lengths can share one: an odd last node is doubled.)
ASSUME RootsTellListsApart ==
    \A len \in 0..5 : \A list, other \in [1..len -> {t1, t2}] :
        LET Root(txs) ==
                get_execution_payload_input_v2(SubDag(1, 1, 0, <<txs>>)).state_root
        IN  Root(list) = Root(other) => list = other
=============================================================================
