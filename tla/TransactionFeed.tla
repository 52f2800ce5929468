---------------------------- MODULE TransactionFeed ----------------------------
(***************************************************************************)
(* The way of a transaction from the execution client's RPC into the       *)
(* consensus core:                                                         *)
(*                                                                         *)
(*   send_raw_transaction(s)_async  puts it on a broadcast channel;        *)
(*   the subscription task  collects batches and sends them over the       *)
(*                          WebSocket (execution-client/src/rpc/           *)
(*                          transaction.rs);                               *)
(*   transaction_handler    passes them on inside the consensus client     *)
(*                          (consensus-client/src/engine_api/client.rs);   *)
(*   the batching task      submits them to the core (consensus-client/src/*)
(*                          validator.rs).                                 *)
(*                                                                         *)
(* A transaction is the number of its acceptance by the RPC.  The two tasks*)
(* that batch are select! loops over a channel and a timer: a step is one  *)
(* turn of a loop.  A connection that closes is not opened again before the*)
(* consensus client restarts, and the subscription task of a closed        *)
(* connection keeps running, with nobody to send to.                       *)
(***************************************************************************)
EXTENDS Integers, Sequences, FiniteSets, SequencesExt

CONSTANTS
    CallSizes,           \* how many transactions one call may carry
    Capacity,            \* calls the broadcast channel holds
    BatchSizeThreshold,  \* BATCH_SIZE_THRESHOLD
    MaxInBlock,          \* max_num_transactions_in_block of the core
    MaxTxs,              \* bound: accepted transactions
    MaxDisconnects,      \* bound: closed connections
    MaxRejected          \* bound: batches the core refuses

ASSUME FeedConstants ==
    /\ CallSizes \subseteq Nat /\ CallSizes # {}
    /\ {Capacity, BatchSizeThreshold, MaxInBlock} \subseteq Nat \ {0}
    /\ {MaxTxs, MaxDisconnects, MaxRejected} \subseteq Nat

VARIABLES
    accepted,       \* transactions accepted by the RPC: 1..accepted
    largest_call,   \* history: how many the largest call carried
    subscribed,     \* a subscription task was ever started
    connected,      \* its WebSocket connection is open
    channel,        \* calls the task has yet to receive
    lagged,         \* calls were overwritten before it received them
    receiving,      \* the recv branch of its select! is enabled
    buffer,         \* its batch buffer
    wire,           \* batches sent and not read by the consensus client
    payloads,       \* the channel to the batching task
    pool,           \* the batching task's buffer
    batches,        \* history: every batch given to the core
    submitted,      \* history: transactions the core took, in order
    lost,           \* history: transactions that are gone
    disconnects, rejected

rpcVars == <<accepted, largest_call, subscribed, channel, lagged>>
taskVars == <<receiving, buffer>>
clientVars == <<payloads, pool, batches, submitted, rejected>>

vars == <<rpcVars, taskVars, connected, wire, clientVars, lost, disconnects>>

InBatches(bs) == UNION {Range(bs[i]) : i \in DOMAIN bs}

Init ==
    /\ accepted = 0 /\ largest_call = 0 /\ subscribed = FALSE /\ connected = FALSE
    /\ channel = << >> /\ lagged = FALSE /\ receiving = TRUE
    /\ buffer = << >> /\ wire = << >> /\ payloads = << >> /\ pool = << >>
    /\ batches = << >> /\ submitted = << >> /\ lost = {}
    /\ disconnects = 0 /\ rejected = 0

-----------------------------------------------------------------------------
(* The RPC.  While no subscription was ever started the send fails and the *)
(* handler panics: the call changes nothing.                               *)

\* What an overrun leaves on the channel: the newest calls.
Overrun(calls) == Tail(calls)

send_raw_transactions_async ==
    \E n \in CallSizes :
        LET call  == [i \in 1..n |-> accepted + i]
            calls == Append(channel, call)
        IN  /\ subscribed
            /\ accepted + n <= MaxTxs
            /\ accepted' = accepted + n
            /\ largest_call' = IF n > largest_call THEN n ELSE largest_call
            /\ IF Len(calls) <= Capacity
               THEN channel' = calls /\ UNCHANGED <<lagged, lost>>
               ELSE /\ channel' = Overrun(calls)
                    /\ lagged' = TRUE
                    /\ lost' = lost \cup Range(Head(calls))
            /\ UNCHANGED <<subscribed, taskVars, connected, wire, clientVars,
                           disconnects>>

\* The consensus client starts, or starts again, and subscribes: what it held,
\* and what only an earlier subscription held, is gone.
subscribe_raw_transactions ==
    /\ ~connected
    /\ subscribed' = TRUE /\ connected' = TRUE
    /\ channel' = << >> /\ lagged' = FALSE /\ receiving' = TRUE /\ buffer' = << >>
    /\ wire' = << >> /\ payloads' = << >> /\ pool' = << >>
    /\ lost' = lost \cup InBatches(channel) \cup Range(buffer) \cup InBatches(wire)
                    \cup InBatches(payloads) \cup Range(pool)
    /\ UNCHANGED <<accepted, largest_call, batches, submitted, rejected, disconnects>>

\* The connection closes; a part of what was sent may still be read.
Disconnect ==
    /\ connected /\ disconnects < MaxDisconnects
    /\ disconnects' = disconnects + 1
    /\ connected' = FALSE
    /\ \E n \in 0..Len(wire) :
          /\ wire' = SubSeq(wire, 1, n)
          /\ lost' = lost \cup InBatches(SubSeq(wire, n + 1, Len(wire)))
    /\ UNCHANGED <<rpcVars, taskVars, clientVars>>

-----------------------------------------------------------------------------
(* The subscription task.                                                  *)

\* sink.send: its error is ignored, and the batch with it.
SendBatch(txs) ==
    IF connected
    THEN wire' = Append(wire, txs) /\ UNCHANGED lost
    ELSE lost' = lost \cup Range(txs) /\ UNCHANGED wire

\* Faulty: what is received goes in front.
Prepended(buf, txs) == txs \o buf

\* What both tasks do with the transactions they receive.
Extended(buf, txs) == buf \o txs

BatchReady(txs) == Len(txs) >= BatchSizeThreshold

ReceiveCall ==
    LET txs == Extended(buffer, Head(channel))
    IN  /\ receiving /\ ~lagged /\ channel # << >>
        /\ channel' = Tail(channel)
        /\ IF BatchReady(txs)
           THEN buffer' = << >> /\ SendBatch(txs)
           ELSE buffer' = txs /\ UNCHANGED <<wire, lost>>
        /\ UNCHANGED <<accepted, largest_call, subscribed, lagged, receiving, connected,
                       clientVars, disconnects>>

\* Faulty: the task receives nothing any more once it lagged.
LagEndsTask ==
    /\ receiving /\ lagged
    /\ receiving' = FALSE
    /\ UNCHANGED <<rpcVars, buffer, connected, wire, clientVars, lost, disconnects>>

\* recv answers Lagged, which the pattern Ok(raw_txs) refuses: the branch is
\* disabled until the select! ends with the timer.
ReceiveLagged ==
    /\ receiving /\ lagged
    /\ lagged' = FALSE /\ receiving' = FALSE
    /\ UNCHANGED <<accepted, largest_call, subscribed, channel, buffer, connected, wire,
                   clientVars, lost, disconnects>>

\* The timer's branch sends what there is.
FlushBuffer ==
    /\ subscribed
    /\ IF buffer # << >>
       THEN buffer' = << >> /\ SendBatch(buffer)
       ELSE UNCHANGED <<buffer, wire, lost>>
    /\ receiving' = TRUE
    /\ UNCHANGED <<rpcVars, connected, clientVars, disconnects>>

-----------------------------------------------------------------------------
(* The consensus client.                                                   *)

transaction_handler ==
    /\ wire # << >>
    /\ wire' = Tail(wire)
    /\ payloads' = Append(payloads, Head(wire))
    /\ UNCHANGED <<rpcVars, taskVars, connected, pool, batches, submitted, rejected,
                   lost, disconnects>>

\* transaction_client.submit: the core refuses a batch above its limit, and may
\* refuse others; the error is logged, and the batch is gone.
Submit(batch) ==
    /\ batches' = Append(batches, batch)
    /\ \/ /\ Len(batch) <= MaxInBlock
          /\ submitted' = submitted \o batch
          /\ UNCHANGED <<rejected, lost>>
       \/ /\ Len(batch) > MaxInBlock \/ rejected < MaxRejected
          /\ lost' = lost \cup Range(batch)
          /\ rejected' = IF Len(batch) > MaxInBlock THEN rejected ELSE rejected + 1
          /\ UNCHANGED submitted

\* Faulty: the whole buffer is submitted.
DrainedAll(txs) == txs

\* The batch of the size threshold.
Drained(txs) == SubSeq(txs, 1, MaxInBlock)

\* What stays behind it.
Kept(txs) == SubSeq(txs, MaxInBlock + 1, Len(txs))

ReceivePayload ==
    LET txs == Extended(pool, Head(payloads))
    IN  /\ payloads # << >>
        /\ payloads' = Tail(payloads)
        /\ IF Len(txs) >= MaxInBlock
           THEN pool' = Kept(txs) /\ Submit(Drained(txs))
           ELSE pool' = txs /\ UNCHANGED <<batches, submitted, rejected, lost>>
        /\ UNCHANGED <<rpcVars, taskVars, connected, wire, disconnects>>

\* The timer's branch submits the whole buffer.
SubmitOnTimer ==
    /\ pool # << >>
    /\ pool' = << >>
    /\ Submit(pool)
    /\ UNCHANGED <<rpcVars, taskVars, connected, wire, payloads, disconnects>>

-----------------------------------------------------------------------------
SubscriptionTask == ReceiveCall \/ ReceiveLagged
BatchingTask == ReceivePayload \/ SubmitOnTimer

Next ==
    \/ send_raw_transactions_async \/ subscribe_raw_transactions \/ Disconnect
    \/ SubscriptionTask \/ FlushBuffer \/ transaction_handler \/ BatchingTask

Spec == Init /\ [][Next]_vars

\* The tasks run, and each timer ticks: a select! picks among ready branches at
\* random, so that a busy channel does not keep the timer's branch out.
FairSpec ==
    /\ Spec
    /\ WF_vars(SubscriptionTask) /\ WF_vars(FlushBuffer)
    /\ WF_vars(transaction_handler) /\ WF_vars(BatchingTask)

-----------------------------------------------------------------------------
\* Every buffer holds transactions, and the subscription's never reaches the
\* threshold between two turns of its loop.
FeedTypeOK ==
    /\ accepted \in Nat /\ largest_call \in Nat
    /\ channel \in Seq(Seq(Nat)) /\ wire \in Seq(Seq(Nat))
    /\ payloads \in Seq(Seq(Nat)) /\ batches \in Seq(Seq(Nat))
    /\ pool \in Seq(Nat) /\ submitted \in Seq(Nat)
    /\ buffer \in Seq(Nat) /\ Len(buffer) < BatchSizeThreshold

\* Where a transaction may be, the place nearest to the core first.
Stages == <<submitted, pool>> \o payloads \o wire \o <<buffer>> \o channel

\* Every accepted transaction is on its way, or lost, through batches cut twice,
\* overruns, closed connections and refusals.
Conserved ==
    /\ InBatches(Stages) \cup lost = 1..accepted
    /\ InBatches(Stages) \cap lost = {}

Increasing(txs) == \A i, j \in DOMAIN txs : i < j => txs[i] < txs[j]

Before(S, T) == \A x \in S, y \in T : x < y

InOrder(stages) ==
    /\ \A i \in DOMAIN stages : Increasing(stages[i])
    /\ \A i, j \in DOMAIN stages : i < j => Before(Range(stages[i]), Range(stages[j]))

\* The core is given the transactions in the order of their acceptance, and none
\* twice: no batch overtakes another, and no buffer reorders.
AcceptanceOrder == InOrder(Stages)

\* Whatever the four tasks do, what is on its way is all that was not lost, in order.
KeptInOrder == FeedTypeOK /\ Conserved /\ AcceptanceOrder

\* Every call was small enough for the core's limit.
CallsFit == largest_call + BatchSizeThreshold <= MaxInBlock + 1

\* "Split buffer to send only max_transactions_in_block_count transactions"
\* (validator.rs:147): no batch given to the core is larger.
BatchWithinLimit == \A i \in DOMAIN batches : Len(batches[i]) <= MaxInBlock

\* Until the first large call no batch is one the core must refuse, although the
\* timer submits the whole buffer and the threshold's branch submits only once.
SmallCallsFit == CallsFit => BatchWithinLimit

\* No transaction is stuck: each accepted one reaches the core or is lost, also
\* when nothing follows it, after an overrun, and without a connection.
EveryTxSettles ==
    \A t \in 1..MaxTxs : (t <= accepted) ~> (t \in Range(submitted) \cup lost)
=============================================================================
