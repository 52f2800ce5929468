------------------------- MODULE TransactionFeed_proofs -------------------------
(***************************************************************************)
(* Proofs about TransactionFeed for every threshold, limit, channel        *)
(* capacity and call size: types, that no batch is above the core's limit  *)
(* before the first large call, that every accepted transaction is on its  *)
(* way or lost, that those on their way are in the order of their          *)
(* acceptance, and that some task can always bring them further.           *)
(***************************************************************************)
EXTENDS TransactionFeed, SequenceTheorems, TLAPS

\* The calls on the channel.
Calls == {txs \in Seq(Nat) : Len(txs) <= largest_call}

\* The batches that are sent: within the core's limit, if the calls are small.
Sendable == {txs \in Seq(Nat) : CallsFit => Len(txs) <= MaxInBlock}

\* The inductive invariant.  A batch sent is a buffer below the threshold and
\* one call; what stays in the pool is less than one batch.
FeedInv ==
    /\ accepted \in Nat /\ largest_call \in Nat
    /\ channel \in Seq(Calls)
    /\ buffer \in Seq(Nat) /\ Len(buffer) < BatchSizeThreshold
    /\ wire \in Seq(Sendable) /\ payloads \in Seq(Sendable)
    /\ pool \in Seq(Nat) /\ (CallsFit => Len(pool) < MaxInBlock)
    /\ batches \in Seq(Sendable)
    /\ submitted \in Seq(Nat)

\* A step that is no call leaves what may be on the way as it is.
LEMMA SameCalls ==
    ASSUME UNCHANGED largest_call
    PROVE  Calls' = Calls /\ Sendable' = Sendable /\ CallsFit' = CallsFit
BY DEF Calls, Sendable, CallsFit

\* A larger call allows more.
LEMMA MoreCalls ==
    ASSUME NEW n \in Nat, FeedInv, largest_call' = IF n > largest_call THEN n ELSE largest_call
    PROVE  /\ largest_call' \in Nat /\ n <= largest_call'
           /\ CallsFit' => CallsFit
           /\ Calls \subseteq Calls' /\ Sendable \subseteq Sendable'
<1>1. largest_call' \in Nat /\ n <= largest_call' /\ largest_call <= largest_call'
  BY DEF FeedInv
<1>2. CallsFit' => CallsFit
  BY <1>1, FeedConstants DEF CallsFit, FeedInv
<1>3. Calls \subseteq Calls'
  <2> SUFFICES ASSUME NEW txs \in Seq(Nat), Len(txs) <= largest_call
               PROVE  Len(txs) <= largest_call'
    BY DEF Calls
  <2>1. Len(txs) \in Nat
    BY LenProperties
  <2> QED BY <1>1, <2>1 DEF FeedInv
<1>4. Sendable \subseteq Sendable'
  BY <1>2 DEF Sendable
<1> QED BY <1>1, <1>2, <1>3, <1>4

\* A call's transactions follow the accepted ones.
LEMMA NewCall ==
    ASSUME NEW n \in CallSizes, accepted \in Nat
    PROVE  /\ [i \in 1..n |-> accepted + i] \in Seq(Nat)
           /\ Len([i \in 1..n |-> accepted + i]) = n
<1>1. n \in Nat
  BY FeedConstants
<1>2. [i \in 1..n |-> accepted + i] \in Seq(Nat)
  <2> DEFINE e(i) == accepted + i
  <2>1. \A i \in 1..n : e(i) \in Nat
    OBVIOUS
  <2> QED BY <1>1, <2>1, SMT
<1>3. Len([i \in 1..n |-> accepted + i]) = n
  BY <1>1
<1> QED BY <1>2, <1>3

\* What the subscription task has after a receive can be sent.
LEMMA ReceivedIsSendable ==
    ASSUME FeedInv, channel # << >>
    PROVE  /\ Extended(buffer, Head(channel)) \in Sendable
           /\ Tail(channel) \in Seq(Calls)
<1>1. Head(channel) \in Calls /\ Tail(channel) \in Seq(Calls)
  BY HeadTailProperties DEF FeedInv
<1>2. Head(channel) \in Seq(Nat) /\ Len(Head(channel)) <= largest_call
  BY <1>1 DEF Calls
<1>3. /\ buffer \o Head(channel) \in Seq(Nat)
      /\ Len(buffer \o Head(channel)) = Len(buffer) + Len(Head(channel))
  BY <1>2, ConcatProperties DEF FeedInv
<1>4. CallsFit => Len(buffer) + Len(Head(channel)) <= MaxInBlock
  <2> SUFFICES ASSUME CallsFit
               PROVE  Len(buffer) + Len(Head(channel)) <= MaxInBlock
    OBVIOUS
  <2>1. Len(Head(channel)) + BatchSizeThreshold <= MaxInBlock + 1
    <3>1. Len(Head(channel)) \in Nat /\ largest_call \in Nat
      BY <1>2, LenProperties DEF FeedInv
    <3> QED BY <1>2, <3>1, FeedConstants DEF CallsFit
  <2>2. /\ Len(buffer) \in Nat /\ Len(buffer) < BatchSizeThreshold
        /\ Len(Head(channel)) \in Nat
    BY <1>2, LenProperties DEF FeedInv
  <2> QED BY <2>1, <2>2, FeedConstants
<1> QED BY <1>1, <1>3, <1>4 DEF Sendable, Extended

\* A batch below the threshold can be sent by the timer.
LEMMA BufferIsSendable ==
    ASSUME FeedInv, CallsFit
    PROVE  Len(buffer) <= MaxInBlock
<1>1. largest_call + BatchSizeThreshold <= MaxInBlock + 1
  BY DEF CallsFit
<1>2. largest_call \in Nat /\ Len(buffer) \in Nat /\ Len(buffer) < BatchSizeThreshold
  BY FeedConstants, LenProperties DEF FeedInv
<1> QED BY <1>1, <1>2, FeedConstants

\* The pieces of a full pool: a batch that can be sent, and less than one more.
LEMMA PoolIsCut ==
    ASSUME FeedInv, payloads # << >>
    PROVE  /\ Tail(payloads) \in Seq(Sendable)
           /\ Extended(pool, Head(payloads)) \in Seq(Nat)
           /\ Len(Extended(pool, Head(payloads))) >= MaxInBlock
                 => /\ Drained(Extended(pool, Head(payloads))) \in Sendable
                    /\ Kept(Extended(pool, Head(payloads))) \in Seq(Nat)
                    /\ CallsFit => Len(Kept(Extended(pool, Head(payloads)))) < MaxInBlock
<1> DEFINE batch == Head(payloads)
           txs == pool \o batch
<1>1. batch \in Sendable /\ Tail(payloads) \in Seq(Sendable)
  BY HeadTailProperties DEF FeedInv
<1>2. batch \in Seq(Nat) /\ Len(batch) \in Nat /\ Len(pool) \in Nat
  BY <1>1, LenProperties DEF Sendable, FeedInv
<1>3. txs \in Seq(Nat) /\ Len(txs) = Len(pool) + Len(batch)
  BY <1>2, ConcatProperties DEF FeedInv
<1>4. MaxInBlock \in Nat \ {0}
  BY FeedConstants
<1>5. ASSUME Len(txs) >= MaxInBlock
      PROVE  /\ Drained(txs) \in Seq(Nat) /\ Len(Drained(txs)) = MaxInBlock
             /\ Kept(txs) \in Seq(Nat) /\ Len(Kept(txs)) = Len(txs) - MaxInBlock
  <2>1. \A i \in 1..Len(txs) : txs[i] \in Nat
    BY <1>3, ElementOfSeq
  <2>2. /\ SubSeq(txs, 1, MaxInBlock) \in Seq(Nat)
        /\ Len(SubSeq(txs, 1, MaxInBlock)) = MaxInBlock
    BY <1>3, <1>4, <1>5, <2>1, SubSeqProperties
  <2>3. /\ SubSeq(txs, MaxInBlock + 1, Len(txs)) \in Seq(Nat)
        /\ Len(SubSeq(txs, MaxInBlock + 1, Len(txs))) = Len(txs) - MaxInBlock
    <3>1. Len(txs) \in Nat
      BY <1>2, <1>3
    <3>2. \A i \in MaxInBlock + 1 .. Len(txs) : txs[i] \in Nat
      BY <2>1, <1>4, <3>1
    <3> QED BY <1>4, <1>5, <3>1, <3>2, SubSeqProperties
  <2> QED BY <2>2, <2>3 DEF Drained, Kept
<1>6. CallsFit => Len(txs) - MaxInBlock < MaxInBlock
  <2>1. CallsFit => Len(pool) < MaxInBlock /\ Len(batch) <= MaxInBlock
    BY <1>1 DEF FeedInv, Sendable
  <2> QED BY <2>1, <1>2, <1>3, <1>4
<1> QED BY <1>1, <1>3, <1>4, <1>5, <1>6 DEF Sendable, Extended

\* A batch given to the core is recorded, whatever the core answers.
LEMMA Recorded ==
    ASSUME FeedInv, NEW batch \in Sendable, Submit(batch)
    PROVE  batches' \in Seq(Sendable) /\ submitted' \in Seq(Nat)
<1>1. submitted \o batch \in Seq(Nat)
  BY ConcatProperties DEF FeedInv, Sendable
<1> QED BY <1>1, AppendProperties DEF FeedInv, Submit

\* A batch sent is on the wire, or gone.
LEMMA Sent ==
    ASSUME FeedInv, NEW txs \in Sendable, SendBatch(txs)
    PROVE  wire' \in Seq(Sendable)
<1>1. wire \in Seq(Sendable)
  BY DEF FeedInv
<1>2. CASE connected
  BY <1>1, <1>2, AppendProperties DEF SendBatch
<1>3. CASE ~connected
  BY <1>1, <1>3 DEF SendBatch
<1> QED BY <1>2, <1>3

-----------------------------------------------------------------------------
\* Before any call.
LEMMA FeedInit ==
    ASSUME Init
    PROVE  FeedInv
BY EmptySeq, FeedConstants DEF Init, FeedInv

\* A call lands on the channel, and may push the oldest one off it.
LEMMA CallStep ==
    ASSUME FeedInv, send_raw_transactions_async
    PROVE  FeedInv'
<1>1. PICK n \in CallSizes :
         /\ accepted' = accepted + n
         /\ largest_call' = IF n > largest_call THEN n ELSE largest_call
         /\ channel' \in {Append(channel, [i \in 1..n |-> accepted + i]),
                          Tail(Append(channel, [i \in 1..n |-> accepted + i]))}
         /\ UNCHANGED <<taskVars, wire, clientVars>>
  BY DEF send_raw_transactions_async, Overrun
<1>2. /\ largest_call' \in Nat /\ n <= largest_call'
      /\ CallsFit' => CallsFit
      /\ Calls \subseteq Calls' /\ Sendable \subseteq Sendable'
  BY <1>1, MoreCalls, FeedConstants
<1>3. Append(channel, [i \in 1..n |-> accepted + i]) \in Seq(Calls')
      /\ Append(channel, [i \in 1..n |-> accepted + i]) # << >>
  <2> DEFINE call == [i \in 1..n |-> accepted + i]
  <2>1. call \in Calls'
    BY <1>2, NewCall DEF FeedInv, Calls
  <2>2. channel \in Seq(Calls')
    BY <1>2, SeqMonotonic DEF FeedInv
  <2> HIDE DEF call
  <2> QED BY <2>1, <2>2, AppendProperties DEF call
<1>4. channel' \in Seq(Calls')
  BY <1>1, <1>3, HeadTailProperties
<1>5. accepted' \in Nat
  BY <1>1, FeedConstants DEF FeedInv
<1>6. /\ wire' \in Seq(Sendable') /\ payloads' \in Seq(Sendable')
      /\ batches' \in Seq(Sendable')
  <2>1. /\ wire \in Seq(Sendable') /\ payloads \in Seq(Sendable')
        /\ batches \in Seq(Sendable')
    BY <1>2, SeqMonotonic DEF FeedInv
  <2> QED BY <1>1, <2>1 DEF taskVars, clientVars
<1> QED BY <1>1, <1>2, <1>4, <1>5, <1>6 DEF FeedInv, taskVars, clientVars

\* The steps of the connection only empty buffers or cut the wire.
LEMMA ConnectionStep ==
    ASSUME FeedInv, subscribe_raw_transactions \/ Disconnect
    PROVE  FeedInv'
<1>1. CASE subscribe_raw_transactions
  BY <1>1, EmptySeq, FeedConstants, SameCalls DEF subscribe_raw_transactions, FeedInv
<1>2. CASE Disconnect
  <2>1. PICK n \in 0..Len(wire) : wire' = SubSeq(wire, 1, n)
    BY <1>2 DEF Disconnect
  <2>2. Len(wire) \in Nat /\ \A i \in 1..Len(wire) : wire[i] \in Sendable
    BY LenProperties, ElementOfSeq DEF FeedInv
  <2>3. wire' \in Seq(Sendable)
    BY <2>1, <2>2, SubSeqProperties
  <2> QED BY <1>2, <2>3, SameCalls DEF Disconnect, FeedInv, rpcVars, taskVars, clientVars
<1> QED BY <1>1, <1>2

\* A batch leaves the subscription's buffer by size or by time.
LEMMA SubscriptionStep ==
    ASSUME FeedInv, SubscriptionTask \/ FlushBuffer
    PROVE  FeedInv'
<1>1. CASE ReceiveCall
  <2> DEFINE txs == Extended(buffer, Head(channel))
  <2>1. channel # << >> /\ channel' = Tail(channel)
        /\ UNCHANGED <<accepted, largest_call, clientVars>>
    BY <1>1 DEF ReceiveCall
  <2>2. txs \in Sendable /\ channel' \in Seq(Calls)
    BY <2>1, ReceivedIsSendable
  <2>3. CASE BatchReady(txs)
    <3>1. buffer' = << >> /\ SendBatch(txs)
      BY <1>1, <2>3 DEF ReceiveCall
    <3>2. wire' \in Seq(Sendable)
      BY <2>2, <3>1, Sent
    <3> QED BY <2>1, <2>2, <3>1, <3>2, EmptySeq, FeedConstants, SameCalls DEF FeedInv, clientVars
  <2>4. CASE ~BatchReady(txs)
    <3>1. buffer' = txs /\ wire' = wire
      BY <1>1, <2>4 DEF ReceiveCall
    <3>2. txs \in Seq(Nat) /\ Len(txs) < BatchSizeThreshold
      BY <2>2, <2>4, LenProperties, FeedConstants DEF Sendable, BatchReady
    <3> QED BY <2>1, <2>2, <3>1, <3>2, SameCalls DEF FeedInv, clientVars
  <2> QED BY <2>3, <2>4
<1>2. CASE ReceiveLagged
  BY <1>2, SameCalls DEF ReceiveLagged, FeedInv, clientVars
<1>3. CASE FlushBuffer
  <2>1. UNCHANGED <<accepted, largest_call, channel, clientVars>>
    BY <1>3 DEF FlushBuffer, rpcVars
  <2>2. CASE buffer # << >>
    <3>1. buffer' = << >> /\ SendBatch(buffer)
      BY <1>3, <2>2 DEF FlushBuffer
    <3>2. buffer \in Sendable
      BY BufferIsSendable DEF FeedInv, Sendable
    <3>3. wire' \in Seq(Sendable)
      BY <3>1, <3>2, Sent
    <3> QED BY <2>1, <3>1, <3>3, EmptySeq, FeedConstants, SameCalls DEF FeedInv, clientVars
  <2>3. CASE buffer = << >>
    BY <1>3, <2>1, <2>3, SameCalls DEF FlushBuffer, FeedInv, clientVars
  <2> QED BY <2>2, <2>3
<1> QED BY <1>1, <1>2, <1>3 DEF SubscriptionTask

\* The hand-over inside the consensus client.
LEMMA HandlerStep ==
    ASSUME FeedInv, transaction_handler
    PROVE  FeedInv'
<1>1. Head(wire) \in Sendable /\ wire' \in Seq(Sendable)
  BY HeadTailProperties DEF transaction_handler, FeedInv
<1>2. payloads' \in Seq(Sendable)
  BY <1>1, AppendProperties DEF transaction_handler, FeedInv
<1> QED BY <1>1, <1>2, SameCalls DEF transaction_handler, FeedInv, rpcVars, taskVars

\* A batch leaves the pool by size or by time.
LEMMA BatchingStep ==
    ASSUME FeedInv, BatchingTask
    PROVE  FeedInv'
<1>1. CASE ReceivePayload
  <2> DEFINE txs == Extended(pool, Head(payloads))
  <2>1. payloads # << >> /\ payloads' = Tail(payloads)
        /\ UNCHANGED <<rpcVars, taskVars, wire>>
    BY <1>1 DEF ReceivePayload
  <2>2. payloads' \in Seq(Sendable) /\ txs \in Seq(Nat)
    BY <2>1, PoolIsCut
  <2>3. CASE Len(txs) >= MaxInBlock
    <3>1. pool' = Kept(txs) /\ Submit(Drained(txs))
      BY <1>1, <2>3 DEF ReceivePayload
    <3>2. /\ Drained(txs) \in Sendable /\ Kept(txs) \in Seq(Nat)
          /\ CallsFit => Len(Kept(txs)) < MaxInBlock
      BY <2>1, <2>3, PoolIsCut
    <3>3. batches' \in Seq(Sendable) /\ submitted' \in Seq(Nat)
      BY <3>1, <3>2, Recorded
    <3> QED BY <2>1, <2>2, <3>1, <3>2, <3>3, SameCalls DEF FeedInv, rpcVars, taskVars
  <2>4. CASE ~(Len(txs) >= MaxInBlock)
    <3>1. pool' = txs /\ UNCHANGED <<batches, submitted>>
      BY <1>1, <2>4 DEF ReceivePayload
    <3>2. Len(txs) < MaxInBlock
      BY <2>2, <2>4, LenProperties, FeedConstants
    <3> QED BY <2>1, <2>2, <3>1, <3>2, SameCalls DEF FeedInv, rpcVars, taskVars
  <2> QED BY <2>3, <2>4
<1>2. CASE SubmitOnTimer
  <2>1. pool' = << >> /\ Submit(pool) /\ UNCHANGED <<rpcVars, taskVars, wire, payloads>>
    BY <1>2 DEF SubmitOnTimer
  <2>2. pool \in Sendable
    <3>1. CallsFit => Len(pool) <= MaxInBlock
      BY LenProperties, FeedConstants DEF FeedInv
    <3> QED BY <3>1 DEF FeedInv, Sendable
  <2>3. batches' \in Seq(Sendable) /\ submitted' \in Seq(Nat)
    BY <2>1, <2>2, Recorded
  <2> QED BY <2>1, <2>3, EmptySeq, FeedConstants, SameCalls DEF FeedInv, rpcVars, taskVars
<1> QED BY <1>1, <1>2 DEF BatchingTask

\* Every step keeps the invariant.
LEMMA FeedStep ==
    ASSUME FeedInv, [Next]_vars
    PROVE  FeedInv'
<1>1. CASE UNCHANGED vars
  BY <1>1, SameCalls DEF vars, rpcVars, taskVars, clientVars, FeedInv
<1> QED BY <1>1, CallStep, ConnectionStep, SubscriptionStep, HandlerStep, BatchingStep
        DEF Next

\* The invariant gives both properties.
LEMMA FeedInvImplies ==
    ASSUME FeedInv
    PROVE  FeedTypeOK /\ SmallCallsFit
<1>1. channel \in Seq(Seq(Nat))
  BY SeqMonotonic DEF FeedInv, Calls
<1>2. /\ wire \in Seq(Seq(Nat)) /\ payloads \in Seq(Seq(Nat))
      /\ batches \in Seq(Seq(Nat))
  <2>1. \A x \in Sendable : x \in Seq(Nat)
    BY DEF Sendable
  <2> QED BY <2>1, SeqMonotonic DEF FeedInv
<1>3. SmallCallsFit
  <2>1. \A i \in DOMAIN batches : batches[i] \in Sendable
    BY LenProperties, ElementOfSeq DEF FeedInv
  <2> QED BY <2>1 DEF SmallCallsFit, BatchWithinLimit, Sendable
<1> QED BY <1>1, <1>2, <1>3 DEF FeedInv, FeedTypeOK

-----------------------------------------------------------------------------
\* Every buffer on the way holds transactions, and the subscription's buffer
\* stays below the threshold (transaction.rs:348-379).
THEOREM FeedTypeCorrect == Spec => []FeedTypeOK
<1>1. Init => FeedInv
  BY FeedInit
<1>2. FeedInv /\ [Next]_vars => FeedInv'
  BY FeedStep
<1>3. FeedInv => FeedTypeOK
  BY FeedInvImplies
<1> QED BY <1>1, <1>2, <1>3, PTL DEF Spec

\* If a call and a full subscription buffer together stay within the core's
\* limit, no batch the validator submits exceeds it (validator.rs:139-172),
\* whatever is lost, refused or delayed.
THEOREM SmallCalls == Spec => []SmallCallsFit
<1>1. Init => FeedInv
  BY FeedInit
<1>2. FeedInv /\ [Next]_vars => FeedInv'
  BY FeedStep
<1>3. FeedInv => SmallCallsFit
  BY FeedInvImplies
<1> QED BY <1>1, <1>2, <1>3, PTL DEF Spec

-----------------------------------------------------------------------------
(* The order of what is on its way.                                        *)

\* What follows holds more, in order, if its parts do and the first comes first.
LEMMA RangeOfConcat ==
    ASSUME NEW s \in Seq(Nat), NEW t \in Seq(Nat)
    PROVE  /\ Range(s \o t) = Range(s) \cup Range(t)
           /\ Increasing(s \o t) <=>
                 Increasing(s) /\ Increasing(t) /\ Before(Range(s), Range(t))
<1> DEFINE u == s \o t
<1>1. /\ u \in Seq(Nat) /\ Len(u) = Len(s) + Len(t)
      /\ \A i \in 1..Len(s) : u[i] = s[i]
      /\ \A i \in 1..Len(t) : u[Len(s) + i] = t[i]
  BY ConcatProperties
<1>2. Len(s) \in Nat /\ Len(t) \in Nat /\ DOMAIN s = 1..Len(s) /\ DOMAIN t = 1..Len(t)
      /\ DOMAIN u = 1..Len(u)
  BY <1>1, LenProperties
<1> HIDE DEF u
<1>3. ASSUME NEW i \in DOMAIN u
      PROVE  \/ i \in DOMAIN s /\ u[i] = s[i]
             \/ i - Len(s) \in DOMAIN t /\ u[i] = t[i - Len(s)]
  <2>1. CASE i <= Len(s)
    BY <1>1, <1>2, <2>1
  <2>2. CASE i > Len(s)
    <3>1. i - Len(s) \in 1..Len(t) /\ Len(s) + (i - Len(s)) = i
      BY <1>1, <1>2, <2>2
    <3> QED BY <1>1, <1>2, <3>1
  <2> QED BY <1>1, <1>2, <2>1, <2>2
<1>4. /\ \A i \in DOMAIN s : i \in DOMAIN u /\ u[i] = s[i]
      /\ \A i \in DOMAIN t : Len(s) + i \in DOMAIN u /\ u[Len(s) + i] = t[i]
  <2>1. ASSUME NEW i \in 1..Len(s) PROVE i \in 1..Len(u) /\ u[i] = s[i]
    <3>1. i \in 1..Len(u)
      BY <1>1, <1>2
    <3> QED BY <1>1, <3>1
  <2>2. ASSUME NEW i \in 1..Len(t)
        PROVE  Len(s) + i \in 1..Len(u) /\ u[Len(s) + i] = t[i]
    <3>1. Len(s) + i \in 1..Len(u)
      BY <1>1, <1>2
    <3> QED BY <1>1, <3>1
  <2> QED BY <1>2, <2>1, <2>2
<1>5. Range(u) = Range(s) \cup Range(t)
  BY <1>3, <1>4 DEF Range
<1>6. ASSUME Increasing(u)
      PROVE  Increasing(s) /\ Increasing(t) /\ Before(Range(s), Range(t))
  <2>1. Increasing(s)
    BY <1>4, <1>6 DEF Increasing
  <2>2. ASSUME NEW i \in DOMAIN t, NEW j \in DOMAIN t, i < j
        PROVE  t[i] < t[j]
    <3>1. Len(s) + i < Len(s) + j
      BY <1>2, <2>2
    <3> QED BY <1>4, <1>6, <3>1 DEF Increasing
  <2>3. ASSUME NEW i \in DOMAIN s, NEW j \in DOMAIN t
        PROVE  s[i] < t[j]
    <3>1. i < Len(s) + j
      BY <1>2
    <3> QED BY <1>4, <1>6, <3>1 DEF Increasing
  <2> QED BY <2>1, <2>2, <2>3 DEF Increasing, Before, Range
<1>7. ASSUME Increasing(s), Increasing(t), Before(Range(s), Range(t)),
             NEW i \in DOMAIN u, NEW j \in DOMAIN u, i < j
      PROVE  u[i] < u[j]
  <2>1. CASE i \in DOMAIN s /\ u[i] = s[i] /\ j \in DOMAIN s /\ u[j] = s[j]
    BY <1>7, <2>1 DEF Increasing
  <2>2. CASE i \in DOMAIN s /\ u[i] = s[i] /\ j - Len(s) \in DOMAIN t /\ u[j] = t[j - Len(s)]
    BY <1>7, <2>2 DEF Before, Range
  <2>3. CASE i - Len(s) \in DOMAIN t /\ u[i] = t[i - Len(s)] /\ j - Len(s) \in DOMAIN t
               /\ u[j] = t[j - Len(s)]
    <3>1. i - Len(s) < j - Len(s)
      BY <1>2, <1>7
    <3> QED BY <1>7, <2>3, <3>1 DEF Increasing
  <2>4. CASE i - Len(s) \in DOMAIN t /\ j \in DOMAIN s
    BY <1>2, <1>7, <2>4
  <2> QED BY <1>3, <2>1, <2>2, <2>3, <2>4
<1>8. Increasing(u) <=> Increasing(s) /\ Increasing(t) /\ Before(Range(s), Range(t))
  BY <1>6, <1>7 DEF Increasing
<1> QED BY <1>5, <1>8 DEF u

\* The same of batches.
LEMMA BatchesOfConcat ==
    ASSUME NEW s \in Seq(Seq(Nat)), NEW t \in Seq(Seq(Nat))
    PROVE  /\ InBatches(s \o t) = InBatches(s) \cup InBatches(t)
           /\ InOrder(s \o t) <=>
                 InOrder(s) /\ InOrder(t) /\ Before(InBatches(s), InBatches(t))
<1> DEFINE u == s \o t
<1>1. /\ u \in Seq(Seq(Nat)) /\ Len(u) = Len(s) + Len(t)
      /\ \A i \in 1..Len(s) : u[i] = s[i]
      /\ \A i \in 1..Len(t) : u[Len(s) + i] = t[i]
  BY ConcatProperties
<1>2. Len(s) \in Nat /\ Len(t) \in Nat /\ DOMAIN s = 1..Len(s) /\ DOMAIN t = 1..Len(t)
      /\ DOMAIN u = 1..Len(u)
  BY <1>1, LenProperties
<1> HIDE DEF u
<1>3. ASSUME NEW i \in DOMAIN u
      PROVE  \/ i \in DOMAIN s /\ u[i] = s[i]
             \/ i - Len(s) \in DOMAIN t /\ u[i] = t[i - Len(s)]
  <2>1. CASE i <= Len(s)
    BY <1>1, <1>2, <2>1
  <2>2. CASE i > Len(s)
    <3>1. i - Len(s) \in 1..Len(t) /\ Len(s) + (i - Len(s)) = i
      BY <1>1, <1>2, <2>2
    <3> QED BY <1>1, <1>2, <3>1
  <2> QED BY <1>1, <1>2, <2>1, <2>2
<1>4. /\ \A i \in DOMAIN s : i \in DOMAIN u /\ u[i] = s[i]
      /\ \A i \in DOMAIN t : Len(s) + i \in DOMAIN u /\ u[Len(s) + i] = t[i]
  <2>1. ASSUME NEW i \in 1..Len(s) PROVE i \in 1..Len(u) /\ u[i] = s[i]
    <3>1. i \in 1..Len(u)
      BY <1>1, <1>2
    <3> QED BY <1>1, <3>1
  <2>2. ASSUME NEW i \in 1..Len(t)
        PROVE  Len(s) + i \in 1..Len(u) /\ u[Len(s) + i] = t[i]
    <3>1. Len(s) + i \in 1..Len(u)
      BY <1>1, <1>2
    <3> QED BY <1>1, <3>1
  <2> QED BY <1>2, <2>1, <2>2
<1>5. InBatches(u) = InBatches(s) \cup InBatches(t)
  <2>1. \A x \in InBatches(u) : x \in InBatches(s) \cup InBatches(t)
    BY <1>3 DEF InBatches
  <2>2. \A x \in InBatches(s) \cup InBatches(t) : x \in InBatches(u)
    BY <1>4 DEF InBatches
  <2> QED BY <2>1, <2>2
<1>6. ASSUME InOrder(u)
      PROVE  InOrder(s) /\ InOrder(t) /\ Before(InBatches(s), InBatches(t))
  <2>1. InOrder(s)
    BY <1>4, <1>6 DEF InOrder
  <2>2. ASSUME NEW i \in DOMAIN t
        PROVE  /\ Increasing(t[i])
               /\ \A j \in DOMAIN t : i < j => Before(Range(t[i]), Range(t[j]))
    <3>1. Increasing(t[i])
      BY <1>4, <1>6 DEF InOrder
    <3>2. ASSUME NEW j \in DOMAIN t, i < j
          PROVE  Before(Range(t[i]), Range(t[j]))
      <4>1. Len(s) + i < Len(s) + j
        BY <1>2, <3>2
      <4> QED BY <1>4, <1>6, <4>1 DEF InOrder
    <3> QED BY <3>1, <3>2
  <2>3. ASSUME NEW i \in DOMAIN s, NEW j \in DOMAIN t
        PROVE  Before(Range(s[i]), Range(t[j]))
    <3>1. i < Len(s) + j
      BY <1>2
    <3> QED BY <1>4, <1>6, <3>1 DEF InOrder
  <2>4. Before(InBatches(s), InBatches(t))
    BY <2>3 DEF Before, InBatches
  <2> QED BY <2>1, <2>2, <2>4 DEF InOrder
<1>7. ASSUME InOrder(s), InOrder(t), Before(InBatches(s), InBatches(t))
      PROVE  InOrder(u)
  <2>1. ASSUME NEW i \in DOMAIN u
        PROVE  Increasing(u[i])
    BY <1>3, <1>7 DEF InOrder
  <2>2. ASSUME NEW i \in DOMAIN u, NEW j \in DOMAIN u, i < j
        PROVE  Before(Range(u[i]), Range(u[j]))
    <3>1. CASE i \in DOMAIN s /\ u[i] = s[i] /\ j \in DOMAIN s /\ u[j] = s[j]
      BY <1>7, <2>2, <3>1 DEF InOrder
    <3>2. CASE i \in DOMAIN s /\ u[i] = s[i] /\ j - Len(s) \in DOMAIN t
                 /\ u[j] = t[j - Len(s)]
      <4>1. Range(u[i]) \subseteq InBatches(s) /\ Range(u[j]) \subseteq InBatches(t)
        BY <3>2 DEF InBatches
      <4> QED BY <1>7, <4>1 DEF Before
    <3>3. CASE i - Len(s) \in DOMAIN t /\ u[i] = t[i - Len(s)] /\ j - Len(s) \in DOMAIN t
                 /\ u[j] = t[j - Len(s)]
      <4>1. i - Len(s) < j - Len(s)
        BY <1>2, <2>2
      <4> QED BY <1>7, <3>3, <4>1 DEF InOrder
    <3>4. CASE i - Len(s) \in DOMAIN t /\ j \in DOMAIN s
      BY <1>2, <2>2, <3>4
    <3> QED BY <1>3, <3>1, <3>2, <3>3, <3>4
  <2> QED BY <2>1, <2>2 DEF InOrder
<1> QED BY <1>5, <1>6, <1>7 DEF u

\* One batch.
LEMMA OneBatch ==
    ASSUME NEW txs \in Seq(Nat)
    PROVE  /\ <<txs>> \in Seq(Seq(Nat))
           /\ InBatches(<<txs>>) = Range(txs)
           /\ InOrder(<<txs>>) <=> Increasing(txs)
<1>1. <<txs>> \in Seq(Seq(Nat)) /\ DOMAIN <<txs>> = {1} /\ <<txs>>[1] = txs
  OBVIOUS
<1> QED BY <1>1 DEF InBatches, InOrder

\* None.
LEMMA NoBatch ==
    /\ << >> \in Seq(Nat) /\ Range(<< >>) = {} /\ Increasing(<< >>)
    /\ << >> \in Seq(Seq(Nat)) /\ InBatches(<< >>) = {} /\ InOrder(<< >>)
<1>1. << >> \in Seq(Nat) /\ << >> \in Seq(Seq(Nat)) /\ DOMAIN << >> = {}
  BY EmptySeq
<1> QED BY <1>1 DEF Range, Increasing, InBatches, InOrder

\* The first batch and the rest, and the rest and a last one.
LEMMA FirstBatch ==
    ASSUME NEW s \in Seq(Seq(Nat)), s # << >>
    PROVE  /\ Head(s) \in Seq(Nat) /\ Tail(s) \in Seq(Seq(Nat))
           /\ InBatches(s) = Range(Head(s)) \cup InBatches(Tail(s))
           /\ InOrder(s) <=> /\ Increasing(Head(s)) /\ InOrder(Tail(s))
                             /\ Before(Range(Head(s)), InBatches(Tail(s)))
<1>1. /\ Head(s) \in Seq(Nat) /\ Tail(s) \in Seq(Seq(Nat))
      /\ Len(Tail(s)) = Len(s) - 1
      /\ \A i \in 1..Len(Tail(s)) : Tail(s)[i] = s[i + 1]
  BY HeadTailProperties
<1>2. PICK first : first = <<Head(s)>>
  OBVIOUS
<1>3. /\ first \in Seq(Seq(Nat)) /\ InBatches(first) = Range(Head(s))
      /\ InOrder(first) <=> Increasing(Head(s))
  BY <1>1, <1>2, OneBatch
<1>4. PICK whole : whole = first \o Tail(s)
  OBVIOUS
<1>5. Len(first) = 1 /\ first[1] = Head(s) /\ Head(s) = s[1]
      /\ Len(s) \in Nat /\ Len(Tail(s)) \in Nat
  BY <1>1, <1>2, LenProperties
<1>6. /\ whole \in Seq(Seq(Nat)) /\ Len(whole) = Len(s)
      /\ \A i \in 1..Len(s) : whole[i] = IF i <= 1 THEN first[i] ELSE Tail(s)[i - 1]
  <2>1. PICK rest : rest = Tail(s)
    OBVIOUS
  <2>2. /\ rest \in Seq(Seq(Nat)) /\ first \in Seq(Seq(Nat))
        /\ Len(first) = 1 /\ Len(rest) = Len(s) - 1 /\ Len(s) \in Nat
    BY <1>1, <1>3, <1>5, <2>1
  <2>3. /\ first \o rest \in Seq(Seq(Nat)) /\ Len(first \o rest) = Len(first) + Len(rest)
        /\ \A i \in 1..Len(first) + Len(rest) : (first \o rest)[i] =
              IF i <= Len(first) THEN first[i] ELSE rest[i - Len(first)]
    BY <2>2, ConcatProperties, Zenon
  <2> QED BY <1>4, <2>1, <2>2, <2>3
<1>7. ASSUME NEW i \in 1..Len(s)
      PROVE  whole[i] = s[i]
  <2>1. CASE i = 1
    BY <1>5, <1>6, <2>1
  <2>2. CASE i # 1
    <3>1. i - 1 \in 1..Len(Tail(s)) /\ i - 1 + 1 = i
      BY <1>1, <1>5, <2>2
    <3> QED BY <1>1, <1>6, <2>2, <3>1
  <2> QED BY <2>1, <2>2
<1>8. s = first \o Tail(s)
  BY <1>4, <1>6, <1>7, SeqEqual
<1>9. PICK rest : rest = Tail(s)
  OBVIOUS
<1>10. /\ InBatches(s) = InBatches(first) \cup InBatches(rest)
       /\ InOrder(s) <=> /\ InOrder(first) /\ InOrder(rest)
                         /\ Before(InBatches(first), InBatches(rest))
  <2>1. first \in Seq(Seq(Nat)) /\ rest \in Seq(Seq(Nat)) /\ s = first \o rest
    BY <1>1, <1>3, <1>8, <1>9
  <2>2. /\ InBatches(first \o rest) = InBatches(first) \cup InBatches(rest)
        /\ InOrder(first \o rest) <=> /\ InOrder(first) /\ InOrder(rest)
                                      /\ Before(InBatches(first), InBatches(rest))
    BY <2>1, BatchesOfConcat
  <2> QED BY <2>1, <2>2
<1> QED BY <1>1, <1>3, <1>9, <1>10

LEMMA LastBatch ==
    ASSUME NEW s \in Seq(Seq(Nat)), NEW txs \in Seq(Nat)
    PROVE  /\ Append(s, txs) \in Seq(Seq(Nat))
           /\ InBatches(Append(s, txs)) = InBatches(s) \cup Range(txs)
           /\ InOrder(Append(s, txs)) <=>
                 InOrder(s) /\ Increasing(txs) /\ Before(InBatches(s), Range(txs))
<1>1. PICK last : last = <<txs>>
  OBVIOUS
<1>2. /\ last \in Seq(Seq(Nat)) /\ InBatches(last) = Range(txs)
      /\ InOrder(last) <=> Increasing(txs)
  BY <1>1, OneBatch
<1>3. Append(s, txs) = s \o last
  BY <1>1, AppendIsConcat
<1>4. s \o last \in Seq(Seq(Nat))
  BY <1>2, ConcatProperties
<1> QED BY <1>2, <1>3, <1>4, BatchesOfConcat

\* The places, one after another.
OnTheWay == Range(submitted) \cup Range(pool) \cup InBatches(payloads) \cup InBatches(wire)
                \cup Range(buffer) \cup InBatches(channel)

Sorted ==
    /\ Increasing(submitted) /\ Increasing(pool) /\ InOrder(payloads)
    /\ InOrder(wire) /\ Increasing(buffer) /\ InOrder(channel)
    /\ Before(Range(submitted), Range(pool))
    /\ Before(Range(submitted) \cup Range(pool), InBatches(payloads))
    /\ Before(Range(submitted) \cup Range(pool) \cup InBatches(payloads), InBatches(wire))
    /\ Before(Range(submitted) \cup Range(pool) \cup InBatches(payloads) \cup InBatches(wire),
              Range(buffer))
    /\ Before(Range(submitted) \cup Range(pool) \cup InBatches(payloads) \cup InBatches(wire)
                  \cup Range(buffer),
              InBatches(channel))

LEMMA StagesAre ==
    FeedTypeOK => InBatches(Stages) = OnTheWay /\ (InOrder(Stages) <=> Sorted)
<1> SUFFICES ASSUME FeedTypeOK
             PROVE  InBatches(Stages) = OnTheWay /\ (InOrder(Stages) <=> Sorted)
  OBVIOUS
<1>1. /\ submitted \in Seq(Nat) /\ pool \in Seq(Nat) /\ buffer \in Seq(Nat)
      /\ payloads \in Seq(Seq(Nat)) /\ wire \in Seq(Seq(Nat)) /\ channel \in Seq(Seq(Nat))
  BY DEF FeedTypeOK
<1>2. PICK a : a = <<submitted, pool>>
  OBVIOUS
<1>3. PICK s : s = <<submitted>>
  OBVIOUS
<1>4. /\ a \in Seq(Seq(Nat))
      /\ InBatches(a) = Range(submitted) \cup Range(pool)
      /\ InOrder(a) <=> /\ Increasing(submitted) /\ Increasing(pool)
                        /\ Before(Range(submitted), Range(pool))
  <2>1. /\ s \in Seq(Seq(Nat)) /\ InBatches(s) = Range(submitted)
        /\ InOrder(s) <=> Increasing(submitted)
    BY <1>1, <1>3, OneBatch
  <2>2. a = Append(s, pool)
    BY <1>2, <1>3
  <2> QED BY <1>1, <2>1, <2>2, LastBatch
<1>5. PICK b : b = a \o payloads
  OBVIOUS
<1>6. /\ b \in Seq(Seq(Nat))
      /\ InBatches(b) = InBatches(a) \cup InBatches(payloads)
      /\ InOrder(b) <=> InOrder(a) /\ InOrder(payloads) /\ Before(InBatches(a), InBatches(payloads))
  BY <1>1, <1>4, <1>5, BatchesOfConcat, ConcatProperties
<1>7. PICK c : c = b \o wire
  OBVIOUS
<1>8. /\ c \in Seq(Seq(Nat))
      /\ InBatches(c) = InBatches(b) \cup InBatches(wire)
      /\ InOrder(c) <=> InOrder(b) /\ InOrder(wire) /\ Before(InBatches(b), InBatches(wire))
  BY <1>1, <1>6, <1>7, BatchesOfConcat, ConcatProperties
<1>9. PICK d : d = c \o <<buffer>>
  OBVIOUS
<1>10. /\ d \in Seq(Seq(Nat))
       /\ InBatches(d) = InBatches(c) \cup Range(buffer)
       /\ InOrder(d) <=> InOrder(c) /\ Increasing(buffer) /\ Before(InBatches(c), Range(buffer))
  <2>1. /\ <<buffer>> \in Seq(Seq(Nat)) /\ InBatches(<<buffer>>) = Range(buffer)
        /\ InOrder(<<buffer>>) <=> Increasing(buffer)
    BY <1>1, OneBatch
  <2> QED BY <1>8, <1>9, <2>1, BatchesOfConcat, ConcatProperties
<1>11. /\ InBatches(d \o channel) = InBatches(d) \cup InBatches(channel)
       /\ InOrder(d \o channel) <=>
             InOrder(d) /\ InOrder(channel) /\ Before(InBatches(d), InBatches(channel))
  BY <1>1, <1>10, BatchesOfConcat
<1>12. Stages = d \o channel
  BY <1>2, <1>5, <1>7, <1>9 DEF Stages
<1> QED BY <1>4, <1>6, <1>8, <1>10, <1>11, <1>12 DEF OnTheWay, Sorted

\* The inductive invariant of the order.
WayInv ==
    /\ FeedInv
    /\ OnTheWay \cup lost = 1..accepted
    /\ OnTheWay \cap lost = {}
    /\ Sorted

LEMMA WayInvImplies == WayInv => KeptInOrder
BY FeedInvImplies, StagesAre DEF WayInv, KeptInOrder, Conserved, AcceptanceOrder

LEMMA WayInit ==
    ASSUME Init
    PROVE  WayInv
<1>1. /\ submitted = << >> /\ pool = << >> /\ payloads = << >> /\ wire = << >>
      /\ buffer = << >> /\ channel = << >> /\ lost = {} /\ accepted = 0
  BY DEF Init
<1>2. OnTheWay = {}
  BY <1>1, NoBatch DEF OnTheWay
<1>3. Sorted
  BY <1>1, NoBatch DEF Sorted, Before
<1>4. 1..0 = {}
  OBVIOUS
<1> QED BY <1>1, <1>2, <1>3, <1>4, FeedInit DEF WayInv

\* What every place holds.
LEMMA PlacesHold ==
    ASSUME WayInv
    PROVE  /\ submitted \in Seq(Nat) /\ pool \in Seq(Nat) /\ buffer \in Seq(Nat)
           /\ payloads \in Seq(Seq(Nat)) /\ wire \in Seq(Seq(Nat)) /\ channel \in Seq(Seq(Nat))
           /\ accepted \in Nat /\ lost \subseteq Nat
           /\ \A x \in OnTheWay : x \in Nat /\ x <= accepted
BY FeedInvImplies DEF WayInv, FeedTypeOK, FeedInv

\* A step that is no call: what it takes off the way is lost, and the rest stays
\* sorted.
LEMMA NoneAppears ==
    ASSUME WayInv, FeedInv', accepted' = accepted, Sorted',
           NEW gone, OnTheWay' \cup gone = OnTheWay, OnTheWay' \cap gone = {},
           lost' = lost \cup gone
    PROVE  WayInv'
BY DEF WayInv

\* A call's transactions come after all others; the oldest call goes first.
LEMMA CallKeepsOrder ==
    ASSUME WayInv, send_raw_transactions_async
    PROVE  WayInv'
<1>0. FeedInv'
  BY CallStep DEF WayInv
<1>1. PICK n \in CallSizes :
         /\ accepted' = accepted + n
         /\ LET calls == Append(channel, [i \in 1..n |-> accepted + i])
            IN  \/ channel' = calls /\ UNCHANGED lost
                \/ channel' = Tail(calls) /\ lost' = lost \cup Range(Head(calls))
         /\ UNCHANGED <<taskVars, wire, clientVars>>
  BY DEF send_raw_transactions_async, Overrun
<1>2. PICK call : call = [i \in 1..n |-> accepted + i]
  OBVIOUS
<1>3. n \in Nat /\ call \in Seq(Nat)
  BY <1>2, NewCall, FeedConstants DEF WayInv, FeedInv
<1>4. /\ Range(call) = (accepted + 1)..(accepted + n)
      /\ Increasing(call)
  <2>1. DOMAIN call = 1..n /\ \A i \in 1..n : call[i] = accepted + i
    BY <1>2
  <2>2. Increasing(call)
    BY <1>3, <2>1, PlacesHold DEF Increasing
  <2>3. \A x \in (accepted + 1)..(accepted + n) : x - accepted \in 1..n /\ accepted + (x - accepted) = x
    BY <1>3, PlacesHold
  <2>4. \A x \in (accepted + 1)..(accepted + n) : x \in Range(call)
    BY <2>1, <2>3 DEF Range
  <2>5. \A x \in Range(call) : x \in (accepted + 1)..(accepted + n)
    BY <1>3, <2>1, PlacesHold DEF Range
  <2> QED BY <2>2, <2>4, <2>5
<1>5. PICK calls : calls = Append(channel, call)
  OBVIOUS
<1>6. /\ calls \in Seq(Seq(Nat)) /\ calls # << >>
      /\ InBatches(calls) = InBatches(channel) \cup Range(call)
      /\ InOrder(calls) <=>
            InOrder(channel) /\ Increasing(call) /\ Before(InBatches(channel), Range(call))
  <2>1. channel \in Seq(Seq(Nat))
    BY PlacesHold
  <2>2. /\ Append(channel, call) \in Seq(Seq(Nat))
        /\ InBatches(Append(channel, call)) = InBatches(channel) \cup Range(call)
        /\ InOrder(Append(channel, call)) <=>
              InOrder(channel) /\ Increasing(call) /\ Before(InBatches(channel), Range(call))
    BY <1>3, <2>1, LastBatch
  <2>3. Append(channel, call) # << >>
    BY <1>3, <2>1, AppendProperties, Zenon
  <2> QED BY <1>5, <2>2, <2>3
<1>7. Before(OnTheWay, Range(call))
  BY <1>3, <1>4, PlacesHold DEF Before
<1>8. PICK before : before = Range(submitted) \cup Range(pool) \cup InBatches(payloads)
                                 \cup InBatches(wire) \cup Range(buffer)
  OBVIOUS
<1>9. OnTheWay = before \cup InBatches(channel) /\ OnTheWay' = before \cup InBatches(channel)'
  BY <1>1, <1>8 DEF OnTheWay, taskVars, clientVars
<1>10. InOrder(calls) /\ Before(before, InBatches(calls))
  BY <1>4, <1>6, <1>7, <1>8, <1>9 DEF WayInv, Sorted, Before
<1>11. InOrder(channel') /\ Before(before, InBatches(channel')) => Sorted'
  BY <1>1, <1>8 DEF WayInv, Sorted, taskVars, clientVars
<1>12. 1..accepted' = 1..accepted \cup Range(call) /\ Range(call) \cap 1..accepted = {}
  BY <1>1, <1>3, <1>4, PlacesHold
<1>13. CASE channel' = calls /\ UNCHANGED lost
  BY <1>0, <1>6, <1>9, <1>10, <1>11, <1>12, <1>13 DEF WayInv
<1>14. CASE channel' = Tail(calls) /\ lost' = lost \cup Range(Head(calls))
  <2>1. PICK first, rest : first = Range(Head(calls)) /\ rest = InBatches(Tail(calls))
    OBVIOUS
  <2>2. /\ InBatches(calls) = first \cup rest
        /\ InOrder(Tail(calls)) /\ Before(first, rest)
    BY <1>6, <1>10, <2>1, FirstBatch
  <2>3. Sorted'
    BY <1>10, <1>11, <1>14, <2>1, <2>2 DEF Before
  <2>4. \A x \in first : x \notin before /\ x \notin rest
    <3>1. \A x \in first : x \in Nat
      BY <1>3, <1>4, <1>6, <1>9, <2>2, PlacesHold
    <3> QED BY <1>10, <2>2, <3>1 DEF Before
  <2>5. OnTheWay' = before \cup rest /\ lost' = lost \cup first
    BY <1>9, <1>14, <2>1
  <2>6. OnTheWay' \cup lost' = 1..accepted'
    BY <1>6, <1>9, <1>12, <2>2, <2>5 DEF WayInv
  <2>7. OnTheWay' \cap lost' = {}
    BY <1>6, <1>9, <1>12, <2>2, <2>4, <2>5 DEF WayInv
  <2> QED BY <1>0, <2>3, <2>6, <2>7 DEF WayInv
<1> QED BY <1>1, <1>2, <1>5, <1>13, <1>14

\* A sequence cut in two.
LEMMA CutInTwo ==
    ASSUME NEW S, NEW s \in Seq(S), NEW n \in 0..Len(s)
    PROVE  /\ SubSeq(s, 1, n) \in Seq(S) /\ SubSeq(s, n + 1, Len(s)) \in Seq(S)
           /\ s = SubSeq(s, 1, n) \o SubSeq(s, n + 1, Len(s))
<1>1. Len(s) \in Nat /\ n \in Nat /\ \A i \in 1..Len(s) : s[i] \in S
  BY LenProperties, ElementOfSeq
<1>2. SubSeq(s, 1, n) \in Seq(S) /\ SubSeq(s, n + 1, Len(s)) \in Seq(S)
  <2>1. \A i \in 1..n : s[i] \in S
    BY <1>1
  <2>2. \A i \in (n + 1)..Len(s) : s[i] \in S
    BY <1>1
  <2> QED BY <1>1, <2>1, <2>2, SubSeqProperties
<1>3. SubSeq(s, 1, n) \o SubSeq(s, n + 1, Len(s)) = SubSeq(s, 1, Len(s))
  <2>1. 1 \in 1..Len(s) + 1 /\ n \in (1 - 1)..Len(s) /\ Len(s) \in n..Len(s)
    BY <1>1
  <2> QED BY <2>1, ConcatAdjacentSubSeq
<1>4. SubSeq(s, 1, Len(s)) = s
  BY SubSeqFull
<1> QED BY <1>2, <1>3, <1>4

\* A connection that closes or is opened only loses transactions.
LEMMA ConnectionKeepsOrder ==
    ASSUME WayInv, subscribe_raw_transactions \/ Disconnect
    PROVE  WayInv'
<1>0. FeedInv'
  BY ConnectionStep DEF WayInv
<1>1. CASE subscribe_raw_transactions
  <2>1. /\ submitted' = submitted /\ pool' = << >> /\ payloads' = << >> /\ wire' = << >>
        /\ buffer' = << >> /\ channel' = << >> /\ accepted' = accepted
    BY <1>1 DEF subscribe_raw_transactions
  <2>2. PICK gone : gone = InBatches(channel) \cup Range(buffer) \cup InBatches(wire)
                              \cup InBatches(payloads) \cup Range(pool)
    OBVIOUS
  <2>3. lost' = lost \cup gone
    BY <1>1, <2>2 DEF subscribe_raw_transactions
  <2>4. OnTheWay' = Range(submitted)
    BY <2>1, NoBatch DEF OnTheWay
  <2>5. Before(Range(submitted), gone)
    BY <2>2 DEF WayInv, Sorted, Before
  <2>6. OnTheWay' \cup gone = OnTheWay
    BY <2>2, <2>4 DEF OnTheWay
  <2>7. OnTheWay' \cap gone = {}
    BY <2>4, <2>5, <2>6, PlacesHold DEF Before
  <2>8. Sorted'
    BY <2>1, NoBatch DEF WayInv, Sorted, Before
  <2> QED BY <1>0, <2>1, <2>3, <2>6, <2>7, <2>8, NoneAppears
<1>2. CASE Disconnect
  <2>1. PICK n \in 0..Len(wire) :
           /\ wire' = SubSeq(wire, 1, n)
           /\ lost' = lost \cup InBatches(SubSeq(wire, n + 1, Len(wire)))
    BY <1>2 DEF Disconnect
  <2>2. UNCHANGED <<submitted, pool, payloads, buffer, channel, accepted>>
    BY <1>2 DEF Disconnect, rpcVars, taskVars, clientVars
  <2>3. PICK cut : cut = SubSeq(wire, n + 1, Len(wire))
    OBVIOUS
  <2>4. wire' \in Seq(Seq(Nat)) /\ cut \in Seq(Seq(Nat)) /\ wire = wire' \o cut
    BY <2>1, <2>3, PlacesHold, CutInTwo
  <2>5. /\ InBatches(wire' \o cut) = InBatches(wire') \cup InBatches(cut)
        /\ InOrder(wire' \o cut) <=> /\ InOrder(wire') /\ InOrder(cut)
                                     /\ Before(InBatches(wire'), InBatches(cut))
    BY <2>4, BatchesOfConcat
  <2>6. PICK gone : gone = InBatches(cut)
    OBVIOUS
  <2>7. InBatches(wire) = InBatches(wire') \cup gone
    BY <2>4, <2>5, <2>6
  <2>8. InOrder(wire') /\ Before(InBatches(wire'), gone)
    BY <2>4, <2>5, <2>6 DEF WayInv, Sorted
  <2>9. Sorted'
    BY <2>2, <2>7, <2>8 DEF WayInv, Sorted, Before
  <2>10. OnTheWay' \cup gone = OnTheWay
    BY <2>2, <2>7 DEF OnTheWay
  <2>11. ASSUME NEW x \in OnTheWay', x \in gone
         PROVE  FALSE
    <3>1. x \in Nat
      BY <2>10, PlacesHold
    <3>2. x \notin Range(submitted) /\ x \notin Range(pool) /\ x \notin InBatches(payloads)
          /\ x \notin Range(buffer) /\ x \notin InBatches(channel) /\ x \notin InBatches(wire')
      BY <2>7, <2>8, <2>11, <3>1 DEF WayInv, Sorted, Before
    <3> QED BY <2>2, <2>11, <3>2 DEF OnTheWay
  <2> QED BY <1>0, <2>1, <2>2, <2>3, <2>6, <2>9, <2>10, <2>11, NoneAppears
<1> QED BY <1>1, <1>2

\* The call at the head of the channel joins the buffer, which is sent or not.
LEMMA ReceiveKeepsOrder ==
    ASSUME WayInv, ReceiveCall
    PROVE  WayInv'
<1>0. FeedInv'
  BY SubscriptionStep DEF WayInv, SubscriptionTask
<1>1. PICK call, txs : call = Head(channel) /\ txs = buffer \o call
  OBVIOUS
<1>2. /\ channel # << >> /\ channel' = Tail(channel)
      /\ IF BatchReady(txs)
         THEN buffer' = << >> /\ SendBatch(txs)
         ELSE buffer' = txs /\ UNCHANGED <<wire, lost>>
      /\ UNCHANGED <<submitted, pool, payloads, accepted>>
  BY <1>1 DEF ReceiveCall, Extended, clientVars
<1>3. PICK first, rest : first = Range(call) /\ rest = InBatches(channel')
  OBVIOUS
<1>4. /\ call \in Seq(Nat)
      /\ InBatches(channel) = first \cup rest
      /\ Increasing(call) /\ InOrder(channel') /\ Before(first, rest)
  BY <1>1, <1>2, <1>3, PlacesHold, FirstBatch DEF WayInv, Sorted
<1>5. /\ txs \in Seq(Nat) /\ Range(txs) = Range(buffer) \cup first
      /\ Increasing(txs)
  <2>1. Before(Range(buffer), first)
    BY <1>4 DEF WayInv, Sorted, Before
  <2>2. Increasing(buffer) /\ buffer \in Seq(Nat)
    BY PlacesHold DEF WayInv, Sorted
  <2>3. /\ buffer \o call \in Seq(Nat)
        /\ Range(buffer \o call) = Range(buffer) \cup Range(call)
        /\ Increasing(buffer \o call) <=>
              Increasing(buffer) /\ Increasing(call) /\ Before(Range(buffer), Range(call))
    BY <1>4, <2>2, RangeOfConcat, ConcatProperties
  <2> QED BY <1>1, <1>3, <1>4, <2>1, <2>2, <2>3
<1>6. PICK before : before = Range(submitted) \cup Range(pool) \cup InBatches(payloads)
  OBVIOUS
<1>7. /\ OnTheWay = before \cup InBatches(wire) \cup Range(txs) \cup rest
      /\ Before(before, InBatches(wire))
      /\ Before(before \cup InBatches(wire), Range(txs))
      /\ Before(before \cup InBatches(wire) \cup Range(txs), rest)
      /\ Increasing(submitted) /\ Increasing(pool) /\ InOrder(payloads) /\ InOrder(wire)
      /\ Before(Range(submitted), Range(pool))
      /\ Before(Range(submitted) \cup Range(pool), InBatches(payloads))
  BY <1>4, <1>5, <1>6 DEF WayInv, Sorted, OnTheWay, Before
<1>8. CASE buffer' = txs /\ UNCHANGED <<wire, lost>>
  <2>1. Sorted'
    BY <1>2, <1>3, <1>4, <1>5, <1>6, <1>7, <1>8 DEF Sorted
  <2>2. OnTheWay' = OnTheWay
    BY <1>2, <1>3, <1>6, <1>7, <1>8 DEF OnTheWay
  <2> QED BY <1>0, <1>2, <1>8, <2>1, <2>2 DEF WayInv
<1>9. CASE buffer' = << >> /\ wire' = Append(wire, txs) /\ UNCHANGED lost
  <2>1. /\ InBatches(wire') = InBatches(wire) \cup Range(txs)
        /\ InOrder(wire')
    BY <1>5, <1>7, <1>9, PlacesHold, LastBatch DEF Before
  <2>2. Range(buffer') = {} /\ Increasing(buffer')
    BY <1>9, NoBatch
  <2>3. Sorted'
    BY <1>2, <1>3, <1>4, <1>6, <1>7, <2>1, <2>2 DEF Sorted, Before
  <2>4. OnTheWay' = OnTheWay
    BY <1>2, <1>3, <1>6, <1>7, <2>1, <2>2 DEF OnTheWay
  <2> QED BY <1>0, <1>2, <1>9, <2>3, <2>4 DEF WayInv
<1>10. CASE buffer' = << >> /\ lost' = lost \cup Range(txs) /\ UNCHANGED wire
  <2>1. Range(buffer') = {} /\ Increasing(buffer')
    BY <1>10, NoBatch
  <2>2. Sorted'
    BY <1>2, <1>3, <1>4, <1>6, <1>7, <1>10, <2>1 DEF Sorted, Before
  <2>3. OnTheWay' = before \cup InBatches(wire) \cup rest
    BY <1>2, <1>3, <1>6, <1>10, <2>1 DEF OnTheWay
  <2>4. OnTheWay' \cup Range(txs) = OnTheWay
    BY <1>7, <2>3
  <2>5. \A x \in Range(txs) : x \in Nat
    BY <1>7, PlacesHold
  <2>6. OnTheWay' \cap Range(txs) = {}
    BY <1>7, <2>3, <2>5 DEF Before
  <2> QED BY <1>0, <1>2, <1>10, <2>2, <2>4, <2>6, NoneAppears
<1> QED BY <1>2, <1>8, <1>9, <1>10 DEF SendBatch

\* The timer sends what there is.
LEMMA FlushKeepsOrder ==
    ASSUME WayInv, FlushBuffer
    PROVE  WayInv'
<1>0. FeedInv'
  BY SubscriptionStep DEF WayInv
<1>1. /\ \/ buffer' = << >> /\ SendBatch(buffer)
         \/ UNCHANGED <<buffer, wire, lost>>
      /\ UNCHANGED <<submitted, pool, payloads, channel, accepted>>
  BY DEF FlushBuffer, clientVars, rpcVars
<1>2. CASE UNCHANGED <<buffer, wire, lost>>
  BY <1>0, <1>1, <1>2 DEF WayInv, OnTheWay, Sorted
<1>3. CASE buffer' = << >> /\ wire' = Append(wire, buffer) /\ UNCHANGED lost
  <2>1. Range(buffer') = {} /\ Increasing(buffer')
    BY <1>3, NoBatch
  <2>2. Before(InBatches(wire), Range(buffer))
    BY DEF WayInv, Sorted, Before
  <2>3. InBatches(wire') = InBatches(wire) \cup Range(buffer) /\ InOrder(wire')
    BY <1>3, <2>2, PlacesHold, LastBatch DEF WayInv, Sorted
  <2>4. Sorted'
    BY <1>1, <2>1, <2>3 DEF WayInv, Sorted, Before
  <2>5. OnTheWay' = OnTheWay
    BY <1>1, <2>1, <2>3 DEF OnTheWay
  <2> QED BY <1>0, <1>1, <1>3, <2>4, <2>5 DEF WayInv
<1>4. CASE buffer' = << >> /\ lost' = lost \cup Range(buffer) /\ UNCHANGED wire
  <2>1. Range(buffer') = {} /\ Increasing(buffer')
    BY <1>4, NoBatch
  <2>2. Sorted'
    BY <1>1, <1>4, <2>1 DEF WayInv, Sorted, Before
  <2>3. OnTheWay' \cup Range(buffer) = OnTheWay
    BY <1>1, <1>4, <2>1 DEF OnTheWay
  <2>4. \A x \in Range(buffer) : x \in Nat
    BY <2>3, PlacesHold
  <2>5. OnTheWay' \cap Range(buffer) = {}
    BY <1>1, <1>4, <2>1, <2>4 DEF WayInv, Sorted, OnTheWay, Before
  <2> QED BY <1>0, <1>1, <1>4, <2>2, <2>3, <2>5, NoneAppears
<1> QED BY <1>1, <1>2, <1>3, <1>4 DEF SendBatch

\* The oldest batch on the wire is the last one to be submitted.
LEMMA HandlerKeepsOrder ==
    ASSUME WayInv, transaction_handler
    PROVE  WayInv'
<1>0. FeedInv'
  BY HandlerStep DEF WayInv
<1>1. PICK batch : batch = Head(wire)
  OBVIOUS
<1>2. /\ wire # << >> /\ wire' = Tail(wire) /\ payloads' = Append(payloads, batch)
      /\ UNCHANGED <<submitted, pool, buffer, channel, accepted, lost>>
  BY <1>1 DEF transaction_handler, rpcVars, taskVars
<1>3. /\ batch \in Seq(Nat)
      /\ InBatches(wire) = Range(batch) \cup InBatches(wire')
      /\ Increasing(batch) /\ InOrder(wire') /\ Before(Range(batch), InBatches(wire'))
  BY <1>1, <1>2, PlacesHold, FirstBatch DEF WayInv, Sorted
<1>4. Before(InBatches(payloads), Range(batch))
  BY <1>3 DEF WayInv, Sorted, Before
<1>5. InBatches(payloads') = InBatches(payloads) \cup Range(batch) /\ InOrder(payloads')
  BY <1>2, <1>3, <1>4, PlacesHold, LastBatch DEF WayInv, Sorted
<1>6. OnTheWay' = OnTheWay
  BY <1>2, <1>3, <1>5 DEF OnTheWay
<1>7. Sorted'
  BY <1>2, <1>3, <1>5 DEF WayInv, Sorted, Before
<1> QED BY <1>0, <1>2, <1>6, <1>7 DEF WayInv

\* The batch in front of all that was not submitted is, or is refused.
LEMMA SubmitKeepsOrder ==
    ASSUME WayInv, FeedInv', NEW batch \in Seq(Nat), Submit(batch),
           UNCHANGED <<accepted, wire, buffer, channel>>,
           Range(batch) \cup Range(pool') \cup InBatches(payloads') =
               Range(pool) \cup InBatches(payloads),
           Increasing(batch), Increasing(pool'), InOrder(payloads'),
           Before(Range(batch), Range(pool') \cup InBatches(payloads')),
           Before(Range(pool'), InBatches(payloads'))
    PROVE  WayInv'
<1>1. PICK after : after = InBatches(wire) \cup Range(buffer) \cup InBatches(channel)
  OBVIOUS
<1>2. PICK part : part = Range(pool') \cup InBatches(payloads')
  OBVIOUS
<1>3. /\ OnTheWay = Range(submitted) \cup Range(batch) \cup part \cup after
      /\ Before(Range(submitted), Range(batch) \cup part)
      /\ Before(Range(submitted) \cup Range(batch) \cup part, after)
  BY <1>1, <1>2 DEF WayInv, Sorted, OnTheWay, Before
<1>4. CASE submitted' = submitted \o batch /\ UNCHANGED lost
  <2>1. submitted \in Seq(Nat) /\ Increasing(submitted) /\ Before(Range(submitted), Range(batch))
    BY <1>3, PlacesHold DEF WayInv, Sorted, Before
  <2>2. /\ Range(submitted \o batch) = Range(submitted) \cup Range(batch)
        /\ Increasing(submitted \o batch)
    BY <2>1, RangeOfConcat
  <2>3. Range(submitted') = Range(submitted) \cup Range(batch) /\ Increasing(submitted')
    BY <1>4, <2>2
  <2>4. Sorted'
    BY <1>1, <1>2, <1>3, <2>3 DEF WayInv, Sorted, Before
  <2>5. OnTheWay' = OnTheWay
    BY <1>1, <1>2, <1>3, <2>3 DEF OnTheWay
  <2> QED BY <1>4, <2>4, <2>5 DEF WayInv
<1>5. CASE lost' = lost \cup Range(batch) /\ UNCHANGED submitted
  <2>1. Sorted'
    BY <1>1, <1>2, <1>3, <1>5 DEF WayInv, Sorted, Before
  <2>2. OnTheWay' = Range(submitted) \cup part \cup after
    BY <1>1, <1>2, <1>5 DEF OnTheWay
  <2>3. \A x \in Range(batch) : x \in Nat
    BY <1>3, PlacesHold
  <2>4. OnTheWay' \cap Range(batch) = {}
    BY <1>2, <1>3, <2>2, <2>3 DEF Before
  <2> QED BY <1>3, <1>5, <2>1, <2>2, <2>4, NoneAppears
<1> QED BY <1>4, <1>5 DEF Submit

\* A batch joins the pool, of which the threshold's worth may be submitted.
LEMMA PayloadKeepsOrder ==
    ASSUME WayInv, ReceivePayload
    PROVE  WayInv'
<1>0. FeedInv'
  BY BatchingStep DEF WayInv, BatchingTask
<1>1. PICK payload, txs : payload = Head(payloads) /\ txs = pool \o payload
  OBVIOUS
<1>2. /\ payloads # << >> /\ payloads' = Tail(payloads)
      /\ IF Len(txs) >= MaxInBlock
         THEN pool' = Kept(txs) /\ Submit(Drained(txs))
         ELSE pool' = txs /\ UNCHANGED <<submitted, lost>>
      /\ UNCHANGED <<accepted, wire, buffer, channel>>
  BY <1>1 DEF ReceivePayload, Extended, rpcVars, taskVars
<1>3. PICK first, rest : first = Range(payload) /\ rest = InBatches(payloads')
  OBVIOUS
<1>4. /\ payload \in Seq(Nat) /\ Increasing(payload) /\ InOrder(payloads')
      /\ InBatches(payloads) = first \cup rest /\ Before(first, rest)
  BY <1>1, <1>2, <1>3, PlacesHold, FirstBatch DEF WayInv, Sorted
<1>5. /\ txs \in Seq(Nat) /\ Increasing(txs) /\ Range(txs) = Range(pool) \cup first
      /\ Before(Range(txs), rest)
  <2>1. Before(Range(pool), first) /\ Before(Range(pool), rest)
    BY <1>4 DEF WayInv, Sorted, Before
  <2>2. Increasing(pool) /\ pool \in Seq(Nat)
    BY PlacesHold DEF WayInv, Sorted
  <2>3. /\ pool \o payload \in Seq(Nat)
        /\ Range(pool \o payload) = Range(pool) \cup Range(payload)
        /\ Increasing(pool \o payload) <=>
              Increasing(pool) /\ Increasing(payload) /\ Before(Range(pool), Range(payload))
    BY <1>4, <2>2, RangeOfConcat, ConcatProperties
  <2>4. txs \in Seq(Nat) /\ Increasing(txs) /\ Range(txs) = Range(pool) \cup first
    BY <1>1, <1>3, <1>4, <2>1, <2>2, <2>3
  <2> QED BY <1>4, <2>1, <2>4 DEF Before
<1>6. CASE Len(txs) >= MaxInBlock
  <2>1. PICK batch, kept : batch = Drained(txs) /\ kept = Kept(txs)
    OBVIOUS
  <2>2. batch \in Seq(Nat) /\ kept \in Seq(Nat) /\ txs = batch \o kept
    <3>1. MaxInBlock \in 0..Len(txs)
      BY <1>5, <1>6, FeedConstants, LenProperties
    <3> QED BY <1>5, <2>1, <3>1, CutInTwo DEF Drained, Kept
  <2>3. /\ Range(batch \o kept) = Range(batch) \cup Range(kept)
        /\ Increasing(batch \o kept) <=>
              Increasing(batch) /\ Increasing(kept) /\ Before(Range(batch), Range(kept))
    BY <2>2, RangeOfConcat
  <2>4. /\ Range(txs) = Range(batch) \cup Range(kept)
        /\ Increasing(batch) /\ Increasing(kept) /\ Before(Range(batch), Range(kept))
    BY <1>5, <2>2, <2>3
  <2>5. pool' = kept /\ Submit(batch)
    BY <1>2, <1>6, <2>1
  <2>6. /\ Range(batch) \cup Range(pool') \cup InBatches(payloads') =
              Range(pool) \cup InBatches(payloads)
        /\ Before(Range(batch), Range(pool') \cup InBatches(payloads'))
        /\ Before(Range(pool'), InBatches(payloads'))
    BY <1>3, <1>4, <1>5, <2>4, <2>5 DEF Before
  <2> QED BY <1>0, <1>2, <1>4, <2>2, <2>4, <2>5, <2>6, SubmitKeepsOrder
<1>7. CASE ~(Len(txs) >= MaxInBlock)
  <2>1. pool' = txs /\ UNCHANGED <<submitted, lost>>
    BY <1>2, <1>7
  <2>2. OnTheWay' = OnTheWay
    BY <1>2, <1>3, <1>4, <1>5, <2>1 DEF OnTheWay
  <2>3. Sorted'
    BY <1>2, <1>3, <1>4, <1>5, <2>1 DEF WayInv, Sorted, Before
  <2> QED BY <1>0, <1>2, <2>1, <2>2, <2>3 DEF WayInv
<1> QED BY <1>6, <1>7

\* Or the whole pool.
LEMMA TimerKeepsOrder ==
    ASSUME WayInv, SubmitOnTimer
    PROVE  WayInv'
<1>0. FeedInv'
  BY BatchingStep DEF WayInv, BatchingTask
<1>1. /\ pool' = << >> /\ Submit(pool)
      /\ UNCHANGED <<accepted, payloads, wire, buffer, channel>>
  BY DEF SubmitOnTimer, rpcVars, taskVars
<1>2. Range(pool') = {} /\ Increasing(pool') /\ pool \in Seq(Nat)
  BY <1>1, NoBatch, PlacesHold
<1>3. /\ Range(pool) \cup Range(pool') \cup InBatches(payloads') =
             Range(pool) \cup InBatches(payloads)
      /\ Before(Range(pool), Range(pool') \cup InBatches(payloads'))
      /\ Before(Range(pool'), InBatches(payloads'))
      /\ Increasing(pool) /\ InOrder(payloads')
  BY <1>1, <1>2 DEF WayInv, Sorted, Before
<1> QED BY <1>0, <1>1, <1>2, <1>3, SubmitKeepsOrder

LEMMA WayStep ==
    ASSUME WayInv, [Next]_vars
    PROVE  WayInv'
<1>1. CASE UNCHANGED vars
  <2>1. FeedInv'
    BY FeedStep DEF WayInv
  <2> QED BY <1>1, <2>1 DEF vars, rpcVars, taskVars, clientVars, WayInv, OnTheWay, Sorted
<1>2. CASE ReceiveLagged
  <2>1. FeedInv'
    BY FeedStep DEF WayInv
  <2> QED BY <1>2, <2>1 DEF ReceiveLagged, clientVars, WayInv, OnTheWay, Sorted
<1> QED BY <1>1, <1>2, CallKeepsOrder, ConnectionKeepsOrder, ReceiveKeepsOrder, FlushKeepsOrder,
           HandlerKeepsOrder, PayloadKeepsOrder, TimerKeepsOrder
        DEF Next, SubscriptionTask, BatchingTask

\* Through batches cut twice, overruns, closed connections and refusals, every
\* accepted transaction is on its way or lost, and the core is given them in the
\* order the RPC accepted them, none twice (transaction.rs, client.rs, validator.rs).
THEOREM InOrderOrLost == Spec => []KeptInOrder
<1>1. Init => WayInv
  BY WayInit
<1>2. WayInv /\ [Next]_vars => WayInv'
  BY WayStep
<1> QED BY <1>1, <1>2, WayInvImplies, PTL DEF Spec

-----------------------------------------------------------------------------
(* That nothing waits for ever: what EveryTxSettles needs besides fairness.*)

Weight(holds, n) == IF holds THEN n ELSE 0

\* What is on its way, each place weighing more than the next one: a call, the buffer, a batch on
\* the wire, one of the channel behind it, the pool; and the turns the task needs to receive again.
Backlog ==
    5 * Len(channel) + Weight(buffer # << >>, 4) + 3 * Len(wire) + 2 * Len(payloads)
        + Weight(pool # << >>, 1) + Weight(lagged, 2) + Weight(~receiving, 1)

\* A turn of one of the tasks that changes something waits for no more than this.
TaskReady ==
    \/ receiving /\ (lagged \/ channel # << >>)
    \/ subscribed /\ (buffer # << >> \/ ~receiving)
    \/ wire # << >> \/ payloads # << >> \/ pool # << >>

\* No call, no connection that opens or closes.
TaskStep == SubscriptionTask \/ FlushBuffer \/ transaction_handler \/ BatchingTask

BacklogNears == [][TaskStep => Backlog' < Backlog]_vars

\* Before the first subscription there is nothing.
OffUntilSubscribed ==
    /\ lagged \in BOOLEAN /\ receiving \in BOOLEAN
    /\ ~subscribed =>
          /\ ~lagged /\ receiving
          /\ channel = << >> /\ buffer = << >> /\ wire = << >> /\ payloads = << >> /\ pool = << >>

LEMMA OffStep ==
    ASSUME OffUntilSubscribed, [Next]_vars
    PROVE  OffUntilSubscribed'
<1> USE DEF OffUntilSubscribed, rpcVars, taskVars, clientVars
<1>1. CASE send_raw_transactions_async
  <2>1. subscribed /\ UNCHANGED <<subscribed, receiving>> /\ lagged' \in {lagged, TRUE}
    BY <1>1 DEF send_raw_transactions_async
  <2> QED BY <2>1
<1>2. CASE subscribe_raw_transactions
  BY <1>2 DEF subscribe_raw_transactions
<1>3. CASE Disconnect
  <2>1. /\ UNCHANGED <<rpcVars, taskVars, clientVars>>
        /\ \E n \in 0..Len(wire) : wire' = SubSeq(wire, 1, n)
    BY <1>3 DEF Disconnect
  <2>2. wire = << >> => wire' = << >>
    BY <2>1
  <2> QED BY <2>1, <2>2
<1>4. CASE ReceiveCall
  BY <1>4 DEF ReceiveCall
<1>5. CASE ReceiveLagged
  BY <1>5 DEF ReceiveLagged
<1>6. CASE FlushBuffer
  BY <1>6 DEF FlushBuffer
<1>7. CASE transaction_handler
  BY <1>7 DEF transaction_handler
<1>8. CASE ReceivePayload
  BY <1>8 DEF ReceivePayload
<1>9. CASE SubmitOnTimer
  BY <1>9 DEF SubmitOnTimer
<1>10. CASE UNCHANGED vars
  BY <1>10 DEF vars
<1> QED BY <1>1, <1>2, <1>3, <1>4, <1>5, <1>6, <1>7, <1>8, <1>9, <1>10
        DEF Next, SubscriptionTask, BatchingTask

\* Where there is a backlog there is a task that can reduce it.
LEMMA BacklogIsSeen ==
    ASSUME FeedInv, OffUntilSubscribed
    PROVE  /\ Backlog \in Nat
           /\ Backlog # 0 => TaskReady
           /\ Backlog = 0 => /\ channel = << >> /\ buffer = << >> /\ wire = << >>
                             /\ payloads = << >> /\ pool = << >>
<1>1. /\ Len(channel) \in Nat /\ Len(wire) \in Nat /\ Len(payloads) \in Nat
      /\ channel # << >> <=> Len(channel) # 0
      /\ wire # << >> <=> Len(wire) # 0
      /\ payloads # << >> <=> Len(payloads) # 0
  BY LenProperties, EmptySeq DEF FeedInv
<1> DEFINE b == Weight(buffer # << >>, 4)
           p == Weight(pool # << >>, 1)
           l == Weight(lagged, 2)
           r == Weight(~receiving, 1)
<1>2. /\ b \in Nat /\ (b = 0 <=> buffer = << >>)
      /\ p \in Nat /\ (p = 0 <=> pool = << >>)
      /\ l \in Nat /\ (l = 0 <=> ~lagged)
      /\ r \in Nat /\ (r = 0 <=> receiving)
  BY DEF Weight, OffUntilSubscribed
<1>3. Backlog = 5 * Len(channel) + b + 3 * Len(wire) + 2 * Len(payloads) + p + l + r
  BY DEF Backlog
<1> HIDE DEF b, p, l, r
<1>4. /\ Backlog \in Nat
      /\ Backlog = 0 <=> /\ Len(channel) = 0 /\ buffer = << >> /\ Len(wire) = 0
                         /\ Len(payloads) = 0 /\ pool = << >> /\ ~lagged /\ receiving
  <2>1. /\ Backlog \in Nat
        /\ Backlog = 0 <=> /\ Len(channel) = 0 /\ b = 0 /\ Len(wire) = 0 /\ Len(payloads) = 0
                           /\ p = 0 /\ l = 0 /\ r = 0
    BY <1>1, <1>2, <1>3
  <2> QED BY <1>2, <2>1
<1> QED BY <1>1, <1>4 DEF TaskReady, OffUntilSubscribed

LEMMA TaskStepShrinks ==
    ASSUME FeedInv, OffUntilSubscribed, TaskStep
    PROVE  Backlog' < Backlog \/ UNCHANGED vars
<1> USE DEF rpcVars, taskVars, clientVars
<1>1. /\ Len(channel) \in Nat /\ Len(wire) \in Nat /\ Len(payloads) \in Nat
      /\ \A txs : Len(Append(wire, txs)) = Len(wire) + 1
      /\ \A txs : Len(Append(payloads, txs)) = Len(payloads) + 1
      /\ channel # << >> => Len(Tail(channel)) = Len(channel) - 1
      /\ wire # << >> => Len(Tail(wire)) = Len(wire) - 1
      /\ payloads # << >> => Len(Tail(payloads)) = Len(payloads) - 1
      /\ lagged \in BOOLEAN /\ receiving \in BOOLEAN
  BY LenProperties DEF FeedInv, OffUntilSubscribed
<1>2. CASE ReceiveCall
  <2>1. /\ receiving /\ ~lagged /\ channel # << >> /\ channel' = Tail(channel)
        /\ UNCHANGED <<lagged, receiving, payloads, pool>>
        /\ \/ buffer' = << >> /\ wire' \in {wire, Append(wire, Extended(buffer, Head(channel)))}
           \/ wire' = wire
    BY <1>2 DEF ReceiveCall, SendBatch
  <2>2. /\ Len(channel') = Len(channel) - 1
        /\ Len(wire') \in {Len(wire), Len(wire) + 1}
        /\ Len(wire') = Len(wire) + 1 => buffer' = << >>
    BY <1>1, <2>1
  <2> QED BY <1>1, <2>1, <2>2 DEF Backlog, Weight
<1>3. CASE ReceiveLagged
  BY <1>1, <1>3 DEF ReceiveLagged, Backlog, Weight
<1>4. CASE FlushBuffer
  <2>1. CASE buffer # << >>
    <3>1. /\ buffer' = << >> /\ receiving' = TRUE
          /\ wire' \in {wire, Append(wire, buffer)}
          /\ UNCHANGED <<channel, lagged, payloads, pool>>
      BY <1>4, <2>1 DEF FlushBuffer, SendBatch
    <3>2. Len(wire') \in {Len(wire), Len(wire) + 1}
      BY <1>1, <3>1
    <3> QED BY <1>1, <2>1, <3>1, <3>2 DEF Backlog, Weight
  <2>2. CASE buffer = << >> /\ ~receiving
    BY <1>1, <1>4, <2>2 DEF FlushBuffer, Backlog, Weight
  <2>3. CASE buffer = << >> /\ receiving
    BY <1>1, <1>4, <2>3 DEF FlushBuffer, vars
  <2> QED BY <2>1, <2>2, <2>3
<1>5. CASE transaction_handler
  <2>1. /\ Len(wire') = Len(wire) - 1 /\ Len(payloads') = Len(payloads) + 1
        /\ UNCHANGED <<channel, lagged, receiving, buffer, pool>>
    BY <1>1, <1>5 DEF transaction_handler
  <2> QED BY <1>1, <2>1 DEF Backlog, Weight
<1>6. CASE ReceivePayload
  <2>1. /\ Len(payloads') = Len(payloads) - 1
        /\ UNCHANGED <<channel, lagged, receiving, buffer, wire>>
    BY <1>1, <1>6 DEF ReceivePayload
  <2> QED BY <1>1, <2>1 DEF Backlog, Weight
<1>7. CASE SubmitOnTimer
  BY <1>1, <1>7 DEF SubmitOnTimer, Backlog, Weight
<1> QED BY <1>2, <1>3, <1>4, <1>5, <1>6, <1>7 DEF TaskStep, SubscriptionTask, BatchingTask

\* Through overruns, closed connections and refusals: while anything is on its way one of the tasks
\* can go on, and when nothing is, every accepted transaction has reached the core or is lost.
THEOREM FeedNeverStops ==
    Spec => [](/\ Backlog # 0 => TaskReady
              /\ Backlog = 0 => 1..accepted = Range(submitted) \cup lost)
<1>1. WayInv /\ OffUntilSubscribed
      => /\ Backlog # 0 => TaskReady
         /\ Backlog = 0 => 1..accepted = Range(submitted) \cup lost
  <2> SUFFICES ASSUME WayInv, OffUntilSubscribed, Backlog = 0
               PROVE  1..accepted = Range(submitted) \cup lost
    BY BacklogIsSeen DEF WayInv
  <2>1. channel = << >> /\ buffer = << >> /\ wire = << >> /\ payloads = << >> /\ pool = << >>
    BY BacklogIsSeen DEF WayInv
  <2>2. OnTheWay = Range(submitted)
    BY <2>1, NoBatch DEF OnTheWay
  <2> QED BY <2>2 DEF WayInv
<1>2. Init => WayInv /\ OffUntilSubscribed
  BY WayInit DEF Init, OffUntilSubscribed
<1>3. WayInv /\ OffUntilSubscribed /\ [Next]_vars => WayInv' /\ OffUntilSubscribed'
  BY WayStep, OffStep
<1> QED BY <1>1, <1>2, <1>3, PTL DEF Spec

\* Every turn that changes something brings the end nearer: calls aside, at most Backlog turns are
\* left until all is settled.
THEOREM BacklogShrinks == Spec => [](Backlog \in Nat) /\ BacklogNears
<1>1. FeedInv /\ OffUntilSubscribed => Backlog \in Nat
  BY BacklogIsSeen
<1>2. FeedInv /\ OffUntilSubscribed /\ [Next]_vars => [TaskStep => Backlog' < Backlog]_vars
  BY TaskStepShrinks
<1>3. Init => FeedInv /\ OffUntilSubscribed
  BY FeedInit DEF Init, OffUntilSubscribed
<1>4. FeedInv /\ OffUntilSubscribed /\ [Next]_vars => FeedInv' /\ OffUntilSubscribed'
  BY FeedStep, OffStep
<1> QED BY <1>1, <1>2, <1>3, <1>4, PTL DEF Spec, BacklogNears
=============================================================================
