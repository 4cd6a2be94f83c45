------------------------ MODULE ParallelForProperties -----------------------
(* What a call of ParallelForFixedBlockSizeScheduling promises.              *)
EXTENDS ParallelFor

\* The variables hold what the code can put in them.
TypeOK ==
    /\ call \in Calls
    /\ work \subseteq Ranges
    /\ times \in [Units -> Nat]
    /\ count \in Nat /\ waiter \in BOOLEAN /\ notified \in BOOLEAN
    /\ notify \subseteq {Caller} \cup Workers
    /\ caller \in {"start", "working", "waiting", "returned"}

\* However the ranges are halved and whoever runs them, no unit of work is done
\* twice, and all of them are done when the caller returns.
ExactlyOnce ==
    /\ \A i \in Units : times[i] <= 1
    /\ caller = "returned" => \A i \in Units : times[i] = 1

\* When the caller returns, handle_range and the counter on its stack are used by
\* no thread: no closure is still scheduled and none is about to notify.
NoUseAfterReturn == caller = "returned" => work = {} /\ notify = {}

\* Every call of fn gets a whole block, or the rest of the last one: the number of
\* shards is what the caller was told, and at most one of them is smaller.
FixedBlocks ==
    \A x \in work : x.called =>
        /\ x.first % call.block_size = 0
        /\ x.last - x.first = call.block_size \/ x.last = call.total

\* The assertions of BlockingCounter: a shard that ends finds a count to lower, and
\* the counter is notified once, by the thread that brought it to zero.
CounterChecks ==
    /\ \A x \in work : x.called => count > 0
    /\ notify # {} => ~ notified /\ Cardinality(notify) = 1 /\ count = 0

\* The call returns if the pool has a thread that is free; the caller alone takes
\* no closure while it waits.
Returns == (call.free > 0 \/ NumShards = 1) ~> caller = "returned"
=============================================================================
