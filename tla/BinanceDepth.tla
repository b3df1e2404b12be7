---------------------------- MODULE BinanceDepth ----------------------------
(***************************************************************************)
(* The depth of one Binance symbol, from the exchange to the shard's book: *)
(*                                                                         *)
(*   exchange --wire--> websocket task --queue--> shard worker --> book    *)
(*       \----REST snapshot----^                                           *)
(*                                                                         *)
(* The exchange is external: `hist` is the book after each update id, and  *)
(* a depthUpdate event carries every level changed since the last event.   *)
(* The task is gateway/market_ws/binance.rs run_once with the              *)
(* DepthSynchronizer of binance_sync.rs; fetching the snapshot is an await,*)
(* and its sends to the bounded shard queue are try_sends the worker       *)
(* interleaves with.  The worker is ShardRunner::handle_event.             *)
(*                                                                         *)
(* The symbol shares its connection and its queue with others: their       *)
(* errors are ConnectionLost, the slots they hold are SendFails.           *)
(***************************************************************************)
EXTENDS LocalBook, FiniteSets, Sequences

CONSTANTS
    MaxId,        (* bound on the exchange's update ids                    *)
    IdGaps,       (* whether ids may pass that change nothing in the book  *)
    MaxLag,       (* how many updates a REST snapshot may lag behind       *)
    QueueBound,   (* EVENT_QUEUE_BOUND                                     *)
    DepthLimit,   (* DEPTH_LIMIT: levels per side in a REST snapshot       *)
    Better        (* <<k, l>>: k is on l's side, at a better price         *)

ASSUME BinanceAssumption ==
    /\ MaxId \in Nat
    /\ IdGaps \in BOOLEAN
    /\ MaxLag \in Nat
    /\ QueueBound \in Nat \ {0}
    /\ DepthLimit \in Nat \ {0}
    /\ Better \subseteq Level \X Level

VARIABLES
    head,         (* the exchange's latest update id                       *)
    hist,         (* hist[i]: the exchange's book after update i           *)
    streamed,     (* the last update id an event was emitted for           *)
    wire,         (* events on their way to the connected task             *)
    task,         (* where the websocket task is                           *)
    sync,         (* SymbolSyncState                                       *)
    outbox,       (* messages the running handler has yet to try_send      *)
    queue,        (* the shard's event queue                               *)
    book          (* the shard's LocalBookState                            *)

exchangeVars == <<head, hist, streamed>>
taskVars == <<task, sync, outbox>>
vars == <<exchangeVars, wire, taskVars, queue, book>>

(* snapshot: Option<BinanceSnapshot>                                       *)
NoSnapshot == Snapshot(NoSeq, EmptyLevels)

(* SymbolSyncState::new, and what reset leaves.                            *)
NewSync == [ready |-> FALSE, last |-> NoSeq, snapshot |-> NoSnapshot,
            pending |-> <<>>]

Init ==
    /\ head = 0
    /\ hist = [i \in 0..0 |-> EmptyLevels]
    /\ streamed = 0
    /\ wire = <<>>
    /\ task = "down"
    /\ sync = NewSync
    /\ outbox = <<>>
    /\ queue = <<>>
    /\ book = NewBook

----------------------------------------------------------------------------
(* The exchange (external).                                                *)

(* One update: a level gets a quantity.  With IdGaps it may be the one it  *)
(* has: an id that leaves the depth stream nothing to report.              *)
ExchangeUpdate ==
    /\ head < MaxId
    /\ \E l \in Level, q \in Qty :
        /\ IdGaps \/ q # hist[head][l]
        /\ hist' = [i \in 0..(head + 1) |->
                      IF i <= head THEN hist[i]
                      ELSE [hist[head] EXCEPT ![l] = q]]
    /\ head' = head + 1
    /\ UNCHANGED <<streamed, wire, taskVars, queue, book>>

(* The depthUpdate event for the updates after `streamed`: pu is the last  *)
(* event's u, U the first id with a change, u the latest id.               *)
EventFrom(first) ==
    Delta(first, streamed, head,
          [l \in {k \in Level :
                    \E i \in streamed..head : hist[i][k] # hist[head][k]}
               |-> hist[head][l]])

FirstChange(first) ==
    /\ first \in (streamed + 1)..head
    /\ hist[first] # hist[streamed]
    /\ \A i \in streamed..(first - 1) : hist[i] = hist[streamed]

(* An event reaches the task's connection, or is lost on the way.          *)
EmitEvent ==
    /\ \E first \in (streamed + 1)..head :
          /\ FirstChange(first)
          /\ \/ /\ task # "down"
                /\ wire' = Append(wire, EventFrom(first))
             \/ wire' = wire
    /\ streamed' = head
    /\ UNCHANGED <<head, hist, taskVars, queue, book>>

----------------------------------------------------------------------------
(* The websocket task.                                                     *)

(* run_once returns: its synchronizer and the connection are dropped.      *)
Drop ==
    /\ task' = "down"
    /\ sync' = NewSync
    /\ outbox' = <<>>
    /\ wire' = <<>>
    /\ UNCHANGED <<exchangeVars, queue, book>>

(* run_once, after the reconnect delay.                                    *)
Connect ==
    /\ task = "down"
    /\ task' = "reading"
    /\ sync' = NewSync
    /\ outbox' = <<>>
    /\ wire' = <<>>
    /\ UNCHANGED <<exchangeVars, queue, book>>

(* The read or the keepalive ping fails, the remote closes, or another     *)
(* symbol of the connection ends run_once.                                 *)
ConnectionLost == task = "reading" /\ Drop

(* Mutant: only an older predecessor counts as a gap.                      *)
HasSequenceGapIfOlder(s) ==
    \E i \in 1..Len(s.pending) :
        LET expected == IF i = 1 THEN s.last ELSE s.pending[i - 1].seq
        IN  expected # NoSeq /\ s.pending[i].previous < expected

(* has_sequence_gap: a buffered delta does not follow the one before it.   *)
HasSequenceGap(s) ==
    \E i \in 1..Len(s.pending) :
        LET expected == IF i = 1 THEN s.last ELSE s.pending[i - 1].seq
        IN  expected # NoSeq /\ s.pending[i].previous # expected

(* find_snapshot_bridge's test of one delta.                               *)
BridgesFrom(last, m) == m.first <= last + 1 /\ m.seq >= last + 1

(* initialize_symbol once s holds a snapshot.  Sequences increase along    *)
(* pending, so discard_stale keeps the suffix from some k on.  Without a   *)
(* bridge the task goes back to reading; with one it sends the snapshot,   *)
(* the bridge and what follows it.                                         *)
Initialize(s) ==
    \E k \in 1..(Len(s.pending) + 1) :
        LET last == s.snapshot.seq
            kept == SubSeq(s.pending, k, Len(s.pending))
        IN  /\ \A i \in 1..Len(s.pending) : s.pending[i].seq > last <=> i >= k
            /\ \/ /\ \A i \in 1..Len(kept) : ~BridgesFrom(last, kept[i])
                  /\ sync' = [s EXCEPT !.pending = kept]
                  /\ outbox' = <<>>
                  /\ task' = "reading"
               \/ \E b \in 1..Len(kept) :
                    /\ BridgesFrom(last, kept[b])
                    /\ \A i \in 1..(b - 1) : ~BridgesFrom(last, kept[i])
                    /\ sync' = [ready |-> TRUE, last |-> kept[Len(kept)].seq,
                                snapshot |-> NoSnapshot, pending |-> <<>>]
                    /\ outbox' = <<s.snapshot>> \o SubSeq(kept, b, Len(kept))
                    /\ task' = "sending"

(* handle_payload: the event is buffered in s, then one of the three cases.*)
Buffered == [sync EXCEPT !.pending = Append(@, Head(wire))]

Receive == task = "reading" /\ wire # <<>> /\ wire' = Tail(wire)

(* Mutant: every waiting event fetches, also with a snapshot at hand.      *)
ReceiveWaitingRefetching ==
    /\ Receive
    /\ ~sync.ready
    /\ sync' = Buffered
    /\ task' = "fetching"
    /\ outbox' = <<>>
    /\ UNCHANGED <<exchangeVars, queue, book>>

(* Not ready: fetch a snapshot, or look for the bridge of the one fetched. *)
ReceiveWaiting ==
    /\ Receive
    /\ ~sync.ready
    /\ \/ /\ sync.snapshot = NoSnapshot
          /\ sync' = Buffered
          /\ task' = "fetching"
          /\ outbox' = <<>>
       \/ /\ sync.snapshot # NoSnapshot
          /\ Initialize(Buffered)
    /\ UNCHANGED <<exchangeVars, queue, book>>

(* Ready, but the event does not follow: reset, then fetch anew.           *)
ReceiveGap ==
    /\ Receive
    /\ sync.ready
    /\ HasSequenceGap(Buffered)
    /\ sync' = NewSync
    /\ task' = "fetching"
    /\ outbox' = <<>>
    /\ UNCHANGED <<exchangeVars, queue, book>>

(* Ready and in sequence: pop_ready_delta until pending is empty.          *)
ReceiveReady ==
    /\ Receive
    /\ sync.ready
    /\ ~HasSequenceGap(Buffered)
    /\ outbox' = Buffered.pending
    /\ sync' = [sync EXCEPT !.last = Head(wire).seq, !.pending = <<>>]
    /\ task' = "sending"
    /\ UNCHANGED <<exchangeVars, queue, book>>

(* Level l has DepthLimit better ones before it.                           *)
Beyond(levels, l) ==
    Cardinality({k \in Level : <<k, l>> \in Better /\ levels[k] # 0})
        >= DepthLimit

(* What a snapshot of this book shows: the best DepthLimit levels per side.*)
Best(levels) == [l \in Level |-> IF Beyond(levels, l) THEN 0 ELSE levels[l]]

(* fetch_snapshot returns the best of the book at some recent id.          *)
FetchSnapshot ==
    /\ task = "fetching"
    /\ \E id \in 0..head :
          /\ id + MaxLag >= head
          /\ Initialize([sync EXCEPT !.snapshot =
                            Snapshot(id, Best(hist[id]))])
    /\ UNCHANGED <<exchangeVars, wire, queue, book>>

FetchFails == task = "fetching" /\ Drop

(* Mutant: the queue has no bound.                                         *)
SendDepthUnbounded ==
    /\ task = "sending"
    /\ queue' = Append(queue, Head(outbox))
    /\ outbox' = Tail(outbox)
    /\ task' = IF Tail(outbox) = <<>> THEN "reading" ELSE "sending"
    /\ UNCHANGED <<exchangeVars, wire, sync, book>>

(* send_depth_message: try_send of the next message.                       *)
SendDepth ==
    /\ task = "sending"
    /\ Len(queue) < QueueBound
    /\ queue' = Append(queue, Head(outbox))
    /\ outbox' = Tail(outbox)
    /\ task' = IF Tail(outbox) = <<>> THEN "reading" ELSE "sending"
    /\ UNCHANGED <<exchangeVars, wire, sync, book>>

(* The queue is full, with this symbol's messages or with others'.         *)
SendFails == task = "sending" /\ Drop

----------------------------------------------------------------------------
(* The shard worker: handle_event on the next message.                     *)
HandleEvent ==
    /\ queue # <<>>
    /\ book' = Apply(book, Head(queue))
    /\ queue' = Tail(queue)
    /\ UNCHANGED <<exchangeVars, wire, taskVars>>

Next ==
    \/ ExchangeUpdate
    \/ EmitEvent
    \/ Connect
    \/ ConnectionLost
    \/ ReceiveWaiting
    \/ ReceiveGap
    \/ ReceiveReady
    \/ FetchSnapshot
    \/ FetchFails
    \/ SendDepth
    \/ SendFails
    \/ HandleEvent

Spec == Init /\ [][Next]_vars

----------------------------------------------------------------------------
TypeOK ==
    /\ head \in 0..MaxId
    /\ hist \in [0..head -> Levels]
    /\ streamed \in 0..head
    /\ wire \in Seq(Deltas)
    /\ task \in {"down", "reading", "fetching", "sending"}
    /\ sync \in [ready : BOOLEAN, last : Seqs, snapshot : Snapshots,
                 pending : Seq(Deltas)]
    /\ outbox \in Seq(Snapshots \cup Deltas)
    /\ queue \in Seq(Snapshots \cup Deltas)
    /\ Len(queue) <= QueueBound
    /\ book \in Books

Shown == [i \in 0..head |-> Best(hist[i])]

(* Whatever was lost, dropped or refetched on the way, a book the shard    *)
(* trusts is the exchange's book as of its last_sequence, with one         *)
(* exception the code has: a level beyond DEPTH_LIMIT when the snapshot was*)
(* taken is missing until it changes, however good a price it becomes.     *)
BookTracksExchange == Tracks(book, Shown, hist, head)

(* The book never rejects what the gateway forwards: apply's gap, stale    *)
(* and waiting results cannot happen for Binance.  The worker relies on    *)
(* it: on GapDetected it clears the book and has no way to ask the gateway *)
(* for the snapshot that would refill it.                                  *)
ForwardedAlwaysApplies ==
    queue # <<>> => ApplyResult(book, Head(queue)) = "Applied"

----------------------------------------------------------------------------
(* The inductive invariant behind the two (see BinanceDepthProofs).        *)

Messages == Snapshots \cup Deltas

(* Every message on the way tells the truth about the exchange's history.  *)
AllFaithful ==
    /\ \A i \in 1..Len(wire) : Faithful(wire[i], Shown, hist, head)
    /\ \A i \in 1..Len(sync.pending) : Faithful(sync.pending[i], Shown, hist, head)
    /\ sync.snapshot # NoSnapshot => Faithful(sync.snapshot, Shown, hist, head)
    /\ \A i \in 1..Len(outbox) : Faithful(outbox[i], Shown, hist, head)
    /\ \A i \in 1..Len(queue) : Faithful(queue[i], Shown, hist, head)

(* Where the book will be once the queue is worked off.                    *)
QueuedSeq == IF queue = <<>> THEN book.last ELSE queue[Len(queue)].seq
QueuedTrusted == queue = <<>> => book.hasSnapshot

(* Each queued delta follows what is before it.                            *)
QueueInSequence ==
    \A i \in 1..Len(queue) :
        queue[i].kind = "Delta" =>
            IF i = 1 THEN book.hasSnapshot /\ Follows(book.last, queue[1])
            ELSE Follows(queue[i - 1].seq, queue[i])

(* So does each message the running handler has yet to send.               *)
OutboxInSequence ==
    /\ task = "sending" <=> outbox # <<>>
    /\ \A i \in 1..Len(outbox) :
          outbox[i].kind = "Delta" =>
              IF i = 1 THEN QueuedTrusted /\ Follows(QueuedSeq, outbox[1])
              ELSE Follows(outbox[i - 1].seq, outbox[i])

(* The synchronizer's view at each place of the task: a ready symbol has   *)
(* sent everything up to its last sequence, a waiting one has no bridge.   *)
SyncInStep ==
    /\ sync.ready => sync.pending = <<>>
    /\ task \in {"down", "fetching"} => ~sync.ready
    /\ task = "sending" =>
          sync.ready /\ sync.last = outbox[Len(outbox)].seq
    /\ task = "reading" /\ sync.ready =>
          QueuedTrusted /\ sync.last = QueuedSeq /\ sync.last # NoSeq
    /\ task = "fetching" => Len(sync.pending) <= 1
    /\ ~sync.ready /\ sync.snapshot = NoSnapshot /\ task # "fetching" =>
          sync.pending = <<>>
    /\ ~sync.ready /\ task = "reading" =>
          \A i \in 1..Len(sync.pending) :
              /\ sync.pending[i].seq > sync.snapshot.seq
              /\ ~BridgesFrom(sync.snapshot.seq, sync.pending[i])

IInv ==
    /\ TypeOK
    /\ AllFaithful
    /\ BookTracksExchange
    /\ QueueInSequence
    /\ OutboxInSequence
    /\ SyncInStep

----------------------------------------------------------------------------
(* The task holds a snapshot that the stream has moved past.               *)
Stranded ==
    /\ sync.snapshot # NoSnapshot
    /\ \E i \in 1..Len(sync.pending) :
          sync.pending[i].first > sync.snapshot.seq + 1

(* "Packet loss is handled by a rebuild in the adapter": the adapter never *)
(* waits for a bridge that the stream has already passed.                  *)
NeverStranded == ~Stranded

(* Nothing but the end of the connection gets the symbol out of that state:*)
(* the snapshot is kept and never fetched again.                           *)
StrandedUntilDropped == [][Stranded => Stranded' \/ task' = "down"]_vars

(* The pipeline implements the replica it promises.                        *)
Replica == INSTANCE BookReplica WITH
    EmptyBook <- EmptyLevels,
    Served <- Best,
    version <- book.last,
    levels <- book.levels

ImplementsReplica == Replica!Spec
============================================================================
