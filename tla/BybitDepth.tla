----------------------------- MODULE BybitDepth -----------------------------
(***************************************************************************)
(* The depth of one Bybit symbol, from the exchange to the shard's book.   *)
(* The exchange (external) answers a subscription with a snapshot in the   *)
(* stream, then sends one delta per update, with consecutive ids, and now  *)
(* and then another snapshot.  The task is bybit.rs run_once with its      *)
(* BybitDepthSynchronizer; the worker is ShardRunner::handle_event.        *)
(*                                                                         *)
(* The symbol shares its connection and its queue with others: their       *)
(* errors are ConnectionLost, the slots they hold are ForwardFails.        *)
(***************************************************************************)
EXTENDS LocalBook, Sequences

CONSTANTS
    MaxId,        (* bound on the exchange's update ids                    *)
    QueueBound    (* EVENT_QUEUE_BOUND                                     *)

ASSUME BybitAssumption ==
    /\ MaxId \in Nat
    /\ QueueBound \in Nat \ {0}

VARIABLES
    head,         (* the exchange's latest update id                       *)
    hist,         (* hist[i]: the exchange's book after update i           *)
    wire,         (* messages on their way to the connected task           *)
    intact,       (* no message of the current connection was lost         *)
    connected,    (* the websocket task is inside run_once                 *)
    sync,         (* SymbolState                                           *)
    queue,        (* the shard's event queue                               *)
    book          (* the shard's LocalBookState                            *)

exchangeVars == <<head, hist>>
vars == <<exchangeVars, wire, intact, connected, sync, queue, book>>

(* SymbolState::default                                                    *)
NewSync == [hasSnapshot |-> FALSE, last |-> NoSeq]

Init ==
    /\ head = 0
    /\ hist = [i \in 0..0 |-> EmptyLevels]
    /\ wire = <<>>
    /\ intact = TRUE
    /\ connected = FALSE
    /\ sync = NewSync
    /\ queue = <<>>
    /\ book = NewBook

----------------------------------------------------------------------------
(* The exchange (external).                                                *)
CurrentSnapshot == Snapshot(head, hist[head])

(* One update of one level and its delta, delivered to the connection or   *)
(* lost; without a connection there is nothing to deliver it to.           *)
ExchangeUpdate ==
    /\ head < MaxId
    /\ head' = head + 1
    /\ \E l \in Level, q \in Qty :
          /\ hist' = [i \in 0..(head + 1) |->
                         IF i <= head THEN hist[i]
                         ELSE [hist[head] EXCEPT ![l] = q]]
          /\ \/ /\ connected
                /\ wire' = Append(wire, Delta(head + 1, NoSeq, head + 1,
                                              [k \in {l} |-> q]))
                /\ intact' = intact
             \/ /\ wire' = wire
                /\ intact' = FALSE
    /\ UNCHANGED <<connected, sync, queue, book>>

(* The exchange sends a snapshot again.                                    *)
Resnapshot ==
    /\ connected
    /\ Len(wire) < MaxId
    /\ wire' = Append(wire, CurrentSnapshot)
    /\ UNCHANGED <<exchangeVars, intact, connected, sync, queue, book>>

----------------------------------------------------------------------------
(* The websocket task.                                                     *)

(* run_once, after the reconnect delay: connect and subscribe.  The        *)
(* subscription is answered with a snapshot, which may be lost too.        *)
Connect ==
    /\ ~connected
    /\ connected' = TRUE
    /\ sync' = NewSync
    /\ \/ /\ wire' = <<CurrentSnapshot>>
          /\ intact' = TRUE
       \/ /\ wire' = <<>>
          /\ intact' = FALSE
    /\ UNCHANGED <<exchangeVars, queue, book>>

(* run_once returns an error: connection and synchronizer are dropped.     *)
Drop ==
    /\ connected' = FALSE
    /\ sync' = NewSync
    /\ wire' = <<>>
    /\ UNCHANGED <<exchangeVars, intact, queue, book>>

ConnectionLost == connected /\ Drop

(* Mutant: any newer delta is accepted.                                    *)
AcceptsAnyNewer(s, m) ==
    \/ m.kind = "Snapshot"
    \/ /\ s.hasSnapshot
       /\ m.seq = NoSeq \/ s.last = NoSeq \/ m.seq > s.last

(* SymbolState::accept: Ok(true), Ok(false) and Err.                       *)
Accepts(s, m) ==
    \/ m.kind = "Snapshot"
    \/ /\ s.hasSnapshot
       /\ m.seq = NoSeq \/ s.last = NoSeq \/ m.seq = s.last + 1

Gap(s, m) ==
    /\ m.kind = "Delta"
    /\ s.hasSnapshot /\ s.last # NoSeq
    /\ m.seq > s.last + 1

(* The state accept leaves for an accepted message.                        *)
Accepted(s, m) ==
    IF m.kind = "Snapshot" THEN [hasSnapshot |-> TRUE, last |-> m.seq]
    ELSE IF m.seq = NoSeq THEN s
    ELSE [s EXCEPT !.last = m.seq]

Receive == connected /\ wire # <<>> /\ wire' = Tail(wire)

(* Mutant: the queue has no bound.                                         *)
ForwardUnbounded ==
    /\ Receive
    /\ Accepts(sync, Head(wire))
    /\ sync' = Accepted(sync, Head(wire))
    /\ queue' = Append(queue, Head(wire))
    /\ UNCHANGED <<exchangeVars, intact, connected, book>>

(* handle_payload: an accepted message goes to the shard's queue.          *)
Forward ==
    /\ Receive
    /\ Accepts(sync, Head(wire))
    /\ Len(queue) < QueueBound
    /\ sync' = Accepted(sync, Head(wire))
    /\ queue' = Append(queue, Head(wire))
    /\ UNCHANGED <<exchangeVars, intact, connected, book>>

(* try_send finds the queue full, with this symbol's messages or others'.  *)
ForwardFails ==
    /\ connected /\ wire # <<>>
    /\ Accepts(sync, Head(wire))
    /\ Drop

(* A delta before the snapshot, or one already seen.                       *)
Ignore ==
    /\ Receive
    /\ ~Accepts(sync, Head(wire))
    /\ ~Gap(sync, Head(wire))
    /\ UNCHANGED <<exchangeVars, intact, connected, sync, queue, book>>

(* A gap ends the connection; the next one starts from a snapshot.         *)
DetectGap ==
    /\ connected /\ wire # <<>>
    /\ Gap(sync, Head(wire))
    /\ Drop

----------------------------------------------------------------------------
(* The shard worker: handle_event on the next message.                     *)
HandleEvent ==
    /\ queue # <<>>
    /\ book' = Apply(book, Head(queue))
    /\ queue' = Tail(queue)
    /\ UNCHANGED <<exchangeVars, wire, intact, connected, sync>>

Next ==
    \/ ExchangeUpdate
    \/ Resnapshot
    \/ Connect
    \/ ConnectionLost
    \/ Forward
    \/ ForwardFails
    \/ Ignore
    \/ DetectGap
    \/ HandleEvent

Spec == Init /\ [][Next]_vars

(* The task reads its socket, the worker its queue; the task reconnects.   *)
Fairness ==
    /\ WF_vars(Connect)
    /\ WF_vars(Forward \/ Ignore \/ DetectGap)
    /\ WF_vars(HandleEvent)

FairSpec == Spec /\ Fairness

----------------------------------------------------------------------------
TypeOK ==
    /\ head \in 0..MaxId
    /\ hist \in [0..head -> Levels]
    /\ wire \in Seq(Snapshots \cup Deltas)
    /\ intact \in BOOLEAN
    /\ connected \in BOOLEAN
    /\ sync \in [hasSnapshot : BOOLEAN, last : Seqs]
    /\ queue \in Seq(Snapshots \cup Deltas)
    /\ Len(queue) <= QueueBound
    /\ book \in Books

(* Whatever was lost, dropped or sent again on the way, a book the shard   *)
(* trusts is exactly the exchange's book as of its last_sequence.          *)
BookMatchesExchange == Matches(book, hist, head)

(* The book never rejects what the gateway forwards (see BinanceDepth):    *)
(* the gap is always found by the gateway, which reconnects.               *)
ForwardedAlwaysApplies ==
    queue # <<>> => ApplyResult(book, Head(queue)) = "Applied"

(* On a connection that stays up and loses nothing, every update of the    *)
(* exchange reaches the book.                                              *)
CatchesUp ==
    <>[](connected /\ intact) =>
        \A i \in 1..MaxId : (head >= i) ~> (book.last >= i)

(* A snapshot of the subscribed book, orderbook.1000, shows all of it.     *)
Whole(levels) == levels

(* The pipeline implements the replica it promises.                        *)
Replica == INSTANCE BookReplica WITH
    EmptyBook <- EmptyLevels,
    Served <- Whole,
    version <- book.last,
    levels <- book.levels

ImplementsReplica == Replica!Spec
============================================================================
