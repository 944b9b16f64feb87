---------------------------- MODULE TelemetryDrain ----------------------------
(***************************************************************************)
(* The host drains the telemetry log over a link that loses and delays     *)
(* replies.  The controller's side is TelemetryLog, which TelemetryRing    *)
(* implements; the host's side is the loop of scripts/telemetry_drain.py   *)
(* over tests/transport.py: ask with the last sequence number stored,      *)
(* store the block, advance the ack; after a timeout ask again with the    *)
(* same ack.                                                               *)
(***************************************************************************)
EXTENDS TelemetryLog, FiniteSets

CONSTANTS
  Capacity,        \* records the ring holds
  BlockRecords,    \* records one reply carries
  LateReplies,     \* a reply may come after the host has timed out
  MaxInFlight,     \* bound: requests and replies under way
  MaxSeq,          \* bound: the controller stops recording here
  MaxPowerCycles   \* bound: power cycles of the controller

ASSUME DrainAssumption ==
  /\ Capacity \in Nat \ {0} /\ BlockRecords \in Nat \ {0}
  /\ LateReplies \in BOOLEAN /\ MaxInFlight \in Nat \ {0}
  /\ MaxSeq \in Nat /\ MaxSeq < SeqMod - 1 /\ MaxPowerCycles \in Nat

VARIABLES
  epoch,     \* power cycles so far: the ring's incarnation
  requests,  \* GET_TELEMETRY_BLOCK requests not served yet: their acks
  replies,   \* replies the host has not read
  waiting,   \* host: command() is waiting for an answer
  ack_seq,   \* host: last sequence number stored
  stored,    \* host: the records on disk, in order of arrival
  last_seq,  \* host: SeqTracker.last_seq, 0 before the first record
  missing    \* host: records the sequence gaps stand for

hostVars == <<ack_seq, stored, last_seq, missing>>
linkVars == <<requests, replies, waiting>>
drainVars == <<logVars, epoch, linkVars, hostVars>>

Elems(s) == {s[i] : i \in 1 .. Len(s)}

\* The records on the host's disk that belong to this incarnation.
StoredNow == {r[2] : r \in {x \in Elems(stored) : x[1] = epoch}}

\* The numbers of those that belong to earlier ones.
StoredBefore == {r[2] : r \in {x \in Elems(stored) : x[1] < epoch}}

DrainInit ==
  /\ Init /\ risk = "none"
  /\ epoch = 0 /\ requests = <<>> /\ replies = <<>> /\ waiting = FALSE
  /\ ack_seq = NoAck /\ stored = <<>> /\ last_seq = 0 /\ missing = 0

(***************************************************************************)
(* The controller.                                                         *)
(***************************************************************************)
\* A full ring makes room first; an eviction frees one record or more.
Record ==
  /\ next_seq <= MaxSeq
  /\ IF Len(log) < Capacity
     THEN Emit
     ELSE \E k \in 1 .. 2 : k <= Len(log) /\ Evict(k)
  /\ UNCHANGED <<risk, epoch, linkVars, hostVars>>

\* Mutant: a block that would not be full goes out empty.
ServeBlock_FullOnly ==
  /\ requests # <<>> /\ requests' = Tail(requests)
  /\ LET ack == Head(requests) IN
     \/ ack # NoAck /\ \E k \in 0 .. Len(log) : Ack(ack, k)
     \/ (ack = NoAck \/ ack >= next_seq) /\ Keep
  /\ LET n == IF Len(log') < BlockRecords THEN 0 ELSE BlockRecords IN
     replies' = Append(replies, [recs |-> SubSeq(log', 1, n), epoch |-> epoch])
  /\ UNCHANGED <<risk, epoch, waiting, hostVars>>

\* handleGetTelemetryBlock: the ack, then a block that frees nothing.
ServeBlock ==
  /\ requests # <<>> /\ requests' = Tail(requests)
  /\ LET ack == Head(requests) IN
     \/ ack # NoAck /\ \E k \in 0 .. Len(log) : Ack(ack, k)
     \/ (ack = NoAck \/ ack >= next_seq) /\ Keep
  /\ LET n == IF Len(log') < BlockRecords THEN Len(log') ELSE BlockRecords IN
     replies' = Append(replies, [recs |-> SubSeq(log', 1, n), epoch |-> epoch])
  /\ UNCHANGED <<risk, epoch, waiting, hostVars>>

\* RAM loses its contents: initRing.  The link goes down with the controller.
PowerCycle ==
  /\ epoch < MaxPowerCycles
  /\ epoch' = epoch + 1
  /\ log' = <<>> /\ next_seq' = 1 /\ dropped' = 0
  /\ requests' = <<>> /\ replies' = <<>>
  /\ UNCHANGED <<risk, waiting, hostVars>>

(***************************************************************************)
(* The host and the link.                                                  *)
(***************************************************************************)
\* SeqTracker.feed(): the record before the i-th of recs.
Before(recs, i) == IF i = 1 THEN last_seq ELSE recs[i - 1]

Gaps(recs) ==
  LET gap(i) == IF Before(recs, i) = 0 THEN 0 ELSE recs[i] - Before(recs, i) - 1
      sum[i \in 0 .. Len(recs)] == IF i = 0 THEN 0 ELSE sum[i - 1] + gap(i)
  IN sum[Len(recs)]

Ask ==
  /\ ~waiting
  /\ requests' = Append(requests, ack_seq)
  /\ waiting' = TRUE
  /\ UNCHANGED <<logVars, epoch, replies, hostVars>>

\* The answer is the first reply in the buffer, whichever request it is for;
\* what was read along with it is thrown away.
TakeReply ==
  /\ waiting /\ replies # <<>>
  /\ \E k \in 1 .. Len(replies) : replies' = SubSeq(replies, k + 1, Len(replies))
  /\ waiting' = FALSE
  /\ UNCHANGED <<logVars, epoch, requests>>

StoreBlock(block) ==
  /\ stored' = stored \o [i \in 1 .. Len(block.recs) |-> <<block.epoch, block.recs[i]>>]
  /\ missing' = missing + Gaps(block.recs)
  /\ last_seq' = IF block.recs = <<>> THEN last_seq ELSE block.recs[Len(block.recs)]

\* Mutant: the block is stored but the ack stays where it was.
Receive_AckStays ==
  /\ TakeReply
  /\ StoreBlock(Head(replies))
  /\ Len(stored) < 3 * MaxSeq
  /\ UNCHANGED ack_seq

\* The block is on disk before the ack advances.
Receive ==
  /\ TakeReply
  /\ StoreBlock(Head(replies))
  /\ ack_seq' = IF Head(replies).recs = <<>> THEN ack_seq
                ELSE Head(replies).recs[Len(Head(replies).recs)]

\* No answer in time: it is lost, or it comes late.
Timeout ==
  /\ waiting /\ waiting' = FALSE
  /\ \/ requests' = <<>> /\ replies' = <<>>
     \/ /\ LateReplies /\ Len(requests) + Len(replies) < MaxInFlight
        /\ UNCHANGED <<requests, replies>>
  /\ UNCHANGED <<logVars, epoch, hostVars>>

DrainNext == Record \/ ServeBlock \/ PowerCycle \/ Ask \/ Receive \/ Timeout

DrainSpec == DrainInit /\ [][DrainNext]_drainVars

\* The host polls for ever, and neither every request nor every reply is lost.
FairDrainSpec ==
  DrainSpec /\ WF_drainVars(Ask) /\ SF_drainVars(ServeBlock)
            /\ WF_drainVars(Timeout) /\ SF_drainVars(Receive)
------------------------------------------------------------------------------
\* The host and the link have their types; the disk holds pairs of an
\* incarnation and a sequence number.
DrainTypeOK ==
  /\ log \in Seq(1 .. MaxSeq) /\ Len(log) <= Capacity
  /\ next_seq \in 1 .. MaxSeq + 1 /\ dropped \in 0 .. MaxSeq
  /\ epoch \in 0 .. MaxPowerCycles
  /\ ack_seq \in (1 .. MaxSeq) \cup {NoAck}
  /\ last_seq \in 0 .. MaxSeq
  /\ waiting \in BOOLEAN /\ Len(requests) + Len(replies) <= MaxInFlight
  /\ stored \in Seq((0 .. MaxPowerCycles) \X (1 .. MaxSeq))

\* A lost reply costs nothing and repeats nothing: the host's disk holds each
\* record of an incarnation at most once and in the order they were recorded.
StoredOnceInOrder ==
  \A i, j \in 1 .. Len(stored) :
    i < j /\ stored[i][1] = stored[j][1] => stored[i][2] < stored[j][2]

\* Every record is on the host's disk, in the ring, or among the ones the
\* dropped counter of the block header admits to.  After a power cycle this is so
\* of the records beyond the last number that was stored before it: an ack the
\* host still holds may free the others unseen (FreesOnlyStored).
NothingSilentlyLost ==
  Cardinality({s \in 1 .. next_seq - 1 :
                 s \notin StoredNow /\ s \notin Elems(log) /\ \A a \in StoredBefore : a < s})
    <= dropped

\* What an ack may free (evictions are the Record step).  Without a power cycle
\* only records the host has stored, however late the request that carries it.
\* After one, an ack of the incarnation before frees nothing until this one has
\* recorded past its number; from then on it frees records up to it that nobody
\* has stored (README, Divergences).
FreesOnlyStored ==
  [][ServeBlock =>
       LET ack == Head(requests) IN
       \A i \in 1 .. Len(log) :
         \/ log[i] \in Elems(log') \/ log[i] \in StoredNow
         \/ ack \in StoredBefore \ StoredNow /\ log[i] <= ack /\ ack < next_seq]_drainVars

\* The sequence gaps a host sees are no more than the dropped counter admits
\* to; they are fewer when what the host had stored but not acked is evicted.
GapsExplained == epoch = 0 => missing <= dropped

\* A record in the ring reaches the host unless an eviction takes it first.
EventuallyStored ==
  \A s \in 1 .. MaxSeq : s \in Elems(log) ~> (s \in StoredNow \/ s \notin Elems(log))

\* The host's log (telemetry_drain.py) is exact: each record once and in order,
\* and no gap beyond what the dropped counter admits to.
HostLogExact == DrainTypeOK /\ StoredOnceInOrder /\ GapsExplained
==============================================================================
