------------------------- MODULE TelemetryDrainProofs -------------------------
(***************************************************************************)
(* Theorems about the drain protocol, for every capacity of the ring, size *)
(* of a block, number of messages under way and number of power cycles.    *)
(*                                                                         *)
(* Each sequence number that has left the ring was acked or evicted; the   *)
(* proofs follow the number of the oldest record in the ring (Base)      *)
(* through the requests and the replies that are under way.                *)
(***************************************************************************)
EXTENDS TelemetryDrain, FiniteSetTheorems, SequenceTheorems, NaturalsInduction,
        WellFoundedInduction, TLAPS

Acks == (1 .. MaxSeq) \cup {NoAck}

Disk == (0 .. MaxPowerCycles) \X (1 .. MaxSeq)

Blocks == [recs : Seq(1 .. MaxSeq), epoch : 0 .. MaxPowerCycles]

Types ==
  /\ next_seq \in 1 .. MaxSeq + 1 /\ dropped \in Nat /\ epoch \in 0 .. MaxPowerCycles
  /\ log \in Seq(Nat) /\ Len(log) <= Capacity
  /\ ack_seq \in Acks /\ last_seq \in 0 .. MaxSeq /\ missing \in Int
  /\ waiting \in BOOLEAN /\ requests \in Seq(Acks) /\ replies \in Seq(Blocks)
  /\ stored \in Seq(Disk)

\* The oldest record in the ring, or the next one to be recorded.
Base == next_seq - Len(log)

\* The ring holds the numbers from Base on without a hole, and not more were
\* evicted than have left it.
Numbered ==
  /\ Len(log) < next_seq /\ dropped < Base
  /\ \A i \in 1 .. Len(log) : log[i] = Base + i - 1

Flow ==
  /\ Len(requests) + Len(replies) <= MaxInFlight
  /\ ~waiting => Len(requests) + Len(replies) < MaxInFlight
  /\ ~LateReplies => Len(requests) + Len(replies) <= IF waiting THEN 1 ELSE 0

\* A block is of this incarnation and has no hole either.
Whole(r, e, n) ==
  /\ r.epoch = e
  /\ \A i \in 1 .. Len(r.recs) : r.recs[i] = r.recs[1] + i - 1 /\ r.recs[i] < n

Consecutive == \A j \in 1 .. Len(replies) : Whole(replies[j], epoch, next_seq)

IInv == Types /\ Numbered /\ Flow /\ Consecutive

LEMMA Constants ==
  /\ SeqMod \in Nat /\ Capacity \in Nat \ {0} /\ BlockRecords \in Nat \ {0} /\ LateReplies \in BOOLEAN
  /\ MaxInFlight \in Nat \ {0} /\ MaxSeq \in Nat /\ MaxSeq < SeqMod - 1 /\ MaxPowerCycles \in Nat
BY LogAssumption, DrainAssumption

-----------------------------------------------------------------------------
(* What SeqTracker counts for a block without holes. *)

LEMMA Least ==
  ASSUME NEW S \in SUBSET Nat, S # {}
  PROVE  \E m \in S : \A n \in S : m <= n
<1>1. IsWellFoundedOn(OpToRel(<, Nat), Nat)
  BY NatLessThanWellFounded, Zenon
<1>2. PICK x \in S : \A y \in S : <<y, x>> \notin OpToRel(<, Nat)
  BY <1>1, WFMin, Zenon
<1>3. ASSUME NEW y \in S PROVE x <= y
  <2>1. <<y, x>> \notin {z \in Nat \X Nat : z[1] < z[2]}
    BY <1>2 DEF OpToRel
  <2>. QED
    BY <2>1
<1>. QED
  BY <1>3

LEMMA GapsAre ==
  ASSUME NEW recs \in Seq(1 .. MaxSeq), last_seq \in 0 .. MaxSeq,
         \A i \in 1 .. Len(recs) : recs[i] = recs[1] + i - 1
  PROVE  Gaps(recs) = IF recs = <<>> \/ last_seq = 0 THEN 0 ELSE recs[1] - last_seq - 1
<1>. DEFINE n == Len(recs)
            gap(i) == IF Before(recs, i) = 0 THEN 0 ELSE recs[i] - Before(recs, i) - 1
            sum[i \in 0 .. n] == IF i = 0 THEN 0 ELSE sum[i - 1] + gap(i)
            total == IF n = 0 \/ last_seq = 0 THEN 0 ELSE recs[1] - last_seq - 1
            w == [i \in 0 .. n |-> IF i = 0 THEN 0 ELSE total]
<1>0. n \in Nat /\ MaxSeq \in Nat
  BY Constants
<1>1. Gaps(recs) = sum[n]
  BY DEF Gaps
<1>2. \A i \in 1 .. n : recs[i] \in Nat /\ recs[i] # 0
  BY <1>0
<1>3. n > 0 => gap(1) = total
  BY <1>0, <1>2 DEF Before
<1>4. \A i \in 2 .. n : gap(i) = 0
  <2>. TAKE i \in 2 .. n
  <2>1. Before(recs, i) = recs[i - 1]
    BY <1>0 DEF Before
  <2>2. i - 1 \in 1 .. n /\ i \in 1 .. n /\ 1 \in 1 .. n
    BY <1>0
  <2>3. recs[i] = recs[1] + i - 1 /\ recs[i - 1] = recs[1] + (i - 1) - 1
    BY <2>2
  <2>. QED  BY <1>2, <2>1, <2>2, <2>3
<1>. HIDE DEF n, gap, total
<1>5. total \in Int
  BY <1>0, <1>2 DEF total, n
<1>6. w = [i \in 0 .. n |-> IF i = 0 THEN 0 ELSE w[i - 1] + gap(i)]
  <2>. DEFINE v == [i \in 0 .. n |-> IF i = 0 THEN 0 ELSE w[i - 1] + gap(i)]
  <2>1. \A i \in 0 .. n : w[i] = v[i]
    <3>. TAKE i \in 0 .. n
    <3>1. CASE i = 0
      BY <3>1
    <3>2. CASE i = 1
      BY <3>2, <1>0, <1>3, <1>5
    <3>3. CASE i \in 2 .. n
      BY <3>3, <1>0, <1>4, <1>5
    <3>. QED  BY <3>1, <3>2, <3>3, <1>0
  <2>. QED  BY <2>1
<1>7. sum = [i \in 0 .. n |-> IF i = 0 THEN 0 ELSE sum[i - 1] + gap(i)]
  BY <1>6
<1>8. sum[n] = IF n = 0 THEN 0 ELSE total
  <2>. HIDE DEF sum
  <2>1. \A i \in 0 .. n : sum[i] = IF i = 0 THEN 0 ELSE sum[i - 1] + gap(i)
    BY <1>7, Zenon
  <2>2. SUFFICES ASSUME NEW i \in 1 .. n, sum[i] # total PROVE FALSE
    BY <1>0, <2>1
  <2>3. PICK m \in {k \in 1 .. n : sum[k] # total} :
             \A k \in {k \in 1 .. n : sum[k] # total} : m <= k
    <3>. DEFINE S == {k \in 1 .. n : sum[k] # total}
    <3>1. S \in SUBSET Nat /\ S # {}
      BY <1>0, <2>2, SMTT(60)
    <3>. QED  BY <3>1, Least, Zenon
  <2>4. CASE m = 1
    <3>1. n > 0 /\ 1 \in 0 .. n /\ 0 \in 0 .. n /\ gap(1) \in Int
      <4>1. n > 0 /\ 1 \in 0 .. n /\ 0 \in 0 .. n
        BY <2>3, <1>0
      <4>. QED  BY <4>1, <1>3, <1>5
    <3>2. sum[0] = 0 /\ sum[1] = sum[1 - 1] + gap(1)
      BY <2>1, <3>1
    <3>3. sum[1] = total
      BY <3>1, <3>2, <1>3
    <3>. QED  BY <2>3, <2>4, <3>3
  <2>5. CASE m # 1
    <3>1. m - 1 \in 1 .. n /\ m \in 2 .. n /\ m \in 0 .. n
      BY <2>3, <2>5, <1>0
    <3>2. sum[m - 1] = total
      BY <3>1, <2>3
    <3>3. sum[m] = sum[m - 1] + 0
      BY <3>1, <2>1, <1>4
    <3>. QED  BY <3>2, <3>3, <1>5, <2>3
  <2>. QED  BY <2>4, <2>5
<1>9. recs = <<>> <=> n = 0
  BY DEF n
<1>. QED  BY <1>1, <1>8, <1>9 DEF total

-----------------------------------------------------------------------------
(* The ring. *)

LEMMA InRun ==
  ASSUME NEW q \in Seq(Nat), NEW n \in Nat, NEW b \in Nat, b = n - Len(q),
         \A i \in 1 .. Len(q) : q[i] = b + i - 1
  PROVE  Elems(q) = b .. n - 1
<1>1. Len(q) \in Nat
  OBVIOUS
<1>2. ASSUME NEW s \in b .. n - 1 PROVE s \in Elems(q)
  <2>1. s - b + 1 \in 1 .. Len(q)
    BY <1>1
  <2>2. q[s - b + 1] = s
    BY <1>1, <2>1
  <2>. QED  BY <2>1, <2>2 DEF Elems
<1>3. ASSUME NEW i \in 1 .. Len(q) PROVE q[i] \in b .. n - 1
  BY <1>1
<1>. QED  BY <1>2, <1>3 DEF Elems

LEMMA InLog ==
  ASSUME Types, Numbered
  PROVE  /\ Base \in Nat /\ Base > 0 /\ Base <= next_seq
         /\ Elems(log) = Base .. next_seq - 1
<1>1. /\ next_seq \in Nat /\ Len(log) \in Nat /\ next_seq > Len(log) /\ Base = next_seq - Len(log)
      /\ log \in Seq(Nat) /\ \A i \in 1 .. Len(log) : log[i] = Base + i - 1
  BY Constants DEF Types, Numbered, Base
<1>2. Base \in Nat /\ Base > 0 /\ Base <= next_seq
  BY <1>1
<1>. QED  BY <1>1, <1>2, InRun

\* An eviction or an ack takes the oldest k records.
LEMMA Shift ==
  ASSUME Types, Numbered, NEW k \in 0 .. Len(log),
         log' = SubSeq(log, k + 1, Len(log)), next_seq' = next_seq
  PROVE  /\ log' \in Seq(Nat) /\ Len(log') = Len(log) - k /\ Base' = Base + k
         /\ \A i \in 1 .. Len(log') : log'[i] = Base' + i - 1 /\ log'[i] = log[k + i]
<1>1. next_seq \in Nat /\ Len(log) \in Nat /\ k \in Nat /\ k <= Len(log) /\ log \in Seq(Nat)
  BY Constants DEF Types
<1>2. log' \in Seq(Nat) /\ Len(log') = Len(log) - k
  BY <1>1
<1>3. Base' = Base + k
  <2>1. Base' = next_seq' - Len(log') /\ Base = next_seq - Len(log)
    BY DEF Base
  <2>2. next_seq' = next_seq
    OBVIOUS
  <2>. HIDE DEF Base
  <2>. QED  BY ONLY <1>1, <1>2, <2>1, <2>2
<1>4. ASSUME NEW i \in 1 .. Len(log) - k PROVE log'[i] = Base + k + i - 1 /\ log'[i] = log[k + i]
  <2>1. log'[i] = log[k + i]
    BY <1>1
  <2>2. k + i \in 1 .. Len(log)
    BY <1>1
  <2>3. log[k + i] = Base + (k + i) - 1 /\ Base \in Int
    BY <1>1, <2>2 DEF Numbered, Base
  <2>. QED  BY <1>1, <2>1, <2>3
<1>. QED  BY <1>2, <1>3, <1>4

\* An emission takes the next number.
LEMMA Grow ==
  ASSUME Types, Numbered, Emit, next_seq <= MaxSeq
  PROVE  /\ log' \in Seq(Nat) /\ Len(log') = Len(log) + 1 /\ Base' = Base
         /\ next_seq' = next_seq + 1 /\ dropped' = dropped
         /\ \A i \in 1 .. Len(log') : log'[i] = Base' + i - 1
<1>1. next_seq \in Nat /\ next_seq > 0 /\ Len(log) \in Nat /\ log \in Seq(Nat)
  BY Constants DEF Types
<1>2. Stamp(next_seq) = next_seq
  BY <1>1, Constants DEF Stamp, NoAck
<1>3. next_seq + 1 \in 0 .. SeqMod - 1
  BY <1>1, Constants
<1>4. (next_seq + 1) % SeqMod = next_seq + 1
  BY <1>3, Constants
<1>5. log' = Append(log, next_seq) /\ next_seq' = next_seq + 1 /\ dropped' = dropped
  BY <1>2, <1>4 DEF Emit
<1>6. log' \in Seq(Nat) /\ Len(log') = Len(log) + 1 /\ Base' = Base
  BY <1>1, <1>5 DEF Base
<1>7. ASSUME NEW i \in 1 .. Len(log') PROVE log'[i] = Base' + i - 1
  <2>1. CASE i = Len(log) + 1
    BY <1>1, <1>5, <1>6, <2>1 DEF Base
  <2>2. CASE i # Len(log) + 1
    <3>1. i \in 1 .. Len(log)
      BY <1>1, <1>6, <2>2
    <3>2. log'[i] = log[i]
      BY <1>1, <1>5, <3>1
    <3>. QED  BY <1>6, <3>1, <3>2 DEF Numbered
  <2>. QED  BY <2>1, <2>2
<1>. QED  BY <1>5, <1>6, <1>7

\* What Record may do: one more, or room for one.
LEMMA RecordStep ==
  ASSUME IInv, Record
  PROVE  /\ Types' /\ Numbered'
         /\ next_seq <= next_seq' /\ Base <= Base' /\ dropped' - dropped = Base' - Base
<1>1. /\ next_seq <= MaxSeq /\ next_seq \in Nat /\ Len(log) \in Nat /\ dropped \in Nat /\ Base \in Int
      /\ Capacity \in Nat /\ Len(log) <= Capacity /\ MaxSeq \in Nat
  BY Constants DEF IInv, Types, Record, Base
<1>2. /\ epoch' = epoch /\ ack_seq' = ack_seq /\ last_seq' = last_seq /\ missing' = missing
      /\ waiting' = waiting /\ requests' = requests /\ replies' = replies /\ stored' = stored
  BY DEF Record, linkVars, hostVars
<1>3. CASE Len(log) < Capacity
  <2>1. Emit
    BY <1>3 DEF Record
  <2>2. /\ log' \in Seq(Nat) /\ Len(log') = Len(log) + 1 /\ Base' = Base
        /\ next_seq' = next_seq + 1 /\ dropped' = dropped
        /\ \A i \in 1 .. Len(log') : log'[i] = Base' + i - 1
    <3>1. Types /\ Numbered /\ next_seq <= MaxSeq
      BY <1>1 DEF IInv
    <3>. QED  BY ONLY <2>1, <3>1, Grow
  <2>3. Types'
    BY <1>1, <1>2, <1>3, <2>2 DEF IInv, Types
  <2>4. Numbered'
    BY <1>1, <2>2 DEF IInv, Numbered
  <2>. QED  BY <1>1, <2>2, <2>3, <2>4
<1>4. CASE ~(Len(log) < Capacity)
  <2>1. PICK k \in 1 .. 2 : k <= Len(log) /\ Evict(k)
    BY <1>4 DEF Record
  <2>2. k \in 0 .. Len(log) /\ k \in Nat
    BY <1>1, <2>1
  <2>3. log' = SubSeq(log, k + 1, Len(log)) /\ next_seq' = next_seq /\ dropped' = dropped + k
    BY <2>1 DEF Evict
  <2>4. /\ log' \in Seq(Nat) /\ Len(log') = Len(log) - k /\ Base' = Base + k
        /\ \A i \in 1 .. Len(log') : log'[i] = Base' + i - 1
    BY <2>2, <2>3, Shift DEF IInv
  <2>5. Types'
    BY <1>1, <1>2, <2>2, <2>3, <2>4 DEF IInv, Types
  <2>6. Numbered'
    BY <1>1, <2>2, <2>3, <2>4 DEF IInv, Numbered
  <2>. QED  BY <1>1, <2>2, <2>3, <2>4, <2>5, <2>6
<1>. QED  BY <1>3, <1>4


\* A reply made now: what the ring holds from its oldest record on.
Prefix(b) ==
  /\ b \in Blocks /\ b.epoch = epoch /\ Len(b.recs) <= Len(log')
  /\ \A i \in 1 .. Len(b.recs) : b.recs[i] = Base' + i - 1

\* The command of the host: its ack frees nothing later than the ack and leaves
\* nothing that is not later, unless the ring has not counted up to it.
LEMMA ServeStep ==
  ASSUME IInv, ServeBlock, NEW ack, ack = Head(requests)
  PROVE  /\ Types' /\ Numbered' /\ ack \in Acks
         /\ next_seq' = next_seq /\ dropped' = dropped /\ Base <= Base'
         /\ Base < Base' => ack # NoAck /\ Base' - 1 <= ack
         /\ ack < next_seq /\ Len(log') > 0 => ack < Base'
         /\ requests # <<>> /\ requests' = Tail(requests)
         /\ \E b : Prefix(b) /\ replies' = Append(replies, b)
<1>. DEFINE n == IF Len(log') < BlockRecords THEN Len(log') ELSE BlockRecords
            b == [recs |-> SubSeq(log', 1, n), epoch |-> epoch]
<1>0. /\ requests # <<>> /\ requests' = Tail(requests) /\ replies' = Append(replies, b)
      /\ epoch' = epoch /\ ack_seq' = ack_seq /\ last_seq' = last_seq /\ missing' = missing
      /\ waiting' = waiting /\ stored' = stored
  BY DEF ServeBlock, hostVars
<1>1. /\ ack \in Acks /\ Tail(requests) \in Seq(Acks)
  BY <1>0, HeadTailProperties DEF IInv, Types
<1>2. /\ next_seq \in Nat /\ Len(log) \in Nat /\ Len(log) < next_seq /\ next_seq <= MaxSeq + 1
      /\ Capacity \in Nat /\ Len(log) <= Capacity /\ dropped \in Nat /\ dropped < Base
      /\ Base = next_seq - Len(log) /\ MaxSeq \in Nat
  BY Constants DEF IInv, Types, Numbered, Base
<1>3. Types /\ Numbered
  BY DEF IInv
<1>4. \/ ack # NoAck /\ \E k \in 0 .. Len(log) : Ack(ack, k)
      \/ (ack = NoAck \/ ack >= next_seq) /\ Keep
  BY DEF ServeBlock
<1>5. NoAck \in Nat /\ NoAck >= next_seq
  BY <1>2, Constants DEF NoAck
<1>6. /\ log' \in Seq(Nat) /\ next_seq' = next_seq /\ dropped' = dropped
      /\ Len(log') \in Nat /\ Len(log') <= Len(log) /\ Base' = next_seq - Len(log')
      /\ \A i \in 1 .. Len(log') : log'[i] = Base' + i - 1
      /\ Base < Base' => ack # NoAck /\ Base' - 1 <= ack
      /\ ack < next_seq /\ Len(log') > 0 => ack < Base'
  <2>1. CASE ack # NoAck /\ \E k \in 0 .. Len(log) : Ack(ack, k)
    <3>1. PICK k \in 0 .. Len(log) : Ack(ack, k)
      BY <2>1
    <3>2. /\ log' = SubSeq(log, k + 1, Len(log)) /\ next_seq' = next_seq /\ dropped' = dropped
          /\ \A i \in 1 .. k : log[i] <= ack
          /\ k < Len(log) => log[k + 1] > ack
      BY <3>1 DEF Ack, Freed
    <3>3. /\ log' \in Seq(Nat) /\ Len(log') = Len(log) - k /\ Base' = Base + k
          /\ \A i \in 1 .. Len(log') : log'[i] = Base' + i - 1
      BY ONLY <1>3, <3>2, Shift
    <3>4. k > 0 => Base + k - 1 <= ack
      <4>. HAVE k > 0
      <4>1. k \in 1 .. k /\ k \in 1 .. Len(log)
        BY <1>2
      <4>2. log[k] = Base + k - 1 /\ log[k] <= ack
        BY <4>1, <3>2, <1>3 DEF Numbered
      <4>. QED  BY <4>2
    <3>5. k < Len(log) => ack < Base + k
      <4>. HAVE k < Len(log)
      <4>1. k + 1 \in 1 .. Len(log)
        BY <1>2
      <4>2. log[k + 1] = Base + (k + 1) - 1 /\ log[k + 1] > ack
        BY <4>1, <3>2, <1>3 DEF Numbered
      <4>3. ack \in Int /\ Base \in Int /\ k \in Int
        BY <1>1, <1>2, <1>5 DEF Acks
      <4>. QED  BY <4>2, <4>3
    <3>6. k \in Nat /\ k <= Len(log)
      BY <1>2
    <3>7. Len(log') \in Nat /\ Len(log') <= Len(log) /\ Base' = next_seq - Len(log')
      BY <1>2, <3>3, <3>6
    <3>8. Base < Base' => ack # NoAck /\ Base' - 1 <= ack
      BY <1>2, <2>1, <3>3, <3>4, <3>6
    <3>9. ack < next_seq /\ Len(log') > 0 => ack < Base'
      BY <1>2, <3>3, <3>5, <3>6
    <3>. QED  BY <3>2, <3>3, <3>7, <3>8, <3>9
  <2>2. CASE (ack = NoAck \/ ack >= next_seq) /\ Keep
    <3>1. log' = log /\ next_seq' = next_seq /\ dropped' = dropped
      BY <2>2 DEF Keep
    <3>2. Base' = Base
      BY <3>1 DEF Base
    <3>3. ~(ack < next_seq)
      BY <1>1, <1>2, <1>5, <2>2 DEF Acks
    <3>. QED  BY <1>2, <1>3, <3>1, <3>2, <3>3 DEF Types, Numbered
  <2>. QED  BY <1>4, <2>1, <2>2
<1>7. n \in Nat /\ n <= Len(log')
  BY <1>6, Constants
<1>8. Prefix(b)
  <2>. HIDE DEF n
  <2>1. \A i \in 1 .. n : log'[i] \in 1 .. MaxSeq /\ log'[i] = Base' + i - 1
    <3>. TAKE i \in 1 .. n
    <3>1. i \in 1 .. Len(log') /\ Len(log') \in Nat
      BY <1>6, <1>7
    <3>2. log'[i] = Base' + i - 1 /\ Base' = next_seq - Len(log') /\ Len(log') <= Len(log)
      BY <1>6, <3>1
    <3>. QED  BY ONLY <1>2, <3>1, <3>2
  <2>2. /\ SubSeq(log', 1, n) \in Seq(1 .. MaxSeq) /\ Len(SubSeq(log', 1, n)) = n
        /\ \A i \in 1 .. n : SubSeq(log', 1, n)[i] = log'[i]
    <3>1. \A i \in 1 .. n : log'[i] \in 1 .. MaxSeq
      BY <2>1
    <3>. QED  BY <1>6, <1>7, <3>1
  <2>. DEFINE q == SubSeq(log', 1, n)
  <2>3. /\ q \in Seq(1 .. MaxSeq) /\ Len(q) = n
        /\ \A i \in 1 .. n : q[i] = Base' + i - 1
    BY <2>1, <2>2
  <2>4. b = [recs |-> q, epoch |-> epoch] /\ epoch \in 0 .. MaxPowerCycles
    BY <1>3 DEF Types
  <2>. HIDE DEF q, b
  <2>5. b.recs = q /\ b.epoch = epoch /\ b \in Blocks
    BY <2>3, <2>4 DEF Blocks
  <2>. QED  BY <2>3, <2>5, <1>7 DEF Prefix
<1>. HIDE DEF b, n
<1>9. replies' \in Seq(Blocks)
  BY <1>0, <1>3, <1>8 DEF Types, Prefix
<1>10. Types'
  BY <1>0, <1>1, <1>2, <1>3, <1>6, <1>9 DEF Types
<1>11. Numbered'
  BY <1>2, <1>6 DEF Numbered
<1>12. Base <= Base'
  BY <1>2, <1>6
<1>. QED  BY <1>0, <1>1, <1>6, <1>8, <1>10, <1>11, <1>12


-----------------------------------------------------------------------------
(* The host. *)

\* The records of a block, as they go to disk.
Lines(r) == [i \in 1 .. Len(r.recs) |-> <<r.epoch, r.recs[i]>>]

LEMMA OnDisk ==
  ASSUME Types, NEW r \in Blocks, stored' = stored \o Lines(r)
  PROVE  /\ stored' \in Seq(Disk) /\ Len(stored') = Len(stored) + Len(r.recs)
         /\ \A i \in 1 .. Len(stored) : stored'[i] = stored[i]
         /\ \A i \in 1 .. Len(r.recs) : stored'[Len(stored) + i] = <<r.epoch, r.recs[i]>>
<1>0. /\ r.recs \in Seq(1 .. MaxSeq) /\ r.epoch \in 0 .. MaxPowerCycles
      /\ Len(r.recs) \in Nat /\ stored \in Seq(Disk) /\ Len(stored) \in Nat
  BY DEF Types, Blocks
<1>. DEFINE q == Lines(r)
<1>1. q \in Seq(Disk) /\ Len(q) = Len(r.recs) /\ \A i \in 1 .. Len(q) : q[i] = <<r.epoch, r.recs[i]>>
  <2>1. \A i \in 1 .. Len(r.recs) : <<r.epoch, r.recs[i]>> \in Disk
    <3>. TAKE i \in 1 .. Len(r.recs)
    <3>1. r.recs[i] \in 1 .. MaxSeq
      BY <1>0, ElementOfSeq
    <3>. QED  BY <1>0, <3>1 DEF Disk
  <2>. QED  BY <1>0, <2>1 DEF Lines
<1>. HIDE DEF q
<1>2. stored' = stored \o q
  BY DEF q
<1>3. /\ stored \o q \in Seq(Disk) /\ Len(stored \o q) = Len(stored) + Len(q)
      /\ \A i \in 1 .. Len(stored) + Len(q) :
           (stored \o q)[i] = IF i <= Len(stored) THEN stored[i] ELSE q[i - Len(stored)]
  BY <1>0, <1>1, ConcatProperties, ZenonT(60)
<1>4. ASSUME NEW i \in 1 .. Len(stored) PROVE stored'[i] = stored[i]
  BY <1>0, <1>1, <1>2, <1>3
<1>5. ASSUME NEW i \in 1 .. Len(q) PROVE stored'[Len(stored) + i] = q[i]
  <2>. DEFINE l == Len(stored) + i
  <2>1. l \in 1 .. Len(stored) + Len(q) /\ ~(l <= Len(stored)) /\ l - Len(stored) = i
    BY <1>0, <1>1
  <2>. HIDE DEF l
  <2>2. (stored \o q)[l] = q[l - Len(stored)]
    BY <1>3, <2>1
  <2>. QED  BY <1>2, <2>1, <2>2 DEF l
<1>. QED  BY <1>1, <1>2, <1>3, <1>4, <1>5

\* The first reply is stored, and the ack and the tracker advance together.
LEMMA ReceiveStep ==
  ASSUME IInv, Receive, NEW r, r = Head(replies)
  PROVE  /\ Types' /\ Numbered' /\ replies # <<>> /\ r \in Blocks /\ Whole(r, epoch, next_seq)
         /\ log' = log /\ next_seq' = next_seq /\ dropped' = dropped /\ epoch' = epoch
         /\ stored' = stored \o Lines(r)
         /\ r.recs = <<>> => ack_seq' = ack_seq /\ last_seq' = last_seq /\ missing' = missing
         /\ r.recs # <<>> =>
              /\ Len(r.recs) > 0
              /\ ack_seq' = r.recs[Len(r.recs)] /\ last_seq' = r.recs[Len(r.recs)]
              /\ missing' = missing + IF last_seq = 0 THEN 0 ELSE r.recs[1] - last_seq - 1
         /\ waiting /\ ~waiting' /\ requests' = requests
         /\ \E k \in 1 .. Len(replies) :
              /\ Len(replies') = Len(replies) - k
              /\ \A j \in 1 .. Len(replies') : replies'[j] = replies[k + j]
<1>1. /\ replies # <<>> /\ waiting /\ waiting' = FALSE /\ requests' = requests
      /\ \E k \in 1 .. Len(replies) : replies' = SubSeq(replies, k + 1, Len(replies))
      /\ log' = log /\ next_seq' = next_seq /\ dropped' = dropped /\ risk' = risk /\ epoch' = epoch
  BY DEF Receive, TakeReply, logVars
<1>2. /\ stored' = stored \o Lines(r) /\ missing' = missing + Gaps(r.recs)
      /\ last_seq' = (IF r.recs = <<>> THEN last_seq ELSE r.recs[Len(r.recs)])
      /\ ack_seq' = (IF r.recs = <<>> THEN ack_seq ELSE r.recs[Len(r.recs)])
  BY DEF Receive, StoreBlock, Lines
<1>3. Types /\ Numbered
  BY DEF IInv
<1>4. /\ Len(replies) \in Nat /\ Len(replies) > 0 /\ r = replies[1] /\ r \in Blocks
  BY <1>1, <1>3 DEF Types
<1>5. Whole(r, epoch, next_seq)
  BY <1>4 DEF IInv, Consecutive
<1>6. r.recs \in Seq(1 .. MaxSeq) /\ last_seq \in 0 .. MaxSeq /\ missing \in Int /\ MaxSeq \in Nat
  BY <1>3, <1>4, Constants DEF Types, Blocks
<1>. DEFINE q == r.recs
<1>7. /\ Gaps(q) = IF q = <<>> \/ last_seq = 0 THEN 0 ELSE q[1] - last_seq - 1
      /\ q # <<>> => Len(q) > 0 /\ q[1] \in 1 .. MaxSeq /\ q[Len(q)] \in 1 .. MaxSeq
  <2>1. \A i \in 1 .. Len(q) : q[i] = q[1] + i - 1
    BY <1>5 DEF Whole
  <2>2. q \in Seq(1 .. MaxSeq)
    BY <1>6
  <2>. HIDE DEF q
  <2>3. Gaps(q) = IF q = <<>> \/ last_seq = 0 THEN 0 ELSE q[1] - last_seq - 1
    BY <1>6, <2>1, <2>2, GapsAre
  <2>4. ASSUME q # <<>> PROVE Len(q) > 0 /\ q[1] \in 1 .. MaxSeq /\ q[Len(q)] \in 1 .. MaxSeq
    <3>1. Len(q) \in Nat /\ Len(q) > 0
      BY <2>2, <2>4
    <3>2. 1 \in 1 .. Len(q) /\ Len(q) \in 1 .. Len(q)
      BY <3>1
    <3>. QED  BY <2>2, <3>1, <3>2, ElementOfSeq
  <2>. QED  BY <2>3, <2>4
<1>8. stored' \in Seq(Disk)
  BY <1>2, <1>3, <1>4, OnDisk
<1>9. PICK k \in 1 .. Len(replies) : replies' = SubSeq(replies, k + 1, Len(replies))
  BY <1>1
<1>10. /\ replies' \in Seq(Blocks) /\ Len(replies') = Len(replies) - k
       /\ \A j \in 1 .. Len(replies') : replies'[j] = replies[k + j]
  <2>1. replies \in Seq(Blocks) /\ k \in Nat /\ 1 <= k /\ k <= Len(replies)
    BY <1>3, <1>4 DEF Types
  <2>. QED  BY <1>4, <1>9, <2>1
<1>11. /\ q = <<>> => ack_seq' = ack_seq /\ last_seq' = last_seq /\ missing' = missing
       /\ q # <<>> =>
            /\ Len(q) > 0 /\ ack_seq' = q[Len(q)] /\ last_seq' = q[Len(q)]
            /\ missing' = missing + IF last_seq = 0 THEN 0 ELSE q[1] - last_seq - 1
       /\ missing' \in Int /\ last_seq' \in 0 .. MaxSeq /\ ack_seq' \in Acks
  <2>1. /\ missing' = missing + Gaps(q)
        /\ last_seq' = (IF q = <<>> THEN last_seq ELSE q[Len(q)])
        /\ ack_seq' = (IF q = <<>> THEN ack_seq ELSE q[Len(q)])
    BY <1>2
  <2>2. ack_seq \in Acks
    BY <1>3 DEF Types
  <2>. HIDE DEF q
  <2>3. CASE q = <<>>
    BY <1>6, <1>7, <2>1, <2>2, <2>3
  <2>4. CASE q # <<>>
    BY <1>6, <1>7, <2>1, <2>2, <2>4 DEF Acks
  <2>. QED  BY <2>3, <2>4
<1>12. Types'
  BY <1>1, <1>3, <1>8, <1>10, <1>11 DEF Types
<1>13. Numbered'
  BY <1>1, <1>3 DEF Numbered, Base
<1>. QED
  BY <1>1, <1>2, <1>4, <1>5, <1>10, <1>11, <1>12, <1>13


-----------------------------------------------------------------------------
(* The invariant all three theorems share. *)

\* Steps of the link alone.
LEMMA LinkStep ==
  ASSUME IInv, Ask \/ Timeout
  PROVE  /\ Types' /\ Numbered' /\ Flow'
         /\ log' = log /\ next_seq' = next_seq /\ dropped' = dropped /\ epoch' = epoch
         /\ ack_seq' = ack_seq /\ stored' = stored /\ last_seq' = last_seq /\ missing' = missing
         /\ replies' = replies \/ replies' = <<>>
         /\ \A j \in 1 .. Len(requests') :
              requests'[j] = ack_seq \/ (j \in 1 .. Len(requests) /\ requests'[j] = requests[j])
<1>1. /\ log' = log /\ next_seq' = next_seq /\ dropped' = dropped /\ epoch' = epoch
      /\ ack_seq' = ack_seq /\ stored' = stored /\ last_seq' = last_seq /\ missing' = missing
  BY DEF Ask, Timeout, logVars, hostVars
<1>2. /\ requests \in Seq(Acks) /\ Len(requests) \in Nat /\ ack_seq \in Acks
      /\ replies \in Seq(Blocks) /\ Len(replies) \in Nat /\ MaxInFlight \in Nat \ {0}
  BY Constants DEF IInv, Types
<1>3. CASE Ask
  <2>1. ~waiting /\ requests' = Append(requests, ack_seq) /\ waiting' = TRUE /\ replies' = replies
    BY <1>3 DEF Ask
  <2>2. /\ requests' \in Seq(Acks) /\ Len(requests') = Len(requests) + 1
        /\ \A j \in 1 .. Len(requests') :
             requests'[j] = ack_seq \/ (j \in 1 .. Len(requests) /\ requests'[j] = requests[j])
    BY <1>2, <2>1
  <2>3. Flow'
    BY <1>2, <2>1, <2>2 DEF IInv, Flow
  <2>4. Types' /\ Numbered'
    BY <1>1, <2>1, <2>2 DEF IInv, Types, Numbered, Base
  <2>. QED  BY <1>1, <2>1, <2>2, <2>3, <2>4
<1>4. CASE Timeout
  <2>1. /\ waiting' = FALSE
        /\ \/ requests' = <<>> /\ replies' = <<>>
           \/ /\ LateReplies /\ Len(requests) + Len(replies) < MaxInFlight
              /\ requests' = requests /\ replies' = replies
    BY <1>4 DEF Timeout
  <2>2. requests' \in Seq(Acks) /\ replies' \in Seq(Blocks)
    BY <1>2, <2>1, EmptySeq
  <2>3. Flow'
    BY <1>2, <2>1 DEF Flow
  <2>4. Types' /\ Numbered'
    BY <1>1, <2>1, <2>2 DEF IInv, Types, Numbered, Base
  <2>5. \A j \in 1 .. Len(requests') :
          requests'[j] = ack_seq \/ (j \in 1 .. Len(requests) /\ requests'[j] = requests[j])
    BY <1>2, <2>1
  <2>. QED  BY <1>1, <2>1, <2>3, <2>4, <2>5
<1>. QED  BY <1>3, <1>4

LEMMA PowerStep ==
  ASSUME IInv, PowerCycle
  PROVE  /\ IInv' /\ epoch' = epoch + 1 /\ log' = <<>> /\ next_seq' = 1 /\ dropped' = 0
         /\ requests' = <<>> /\ replies' = <<>>
         /\ ack_seq' = ack_seq /\ stored' = stored /\ last_seq' = last_seq /\ missing' = missing
<1>1. /\ epoch < MaxPowerCycles /\ epoch' = epoch + 1 /\ log' = <<>> /\ next_seq' = 1 /\ dropped' = 0
      /\ requests' = <<>> /\ replies' = <<>> /\ waiting' = waiting
      /\ ack_seq' = ack_seq /\ stored' = stored /\ last_seq' = last_seq /\ missing' = missing
  BY DEF PowerCycle, hostVars
<1>2. Types'
  BY <1>1, Constants DEF IInv, Types
<1>3. Numbered'
  BY <1>1 DEF Numbered, Base
<1>4. Flow' /\ Consecutive'
  BY <1>1, Constants DEF Flow, Consecutive
<1>. QED  BY <1>1, <1>2, <1>3, <1>4 DEF IInv

LEMMA Inductive == IInv /\ [DrainNext]_drainVars => IInv'
<1>. SUFFICES ASSUME IInv, [DrainNext]_drainVars PROVE IInv'
  OBVIOUS
<1>0. /\ requests \in Seq(Acks) /\ Len(requests) \in Nat /\ replies \in Seq(Blocks)
      /\ Len(replies) \in Nat /\ MaxInFlight \in Nat /\ next_seq \in Nat
      /\ waiting \in BOOLEAN /\ LateReplies \in BOOLEAN
  BY Constants DEF IInv, Types
<1>1. CASE Record
  <2>1. Types' /\ Numbered' /\ next_seq <= next_seq'
    BY <1>1, RecordStep
  <2>2. epoch' = epoch /\ requests' = requests /\ replies' = replies /\ waiting' = waiting
    BY <1>1 DEF Record, linkVars
  <2>3. Flow'
    BY <2>2 DEF IInv, Flow
  <2>4. Consecutive'
    <3>. SUFFICES ASSUME NEW j \in 1 .. Len(replies) PROVE Whole(replies[j], epoch', next_seq')
      BY <2>2 DEF Consecutive
    <3>1. Whole(replies[j], epoch, next_seq) /\ replies[j] \in Blocks /\ next_seq' \in Nat
      BY <1>0, <2>1, Constants, SMTT(60) DEF IInv, Consecutive, Types
    <3>. DEFINE q == replies[j].recs
    <3>2. q \in Seq(1 .. MaxSeq) /\ \A i \in 1 .. Len(q) : q[i] = q[1] + i - 1 /\ q[i] < next_seq
      BY <3>1 DEF Whole, Blocks
    <3>. HIDE DEF q
    <3>3. \A i \in 1 .. Len(q) : q[i] = q[1] + i - 1 /\ q[i] < next_seq'
      BY <1>0, <2>1, <3>1, <3>2, Constants
    <3>. QED  BY <2>2, <3>1, <3>3 DEF Whole, q
  <2>. QED  BY <2>1, <2>3, <2>4 DEF IInv
<1>2. CASE ServeBlock
  <2>1. PICK b : Prefix(b) /\ replies' = Append(replies, b)
    BY <1>2, ServeStep
  <2>2. /\ Types' /\ Numbered' /\ next_seq' = next_seq /\ requests # <<>> /\ requests' = Tail(requests)
    BY <1>2, ServeStep
  <2>3. epoch' = epoch /\ waiting' = waiting
    BY <1>2 DEF ServeBlock
  <2>4. Len(requests') = Len(requests) - 1 /\ Len(replies') = Len(replies) + 1
    BY <1>0, <2>1, <2>2
  <2>5. Flow'
    BY <1>0, <2>3, <2>4 DEF IInv, Flow
  <2>6. Whole(b, epoch', next_seq')
    <3>1. /\ b.epoch = epoch /\ b.recs \in Seq(1 .. MaxSeq)
          /\ Len(b.recs) <= Len(log') /\ \A i \in 1 .. Len(b.recs) : b.recs[i] = Base' + i - 1
      BY <2>1 DEF Prefix, Blocks
    <3>2. Base' = next_seq' - Len(log') /\ Len(log') \in Nat /\ next_seq' \in Nat
      BY <2>2, Constants DEF Base, Types
    <3>. DEFINE q == b.recs
    <3>3. \A i \in 1 .. Len(q) : q[i] = q[1] + i - 1 /\ q[i] < next_seq'
      <4>1. q \in Seq(1 .. MaxSeq) /\ Len(q) <= Len(log') /\ \A i \in 1 .. Len(q) : q[i] = Base' + i - 1
        BY <3>1
      <4>. HIDE DEF q
      <4>. TAKE i \in 1 .. Len(q)
      <4>2. 1 \in 1 .. Len(q) /\ Len(q) \in Nat /\ i \in Nat /\ i <= Len(q)
        BY <4>1
      <4>3. q[i] = Base' + i - 1 /\ q[1] = Base' + 1 - 1
        BY <4>1, <4>2
      <4>. QED  BY ONLY <3>2, <4>1, <4>2, <4>3
    <3>. QED  BY <2>3, <3>1, <3>3 DEF Whole
  <2>7. \A r : Whole(r, epoch, next_seq) => Whole(r, epoch', next_seq')
    BY <2>2, <2>3 DEF Whole
  <2>8. Consecutive'
    <3>. SUFFICES ASSUME NEW j \in 1 .. Len(replies) + 1 PROVE Whole(replies'[j], epoch', next_seq')
      BY <2>4 DEF Consecutive
    <3>1. CASE j = Len(replies) + 1
      <4>1. replies'[j] = b
        BY <1>0, <2>1, <3>1
      <4>. QED  BY <2>6, <4>1 DEF Whole
    <3>2. CASE j # Len(replies) + 1
      <4>1. j \in 1 .. Len(replies) /\ replies'[j] = replies[j]
        BY <1>0, <2>1, <3>2
      <4>2. Whole(replies[j], epoch, next_seq)
        BY <4>1 DEF IInv, Consecutive
      <4>. QED  BY <2>7, <4>1, <4>2 DEF Whole
    <3>. QED  BY <3>1, <3>2
  <2>. QED  BY <2>2, <2>5, <2>8 DEF IInv
<1>3. CASE PowerCycle
  BY <1>3, PowerStep
<1>4. CASE Ask \/ Timeout
  <2>1. /\ Types' /\ Numbered' /\ Flow' /\ next_seq' = next_seq /\ epoch' = epoch
        /\ replies' = replies \/ replies' = <<>>
    BY <1>4, LinkStep
  <2>2. Consecutive'
    BY <2>1 DEF IInv, Consecutive, Whole
  <2>. QED  BY <2>1, <2>2 DEF IInv
<1>5. CASE Receive
  <2>1. /\ Types' /\ Numbered' /\ next_seq' = next_seq /\ epoch' = epoch
        /\ waiting /\ ~waiting' /\ requests' = requests
        /\ \E k \in 1 .. Len(replies) :
             /\ Len(replies') = Len(replies) - k
             /\ \A j \in 1 .. Len(replies') : replies'[j] = replies[k + j]
    BY <1>5, ReceiveStep
  <2>2. PICK k \in 1 .. Len(replies) : /\ Len(replies') = Len(replies) - k
                                       /\ \A j \in 1 .. Len(replies') : replies'[j] = replies[k + j]
    BY <2>1
  <2>3. Flow'
    BY <1>0, <2>1, <2>2 DEF IInv, Flow
  <2>4. Consecutive'
    <3>. SUFFICES ASSUME NEW j \in 1 .. Len(replies') PROVE Whole(replies'[j], epoch', next_seq')
      BY DEF Consecutive
    <3>1. replies'[j] = replies[k + j] /\ k + j \in 1 .. Len(replies)
      BY <1>0, <2>2
    <3>2. Whole(replies[k + j], epoch, next_seq)
      BY <3>1 DEF IInv, Consecutive
    <3>. QED  BY <2>1, <3>1, <3>2 DEF Whole
  <2>. QED  BY <2>1, <2>3, <2>4 DEF IInv
<1>6. CASE UNCHANGED drainVars
  BY <1>6 DEF drainVars, logVars, linkVars, hostVars, IInv, Types, Numbered, Base, Flow,
              Consecutive, Whole
<1>. QED
  BY <1>1, <1>2, <1>3, <1>4, <1>5, <1>6 DEF DrainNext

LEMMA Start == DrainInit => IInv
<1>. SUFFICES ASSUME DrainInit PROVE IInv
  OBVIOUS
<1>1. /\ log = <<>> /\ next_seq = 1 /\ dropped = 0 /\ epoch = 0 /\ requests = <<>> /\ replies = <<>>
      /\ waiting = FALSE /\ ack_seq = NoAck /\ stored = <<>> /\ last_seq = 0 /\ missing = 0
  BY DEF DrainInit, Init
<1>2. Types
  <2>1. NoAck \in Acks
    BY DEF Acks
  <2>2. /\ <<>> \in Seq(Acks) /\ <<>> \in Seq(Blocks) /\ <<>> \in Seq(Disk) /\ <<>> \in Seq(Nat)
    BY EmptySeq
  <2>3. Len(log) = 0
    BY <1>1
  <2>4. ack_seq \in Acks /\ requests \in Seq(Acks) /\ replies \in Seq(Blocks) /\ stored \in Seq(Disk)
        /\ log \in Seq(Nat)
    BY <1>1, <2>1, <2>2, Zenon
  <2>5. /\ next_seq \in 1 .. MaxSeq + 1 /\ dropped \in Nat /\ epoch \in 0 .. MaxPowerCycles
        /\ Len(log) <= Capacity /\ last_seq \in 0 .. MaxSeq /\ missing \in Int
    BY <1>1, <2>3, Constants
  <2>6. waiting \in BOOLEAN
    BY <1>1
  <2>. QED  BY <2>4, <2>5, <2>6, Zenon DEF Types
<1>3. Numbered /\ Flow /\ Consecutive
  BY <1>1, Constants DEF Numbered, Base, Flow, Consecutive
<1>. QED  BY <1>2, <1>3 DEF IInv

LEMMA Invariance == DrainSpec => []IInv
BY Start, Inductive, PTL DEF DrainSpec


-----------------------------------------------------------------------------
(* Nothing is lost, whatever the link loses or delays, but what an ack of    *)
(* an earlier incarnation frees.  What the host has stored of this one, and *)
(* what a reply under way adds to it, has no hole between the oldest record *)
(* in the ring and its end, so that an ack that names a number of this      *)
(* incarnation frees stored records only; any other names a number of an    *)
(* earlier one.                                                             *)

Gapless(base, held) == \A a \in held : \A s \in base .. a : s \in held

Known(a) == a = NoAck \/ a \in StoredNow \/ a \in StoredBefore

Carries(r, base, held) ==
  r.recs # <<>> => \A s \in base .. r.recs[Len(r.recs)] : s \in held \/ s \in Elems(r.recs)

\* Stored, or below a number that was stored before the last power cycle.
Excused == StoredNow \cup {s \in Nat : \E a \in StoredBefore : ~(a < s)}

Lost(base, held) == {s \in 1 .. base - 1 : s \notin held}

Safe ==
  /\ Gapless(Base, StoredNow)
  /\ Known(ack_seq)
  /\ \A j \in 1 .. Len(requests) : Known(requests[j])
  /\ \A j \in 1 .. Len(replies) : Carries(replies[j], Base, StoredNow)
  /\ \A i \in 1 .. Len(stored) : stored[i][1] <= epoch
  /\ Cardinality(Lost(Base, Excused)) <= dropped

LEMMA BlockNumbers ==
  ASSUME NEW q \in Seq(1 .. MaxSeq), NEW n \in Nat, q # <<>>,
         \A i \in 1 .. Len(q) : q[i] = q[1] + i - 1 /\ q[i] < n
  PROVE  /\ Len(q) \in Nat /\ Len(q) > 0 /\ q[1] \in Nat /\ q[1] > 0
         /\ q[Len(q)] = q[1] + Len(q) - 1 /\ q[Len(q)] < n
         /\ \A i \in 1 .. Len(q) : q[i] \in Nat /\ q[1] <= q[i] /\ q[i] <= q[Len(q)]
<1>1. Len(q) \in Nat /\ Len(q) > 0
  OBVIOUS
<1>2. 1 \in 1 .. Len(q) /\ Len(q) \in 1 .. Len(q)
  BY <1>1
<1>3. q[1] \in Nat /\ q[1] > 0
  <2>1. q[1] \in 1 .. MaxSeq
    BY <1>2, ElementOfSeq
  <2>. QED  BY <2>1, Constants
<1>4. q[Len(q)] = q[1] + Len(q) - 1 /\ q[Len(q)] < n
  BY <1>2
<1>5. ASSUME NEW i \in 1 .. Len(q) PROVE q[i] \in Nat /\ q[1] <= q[i] /\ q[i] <= q[Len(q)]
  <2>1. q[i] = q[1] + i - 1
    OBVIOUS
  <2>. QED  BY <1>1, <1>3, <1>4, <2>1
<1>. QED  BY <1>1, <1>3, <1>4, <1>5

\* StoredNow, of any disk and any incarnation.
HeldBy(st, e) == {r[2] : r \in {x \in Elems(st) : x[1] = e}}

LEMMA InStored ==
  ASSUME NEW st \in Seq(Disk), NEW e
  PROVE  \A s : s \in HeldBy(st, e) <=> \E i \in 1 .. Len(st) : st[i] = <<e, s>>
<1>1. \A i \in 1 .. Len(st) : st[i] \in Disk /\ st[i] = <<st[i][1], st[i][2]>>
  BY DEF Disk
<1>. SUFFICES ASSUME NEW s
              PROVE  s \in HeldBy(st, e) <=> \E i \in 1 .. Len(st) : st[i] = <<e, s>>
  OBVIOUS
<1>2. ASSUME s \in HeldBy(st, e) PROVE \E i \in 1 .. Len(st) : st[i] = <<e, s>>
  <2>1. PICK i \in 1 .. Len(st) : st[i][1] = e /\ st[i][2] = s
    BY <1>2 DEF HeldBy, Elems
  <2>. QED  BY <1>1, <2>1
<1>3. ASSUME NEW i \in 1 .. Len(st), st[i] = <<e, s>> PROVE s \in HeldBy(st, e)
  <2>1. st[i] \in {x \in Elems(st) : x[1] = e} /\ st[i][2] = s
    BY <1>3 DEF Elems
  <2>. QED  BY <2>1 DEF HeldBy
<1>. QED  BY <1>2, <1>3

LEMMA StoredGrows ==
  ASSUME IInv, Receive, NEW r, r = Head(replies)
  PROVE  /\ StoredNow \subseteq StoredNow'
         /\ \A i \in 1 .. Len(r.recs) : r.recs[i] \in StoredNow'
         /\ \A s \in StoredNow' : s \in StoredNow \/ \E i \in 1 .. Len(r.recs) : s = r.recs[i]
         /\ StoredBefore \subseteq StoredBefore'
         /\ (\A i \in 1 .. Len(stored) : stored[i][1] <= epoch)
              => \A i \in 1 .. Len(stored') : stored'[i][1] <= epoch'
<1>0. /\ Types' /\ r \in Blocks /\ epoch' = epoch /\ Whole(r, epoch, next_seq)
      /\ stored' = stored \o Lines(r)
  BY ReceiveStep, Zenon
<1>1. Types /\ r.epoch = epoch /\ stored \in Seq(Disk) /\ stored' \in Seq(Disk)
  BY <1>0 DEF IInv, Whole, Types
<1>2. /\ Len(stored') = Len(stored) + Len(r.recs)
      /\ \A i \in 1 .. Len(stored) : stored'[i] = stored[i]
      /\ \A i \in 1 .. Len(r.recs) : stored'[Len(stored) + i] = <<r.epoch, r.recs[i]>>
      /\ Len(stored) \in Nat /\ Len(r.recs) \in Nat
  <2>1. Len(stored) \in Nat /\ Len(r.recs) \in Nat
    BY <1>0, <1>1 DEF Blocks
  <2>. QED  BY <1>0, <1>1, <2>1, OnDisk
<1>3. /\ \A s : s \in StoredNow <=> \E i \in 1 .. Len(stored) : stored[i] = <<epoch, s>>
      /\ \A s : s \in StoredNow' <=> \E i \in 1 .. Len(stored') : stored'[i] = <<epoch', s>>
  <2>1. StoredNow = HeldBy(stored, epoch) /\ StoredNow' = HeldBy(stored', epoch')
    BY DEF StoredNow, HeldBy, Elems
  <2>2. \A s : s \in HeldBy(stored, epoch) <=> \E i \in 1 .. Len(stored) : stored[i] = <<epoch, s>>
    <3>1. stored \in Seq(Disk)
      BY <1>1
    <3>. QED  BY ONLY <3>1, InStored, Zenon
  <2>3. \A s : s \in HeldBy(stored', epoch') <=> \E i \in 1 .. Len(stored') : stored'[i] = <<epoch', s>>
    <3>. DEFINE st == stored'
                e == epoch'
    <3>1. st \in Seq(Disk)
      BY <1>1
    <3>. HIDE DEF st, e
    <3>2. \A s : s \in HeldBy(st, e) <=> \E i \in 1 .. Len(st) : st[i] = <<e, s>>
      BY <3>1, InStored, Zenon
    <3>. QED  BY <3>2, Zenon DEF st, e
  <2>. QED  BY <2>1, <2>2, <2>3, Zenon
<1>4. ASSUME NEW s \in StoredNow PROVE s \in StoredNow'
  <2>1. PICK i \in 1 .. Len(stored) : stored[i] = <<epoch, s>>
    BY <1>3
  <2>2. i \in 1 .. Len(stored') /\ stored'[i] = stored[i]
    BY <1>2
  <2>3. stored'[i] = <<epoch', s>>
    BY <1>0, <2>1, <2>2
  <2>. QED  BY <1>3, <2>2, <2>3
<1>5. ASSUME NEW i \in 1 .. Len(r.recs) PROVE r.recs[i] \in StoredNow'
  <2>1. Len(stored) + i \in 1 .. Len(stored')
    BY <1>2
  <2>2. stored'[Len(stored) + i] = <<epoch', r.recs[i]>>
    BY <1>0, <1>1, <1>2
  <2>. QED  BY <1>3, <2>1, <2>2
<1>6. ASSUME NEW i \in 1 .. Len(stored')
      PROVE  \/ i \in 1 .. Len(stored) /\ stored'[i] = stored[i]
             \/ \E k \in 1 .. Len(r.recs) : stored'[i] = <<epoch, r.recs[k]>>
  <2>1. CASE i <= Len(stored)
    BY <1>2, <2>1
  <2>2. CASE ~(i <= Len(stored))
    <3>1. i - Len(stored) \in 1 .. Len(r.recs) /\ Len(stored) + (i - Len(stored)) = i
      BY <1>2, <2>2
    <3>2. stored'[i] = <<epoch, r.recs[i - Len(stored)]>>
      BY <1>1, <1>2, <3>1
    <3>. QED  BY <3>1, <3>2
  <2>. QED  BY <2>1, <2>2
<1>7. ASSUME NEW s \in StoredNow'
      PROVE  s \in StoredNow \/ \E i \in 1 .. Len(r.recs) : s = r.recs[i]
  <2>1. PICK i \in 1 .. Len(stored') : stored'[i] = <<epoch, s>>
    BY <1>0, <1>3
  <2>2. CASE i \in 1 .. Len(stored) /\ stored'[i] = stored[i]
    BY <1>3, <2>1, <2>2
  <2>3. ASSUME NEW k \in 1 .. Len(r.recs), stored'[i] = <<epoch, r.recs[k]>> PROVE s = r.recs[k]
    BY <2>1, <2>3
  <2>. QED  BY <1>6, <2>2, <2>3
<1>8. ASSUME NEW s \in StoredBefore PROVE s \in StoredBefore'
  <2>1. PICK i \in 1 .. Len(stored) : stored[i][1] < epoch /\ stored[i][2] = s
    BY DEF StoredBefore, Elems
  <2>2. i \in 1 .. Len(stored') /\ stored'[i] = stored[i]
    BY <1>2
  <2>3. stored'[i] \in {x \in Elems(stored') : x[1] < epoch'} /\ stored'[i][2] = s
    BY <1>0, <2>1, <2>2 DEF Elems
  <2>. QED  BY <2>3 DEF StoredBefore, Elems
<1>9. ASSUME \A i \in 1 .. Len(stored) : stored[i][1] <= epoch, NEW i \in 1 .. Len(stored')
      PROVE  stored'[i][1] <= epoch'
  <2>1. epoch \in Nat
    BY <1>1, Constants DEF Types
  <2>2. ASSUME NEW k \in 1 .. Len(r.recs), stored'[i] = <<epoch, r.recs[k]>>
        PROVE  stored'[i][1] <= epoch
    BY <2>1, <2>2
  <2>. QED  BY <1>0, <1>6, <1>9, <2>2
<1>. QED  BY <1>4, <1>5, <1>7, <1>8, <1>9

LEMMA LostFinite ==
  ASSUME NEW base \in Nat, NEW held
  PROVE  IsFiniteSet(Lost(base, held)) /\ Cardinality(Lost(base, held)) \in Nat
<1>1. IsFiniteSet(1 .. base - 1)
  BY FS_Interval
<1>2. Lost(base, held) \subseteq 1 .. base - 1
  BY DEF Lost
<1>3. IsFiniteSet(Lost(base, held))
  BY <1>1, <1>2, FS_Subset
<1>. QED  BY <1>3, FS_CardinalityType

\* An eviction: each record it takes is counted.
LEMMA LostCounted ==
  ASSUME NEW b \in Nat, NEW c \in Nat, b <= c, NEW held, NEW d \in Nat, NEW e \in Nat,
         b > 0, Cardinality(Lost(b, held)) <= d, e - d = c - b
  PROVE  Cardinality(Lost(c, held)) <= e
<1>. DEFINE L == Lost(b, held)
            M == Lost(c, held)
            K == b .. c - 1
<1>1. IsFiniteSet(L) /\ Cardinality(L) \in Nat /\ IsFiniteSet(M) /\ Cardinality(M) \in Nat
  BY LostFinite
<1>2. IsFiniteSet(K) /\ Cardinality(K) = c - b
  BY FS_Interval
<1>3. M \subseteq L \cup K
  BY DEF Lost
<1>. HIDE DEF L, M, K
<1>4. /\ IsFiniteSet(L \cup K)
      /\ Cardinality(L \cup K) = Cardinality(L) + Cardinality(K) - Cardinality(L \cap K)
  BY <1>1, <1>2, FS_Union
<1>5. Cardinality(L \cap K) \in Nat
  BY <1>1, FS_Intersection, FS_CardinalityType
<1>6. Cardinality(M) <= Cardinality(L \cup K)
  BY <1>3, <1>4, FS_Subset
<1>7. Cardinality(L) <= d
  BY DEF L
<1>8. Cardinality(M) <= e
  BY <1>1, <1>2, <1>4, <1>5, <1>6, <1>7
<1>. QED  BY <1>8 DEF M

\* An ack, or a block going to disk.
LEMMA LostShrinks ==
  ASSUME NEW b \in Nat, NEW c \in Nat, b <= c, NEW held, NEW now, held \subseteq now,
         \A s \in b .. c - 1 : s \in now, NEW d \in Nat, Cardinality(Lost(b, held)) <= d
  PROVE  Cardinality(Lost(c, now)) <= d
<1>1. Lost(c, now) \subseteq Lost(b, held)
  BY DEF Lost
<1>2. Cardinality(Lost(c, now)) <= Cardinality(Lost(b, held)) 
  BY <1>1, LostFinite, FS_Subset
<1>. QED  BY <1>2, LostFinite


LEMMA SafeSteps ==
  ASSUME IInv, Safe, DrainNext PROVE Safe'
<1>0. /\ Types /\ Numbered /\ epoch \in Nat
      /\ requests \in Seq(Acks) /\ Len(requests) \in Nat /\ replies \in Seq(Blocks)
      /\ Len(replies) \in Nat /\ dropped \in Nat /\ next_seq \in Nat
  BY Constants DEF IInv, Types
<1>1. Base \in Nat /\ Base > 0
  BY <1>0, InLog
<1>2. IInv'
  BY Inductive
<1>3. CASE PowerCycle
  <2>1. /\ epoch' = epoch + 1 /\ log' = <<>> /\ next_seq' = 1 /\ dropped' = 0
        /\ requests' = <<>> /\ replies' = <<>> /\ ack_seq' = ack_seq /\ stored' = stored
    BY <1>3, PowerStep, Zenon
  <2>2. \A x \in Elems(stored) : x[1] \in Int /\ x[1] <= epoch
    <3>1. \A i \in 1 .. Len(stored) : stored[i] \in Disk
      BY <1>0 DEF Types
    <3>2. \A x \in Disk : x[1] \in Int
      BY Constants DEF Disk
    <3>. QED  BY <3>1, <3>2 DEF Elems, Safe
  <2>3. \A x \in Elems(stored) : x[1] # epoch + 1 /\ x[1] < epoch + 1
    BY <1>0, <2>2
  <2>4. StoredNow' = {}
    BY <2>1, <2>3 DEF StoredNow, Elems
  <2>5. StoredNow \subseteq StoredBefore' /\ StoredBefore \subseteq StoredBefore'
    <3>1. StoredBefore' = {r[2] : r \in Elems(stored)}
      BY <2>1, <2>3 DEF StoredBefore, Elems
    <3>. QED  BY <3>1 DEF StoredNow, StoredBefore
  <2>6. Known(ack_seq)'
    BY <2>1, <2>5 DEF Safe, Known
  <2>7. Base' = 1
    BY <2>1 DEF Base
  <2>8. Cardinality(Lost(Base', Excused')) <= dropped'
    <3>1. Lost(Base', Excused') = {}
      BY <2>7 DEF Lost
    <3>. QED  BY <2>1, <3>1, FS_EmptySet
  <2>9. \A i \in 1 .. Len(stored') : stored'[i][1] <= epoch'
    BY <1>0, <2>1, <2>2 DEF Elems
  <2>. QED  BY <2>1, <2>4, <2>6, <2>8, <2>9 DEF Safe, Gapless
<1>4. /\ Gapless(Base, StoredNow) /\ Known(ack_seq)
      /\ \A j \in 1 .. Len(requests) : Known(requests[j])
      /\ \A j \in 1 .. Len(replies) : Carries(replies[j], Base, StoredNow)
      /\ \A i \in 1 .. Len(stored) : stored[i][1] <= epoch
      /\ Cardinality(Lost(Base, Excused)) <= dropped
  BY DEF Safe
<1>9. ASSUME NEW c \in Nat, Base <= c
      PROVE  Gapless(c, StoredNow) /\ \A r : Carries(r, Base, StoredNow) => Carries(r, c, StoredNow)
  <2>1. \A a : \A s : s \in c .. a => s \in Base .. a
    BY <1>1, <1>9
  <2>2. Gapless(c, StoredNow)
    BY <1>4, <2>1 DEF Gapless
  <2>3. \A r : Carries(r, Base, StoredNow) => Carries(r, c, StoredNow)
    BY <2>1 DEF Carries
  <2>. QED  BY <2>2, <2>3
<1>5. CASE Record
  <2>1. /\ Base <= Base' /\ dropped' - dropped = Base' - Base /\ Types' /\ Numbered'
    BY <1>5, RecordStep, Zenon
  <2>2. /\ requests' = requests /\ replies' = replies /\ ack_seq' = ack_seq
        /\ epoch' = epoch /\ stored' = stored
    BY <1>5 DEF Record, linkVars, hostVars
  <2>3. StoredNow' = StoredNow /\ StoredBefore' = StoredBefore
    BY <2>2 DEF StoredNow, StoredBefore
  <2>4. Excused' = Excused /\ \A a : Known(a)' <=> Known(a)
    BY <2>3 DEF Excused, Known
  <2>5. Base' \in Nat /\ dropped' \in Nat
    <3>1. Base' = next_seq' - Len(log') /\ Len(log') < next_seq'
      BY <2>1 DEF Base, Numbered
    <3>2. next_seq' \in Nat /\ Len(log') \in Nat /\ dropped' \in Nat
      BY <2>1, Constants DEF Types
    <3>. QED  BY <3>1, <3>2
  <2>6. /\ Gapless(Base', StoredNow)
        /\ \A j \in 1 .. Len(replies) : Carries(replies[j], Base', StoredNow)
    BY <1>4, <1>9, <2>1, <2>5
  <2>7. Cardinality(Lost(Base', Excused)) <= dropped'
    BY <1>0, <1>1, <1>4, <2>1, <2>5, LostCounted
  <2>. QED  BY <1>4, <2>2, <2>3, <2>4, <2>6, <2>7 DEF Safe
<1>6. CASE ServeBlock
  <2>. DEFINE ack == Head(requests)
  <2>1. /\ Types' /\ Numbered' /\ ack \in Acks
        /\ next_seq' = next_seq /\ dropped' = dropped /\ Base <= Base'
        /\ Base < Base' => ack # NoAck /\ Base' - 1 <= ack
        /\ requests # <<>> /\ requests' = Tail(requests)
        /\ \E b : Prefix(b) /\ replies' = Append(replies, b)
    BY <1>6, ServeStep, Zenon
  <2>2. PICK b : Prefix(b) /\ replies' = Append(replies, b)
    BY <2>1
  <2>3. ack_seq' = ack_seq /\ epoch' = epoch /\ stored' = stored
    BY <1>6 DEF ServeBlock, hostVars
  <2>4. StoredNow' = StoredNow /\ StoredBefore' = StoredBefore
    BY <2>3 DEF StoredNow, StoredBefore
  <2>5. Base' \in Nat
    <3>1. Base' = next_seq' - Len(log') /\ Len(log') < next_seq'
      BY <2>1 DEF Base, Numbered
    <3>2. next_seq' \in Nat /\ Len(log') \in Nat
      BY <2>1, Constants DEF Types
    <3>. QED  BY <3>1, <3>2
  <2>6. Excused' = Excused /\ \A a : Known(a)' <=> Known(a)
    BY <2>4 DEF Excused, Known
  <2>7. /\ Gapless(Base', StoredNow)
        /\ \A r : Carries(r, Base, StoredNow) => Carries(r, Base', StoredNow)
    BY <1>9, <2>1, <2>5
  <2>8. Carries(b, Base', StoredNow)
    <3>. DEFINE q == b.recs
    <3>1. q \in Seq(1 .. MaxSeq) /\ \A i \in 1 .. Len(q) : q[i] = Base' + i - 1
      BY <2>2 DEF Prefix, Blocks
    <3>. HIDE DEF q
    <3>2. ASSUME q # <<>>, NEW s \in Base' .. q[Len(q)] PROVE s \in Elems(q)
      <4>1. Len(q) \in Nat /\ Len(q) > 0
        BY <3>1, <3>2
      <4>2. q[Len(q)] = Base' + Len(q) - 1 /\ s \in Base' .. q[Len(q)]
        BY <3>1, <3>2, <4>1
      <4>3. s - Base' + 1 \in 1 .. Len(q)
        <5>. DEFINE c == Base'
                    l == q[Len(q)]
        <5>1. c \in Nat /\ l = c + Len(q) - 1 /\ s \in c .. l
          BY <2>5, <4>2
        <5>. HIDE DEF c, l
        <5>2. s - c + 1 \in 1 .. Len(q)
          BY ONLY <4>1, <5>1
        <5>. QED  BY <5>2 DEF c
      <4>4. q[s - Base' + 1] = s
        BY <2>5, <3>1, <4>3
      <4>. QED  BY <4>3, <4>4 DEF Elems
    <3>. QED  BY <3>2 DEF Carries, q
  <2>9. Cardinality(Lost(Base', Excused)) <= dropped'
    <3>1. Known(ack)
      <4>1. 1 \in 1 .. Len(requests) /\ ack = requests[1]
        BY <1>0, <2>1
      <4>. QED  BY <1>4, <4>1
    <3>2. \A s \in Base .. Base' - 1 : s \in Excused
      <4>. DEFINE c == Base'
                  b0 == Base
      <4>. SUFFICES ASSUME NEW s \in b0 .. c - 1 PROVE s \in Excused
        OBVIOUS
      <4>0. c \in Nat /\ b0 \in Nat /\ (b0 < c => ack # NoAck /\ c - 1 <= ack) /\ ack \in Acks
            /\ Gapless(b0, StoredNow)
        BY <1>1, <1>4, <2>1, <2>5
      <4>3. ack \in Int
        BY <4>0, Constants DEF Acks, NoAck
      <4>. HIDE DEF c, b0, ack
      <4>1. ack # NoAck /\ c - 1 <= ack
        BY ONLY <4>0, s \in b0 .. c - 1
      <4>2. s \in b0 .. ack /\ s \in Nat /\ ~(ack < s)
        BY ONLY <4>0, <4>1, <4>3, s \in b0 .. c - 1
      <4>4. ack \in StoredNow => s \in StoredNow
        BY <4>0, <4>2 DEF Gapless
      <4>. QED  BY <3>1, <4>1, <4>2, <4>4 DEF Known, Excused
    <3>3. Cardinality(Lost(Base', Excused)) <= dropped
      BY <1>0, <1>1, <1>4, <2>1, <2>5, <3>2, LostShrinks
    <3>. QED  BY <2>1, <3>3
  <2>10. ASSUME NEW j \in 1 .. Len(requests') PROVE Known(requests'[j])
    <3>1. requests'[j] = requests[j + 1] /\ j + 1 \in 1 .. Len(requests)
      BY <1>0, <2>1
    <3>. QED  BY <1>4, <3>1
  <2>11. ASSUME NEW j \in 1 .. Len(replies') PROVE Carries(replies'[j], Base', StoredNow)
    <3>1. CASE j = Len(replies) + 1
      <4>1. replies'[j] = b
        BY <1>0, <2>2, <3>1
      <4>. QED  BY <2>8, <4>1
    <3>2. CASE j # Len(replies) + 1
      <4>1. j \in 1 .. Len(replies) /\ replies'[j] = replies[j]
        BY <1>0, <2>2, <3>2
      <4>. QED  BY <1>4, <2>7, <4>1
    <3>. QED  BY <3>1, <3>2
  <2>. HIDE DEF ack
  <2>12. Known(ack_seq)' /\ \A j \in 1 .. Len(requests') : Known(requests[j])'
    BY <1>4, <2>3, <2>4, <2>10 DEF Known
  <2>. QED  BY <1>4, <2>3, <2>4, <2>6, <2>7, <2>9, <2>11, <2>12 DEF Safe
<1>7. CASE Ask \/ Timeout
  <2>1. /\ log' = log /\ next_seq' = next_seq /\ dropped' = dropped /\ epoch' = epoch
        /\ ack_seq' = ack_seq /\ stored' = stored
        /\ replies' = replies \/ replies' = <<>>
        /\ \A j \in 1 .. Len(requests') :
             requests'[j] = ack_seq \/ (j \in 1 .. Len(requests) /\ requests'[j] = requests[j])
    BY <1>7, LinkStep, Zenon
  <2>2. Base' = Base /\ StoredNow' = StoredNow /\ StoredBefore' = StoredBefore
    BY <2>1 DEF Base, StoredNow, StoredBefore
  <2>3. Known(ack_seq)' /\ \A j \in 1 .. Len(requests') : Known(requests[j])'
    BY <1>4, <2>1, <2>2 DEF Known
  <2>4. \A j \in 1 .. Len(replies') : Carries(replies'[j], Base, StoredNow)
    BY <1>4, <2>1
  <2>5. Excused' = Excused
    BY <2>2 DEF Excused
  <2>. QED  BY <1>4, <2>1, <2>2, <2>3, <2>4, <2>5 DEF Safe
<1>8. CASE Receive
  <2>. DEFINE r == Head(replies)
              q == r.recs
  <2>1. /\ log' = log /\ next_seq' = next_seq /\ dropped' = dropped /\ epoch' = epoch
        /\ r.recs = <<>> => ack_seq' = ack_seq
        /\ r.recs # <<>> => ack_seq' = r.recs[Len(r.recs)]
        /\ requests' = requests /\ replies # <<>> /\ r \in Blocks /\ Whole(r, epoch, next_seq)
    BY <1>8, ReceiveStep, Zenon
  <2>2. PICK k \in 1 .. Len(replies) : /\ Len(replies') = Len(replies) - k
                                       /\ \A j \in 1 .. Len(replies') : replies'[j] = replies[k + j]
    BY <1>8, ReceiveStep, Zenon
  <2>3. /\ StoredNow \subseteq StoredNow' /\ \A i \in 1 .. Len(q) : q[i] \in StoredNow'
        /\ \A s \in StoredNow' : s \in StoredNow \/ \E i \in 1 .. Len(q) : s = q[i]
        /\ StoredBefore \subseteq StoredBefore'
        /\ \A i \in 1 .. Len(stored') : stored'[i][1] <= epoch'
    BY <1>4, <1>8, StoredGrows, Zenon
  <2>4. Base' = Base
    BY <2>1 DEF Base
  <2>5. Carries(r, Base, StoredNow)
    <3>1. 1 \in 1 .. Len(replies) /\ r = replies[1]
      BY <1>0, <2>1
    <3>. QED  BY <1>4, <3>1
  <2>6. q # <<>> => /\ Len(q) \in 1 .. Len(q) /\ q[Len(q)] \in Nat
                    /\ \A i \in 1 .. Len(q) : q[i] \in Nat /\ q[i] <= q[Len(q)]
    <3>1. /\ q \in Seq(1 .. MaxSeq)
          /\ \A i \in 1 .. Len(q) : q[i] = q[1] + i - 1 /\ q[i] < next_seq
      BY <2>1 DEF Blocks, Whole
    <3>. HIDE DEF q
    <3>. SUFFICES ASSUME q # <<>>
                  PROVE  /\ Len(q) \in 1 .. Len(q) /\ q[Len(q)] \in Nat
                         /\ \A i \in 1 .. Len(q) : q[i] \in Nat /\ q[i] <= q[Len(q)]
      OBVIOUS
    <3>2. /\ Len(q) \in Nat /\ Len(q) > 0 
          /\ \A i \in 1 .. Len(q) : q[i] \in Nat /\ q[i] <= q[Len(q)]
      BY <1>0, <3>1, BlockNumbers
    <3>. QED  BY <3>2
  <2>7. Gapless(Base, StoredNow')
    <3>. SUFFICES ASSUME NEW a \in StoredNow', NEW s \in Base .. a PROVE s \in StoredNow'
      BY DEF Gapless
    <3>1. CASE a \in StoredNow
      BY <1>4, <2>3, <3>1 DEF Gapless
    <3>2. ASSUME NEW i \in 1 .. Len(q), a = q[i] PROVE s \in StoredNow'
      <4>1. q # <<>>
        BY <3>2
      <4>2. s \in Base .. q[Len(q)]
        <5>. DEFINE l == q[Len(q)]
        <5>1. l \in Nat /\ a \in Nat /\ a <= l
          BY <2>6, <3>2, <4>1
        <5>. HIDE DEF l
        <5>2. s \in Base .. l
          BY <1>1, <5>1
        <5>. QED  BY <5>2 DEF l
      <4>3. s \in StoredNow \/ s \in Elems(q)
        BY <2>5, <4>1, <4>2 DEF Carries
      <4>. QED  BY <2>3, <4>3 DEF Elems
    <3>. QED  BY <2>3, <3>1, <3>2
  <2>8. Known(ack_seq)'
    <3>1. CASE q = <<>>
      BY <1>4, <2>1, <2>3, <3>1 DEF Known
    <3>2. CASE q # <<>>
      BY <2>1, <2>3, <2>6, <3>2 DEF Known
    <3>. QED  BY <3>1, <3>2
  <2>. HIDE DEF q, r
  <2>9. \A j \in 1 .. Len(requests') : Known(requests[j])'
    BY <1>4, <2>1, <2>3 DEF Known
  <2>10. ASSUME NEW j \in 1 .. Len(replies') PROVE Carries(replies'[j], Base, StoredNow')
    <3>1. replies'[j] = replies[k + j] /\ k + j \in 1 .. Len(replies)
      BY <1>0, <2>2
    <3>2. Carries(replies[k + j], Base, StoredNow)
      BY <1>4, <3>1
    <3>. QED  BY <2>3, <3>1, <3>2 DEF Carries
  <2>11. Cardinality(Lost(Base, Excused')) <= dropped
    <3>1. Excused \subseteq Excused'
      BY <2>3 DEF Excused
    <3>2. \A s \in Base .. Base - 1 : s \in Excused'
      BY <1>1
    <3>3. Base <= Base
      BY <1>1
    <3>. QED  BY <1>0, <1>1, <1>4, <3>1, <3>2, <3>3, LostShrinks
  <2>. QED  BY <2>1, <2>3, <2>4, <2>7, <2>8, <2>9, <2>10, <2>11 DEF Safe
<1>. QED
  BY <1>3, <1>5, <1>6, <1>7, <1>8 DEF DrainNext


LEMMA SafeInductive == IInv /\ Safe /\ [DrainNext]_drainVars => Safe'
<1>1. ASSUME Safe, UNCHANGED drainVars PROVE Safe'
  BY <1>1 DEF drainVars, logVars, linkVars, hostVars, Safe, Known, Excused, StoredNow, StoredBefore, Base
<1>. QED  BY <1>1, SafeSteps

LEMMA SafeStart == DrainInit => Safe
<1>. SUFFICES ASSUME DrainInit PROVE Safe
  OBVIOUS
<1>1. /\ log = <<>> /\ next_seq = 1 /\ dropped = 0 /\ requests = <<>> /\ replies = <<>>
      /\ ack_seq = NoAck /\ stored = <<>>
  BY DEF DrainInit, Init
<1>2. Base = 1 /\ StoredNow = {}
  BY <1>1 DEF Base, StoredNow, Elems
<1>3. Lost(Base, Excused) = {}
  BY <1>2 DEF Lost
<1>4. Cardinality(Lost(Base, Excused)) <= dropped
  BY <1>1, <1>3, FS_EmptySet
<1>. QED  BY <1>1, <1>2, <1>4 DEF Safe, Known, Gapless

LEMMA SafeAlways == DrainSpec => []Safe
BY SafeStart, SafeInductive, Invariance, PTL DEF DrainSpec

LEMMA NoneSilent == IInv /\ Safe => NothingSilentlyLost
<1>. SUFFICES ASSUME IInv, Safe PROVE NothingSilentlyLost
  OBVIOUS
<1>. DEFINE silent == {s \in 1 .. next_seq - 1 :
                         s \notin StoredNow /\ s \notin Elems(log) /\ \A a \in StoredBefore : a < s}
<1>1. /\ Elems(log) = Base .. next_seq - 1 /\ Base \in Nat /\ Base > 0 /\ Base <= next_seq
      /\ next_seq \in Nat
  BY InLog, Constants DEF IInv, Types
<1>2. \A s : s \in silent <=> s \in Lost(Base, Excused)
  <2>. TAKE s
  <2>1. s \in 1 .. Base - 1 <=> s \in 1 .. next_seq - 1 /\ s \notin Elems(log)
    BY <1>1
  <2>2. s \in 1 .. Base - 1 => s \in Nat
    BY <1>1
  <2>3. s \in Nat => (s \notin Excused <=> s \notin StoredNow /\ \A a \in StoredBefore : a < s)
    BY DEF Excused
  <2>. QED  BY <2>1, <2>2, <2>3 DEF Lost
<1>3. silent = Lost(Base, Excused)
  BY <1>2
<1>. QED  BY <1>3 DEF NothingSilentlyLost, Safe

\* Every record the controller has made is on the host's disk, in the ring or
\* counted by dropped, whatever the link loses or delays: for every capacity,
\* block size and number of messages under way.  After a power cycle this is so
\* of the records beyond the last number that was stored before it.
THEOREM NothingIsLost == DrainSpec => []NothingSilentlyLost
BY NoneSilent, Invariance, SafeAlways, PTL

\* handleGetTelemetryBlock frees a record only when it is on the host's disk,
\* though the ack may be an old one that a late request carries; or, after a power
\* cycle, when the ack is one of an earlier incarnation, not before this one has
\* recorded past its number and nothing beyond it.
THEOREM OnlyStoredIsFreed == DrainSpec => FreesOnlyStored
<1>1. ASSUME IInv, Safe, ServeBlock, NEW ack, ack = Head(requests),
             NEW i \in 1 .. Len(log), log[i] \notin Elems(log'), log[i] \notin StoredNow
      PROVE  ack \in StoredBefore \ StoredNow /\ log[i] <= ack /\ ack < next_seq
  <2>. DEFINE s == log[i]
              b == Base
              c == Base'
  <2>1. /\ Types' /\ Numbered' /\ ack \in Acks /\ next_seq' = next_seq
        /\ (b < c => ack # NoAck /\ c - 1 <= ack) /\ requests # <<>>
    BY <1>1, ServeStep, Zenon
  <2>2. Types /\ Numbered /\ requests \in Seq(Acks)
    BY <1>1 DEF IInv, Types
  <2>3. /\ Elems(log) = b .. next_seq - 1 /\ b \in Nat /\ next_seq \in Nat
    BY <2>2, InLog, Constants DEF Types
  <2>4. Elems(log') = c .. next_seq - 1 /\ c \in Nat
    <3>. DEFINE q == log'
    <3>1. /\ c = next_seq - Len(q) /\ Len(q) < next_seq /\ q \in Seq(Nat) /\ Len(q) \in Nat
          /\ \A j \in 1 .. Len(q) : q[j] = c + j - 1
      BY <2>1, SMTT(60) DEF Base, Types, Numbered
    <3>. HIDE DEF q, c
    <3>2. c \in Nat
      BY <2>3, <3>1
    <3>3. Elems(q) = c .. next_seq - 1
      BY <2>3, <3>1, <3>2, InRun
    <3>. QED  BY <3>2, <3>3 DEF q
  <2>5. ack \in Int
    BY <2>1, Constants DEF Acks, NoAck
  <2>6. s \in b .. next_seq - 1 /\ s \notin c .. next_seq - 1
    BY <1>1, <2>3, <2>4 DEF Elems
  <2>7. Known(ack) /\ Gapless(b, StoredNow)
    <3>1. 1 \in 1 .. Len(requests) /\ ack = requests[1]
      BY <1>1, <2>1, <2>2
    <3>. QED  BY <1>1, <3>1 DEF Safe
  <2>8. ack < next_seq
    <3>1. \/ \E k \in 0 .. Len(log) : Ack(ack, k)
          \/ log' = log
      BY <1>1 DEF ServeBlock, Keep
    <3>2. log' # log
      BY <1>1 DEF Elems
    <3>. QED  BY <3>1, <3>2 DEF Ack
  <2>. HIDE DEF s, b, c
  <2>9. ack # NoAck /\ s \in b .. ack /\ s <= ack
    BY ONLY <2>1, <2>3, <2>4, <2>5, <2>6
  <2>10. ack \notin StoredNow
    <3>1. s \notin StoredNow
      BY <1>1 DEF s
    <3>. QED  BY <2>7, <2>9, <3>1 DEF Gapless
  <2>. QED  BY <2>7, <2>8, <2>9, <2>10 DEF Known, s
<1>2. IInv /\ Safe /\ [DrainNext]_drainVars
        => [ServeBlock =>
              LET ack == Head(requests) IN
              \A i \in 1 .. Len(log) :
                \/ log[i] \in Elems(log') \/ log[i] \in StoredNow
                \/ ack \in StoredBefore \ StoredNow /\ log[i] <= ack /\ ack < next_seq]_drainVars
  BY <1>1
<1>. QED  BY <1>2, Invariance, SafeAlways, PTL DEF DrainSpec, FreesOnlyStored


-----------------------------------------------------------------------------
(* The host's log, when a reply that is late is lost.  Then at most one     *)
(* message is under way and it is of the host's last request, so that the   *)
(* block begins behind everything the host has stored of this incarnation. *)
(* Before the first power cycle, missing and the gap between the last       *)
(* record stored and the ring are covered by what was evicted.              *)

Paired ==
  /\ ack_seq = IF last_seq = 0 THEN NoAck ELSE last_seq
  /\ \A j \in 1 .. Len(requests) : requests[j] = ack_seq

\* Everything stored of this incarnation ends at last_seq.
UpTo(st, e, last, next) ==
  \A i \in 1 .. Len(st) : st[i][1] <= e /\ (st[i][1] = e => st[i][2] <= last /\ last < next)

Behind(r, st, e, last, base) ==
  r.recs # <<>> =>
    /\ \A i \in 1 .. Len(st) : st[i][1] = e => st[i][2] < r.recs[1]
    /\ r.recs[1] <= base /\ (e = 0 => last < r.recs[1])

Covered ==
  epoch = 0 => /\ last_seq < next_seq /\ missing <= dropped
               /\ missing + (Base - 1 - last_seq) <= dropped

LogInv ==
  /\ Paired /\ Covered /\ UpTo(stored, epoch, last_seq, next_seq) /\ StoredOnceInOrder
  /\ \A j \in 1 .. Len(replies) : Behind(replies[j], stored, epoch, last_seq, Base)


\* The new lines of the disk come behind the old ones.
LEMMA DiskGrows ==
  ASSUME NEW st \in Seq(Disk), NEW q \in Seq(1 .. MaxSeq), NEW now \in Seq(Disk),
         NEW e \in Nat, NEW n \in Nat, NEW last, NEW base,
         Len(now) = Len(st) + Len(q), q # <<>>,
         \A i \in 1 .. Len(st) : now[i] = st[i],
         \A i \in 1 .. Len(q) : now[Len(st) + i] = <<e, q[i]>>,
         \A i \in 1 .. Len(q) : q[i] = q[1] + i - 1 /\ q[i] < n,
         \A i \in 1 .. Len(st) : st[i][1] = e => st[i][2] < q[1],
         \A i \in 1 .. Len(st) : st[i][1] <= e,
         \A i, j \in 1 .. Len(st) : i < j /\ st[i][1] = st[j][1] => st[i][2] < st[j][2]
  PROVE  /\ UpTo(now, e, q[Len(q)], n)
         /\ \A i, j \in 1 .. Len(now) : i < j /\ now[i][1] = now[j][1] => now[i][2] < now[j][2]
<1>0. /\ Len(q) \in Nat /\ Len(q) > 0 /\ q[1] \in Nat /\ q[1] > 0
      /\ q[Len(q)] = q[1] + Len(q) - 1 /\ q[Len(q)] < n
      /\ \A i \in 1 .. Len(q) : q[i] \in Nat /\ q[1] <= q[i] /\ q[i] <= q[Len(q)]
  BY BlockNumbers
<1>1. Len(st) \in Nat /\ \A i \in 1 .. Len(st) : st[i][1] \in Int /\ st[i][2] \in Int
  <2>1. Len(st) \in Nat /\ \A i \in 1 .. Len(st) : st[i] \in Disk
    OBVIOUS
  <2>2. ASSUME NEW x \in Disk PROVE x[1] \in Int /\ x[2] \in Int
    BY Constants DEF Disk
  <2>. QED  BY <2>1, <2>2
<1>2. ASSUME NEW i \in 1 .. Len(now)
      PROVE  \/ i \in 1 .. Len(st) /\ now[i] = st[i]
             \/ \E k \in 1 .. Len(q) : i = Len(st) + k /\ now[i][1] = e /\ now[i][2] = q[k]
  <2>1. CASE i <= Len(st)
    BY <1>0, <1>1, <2>1
  <2>2. CASE ~(i <= Len(st))
    <3>1. i - Len(st) \in 1 .. Len(q) /\ i = Len(st) + (i - Len(st))
      BY <1>0, <1>1, <2>2
    <3>2. now[i] = <<e, q[i - Len(st)]>>
      BY <3>1
    <3>. QED  BY <3>1, <3>2
  <2>. QED  BY <2>1, <2>2
<1>3. UpTo(now, e, q[Len(q)], n)
  <2>. SUFFICES ASSUME NEW i \in 1 .. Len(now)
                PROVE  now[i][1] <= e /\ (now[i][1] = e => now[i][2] <= q[Len(q)] /\ q[Len(q)] < n)
    BY DEF UpTo
  <2>1. CASE i \in 1 .. Len(st) /\ now[i] = st[i]
    <3>1. st[i][1] <= e /\ (st[i][1] = e => st[i][2] < q[1]) /\ st[i][2] \in Int
      BY <1>1, <2>1
    <3>2. q[1] <= q[Len(q)] /\ q[Len(q)] \in Nat /\ q[1] \in Nat /\ q[Len(q)] < n
      BY <1>0
    <3>3. st[i][1] = e => st[i][2] <= q[Len(q)]
      BY ONLY <3>1, <3>2
    <3>. QED  BY <2>1, <3>1, <3>2, <3>3, Zenon
  <2>2. ASSUME NEW k \in 1 .. Len(q), now[i][1] = e, now[i][2] = q[k]
        PROVE  now[i][1] <= e /\ (now[i][1] = e => now[i][2] <= q[Len(q)] /\ q[Len(q)] < n)
    BY <1>0, <2>2
  <2>. QED  BY <1>2, <2>1, <2>2
<1>4. ASSUME NEW i \in 1 .. Len(now), NEW j \in 1 .. Len(now), i < j, now[i][1] = now[j][1]
      PROVE  now[i][2] < now[j][2]
  <2>1. CASE j \in 1 .. Len(st) /\ now[j] = st[j]
    <3>1. i \in 1 .. Len(st) /\ now[i] = st[i]
      BY <1>1, <1>4, <2>1
    <3>. QED  BY <1>4, <2>1, <3>1
  <2>2. ASSUME NEW k \in 1 .. Len(q), j = Len(st) + k, now[j][1] = e, now[j][2] = q[k]
        PROVE  now[i][2] < now[j][2]
    <3>1. CASE i \in 1 .. Len(st) /\ now[i] = st[i]
      <4>1. st[i][1] = e /\ st[i][2] < q[1] /\ st[i][2] \in Int
        BY <1>1, <1>4, <2>2, <3>1
      <4>2. q[1] <= q[k] /\ q[k] \in Nat /\ q[1] \in Nat
        BY <1>0
      <4>3. st[i][2] < q[k]
        BY ONLY <4>1, <4>2
      <4>. QED  BY <2>2, <3>1, <4>3
    <3>2. ASSUME NEW l \in 1 .. Len(q), i = Len(st) + l, now[i][2] = q[l]
          PROVE  now[i][2] < now[j][2]
      <4>1. l < k
        BY <1>1, <1>4, <2>2, <3>2
      <4>2. q[l] = q[1] + l - 1 /\ q[k] = q[1] + k - 1
        OBVIOUS
      <4>3. l \in Int /\ k \in Int /\ q[1] \in Int
        BY ONLY <1>0, l \in 1 .. Len(q), k \in 1 .. Len(q)
      <4>4. q[l] < q[k]
        BY ONLY <4>1, <4>2, <4>3
      <4>. QED  BY <2>2, <3>2, <4>4
    <3>. QED  BY <1>2, <3>1, <3>2
  <2>. QED  BY <1>2, <2>1, <2>2
<1>. QED  BY <1>3, <1>4


LEMMA LogSteps ==
  ASSUME ~LateReplies, IInv, LogInv, DrainNext PROVE LogInv'
<1>0. /\ Types /\ Numbered /\ epoch \in Nat /\ last_seq \in Nat /\ missing \in Int
      /\ stored \in Seq(Disk) /\ Len(stored) \in Nat /\ ack_seq \in Acks
      /\ requests \in Seq(Acks) /\ Len(requests) \in Nat /\ replies \in Seq(Blocks)
      /\ Len(replies) \in Nat /\ dropped \in Nat /\ next_seq \in Nat
  BY Constants DEF IInv, Types
<1>1. Base \in Nat /\ Base > 0
  BY <1>0, InLog
<1>2. IInv'
  BY Inductive
<1>3. \A i \in 1 .. Len(stored) : stored[i][1] \in Int /\ stored[i][2] \in Int /\ stored[i][2] > 0
  <2>1. ASSUME NEW x \in Disk PROVE x[1] \in Int /\ x[2] \in Int /\ x[2] > 0
    BY Constants DEF Disk
  <2>2. \A i \in 1 .. Len(stored) : stored[i] \in Disk
    BY <1>0
  <2>. QED  BY <2>1, <2>2
<1>4. Base' \in Nat /\ Base' > 0 /\ next_seq' \in Nat
  <2>1. /\ Base' = next_seq' - Len(log') /\ Len(log') < next_seq'
        /\ next_seq' \in Nat /\ Len(log') \in Nat
    BY <1>2, Constants DEF IInv, Types, Base, Numbered
  <2>. QED  BY <2>1
<1>5. /\ Paired /\ Covered /\ UpTo(stored, epoch, last_seq, next_seq) /\ StoredOnceInOrder
      /\ \A j \in 1 .. Len(replies) : Behind(replies[j], stored, epoch, last_seq, Base)
  BY DEF LogInv
<1>6. ASSUME Base <= Base'
      PROVE  \A r \in Blocks : Behind(r, stored, epoch, last_seq, Base)
                            => Behind(r, stored, epoch, last_seq, Base')
  <2>. SUFFICES ASSUME NEW r \in Blocks, r.recs # <<>>, r.recs[1] <= Base PROVE r.recs[1] <= Base'
    BY DEF Behind
  <2>. DEFINE q == r.recs
  <2>1. q \in Seq(1 .. MaxSeq) /\ q # <<>>
    BY DEF Blocks
  <2>2. q[1] \in Int
    <3>. HIDE DEF q
    <3>1. 1 \in 1 .. Len(q)
      BY <2>1
    <3>2. q[1] \in 1 .. MaxSeq
      BY <2>1, <3>1, ElementOfSeq
    <3>. QED  BY <3>2, Constants
  <2>. QED  BY <1>1, <1>4, <1>6, <2>2
<1>7. CASE Record
  <2>1. /\ next_seq <= next_seq' /\ Base <= Base' /\ dropped' - dropped = Base' - Base /\ Types'
    BY <1>7, RecordStep, Zenon
  <2>2. /\ requests' = requests /\ replies' = replies /\ ack_seq' = ack_seq /\ epoch' = epoch
        /\ stored' = stored /\ last_seq' = last_seq /\ missing' = missing
    BY <1>7 DEF Record, linkVars, hostVars
  <2>3. Paired' /\ StoredOnceInOrder'
    BY <1>5, <2>2 DEF Paired, StoredOnceInOrder
  <2>4. Covered'
    <3>1. dropped' \in Nat
      BY <2>1 DEF Types
    <3>. DEFINE c == Base'
                d == dropped'
                n == next_seq'
    <3>2. /\ c \in Nat /\ d \in Nat /\ n \in Nat /\ next_seq <= n /\ Base <= c /\ d - dropped = c - Base
      BY <1>4, <2>1, <3>1
    <3>. HIDE DEF c, d, n
    <3>3. ASSUME epoch = 0 PROVE last_seq < n /\ missing <= d /\ missing + (c - 1 - last_seq) <= d
      <4>1. last_seq < next_seq /\ missing <= dropped /\ missing + (Base - 1 - last_seq) <= dropped
        BY <1>5, <3>3 DEF Covered
      <4>. QED  BY ONLY <1>0, <1>1, <3>2, <4>1
    <3>. QED  BY <2>2, <3>3 DEF Covered, c, d, n
  <2>5. UpTo(stored, epoch, last_seq, next_seq')
    BY <1>0, <1>4, <1>5, <2>1 DEF UpTo
  <2>6. \A j \in 1 .. Len(replies) : Behind(replies[j], stored, epoch, last_seq, Base')
    <3>1. \A j \in 1 .. Len(replies) : replies[j] \in Blocks
      BY <1>0
    <3>. QED  BY <1>5, <1>6, <2>1, <3>1
  <2>. QED  BY <2>2, <2>3, <2>4, <2>5, <2>6 DEF LogInv
<1>8. CASE PowerCycle
  <2>1. /\ epoch' = epoch + 1 /\ requests' = <<>> /\ replies' = <<>>
        /\ ack_seq' = ack_seq /\ stored' = stored /\ last_seq' = last_seq
    BY <1>8, PowerStep
  <2>2. Paired' /\ StoredOnceInOrder'
    BY <1>5, <2>1 DEF Paired, StoredOnceInOrder
  <2>3. Covered'
    BY <1>0, <2>1 DEF Covered
  <2>4. UpTo(stored, epoch + 1, last_seq, next_seq')
    BY <1>0, <1>3, <1>5 DEF UpTo
  <2>. QED  BY <2>1, <2>2, <2>3, <2>4 DEF LogInv
<1>9. CASE Ask \/ Timeout
  <2>1. /\ log' = log /\ next_seq' = next_seq /\ dropped' = dropped /\ epoch' = epoch
        /\ ack_seq' = ack_seq /\ stored' = stored /\ last_seq' = last_seq /\ missing' = missing
        /\ replies' = replies \/ replies' = <<>>
        /\ \A j \in 1 .. Len(requests') :
             requests'[j] = ack_seq \/ (j \in 1 .. Len(requests) /\ requests'[j] = requests[j])
    BY <1>9, LinkStep, Zenon
  <2>2. Paired' /\ StoredOnceInOrder' /\ Base' = Base
    BY <1>5, <2>1 DEF Paired, StoredOnceInOrder, Base
  <2>3. Covered'
    BY <1>5, <2>1, <2>2 DEF Covered
  <2>4. \A j \in 1 .. Len(replies') : Behind(replies'[j], stored, epoch, last_seq, Base)
    BY <1>5, <2>1
  <2>. QED  BY <1>5, <2>1, <2>2, <2>3, <2>4 DEF LogInv
<1>10. CASE ServeBlock
  <2>. DEFINE ack == Head(requests)
  <2>1. /\ ack \in Acks /\ next_seq' = next_seq /\ dropped' = dropped /\ Base <= Base'
        /\ Base < Base' => ack # NoAck /\ Base' - 1 <= ack
        /\ ack < next_seq /\ Len(log') > 0 => ack < Base'
        /\ requests # <<>> /\ requests' = Tail(requests)
        /\ \E b : Prefix(b) /\ replies' = Append(replies, b)
    BY <1>10, ServeStep, Zenon
  <2>2. PICK b : Prefix(b) /\ replies' = Append(replies, b)
    BY <2>1
  <2>3. /\ ack_seq' = ack_seq /\ epoch' = epoch
        /\ stored' = stored /\ last_seq' = last_seq /\ missing' = missing
    BY <1>10 DEF ServeBlock, hostVars
  <2>4. ack = IF last_seq = 0 THEN NoAck ELSE last_seq
    <3>1. 1 \in 1 .. Len(requests) /\ ack = requests[1]
      BY <1>0, <2>1
    <3>. QED  BY <1>5, <3>1 DEF Paired
  <2>. HIDE DEF ack
  <2>5. Paired' /\ StoredOnceInOrder'
    <3>1. \A j \in 1 .. Len(requests') : requests'[j] = requests[j + 1] /\ j + 1 \in 1 .. Len(requests)
      BY <1>0, <2>1
    <3>. QED  BY <1>5, <2>3, <3>1 DEF Paired, StoredOnceInOrder
  <2>6. Covered'
    <3>1. CASE Base' = Base
      BY <1>5, <2>1, <2>3, <3>1 DEF Covered
    <3>2. CASE Base' # Base
      <4>. DEFINE c == Base'
      <4>1. c \in Nat /\ c - 1 <= last_seq
        BY <1>1, <1>4, <2>1, <2>4, <3>2
      <4>. HIDE DEF c
      <4>2. ASSUME epoch = 0 PROVE missing + (c - 1 - last_seq) <= dropped
        <5>1. missing <= dropped
          BY <1>5, <4>2 DEF Covered
        <5>. QED  BY ONLY <1>0, <4>1, <5>1
      <4>. QED  BY <1>5, <2>1, <2>3, <4>2 DEF Covered, c
    <3>. QED  BY <3>1, <3>2
  <2>7. Behind(b, stored, epoch, last_seq, Base')
    <3>. SUFFICES ASSUME b.recs # <<>>
                  PROVE  /\ \A i \in 1 .. Len(stored) : stored[i][1] = epoch => stored[i][2] < b.recs[1]
                         /\ b.recs[1] <= Base' /\ (epoch = 0 => last_seq < b.recs[1])
      BY DEF Behind
    <3>1. b.recs[1] = Base' /\ Len(log') > 0
      <4>. DEFINE q == b.recs
      <4>1. /\ q \in Seq(1 .. MaxSeq) /\ q # <<>> /\ Len(q) <= Len(log')
            /\ \A i \in 1 .. Len(q) : q[i] = Base' + i - 1
        BY <2>2 DEF Prefix, Blocks
      <4>2. Len(log') \in Nat
        BY <1>2 DEF IInv, Types
      <4>. HIDE DEF q
      <4>3. Len(q) \in Nat /\ Len(q) > 0 /\ 1 \in 1 .. Len(q)
        BY <4>1
      <4>4. q[1] = Base' + 1 - 1
        BY <4>1, <4>3
      <4>5. Len(log') > 0
        BY <4>1, <4>2, <4>3
      <4>6. q[1] = Base'
        <5>. DEFINE c == Base'
        <5>1. c \in Int /\ q[1] = c + 1 - 1
          BY <1>4, <4>4
        <5>. HIDE DEF c
        <5>2. q[1] = c
          BY <5>1
        <5>. QED  BY <5>2 DEF c
      <4>. QED  BY <4>5, <4>6 DEF q
    <3>2. last_seq < next_seq => last_seq < Base'
      <4>1. CASE last_seq = 0
        BY <1>4, <4>1
      <4>2. CASE last_seq # 0
        BY <2>1, <2>4, <3>1, <4>2
      <4>. QED  BY <4>1, <4>2
    <3>3. ASSUME NEW i \in 1 .. Len(stored), stored[i][1] = epoch PROVE stored[i][2] < Base'
      <4>1. stored[i][2] <= last_seq /\ last_seq < next_seq /\ stored[i][2] \in Int
        BY <1>3, <1>5, <3>3 DEF UpTo
      <4>. QED  BY <1>0, <1>4, <3>2, <4>1
    <3>4. epoch = 0 => last_seq < Base'
      BY <1>5, <3>2 DEF Covered
    <3>. QED  BY <1>4, <3>1, <3>3, <3>4
  <2>8. ASSUME NEW j \in 1 .. Len(replies') PROVE Behind(replies'[j], stored, epoch, last_seq, Base')
    <3>1. CASE j = Len(replies) + 1
      <4>1. replies'[j] = b
        BY <1>0, <2>2, <3>1
      <4>. QED  BY <2>7, <4>1
    <3>2. CASE j # Len(replies) + 1
      <4>1. j \in 1 .. Len(replies) /\ replies'[j] = replies[j] /\ replies[j] \in Blocks
        BY <1>0, <2>2, <3>2
      <4>. QED  BY <1>5, <1>6, <2>1, <4>1
    <3>. QED  BY <3>1, <3>2
  <2>. QED  BY <1>5, <2>1, <2>3, <2>5, <2>6, <2>8 DEF LogInv
<1>11. CASE Receive
  <2>. DEFINE r == Head(replies)
              q == r.recs
  <2>1. /\ Types' /\ replies # <<>> /\ r \in Blocks /\ Whole(r, epoch, next_seq)
        /\ log' = log /\ next_seq' = next_seq /\ dropped' = dropped /\ epoch' = epoch
        /\ stored' = stored \o Lines(r)
        /\ q = <<>> => ack_seq' = ack_seq /\ last_seq' = last_seq /\ missing' = missing
        /\ q # <<>> =>
             /\ ack_seq' = q[Len(q)] /\ last_seq' = q[Len(q)]
             /\ missing' = missing + IF last_seq = 0 THEN 0 ELSE q[1] - last_seq - 1
        /\ ~waiting'
    BY <1>11, ReceiveStep, Zenon
  <2>2. /\ Len(stored') = Len(stored) + Len(q) /\ stored' \in Seq(Disk)
        /\ \A i \in 1 .. Len(stored) : stored'[i] = stored[i]
        /\ \A i \in 1 .. Len(q) : stored'[Len(stored) + i] = <<epoch, q[i]>>
    BY <1>0, <2>1, OnDisk DEF Whole
  <2>3. /\ q \in Seq(1 .. MaxSeq) /\ \A i \in 1 .. Len(q) : q[i] = q[1] + i - 1 /\ q[i] < next_seq
    BY <2>1 DEF Whole, Blocks
  <2>4. Behind(r, stored, epoch, last_seq, Base)
    <3>1. 1 \in 1 .. Len(replies) /\ r = replies[1]
      BY <1>0, <2>1
    <3>. QED  BY <1>5, <3>1
  <2>5. q # <<>> =>
          /\ \A i \in 1 .. Len(stored) : stored[i][1] = epoch => stored[i][2] < q[1]
          /\ q[1] <= Base /\ (epoch = 0 => last_seq < q[1])
    BY <2>4 DEF Behind
  <2>6. Len(requests') = 0 /\ Len(replies') = 0
    <3>1. /\ Len(requests') + Len(replies') <= IF waiting' THEN 1 ELSE 0
          /\ Len(requests') \in Nat /\ Len(replies') \in Nat
      BY <1>2, <2>1 DEF IInv, Flow, Types
    <3>. QED  BY <2>1, <3>1
  <2>. HIDE DEF q, r
  <2>7. Base' = Base
    BY <2>1 DEF Base
  <2>8. CASE q = <<>>
    <3>1. Len(q) = 0 /\ Len(stored') = Len(stored)
      BY <1>0, <2>2, <2>8
    <3>2. Paired' /\ Covered'
      BY <1>5, <2>1, <2>6, <2>7, <2>8 DEF Paired, Covered
    <3>3. UpTo(stored', epoch, last_seq, next_seq)
      BY <1>5, <2>2, <3>1 DEF UpTo
    <3>4. StoredOnceInOrder'
      BY <1>5, <2>2, <3>1 DEF StoredOnceInOrder
    <3>. QED  BY <2>1, <2>6, <2>8, <3>2, <3>3, <3>4 DEF LogInv
  <2>9. CASE q # <<>>
    <3>1. /\ Len(q) \in Nat /\ Len(q) > 0 /\ q[1] \in Nat /\ q[1] > 0
          /\ q[Len(q)] = q[1] + Len(q) - 1 /\ q[Len(q)] < next_seq
      BY <1>0, <2>3, <2>9, BlockNumbers, Zenon
    <3>2. Paired'
      BY <2>1, <2>6, <2>9, <3>1 DEF Paired
    <3>3. /\ UpTo(stored', epoch, q[Len(q)], next_seq)
          /\ \A i, j \in 1 .. Len(stored') :
               i < j /\ stored'[i][1] = stored'[j][1] => stored'[i][2] < stored'[j][2]
      <4>1. /\ \A i \in 1 .. Len(stored) : stored[i][1] <= epoch
            /\ \A i \in 1 .. Len(stored) : stored[i][1] = epoch => stored[i][2] < q[1]
            /\ \A i, j \in 1 .. Len(stored) :
                 i < j /\ stored[i][1] = stored[j][1] => stored[i][2] < stored[j][2]
        BY <1>5, <2>5, <2>9 DEF UpTo, StoredOnceInOrder
      <4>. DEFINE now == stored'
      <4>2. /\ Len(now) = Len(stored) + Len(q) /\ now \in Seq(Disk)
            /\ \A i \in 1 .. Len(stored) : now[i] = stored[i]
            /\ \A i \in 1 .. Len(q) : now[Len(stored) + i] = <<epoch, q[i]>>
        BY <2>2
      <4>. HIDE DEF now
      <4>3. /\ UpTo(now, epoch, q[Len(q)], next_seq)
            /\ \A i, j \in 1 .. Len(now) : i < j /\ now[i][1] = now[j][1] => now[i][2] < now[j][2]
        BY <1>0, <2>3, <2>9, <4>1, <4>2, DiskGrows, Zenon
      <4>. QED  BY <4>3 DEF now
    <3>4. Covered'
      <4>. SUFFICES ASSUME epoch = 0
                    PROVE  /\ last_seq' < next_seq /\ missing' <= dropped
                           /\ missing' + (Base - 1 - last_seq') <= dropped
        BY <2>1, <2>7 DEF Covered
      <4>. DEFINE l == q[Len(q)]
                  f == q[1]
      <4>1. /\ last_seq' = l /\ missing' = missing + IF last_seq = 0 THEN 0 ELSE f - last_seq - 1
            /\ l \in Nat /\ f \in Nat /\ f <= l /\ f <= Base /\ last_seq < f /\ l < next_seq
        BY <2>1, <2>5, <2>9, <3>1
      <4>2. missing <= dropped /\ missing + (Base - 1 - last_seq) <= dropped
        BY <1>5 DEF Covered
      <4>. DEFINE m == missing'
      <4>. HIDE DEF l, f
      <4>3. m = IF last_seq = 0 THEN missing ELSE missing + (f - last_seq - 1)
        BY <1>0, <4>1
      <4>. HIDE DEF m
      <4>4. m <= dropped /\ m + (Base - 1 - l) <= dropped
        BY ONLY <1>0, <1>1, <4>1, <4>2, <4>3
      <4>. QED  BY <4>1, <4>4 DEF m
    <3>5. StoredOnceInOrder'
      BY <3>3 DEF StoredOnceInOrder
    <3>6. epoch' = epoch /\ next_seq' = next_seq /\ last_seq' = q[Len(q)]
      BY <2>1, <2>9
    <3>7. UpTo(stored', epoch', last_seq', next_seq')
      BY <3>3, <3>6
    <3>8. \A j \in 1 .. Len(replies') : Behind(replies'[j], stored', epoch', last_seq', Base')
      BY <2>6
    <3>. QED  BY <3>2, <3>4, <3>5, <3>7, <3>8 DEF LogInv
  <2>. QED  BY <2>8, <2>9
<1>. QED
  BY <1>7, <1>8, <1>9, <1>10, <1>11 DEF DrainNext


LEMMA LogInductive == ~LateReplies /\ IInv /\ LogInv /\ [DrainNext]_drainVars => LogInv'
<1>1. ASSUME LogInv, UNCHANGED drainVars PROVE LogInv'
  BY <1>1 DEF drainVars, logVars, linkVars, hostVars, LogInv, Paired, Covered, StoredOnceInOrder, Base
<1>. QED  BY <1>1, LogSteps

LEMMA LogStart == DrainInit => LogInv
<1>. SUFFICES ASSUME DrainInit PROVE LogInv
  OBVIOUS
<1>1. /\ log = <<>> /\ next_seq = 1 /\ dropped = 0 /\ requests = <<>> /\ replies = <<>>
      /\ ack_seq = NoAck /\ stored = <<>> /\ last_seq = 0 /\ missing = 0
  BY DEF DrainInit, Init
<1>2. Base = 1 /\ Len(requests) = 0 /\ Len(replies) = 0 /\ Len(stored) = 0
  BY <1>1 DEF Base
<1>3. Paired /\ Covered /\ StoredOnceInOrder
  BY <1>1, <1>2 DEF Paired, Covered, StoredOnceInOrder
<1>. QED  BY <1>2, <1>3 DEF LogInv, UpTo

LEMMA DrainTyped == IInv => DrainTypeOK
<1>. SUFFICES ASSUME IInv PROVE DrainTypeOK
  OBVIOUS
<1>1. Types /\ Numbered /\ Flow /\ log \in Seq(Nat)
  BY DEF IInv, Types
<1>2. /\ Elems(log) = Base .. next_seq - 1 /\ Base \in Nat /\ Base > 0 /\ Base <= next_seq
      /\ next_seq \in Nat /\ next_seq <= MaxSeq + 1 /\ MaxSeq \in Nat
  BY <1>1, InLog, Constants DEF Types
<1>3. log \in Seq(1 .. MaxSeq)
  <2>1. \A i \in 1 .. Len(log) : log[i] \in 1 .. MaxSeq
    <3>. TAKE i \in 1 .. Len(log)
    <3>1. log[i] \in Elems(log)
      BY DEF Elems
    <3>. QED  BY <1>2, <3>1
  <2>2. Len(log) \in Nat /\ log = [i \in 1 .. Len(log) |-> log[i]]
    BY <1>1
  <2>3. [i \in 1 .. Len(log) |-> log[i]] \in Seq(1 .. MaxSeq)
    BY <2>1, <2>2
  <2>. QED  BY <2>2, <2>3, Zenon
<1>4. dropped \in 0 .. MaxSeq
  BY <1>1, <1>2 DEF Types, Numbered
<1>. QED  BY <1>1, <1>3, <1>4 DEF DrainTypeOK, Types, Flow, Acks, Disk

\* The host's log is exact on a link that loses requests and replies but
\* delivers none late, for every capacity, block size and number of power
\* cycles: no record twice, each incarnation in order, and before the first
\* power cycle no gap beyond what dropped admits to.
THEOREM HostLogIsExact == ASSUME ~LateReplies PROVE DrainSpec => []HostLogExact
<1>1. DrainSpec => []LogInv
  BY LogStart, LogInductive, Invariance, PTL DEF DrainSpec
<1>2. IInv /\ LogInv => HostLogExact
  BY DrainTyped DEF HostLogExact, LogInv, Covered, GapsExplained
<1>. QED  BY <1>1, <1>2, Invariance, PTL
==============================================================================
