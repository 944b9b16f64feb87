------------------------- MODULE TelemetryRingProofs -------------------------
(***************************************************************************)
(* Theorems about TelemetryRing, for every ring size, record length and    *)
(* bound, from three invariants, each inductive with those before it: IInv *)
(* (types, room, heap), ChainInv (the chain of records is whole) and       *)
(* LogInv (what the records on it are).  From the last the ring implements *)
(* TelemetryLog, and its replies are exact.                                *)
(***************************************************************************)
EXTENDS TelemetryRing, TLAPS, NaturalsInduction, WellFoundedInduction, SequenceTheorems

(***************************************************************************)
(* Facts about the operators.                                              *)
(***************************************************************************)

\* The ring has room for offset 0, and the largest record fits twice.
LEMMA RingFacts ==
  /\ kDataSize \in Nat /\ kDataSize > 3 /\ 0 \in Offsets
  /\ RecordLens \subseteq Nat
  /\ \A l \in RecordLens : l > 2 /\ 2 * l <= kDataSize
  /\ kStateRecordLen \in RecordLens /\ kFrameRecordLen \in RecordLens
  /\ SeqMod \in Nat /\ SeqMod > 3
<1>1. RecordLens \subseteq Nat
  BY RingAssumption DEF RecordLens, CmdLens
<1>2. \A l \in RecordLens : l > 2
  BY RingAssumption DEF RecordLens, CmdLens
<1>3. kStateRecordLen \in RecordLens /\ kFrameRecordLen \in RecordLens
  BY DEF RecordLens
<1>. QED BY <1>1, <1>2, <1>3, RingAssumption DEF Offsets

\* A record a producer builds is a sequence of naturals of its own length.
LEMMA BuiltType ==
  ASSUME NEW type \in Nat, NEW len \in RecordLens, NEW payload \in Nat,
         type = REC_CMD => len \in CmdLens
  PROVE  Built(type, len, payload) \in Seq(Nat) /\ Len(Built(type, len, payload)) = len
<1> DEFINE f == Built(type, len, payload)
<1>1. len \in Nat
  BY RingFacts
<1>2. type = REC_CMD => len - (kRecordHeaderLen + 1) \in Nat
  BY <1>1, RingAssumption DEF CmdLens
<1>3. f \in [1 .. len -> Nat]
  BY <1>1, <1>2 DEF Built
<1>4. f \in Seq(Nat)
  BY <1>1, <1>3
<1>5. Len(f) = len
  BY <1>1, <1>3
<1>. QED BY <1>4, <1>5

LEMMA StateRecordType ==
  ASSUME NEW arg \in Nat
  PROVE  buildState(arg) \in Seq(Nat) /\ Len(buildState(arg)) = kStateRecordLen
         /\ Len(buildState(arg)) \in RecordLens
<1>1. REC_STATE \in Nat /\ REC_STATE # REC_CMD
  BY DEF REC_STATE, REC_CMD
<1>. QED BY <1>1, BuiltType, RingFacts DEF buildState

LEMMA ProducerRecordType ==
  ASSUME NEW rec \in ProducerRecords \cup {SynthRecord}
  PROVE  rec \in Seq(Nat) /\ Len(rec) \in RecordLens
<1>1. \A len \in CmdLens : len \in RecordLens
  BY DEF RecordLens
<1>2. \A len \in CmdLens : Built(REC_CMD, len, 0) \in Seq(Nat)
                           /\ Len(Built(REC_CMD, len, 0)) = len
  BY <1>1, BuiltType DEF REC_CMD
<1>3. Built(REC_FRAME, kFrameRecordLen, 0) \in Seq(Nat)
      /\ Len(Built(REC_FRAME, kFrameRecordLen, 0)) \in RecordLens
  <2>1. REC_FRAME \in Nat /\ REC_FRAME # REC_CMD
    BY DEF REC_FRAME, REC_CMD
  <2>. QED BY <2>1, BuiltType, RingFacts
<1>4. kCmdRecordLenMax \in CmdLens
  BY RingAssumption DEF CmdLens
<1>. QED BY <1>1, <1>2, <1>3, <1>4, StateRecordType DEF ProducerRecords, SynthRecord

\* A cursor advanced over a record that ends inside the ring stays inside.
LEMMA WrapType ==
  ASSUME NEW end \in 0 .. kDataSize
  PROVE  Wrap(end) \in Offsets
BY RingFacts DEF Wrap, Offsets

LEMMA StoreType ==
  ASSUME NEW d \in [Offsets -> Nat], NEW S, NEW bytes \in [S -> Nat]
  PROVE  Store(d, bytes) \in [Offsets -> Nat]
BY DEF Store

\* A well-formed record ends inside the ring.
LEMMA WellFormedStep ==
  ASSUME NEW d \in [Offsets -> Nat], NEW off \in Offsets, NEW w \in Offsets,
         wellFormedAt(d, off, w)
  PROVE  Wrap(off + d[off]) \in Offsets
<1>1. off + d[off] \in 0 .. kDataSize
  BY RingFacts DEF wellFormedAt, Offsets
<1>. QED BY <1>1, WrapType

LEMMA IdleType == Idle \in Locals
BY RingFacts DEF Idle, Locals

LEMMA HeaderTypes == FreshHeader \in Header /\ BadHeader \in Header
<1>1. 1 \in 0 .. SeqMod - 1
  BY RingFacts
<1>2. FreshHeader \in Header
  BY <1>1, RingFacts DEF FreshHeader, Header
<1>. QED BY <1>2 DEF BadHeader, Header

\* Where the record under way is written, and that it ends inside the ring.
LEMMA WriteFacts ==
  ASSUME TypeOK, RecordInv, pc \in Appending
  PROVE  /\ Len(op.rec) \in Nat /\ Len(op.rec) > 2
         /\ WriteAt \in Offsets /\ WriteAt + Len(op.rec) \in 0 .. kDataSize
         /\ StampSeq \in 0 .. SeqMod - 1
         /\ need \in Nat /\ need < kDataSize
         /\ hdr.write_off \in Offsets /\ hdr.read_off \in Offsets
<1>1. hdr.write_off \in Offsets /\ hdr.read_off \in Offsets /\ hdr.next_seq \in 0 .. SeqMod - 1
  BY DEF TypeOK, Header
<1>2. Len(op.rec) \in RecordLens
  BY DEF RecordInv
<1>3. Len(op.rec) \in Nat /\ Len(op.rec) > 2 /\ 2 * Len(op.rec) <= kDataSize
  BY <1>2, RingFacts
<1>4. WriteAt \in Offsets /\ WriteAt + Len(op.rec) \in 0 .. kDataSize
  <2>0. kDataSize \in Nat /\ kDataSize > 0
    BY RingFacts
  <2>1. CASE Pads
    <3>1. WriteAt = 0
      BY <2>1 DEF WriteAt
    <3>. QED BY <3>1, <2>0, <1>3 DEF Offsets
  <2>2. CASE ~Pads
    <3>1. WriteAt = hdr.write_off
      BY <2>2 DEF WriteAt
    <3>2. ~(kDataSize - hdr.write_off < Len(op.rec))
      BY <2>2 DEF Pads, tail, RecLen
    <3>3. hdr.write_off \in 0 .. kDataSize - 1
      BY <1>1 DEF Offsets
    <3>. QED BY <3>1, <3>2, <3>3, <2>0, <1>3 DEF Offsets
  <2>. QED BY <2>1, <2>2
<1>5. need \in Nat /\ need < kDataSize
  <2>1. tail \in Nat
    BY <1>1, RingFacts DEF tail, Offsets
  <2>2. CASE Pads
    BY <2>1, <2>2, <1>3, RingFacts DEF need, Pads, RecLen
  <2>3. CASE ~Pads
    BY <2>1, <2>3, <1>3, RingFacts DEF need, Pads, RecLen
  <2>. QED BY <2>2, <2>3
<1>6. StampSeq \in 0 .. SeqMod - 1
  BY <1>1, RingFacts DEF StampSeq
<1>. QED BY <1>1, <1>3, <1>4, <1>5, <1>6

\* The bytes an append writes are naturals.
LEMMA ByteTypes ==
  ASSUME TypeOK, RecordInv, pc \in Appending
  PROVE  /\ PadBytes \in [DOMAIN PadBytes -> Nat]
         /\ RecBytes \in [DOMAIN RecBytes -> Nat]
<1>1. PadBytes \in [DOMAIN PadBytes -> Nat]
  BY WriteFacts, RingFacts DEF PadBytes, tail, Offsets, REC_PAD
<1>2. \A i \in 1 .. Len(op.rec) : op.rec[i] \in Nat
  BY DEF TypeOK, Locals
<1>3. RecBytes \in [DOMAIN RecBytes -> Nat]
  <2>1. ASSUME NEW o \in WriteAt .. WriteAt + Len(op.rec) - 1
        PROVE  (IF o = WriteAt + 2 THEN StampSeq ELSE op.rec[o - WriteAt + 1]) \in Nat
    <3>1. o - WriteAt + 1 \in 1 .. Len(op.rec)
      BY <2>1, WriteFacts, SMTT(30) DEF Offsets
    <3>2. StampSeq \in Nat
      BY WriteFacts, RingFacts
    <3>. QED BY <3>1, <3>2, <1>2
  <2>. QED BY <2>1 DEF RecBytes, RecLen
<1>. QED BY <1>1, <1>3

------------------------------------------------------------------------------
(***************************************************************************)
(* IInv is inductive.                                                      *)
(***************************************************************************)
LEMMA InitInv == Init => IInv
<1> SUFFICES ASSUME Init PROVE IInv
  OBVIOUS
<1>1. TypeOK
  <2>1. data \in [Offsets -> Nat]
    BY DEF Init
  <2>2. resets \in 0 .. MaxResets
    BY RingAssumption DEF Init
  <2>. QED BY <2>1, <2>2, IdleType, HeaderTypes DEF Init, TypeOK, HeapLevels, PcValues
<1>2. RecordInv /\ RoomInv /\ HeapInv
  BY DEF Init, RecordInv, RoomInv, HeapInv, Appending
<1>3. DropInv
  BY DEF Init, DropInv, BadHeader, FreshHeader
<1>. QED BY <1>1, <1>2, <1>3 DEF IInv

\* The call of append, or of the heap guard, keeps the invariant.
LEMMA TripCallInv ==
  ASSUME IInv, NEW ret \in {"idle", "bootrec", "cfgoff"}, brk # "clear",
         TripCall(ret), ret = "idle",
         UNCHANGED <<brk, volatile, resets>>
  PROVE  IInv'
<1> USE DEF volatile
<1>1. buildState(0) \in Seq(Nat) /\ Len(buildState(0)) \in RecordLens
  BY StateRecordType
<1>2. op' \in Locals
  <2>1. [Idle EXCEPT !.rec = buildState(0), !.ctx = "trip", !.ret = ret] \in Locals
    BY <1>1, IdleType DEF Locals
  <2>2. [Idle EXCEPT !.ret = ret] \in Locals
    BY IdleType DEF Locals
  <2>. QED BY <2>1, <2>2, Zenon DEF TripCall
<1>3. TypeOK'
  BY <1>2 DEF TripCall, IInv, TypeOK, PcValues
<1>4. RecordInv' /\ RoomInv' /\ DropInv'
  BY <1>1 DEF TripCall, IInv, RecordInv, RoomInv, DropInv, Appending, Idle
<1>5. HeapInv'
  BY DEF TripCall, IInv, HeapInv, TypeOK, HeapLevels, Appending, Idle
<1>. QED BY <1>3, <1>4, <1>5 DEF IInv

LEMMA AppendCallInv ==
  ASSUME IInv, NEW ret \in {"idle", "bootrec", "cfgoff"}, NEW todo \in Nat,
         NEW rec \in Seq(Nat), Len(rec) \in RecordLens,
         AppendCall(rec, ret, todo), brk # "clear" => ret = "idle",
         UNCHANGED <<brk, volatile, resets>>
  PROVE  IInv'
<1>1. CASE heapTooClose /\ TripCall(ret)
  BY <1>1, TripCallInv DEF heapTooClose
<1>2. CASE ~heapTooClose
  <2> USE DEF volatile
  <2>1. /\ pc' = "room" /\ UNCHANGED <<hdr, nv, data>>
        /\ op' = [Idle EXCEPT !.rec = rec, !.ret = ret, !.todo = todo]
    BY <1>2 DEF AppendCall
  <2>2. op' \in Locals /\ op'.rec = rec
    BY <2>1, IdleType DEF Locals, Idle
  <2>3. TypeOK'
    BY <2>1, <2>2 DEF IInv, TypeOK, PcValues
  <2>4. RecordInv' /\ RoomInv' /\ DropInv'
    BY <2>1, <2>2 DEF IInv, RecordInv, RoomInv, DropInv, Appending
  <2>5. HeapInv'
    BY <1>2, <2>1 DEF heapTooClose, HeapInv
  <2>. QED BY <2>3, <2>4, <2>5 DEF IInv
<1>. QED BY <1>1, <1>2 DEF AppendCall

\* appendRaw: evict, pad, write, publish.
LEMMA AppendRawInv == IInv /\ appendRaw => IInv'
<1> SUFFICES ASSUME IInv, appendRaw PROVE IInv'
  OBVIOUS
<1> USE DEF volatile
<1>t. TypeOK /\ RecordInv /\ RoomInv /\ DropInv /\ HeapInv
  BY DEF IInv
<1>h. hdr \in Header /\ nv \in Header /\ data \in [Offsets -> Nat] /\ op \in Locals
  BY <1>t DEF TypeOK
<1>1. CASE MakeRoomEvict
  <2> DEFINE r == hdr.read_off
  <2>1. r \in Offsets /\ r + data[r] \in 0 .. kDataSize
    <3>1. r \in Offsets /\ data[r] \in Nat
      BY <1>h DEF Header
    <3>2. r + data[r] <= kDataSize
      BY <1>1, <3>1, RingFacts DEF MakeRoomEvict, ChainBroken, Offsets
    <3>. QED BY <3>1, <3>2, RingFacts DEF Offsets
  <2>2. hdr' = [hdr EXCEPT !.read_off = Wrap(r + data[r])]
    BY <1>1 DEF MakeRoomEvict
  <2>3. hdr' \in Header /\ hdr'.dropped = hdr.dropped
    BY <2>1, <2>2, <1>h, WrapType DEF Header
  <2>4. op' \in Locals /\ op'.rec = op.rec /\ op'.ctx = op.ctx /\ op'.ret = op.ret
    <3> DEFINE e == IF isPadAt(data, hdr.read_off) THEN op.evicted ELSE op.evicted + 1
    <3>1. e \in Nat
      BY <1>h DEF Locals
    <3>2. op' = [op EXCEPT !.evicted = e]
      BY <1>1 DEF MakeRoomEvict
    <3> HIDE DEF e
    <3>. QED BY <3>1, <3>2, <1>h DEF Locals
  <2>5. TypeOK'
    BY <1>1, <1>t, <2>3, <2>4 DEF MakeRoomEvict, TypeOK
  <2>6. RecordInv' /\ RoomInv' /\ DropInv' /\ HeapInv'
    BY <1>1, <1>t, <2>3, <2>4
       DEF MakeRoomEvict, RecordInv, RoomInv, DropInv, HeapInv, Appending
  <2>. QED BY <2>5, <2>6 DEF IInv
<1>2. CASE MakeRoomDone
  <2> DEFINE h == IF MustEvict THEN [hdr EXCEPT !.read_off = hdr.write_off] ELSE hdr
             g == [h EXCEPT !.dropped = @ + op.evicted]
  <2>1. h \in Header /\ h.dropped = hdr.dropped /\ h.write_off = hdr.write_off
    BY <1>h DEF Header
  <2>2. /\ g \in Header /\ g.dropped >= hdr.dropped
        /\ g.write_off = hdr.write_off /\ g.read_off = h.read_off
    <3>1. op.evicted \in Nat /\ hdr.dropped \in Nat
      BY <1>h DEF Locals, Header
    <3> HIDE DEF h
    <3>. QED BY <2>1, <3>1 DEF Header
  <2>3. \/ hdr' = g /\ nv' = g
        \/ hdr' = h /\ nv' = nv
    BY <1>2 DEF MakeRoomDone, sealHeader
  <2>4. /\ hdr' \in Header /\ nv' \in Header /\ hdr'.dropped >= hdr.dropped
        /\ hdr'.write_off = hdr.write_off /\ hdr'.read_off = h.read_off
    BY <2>1, <2>2, <2>3, <1>h DEF Header
  <2>5. pc = "room" /\ pc' \in {"pad", "rec"} /\ UNCHANGED <<data, brk, volatile, resets, op>>
    BY <1>2 DEF MakeRoomDone
  <2>6. TypeOK'
    BY <2>4, <2>5, <1>t DEF TypeOK, PcValues
  <2>7. RecordInv' /\ HeapInv'
    BY <2>5, <1>t DEF RecordInv, HeapInv, Appending
  <2>8. DropInv'
    BY <2>4, <2>5, <1>t DEF DropInv, TypeOK, Header
  <2>9. need' = need
    BY <2>4, <2>5 DEF need, Pads, tail, RecLen
  <2>10. freeBytes(hdr') >= need
    <3>1. need \in Nat /\ need < kDataSize /\ hdr.write_off \in Offsets /\ hdr.read_off \in Offsets
      BY <2>5, <1>t, WriteFacts DEF Appending
    <3>2. CASE MustEvict
      <4>1. hdr'.read_off = hdr.write_off
        BY <3>2, <2>4, <1>h DEF Header
      <4>. QED BY <4>1, <3>1, <2>4, RingFacts DEF freeBytes, usedBytes, Offsets
    <3>3. CASE ~MustEvict /\ hdr.read_off = hdr.write_off
      BY <3>1, <3>3, <2>4, RingFacts DEF freeBytes, usedBytes, Offsets
    <3>4. CASE ~MustEvict /\ hdr.read_off # hdr.write_off
      BY <3>1, <3>4, <2>4, RingFacts DEF MustEvict, freeBytes, usedBytes, Offsets
    <3>. QED BY <3>2, <3>3, <3>4
  <2>11. RoomInv'
    BY <2>9, <2>10 DEF RoomInv
  <2>. QED BY <2>6, <2>7, <2>8, <2>11 DEF IInv
<1>3. CASE WritePad
  <2>1. Store(data, PadBytes) \in [Offsets -> Nat]
    BY <1>3, <1>t, <1>h, ByteTypes, StoreType DEF WritePad, Appending
  <2>2. TypeOK'
    BY <2>1, <1>3, <1>t DEF WritePad, TypeOK, PcValues
  <2>3. RecordInv' /\ DropInv' /\ HeapInv'
    BY <1>3, <1>t DEF WritePad, RecordInv, DropInv, HeapInv, Appending
  <2>4. RoomInv'
    BY <1>3, <1>t DEF WritePad, RoomInv, freeBytes, usedBytes, need, Pads, tail, RecLen
  <2>. QED BY <2>2, <2>3, <2>4 DEF IInv
<1>4. CASE WriteRecord
  <2>1. Store(data, RecBytes) \in [Offsets -> Nat]
    BY <1>4, <1>t, <1>h, ByteTypes, StoreType DEF WriteRecord, Appending
  <2>2. TypeOK'
    BY <2>1, <1>4, <1>t DEF WriteRecord, TypeOK, PcValues
  <2>3. RecordInv' /\ RoomInv' /\ DropInv' /\ HeapInv'
    BY <1>4, <1>t DEF WriteRecord, RecordInv, RoomInv, DropInv, HeapInv, Appending
  <2>. QED BY <2>2, <2>3 DEF IInv
<1>5. CASE Publish
  <2> DEFINE g == [hdr EXCEPT !.write_off = Wrap(WriteAt + RecLen),
                             !.next_seq = (StampSeq + 1) % SeqMod]
  <2>1. Wrap(WriteAt + RecLen) \in Offsets /\ (StampSeq + 1) % SeqMod \in 0 .. SeqMod - 1
    <3>1. Wrap(WriteAt + RecLen) \in Offsets
      BY <1>5, <1>t, WriteFacts, WrapType DEF Publish, Appending, RecLen
    <3>2. StampSeq \in Nat
      BY <1>5, <1>t, WriteFacts, RingFacts DEF Publish, Appending
    <3>. QED BY <3>1, <3>2, RingFacts
  <2>2. g \in Header /\ g.dropped = hdr.dropped
    BY <2>1, <1>h DEF Header
  <2>3. hdr' = g /\ nv' = g
    BY <1>5 DEF Publish, sealHeader
  <2>4. op' \in Locals
    BY <1>5, <1>h, IdleType, ZenonT(60) DEF Publish, Return, Locals, Idle
  <2>5. pc' \in {"trip", "marked", "episode", "idle", "bootrec", "cfgoff"}
    BY <1>5, <1>h DEF Publish, Return, Locals
  <2>6. TypeOK'
    BY <2>2, <2>3, <2>4, <2>5, <1>5, <1>t DEF Publish, TypeOK, PcValues
  <2>7. RecordInv' /\ RoomInv'
    BY <2>5 DEF RecordInv, RoomInv, Appending
  <2>8. DropInv'
    BY <2>2, <2>3, <1>5, <1>t DEF DropInv, Publish
  <2>9. HeapInv'
    <3>1. UNCHANGED brk /\ pc = "head"
      BY <1>5 DEF Publish
    <3>2. CASE brk = "clear"
      BY <3>1, <3>2 DEF HeapInv
    <3>3. CASE brk # "clear"
      <4>1. op.ctx = "trip" /\ op.ret = "idle" /\ brk = "close"
        BY <3>1, <3>3, <1>t DEF HeapInv, Appending, TypeOK, HeapLevels
      <4>2. pc' = "trip" /\ op' = op
        BY <4>1, <1>5 DEF Publish
      <4>. QED BY <4>1, <4>2, <3>1 DEF HeapInv
    <3>. QED BY <3>2, <3>3
  <2>. QED BY <2>6, <2>7, <2>8, <2>9 DEF IInv
<1>. QED BY <1>1, <1>2, <1>3, <1>4, <1>5 DEF appendRaw

\* Back to the caller, with the heap clear or the guard tripped.
LEMMA ReturnType ==
  ASSUME op \in Locals, Return
  PROVE  op' \in Locals /\ pc' \in {"idle", "bootrec", "cfgoff"} /\ pc' = op.ret
BY IdleType DEF Return, Locals, Idle

\* append after an eviction, and the end of the heap guard.
LEMMA AppendInv == IInv /\ append => IInv'
<1> SUFFICES ASSUME IInv, append PROVE IInv'
  OBVIOUS
<1> USE DEF volatile
<1>t. TypeOK /\ RecordInv /\ RoomInv /\ DropInv /\ HeapInv
  BY DEF IInv
<1>h. hdr \in Header /\ nv \in Header /\ data \in [Offsets -> Nat] /\ op \in Locals
  BY <1>t DEF TypeOK
<1>c. pc \in {"episode", "marked"} => brk = "clear"
  BY <1>t DEF HeapInv, TypeOK, HeapLevels, Appending
<1>1. CASE NewEpisode
  <2> DEFINE since == hdr.dropped - dropped_reported
             rec == buildState(since)
  <2>1. since \in Nat
    BY <1>t, <1>h DEF DropInv, TypeOK, Header
  <2>2. rec \in Seq(Nat) /\ Len(rec) \in RecordLens
    BY <2>1, StateRecordType
  <2>3. op' = [op EXCEPT !.rec = rec, !.ctx = "marker", !.since = since, !.evicted = 0]
    BY <1>1 DEF NewEpisode
  <2> HIDE DEF since, rec
  <2>4. op' \in Locals /\ op'.rec = rec
    BY <2>1, <2>2, <2>3, <1>h DEF Locals
  <2>5. TypeOK'
    BY <2>4, <1>1, <1>t DEF NewEpisode, TypeOK, PcValues
  <2>6. RecordInv' /\ RoomInv' /\ DropInv' /\ HeapInv'
    BY <2>2, <2>4, <1>1, <1>c, <1>t DEF NewEpisode, RecordInv, RoomInv, DropInv, HeapInv
  <2>. QED BY <2>5, <2>6 DEF IInv
<1>2. CASE SameEpisode
  <2>1. op' \in Locals /\ pc' \in {"idle", "bootrec", "cfgoff"}
    BY <1>2, <1>h, ReturnType DEF SameEpisode
  <2>2. TypeOK'
    BY <2>1, <1>2, <1>t DEF SameEpisode, TypeOK, PcValues
  <2>3. RecordInv' /\ RoomInv' /\ DropInv' /\ HeapInv'
    BY <2>1, <1>2, <1>c, <1>t DEF SameEpisode, RecordInv, RoomInv, DropInv, HeapInv, Appending
  <2>. QED BY <2>2, <2>3 DEF IInv
<1>3. CASE MarkerDone
  <2>1. op' \in Locals /\ pc' \in {"idle", "bootrec", "cfgoff"}
    BY <1>3, <1>h, ReturnType DEF MarkerDone
  <2>2. hdr.dropped \in Nat
    BY <1>h DEF Header
  <2>3. TypeOK'
    BY <2>1, <2>2, <1>3, <1>t DEF MarkerDone, TypeOK, PcValues
  <2>4. RecordInv' /\ RoomInv' /\ HeapInv'
    BY <2>1, <1>3, <1>c DEF MarkerDone, RecordInv, RoomInv, HeapInv, Appending
  <2>5. DropInv'
    BY <2>2, <1>3 DEF MarkerDone, DropInv
  <2>. QED BY <2>3, <2>4, <2>5 DEF IInv
<1>4. CASE TripDone
  <2>1. op' \in Locals /\ pc' \in {"idle", "bootrec", "cfgoff"} /\ pc' = op.ret
    BY <1>4, <1>h, ReturnType DEF TripDone
  <2>2. hdr' \in Header /\ nv' \in Header /\ hdr'.dropped = hdr.dropped
    BY <1>4, <1>h DEF TripDone, sealHeader, Header
  <2>3. TypeOK'
    BY <2>1, <2>2, <1>4, <1>t DEF TripDone, TypeOK, PcValues
  <2>4. RecordInv' /\ RoomInv' /\ DropInv'
    BY <2>1, <2>2, <1>4, <1>t DEF TripDone, RecordInv, RoomInv, DropInv, Appending
  <2>5. HeapInv'
    BY <2>1, <1>4, <1>t DEF TripDone, HeapInv, Appending
  <2>. QED BY <2>3, <2>4, <2>5 DEF IInv
<1>. QED BY <1>1, <1>2, <1>3, <1>4 DEF append

\* begin(): keep and repair, or initialise; then the boot records.
LEMMA BeginInv == IInv /\ begin => IInv'
<1> SUFFICES ASSUME IInv, begin PROVE IInv'
  OBVIOUS
<1> USE DEF volatile
<1>t. TypeOK /\ RecordInv /\ RoomInv /\ DropInv /\ HeapInv
  BY DEF IInv
<1>h. hdr \in Header /\ nv \in Header /\ data \in [Offsets -> Nat] /\ op \in Locals
  BY <1>t DEF TypeOK
<1>c. pc \in {"repair", "bootrec"} => brk = "clear"
  BY <1>t DEF HeapInv, TypeOK, HeapLevels, Appending
<1>r. ASSUME NEW d \in Nat, BeginRecording(d), hdr' \in Header, nv' = hdr',
             hdr'.dropped = d, brk = "clear"
      PROVE  IInv'
  <2>1. op' \in Locals
    <3>1. PICK extras \in 0 .. (IF resets = 0 THEN 0 ELSE MaxBootExtras) :
            op' = [Idle EXCEPT !.ret = "bootrec", !.todo = 1 + extras]
      BY <1>r DEF BeginRecording
    <3>2. 1 + extras \in Nat
      BY RingAssumption
    <3>. QED BY <3>1, <3>2, IdleType DEF Locals, Idle
  <2>2. TypeOK'
    BY <2>1, <1>r, <1>t DEF BeginRecording, TypeOK, PcValues
  <2>3. RecordInv' /\ RoomInv' /\ DropInv' /\ HeapInv'
    BY <1>r DEF BeginRecording, RecordInv, RoomInv, DropInv, HeapInv, Appending
  <2>. QED BY <2>2, <2>3 DEF IInv
<1>1. CASE BeginGuarded
  <2>1. TypeOK'
    BY <1>1, <1>t DEF BeginGuarded, TypeOK, PcValues
  <2>2. RecordInv' /\ RoomInv' /\ DropInv' /\ HeapInv'
    BY <1>1, <1>t DEF BeginGuarded, RecordInv, RoomInv, DropInv, HeapInv, Appending
  <2>. QED BY <2>1, <2>2 DEF IInv
<1>2. CASE initRing
  <2>1. hdr' = FreshHeader /\ nv' = FreshHeader /\ BeginRecording(0) /\ brk = "clear"
    BY <1>2 DEF initRing, sealHeader, heapTooClose
  <2>2. FreshHeader.dropped = 0
    BY DEF FreshHeader
  <2>. QED BY <2>1, <2>2, <1>r, HeaderTypes
<1>3. CASE BeginKeep
  <2>1. op' \in Locals
    BY <1>3, <1>h, IdleType DEF BeginKeep, Locals, Idle, Header
  <2>2. TypeOK'
    BY <2>1, <1>3, <1>t DEF BeginKeep, TypeOK, PcValues
  <2>3. RecordInv' /\ RoomInv' /\ DropInv' /\ HeapInv'
    BY <1>3, <1>t DEF BeginKeep, heapTooClose, RecordInv, RoomInv, DropInv, HeapInv, Appending
  <2>. QED BY <2>2, <2>3 DEF IInv
<1>4. CASE RepairStep
  <2>1. op.off \in Offsets /\ hdr.write_off \in Offsets
    BY <1>h DEF Locals, Header
  <2>2. op' \in Locals
    <3>1. Wrap(op.off + data[op.off]) \in Offsets
      BY <2>1, <1>4, <1>h, WellFormedStep DEF RepairStep
    <3>. QED BY <3>1, <1>4, <1>h DEF RepairStep, Locals
  <2>3. TypeOK'
    BY <2>2, <1>4, <1>t DEF RepairStep, TypeOK
  <2>4. RecordInv' /\ RoomInv' /\ DropInv' /\ HeapInv'
    BY <1>4, <1>c, <1>t DEF RepairStep, RecordInv, RoomInv, DropInv, HeapInv, Appending
  <2>. QED BY <2>3, <2>4 DEF IInv
<1>5. CASE RepairDone
  <2> DEFINE g == [hdr EXCEPT !.write_off = op.off, !.boot_count = @ + 1, !.on = TRUE]
  <2>1. op.off \in Offsets /\ hdr.boot_count + 1 \in Nat /\ hdr.dropped \in Nat
    BY <1>h, SMTT(60) DEF Locals, Header
  <2>2. g \in Header /\ g.dropped = hdr.dropped
    BY <2>1, <1>h DEF Header
  <2>3. hdr' = g /\ nv' = g /\ BeginRecording(hdr.dropped) /\ brk = "clear"
    BY <1>5, <1>c DEF RepairDone, sealHeader
  <2>. QED BY <2>1, <2>2, <2>3, <1>r
<1>6. CASE BootRecord
  <2>1. brk = "clear" /\ UNCHANGED <<brk, volatile, resets>>
    BY <1>6, <1>c DEF BootRecord
  <2>2. CASE enabled /\ op.todo > 0 /\ AppendCall(buildState(0), "bootrec", op.todo - 1)
    <3>1. op.todo - 1 \in Nat
      BY <2>2, <1>h DEF Locals
    <3>. QED BY <2>1, <2>2, <3>1, StateRecordType, AppendCallInv
  <2>3. CASE pc' = "idle" /\ op' = Idle /\ UNCHANGED <<hdr, nv, data>>
    <3>1. TypeOK'
      BY <2>1, <2>3, <1>t, IdleType DEF TypeOK, PcValues
    <3>2. RecordInv' /\ RoomInv' /\ DropInv' /\ HeapInv'
      BY <2>1, <2>3, <1>t DEF RecordInv, RoomInv, DropInv, HeapInv, Appending
    <3>. QED BY <3>1, <3>2 DEF IInv
  <2>. QED BY <1>6, <2>2, <2>3 DEF BootRecord
<1>. QED BY <1>1, <1>2, <1>3, <1>4, <1>5, <1>6 DEF begin

\* SET_TELEMETRY.
LEMMA ConfigureInv == IInv /\ Configure => IInv'
<1> SUFFICES ASSUME IInv, Configure PROVE IInv'
  OBVIOUS
<1> USE DEF volatile
<1>t. TypeOK /\ RecordInv /\ RoomInv /\ DropInv /\ HeapInv
  BY DEF IInv
<1>h. hdr \in Header /\ nv \in Header /\ data \in [Offsets -> Nat] /\ op \in Locals
  BY <1>t DEF TypeOK
<1>c. pc \in {"cfgon", "cfgoff"} => brk = "clear"
  BY <1>t DEF HeapInv, TypeOK, HeapLevels, Appending
<1>s. buildState(0) \in Seq(Nat) /\ Len(buildState(0)) \in RecordLens
  BY StateRecordType
<1>1. CASE ConfigureOn
  <2>1. op' \in Locals /\ op'.rec = buildState(0)
    BY <1>1, <1>s, IdleType DEF ConfigureOn, Locals, Idle
  <2>2. hdr' \in Header /\ nv' \in Header /\ hdr'.dropped = hdr.dropped
    BY <1>1, <1>h DEF ConfigureOn, sealHeader, Header
  <2>3. TypeOK'
    BY <2>1, <2>2, <1>1, <1>t DEF ConfigureOn, TypeOK, PcValues
  <2>4. RecordInv' /\ RoomInv' /\ DropInv' /\ HeapInv'
    BY <2>1, <2>2, <1>1, <1>s, <1>c, <1>t
       DEF ConfigureOn, RecordInv, RoomInv, DropInv, HeapInv
  <2>. QED BY <2>3, <2>4 DEF IInv
<1>2. CASE ConfigureOff
  <2>1. hdr' \in Header /\ nv' \in Header /\ hdr'.dropped = hdr.dropped
    BY <1>2, <1>h DEF ConfigureOff, sealHeader, Header
  <2>2. TypeOK'
    BY <2>1, <1>2, <1>t, IdleType DEF ConfigureOff, TypeOK, PcValues
  <2>3. RecordInv' /\ RoomInv' /\ DropInv' /\ HeapInv'
    BY <2>1, <1>2, <1>c, <1>t
       DEF ConfigureOff, RecordInv, RoomInv, DropInv, HeapInv, Appending
  <2>. QED BY <2>2, <2>3 DEF IInv
<1>3. ASSUME NEW on \in BOOLEAN, NEW synth \in BOOLEAN, configure(on, synth)
      PROVE  IInv'
  <2>1. CASE heapTooClose /\ TripCall("idle") /\ UNCHANGED synth_on
    BY <2>1, <1>3, TripCallInv DEF configure, heapTooClose
  <2>2. CASE ~heapTooClose /\ UNCHANGED <<hdr, nv, data>>
    <3>1. brk' = brk /\ brk = "clear" /\ pc = "idle"
      BY <2>2, <1>3 DEF configure, heapTooClose
    <3>2. \/ pc' = "room" /\ op' \in Locals /\ op'.rec = buildState(0)
          \/ pc' \in {"cfgon", "idle"} /\ op' \in Locals
      BY <2>2, <1>3, <1>h, <1>s, IdleType, <3>1, ZenonT(60) DEF configure, Locals, Idle
    <3>3. TypeOK'
      BY <2>2, <3>1, <3>2, <1>3, <1>t DEF configure, TypeOK, PcValues
    <3>4. RecordInv' /\ RoomInv' /\ DropInv' /\ HeapInv'
      BY <2>2, <3>1, <3>2, <1>3, <1>s, <1>t
         DEF configure, RecordInv, RoomInv, DropInv, HeapInv, Appending
    <3>. QED BY <3>3, <3>4 DEF IInv
  <2>. QED BY <1>3, <2>1, <2>2 DEF configure
<1>. QED BY <1>1, <1>2, <1>3 DEF Configure

\* GET_TELEMETRY_BLOCK.
LEMMA DrainInv == IInv /\ Drain => IInv'
<1> SUFFICES ASSUME IInv, Drain PROVE IInv'
  OBVIOUS
<1> USE DEF volatile
<1>t. TypeOK /\ RecordInv /\ RoomInv /\ DropInv /\ HeapInv
  BY DEF IInv
<1>h. hdr \in Header /\ nv \in Header /\ data \in [Offsets -> Nat] /\ op \in Locals
  BY <1>t DEF TypeOK
<1>o. op.off \in Offsets /\ hdr.write_off \in Offsets /\ hdr.read_off \in Offsets
  BY <1>h DEF Locals, Header
<1>c. pc \in {"ack", "peek"} => brk = "clear"
  BY <1>t DEF HeapInv, TypeOK, HeapLevels, Appending
<1>k. ASSUME op' \in Locals, UNCHANGED <<data, brk, volatile, resets>>,
             hdr' \in Header, nv' \in Header, hdr'.dropped = hdr.dropped,
             \/ pc' \in {"idle", "reply"}
             \/ pc' \in {"ack", "peek"} /\ brk = "clear"
      PROVE  IInv'
  <2>1. TypeOK'
    BY <1>k, <1>t DEF TypeOK, PcValues
  <2>2. RecordInv' /\ RoomInv' /\ DropInv' /\ HeapInv'
    BY <1>k, <1>t DEF RecordInv, RoomInv, DropInv, HeapInv, Appending
  <2>. QED BY <2>1, <2>2 DEF IInv
<1>p. ASSUME NEW off \in Offsets, PeekFrom(off)
      PROVE  op' \in Locals /\ pc' = "peek"
  BY <1>p, <1>h, IdleType DEF PeekFrom, Locals, Idle
<1>1. ASSUME NEW a \in (0 .. MaxSeq) \cup {NoAck}, handleGetTelemetryBlock(a)
      PROVE  IInv'
  <2>1. a \in Nat
    BY RingFacts, RingAssumption DEF NoAck
  <2>2. CASE heapTooClose /\ TripCall("idle")
    BY <2>2, <1>1, TripCallInv DEF handleGetTelemetryBlock, heapTooClose
  <2>3. CASE pc' = "reply" /\ op' = Idle /\ UNCHANGED <<hdr, nv, data>>
    BY <2>3, <1>1, <1>h, <1>k, IdleType DEF handleGetTelemetryBlock
  <2>4. CASE /\ ~heapTooClose /\ pc' = "ack" /\ UNCHANGED <<hdr, nv, data>>
             /\ op' = [Idle EXCEPT !.off = hdr.read_off, !.ack = a]
    <3>1. op' \in Locals
      BY <2>4, <2>1, <1>o, IdleType DEF Locals, Idle
    <3>. QED BY <3>1, <2>4, <1>1, <1>h, <1>k DEF handleGetTelemetryBlock, heapTooClose
  <2>5. CASE ~heapTooClose /\ PeekFrom(hdr.read_off) /\ UNCHANGED <<hdr, nv, data>>
    <3>1. op' \in Locals /\ pc' = "peek"
      BY <2>5, <1>o, <1>p
    <3>. QED BY <3>1, <2>5, <1>1, <1>h, <1>k DEF handleGetTelemetryBlock, heapTooClose
  <2>. QED BY <1>1, <2>2, <2>3, <2>4, <2>5 DEF handleGetTelemetryBlock
<1>2. CASE AckStep
  <2>1. Wrap(op.off + data[op.off]) \in Offsets
    BY <1>2, <1>o, <1>h, WellFormedStep DEF AckStep, AckFrees
  <2>2. op' \in Locals
    BY <2>1, <1>2, <1>h DEF AckStep, Locals
  <2>. QED BY <2>2, <1>2, <1>c, <1>h, <1>k DEF AckStep
<1>3. CASE AckDone
  <2>1. op' \in Locals /\ pc' = "peek"
    BY <1>3, <1>o, <1>p DEF AckDone
  <2>2. hdr' \in Header /\ nv' \in Header /\ hdr'.dropped = hdr.dropped
    BY <1>3, <1>h, <1>o DEF AckDone, sealHeader, Header
  <2>. QED BY <2>1, <2>2, <1>3, <1>c, <1>k DEF AckDone
<1>4. CASE PeekStep
  <2> DEFINE got == IF isPadAt(data, op.off) THEN op.got
                    ELSE Append(op.got, seqAt(data, op.off))
             used == IF isPadAt(data, op.off) THEN op.used ELSE op.used + data[op.off]
  <2>1. Wrap(op.off + data[op.off]) \in Offsets
    BY <1>4, <1>o, <1>h, WellFormedStep DEF PeekStep, PeekTakes
  <2>2. used \in Nat
    BY <1>h, <1>o DEF Locals
  <2>3. got \in Seq(Nat)
    <3>1. CASE isPadAt(data, op.off)
      BY <3>1, <1>h DEF Locals
    <3>2. CASE ~isPadAt(data, op.off)
      <4>1. op.off + 2 \in Offsets
        <5>1. data[op.off] >= kRecordHeaderLen /\ op.off + data[op.off] <= kDataSize
              /\ data[op.off] \in Nat
          BY <3>2, <1>4, <1>o, <1>h, RingAssumption DEF isPadAt, PeekStep, PeekTakes, wellFormedAt
        <5>. QED BY <5>1, <1>o, RingAssumption DEF Offsets
      <4>2. seqAt(data, op.off) \in Nat
        BY <4>1, <1>h DEF seqAt
      <4>. QED BY <3>2, <4>2, <1>h DEF Locals
    <3>. QED BY <3>1, <3>2
  <2>4. op' = [op EXCEPT !.off = Wrap(op.off + data[op.off]), !.got = got, !.used = used]
    BY <1>4 DEF PeekStep
  <2> HIDE DEF got, used
  <2>5. op' \in Locals
    BY <2>1, <2>2, <2>3, <2>4, <1>h DEF Locals
  <2>. QED BY <2>5, <1>4, <1>c, <1>h, <1>k DEF PeekStep
<1>5. CASE PeekDone
  <2>1. op' \in Locals
    BY <1>5, <1>h DEF PeekDone, Locals
  <2>. QED BY <2>1, <1>5, <1>h, <1>k DEF PeekDone
<1>6. CASE Reply
  BY <1>6, <1>h, <1>k, IdleType DEF Reply
<1>. QED BY <1>1, <1>2, <1>3, <1>4, <1>5, <1>6 DEF Drain

\* What a reset leaves in memory is still bytes, and only the bytes of the
\* write it interrupted can differ.
LEMMA DebrisFacts ==
  ASSUME TypeOK, RecordInv, NEW d \in Debris
  PROVE  /\ d \in [Offsets -> Nat]
         /\ pc = "pad" => \A o \in Offsets \ DOMAIN PadBytes : d[o] = data[o]
         /\ pc = "rec" => \A o \in Offsets \ DOMAIN RecBytes : d[o] = data[o]
         /\ pc \notin {"pad", "rec"} => d = data
<1>d. data \in [Offsets -> Nat]
  BY DEF TypeOK
<1>p. ASSUME NEW S, NEW bytes \in [S -> Nat], NEW e \in Partial(data, bytes)
      PROVE  e \in [Offsets -> Nat] /\ \A o \in Offsets \ S : e[o] = data[o]
  <2>1. PICK T \in SUBSET S : e = Store(data, [o \in T |-> bytes[o]])
    <3>1. CASE \E cut \in Offsets :
                 e = Store(data, [o \in {x \in DOMAIN bytes : x < cut} |-> bytes[o]])
      BY <3>1, <1>p
    <3>2. CASE \E cut \in Offsets :
                 e = Store(data, [o \in {x \in DOMAIN bytes : x >= cut} |-> bytes[o]])
      BY <3>2, <1>p
    <3>. QED BY <1>p, <3>1, <3>2 DEF Partial
  <2>2. [o \in T |-> bytes[o]] \in [T -> Nat]
    BY <1>p
  <2>3. e \in [Offsets -> Nat]
    BY <2>1, <2>2, <1>d, StoreType
  <2>. QED BY <2>1, <2>3 DEF Store
<1>1. CASE pc = "pad"
  <2>1. PadBytes \in [DOMAIN PadBytes -> Nat] /\ d \in Partial(data, PadBytes)
    BY <1>1, ByteTypes DEF Appending, Debris
  <2>. QED BY <2>1, <1>1, <1>p
<1>2. CASE pc = "rec"
  <2>1. RecBytes \in [DOMAIN RecBytes -> Nat] /\ d \in Partial(data, RecBytes)
    BY <1>2, ByteTypes DEF Appending, Debris
  <2>. QED BY <2>1, <1>2, <1>p
<1>3. CASE pc \notin {"pad", "rec"}
  BY <1>3, <1>d DEF Debris
<1>. QED BY <1>1, <1>2, <1>3

LEMMA ResetInv ==
  ASSUME IInv, NEW torn \in BOOLEAN, Reset(torn)
  PROVE  IInv'
<1>t. TypeOK /\ RecordInv
  BY DEF IInv
<1>1. nv' \in Header /\ hdr' = nv' /\ hdr'.dropped \in Nat
  <2>1. nv' \in Header /\ hdr' = nv'
    BY <1>t, HeaderTypes DEF Reset, TypeOK
  <2>. QED BY <2>1 DEF Header
<1>2. data' \in [Offsets -> Nat]
  BY <1>t, DebrisFacts DEF Reset
<1>3. resets' \in 0 .. MaxResets
  BY <1>t, RingAssumption DEF Reset, TypeOK
<1>4. TypeOK'
  BY <1>1, <1>2, <1>3, IdleType DEF Reset, TypeOK, PcValues
<1>5. RecordInv' /\ RoomInv' /\ DropInv' /\ HeapInv'
  BY <1>1 DEF Reset, RecordInv, RoomInv, DropInv, HeapInv, Appending
<1>. QED BY <1>4, <1>5 DEF IInv

LEMMA Inductive == IInv /\ [Next]_vars => IInv'
<1> SUFFICES ASSUME IInv, [Next]_vars PROVE IInv'
  OBVIOUS
<1> USE DEF volatile
<1>1. CASE appendRaw
  BY <1>1, AppendRawInv
<1>2. CASE append
  BY <1>2, AppendInv
<1>3. CASE begin
  BY <1>3, BeginInv
<1>4. CASE Configure
  BY <1>4, ConfigureInv
<1>5. CASE Drain
  BY <1>5, DrainInv
<1>6. CASE Produce
  <2>1. PICK rec \in ProducerRecords : AppendCall(rec, "idle", 0)
    BY <1>6 DEF Produce
  <2>2. rec \in Seq(Nat) /\ Len(rec) \in RecordLens
    BY ProducerRecordType
  <2>. QED BY <2>1, <2>2, <1>6, AppendCallInv DEF Produce
<1>7. CASE service
  <2>1. CASE heapTooClose /\ TripCall("idle")
    BY <2>1, <1>7, TripCallInv DEF service, heapTooClose
  <2>2. CASE AppendCall(SynthRecord, "idle", 0)
    <3>1. SynthRecord \in Seq(Nat) /\ Len(SynthRecord) \in RecordLens
      BY ProducerRecordType
    <3>. QED BY <2>2, <3>1, <1>7, AppendCallInv DEF service
  <2>. QED BY <2>1, <2>2, <1>7 DEF service
<1>8. CASE HeapGrows
  BY <1>8 DEF HeapGrows, IInv, TypeOK, HeapLevels, RecordInv, RoomInv, DropInv, HeapInv, Appending
<1>9. CASE \E torn \in BOOLEAN : Reset(torn)
  BY <1>9, ResetInv
<1>10. CASE UNCHANGED vars
  <2>1. TypeOK'
    BY <1>10 DEF vars, IInv, TypeOK
  <2>2. RecordInv' /\ DropInv' /\ HeapInv'
    BY <1>10 DEF vars, IInv, RecordInv, DropInv, HeapInv
  <2>3. RoomInv'
    BY <1>10 DEF vars, IInv, RoomInv, freeBytes, usedBytes, need, Pads, tail, RecLen
  <2>. QED BY <2>1, <2>2, <2>3 DEF IInv
<1>. QED BY <1>1, <1>2, <1>3, <1>4, <1>5, <1>6, <1>7, <1>8, <1>9, <1>10 DEF Next

LEMMA Invariance == Spec => []IInv
BY InitInv, Inductive, PTL DEF Spec

------------------------------------------------------------------------------
\* Every cursor of Telemetry.cpp stays inside the ring, at every step of every
\* loop, through every reset.
THEOREM TypeCorrect == Spec => []TypeOK
<1>1. IInv => TypeOK
  BY DEF IInv
<1>. QED BY <1>1, Invariance, PTL

\* The bytes of the PAD and of the record lie outside the live part.
LEMMA WriteIsFree ==
  ASSUME IInv, NEW o \in Live(hdr)
  PROVE  /\ pc = "pad" => o \notin DOMAIN PadBytes
         /\ pc = "rec" => o \notin DOMAIN RecBytes
<1> DEFINE r == hdr.read_off
           w == hdr.write_off
           len == Len(op.rec)
<1>1. SUFFICES ASSUME pc \in {"pad", "rec"}
               PROVE  o \notin DOMAIN PadBytes /\ o \notin DOMAIN RecBytes
  OBVIOUS
<1>2. /\ r \in 0 .. kDataSize - 1 /\ w \in 0 .. kDataSize - 1
      /\ len \in Nat /\ len > 2 /\ kDataSize \in Nat
  BY <1>1, WriteFacts, RingFacts DEF IInv, Appending, Offsets
<1>3. freeBytes(hdr) >= need
  BY <1>1 DEF IInv, RoomInv
<1>4. o \in 0 .. kDataSize - 1
  BY DEF Live, Offsets
<1>5. IF r <= w THEN r <= o /\ o < w ELSE r <= o \/ o < w
  BY DEF Live
<1>6. freeBytes(hdr) = kDataSize - 1 - (IF w >= r THEN w - r ELSE kDataSize - r + w)
  BY DEF freeBytes, usedBytes
<1>7. need = IF kDataSize - w < len THEN kDataSize - w + len ELSE len
  BY DEF need, Pads, tail, RecLen
<1>f. IF w >= r THEN kDataSize - 1 - (w - r) >= need ELSE r - w - 1 >= need
  BY <1>2, <1>3, <1>6
<1>8. o \notin DOMAIN PadBytes
  <2>1. DOMAIN PadBytes \subseteq {w, w + 1}
    BY DEF PadBytes
  <2>2. o # w /\ o # w + 1
    <3> HIDE DEF r, w, len
    <3>1. need > 2
      BY <1>2, <1>7
    <3>2. CASE r <= w
      BY <3>2, <1>2, <1>4, <1>5
    <3>3. CASE ~(r <= w)
      BY <3>1, <3>3, <1>2, <1>4, <1>5, <1>7, <1>f
    <3>. QED BY <3>2, <3>3
  <2>. QED BY <2>1, <2>2
<1>9. o \notin DOMAIN RecBytes
  <2>1. DOMAIN RecBytes = IF kDataSize - w < len THEN 0 .. len - 1 ELSE w .. w + len - 1
    BY <1>2 DEF RecBytes, WriteAt, Pads, tail, RecLen
  <2> HIDE DEF r, w, len
  <2>2. CASE kDataSize - w < len
    <3>1. r <= w
      BY <2>2, <1>2, <1>7, <1>f
    <3>. QED BY <3>1, <2>1, <2>2, <1>2, <1>4, <1>5, <1>7, <1>f
  <2>3. CASE ~(kDataSize - w < len)
    BY <2>1, <2>3, <1>2, <1>4, <1>5, <1>7, <1>f
  <2>. QED BY <2>2, <2>3
<1>. QED BY <1>8, <1>9

\* No append overwrites a byte between read_off and write_off, and neither does
\* a reset in the middle of one, for every ring size and record length.
THEOREM LiveBytesSafe == Spec => LiveBytesUntouched
<1>1. IInv /\ [Next]_vars => [\A o \in Live(hdr) : data'[o] = data[o]]_vars
  <2> SUFFICES ASSUME IInv, Next, NEW o \in Live(hdr)
               PROVE  data'[o] = data[o]
    OBVIOUS
  <2>1. o \in Offsets /\ data \in [Offsets -> Nat]
    BY DEF Live, IInv, TypeOK
  <2>2. CASE WritePad
    BY <2>1, <2>2, WriteIsFree DEF WritePad, Store
  <2>3. CASE WriteRecord
    BY <2>1, <2>3, WriteIsFree DEF WriteRecord, Store
  <2>4. CASE \E torn \in BOOLEAN : Reset(torn)
    <3>1. data' \in Debris
      BY <2>4 DEF Reset
    <3>2. TypeOK /\ RecordInv
      BY DEF IInv
    <3>. QED BY <3>1, <3>2, <2>1, DebrisFacts, WriteIsFree
  <2>5. CASE UNCHANGED data
    BY <2>5
  <2>6. QED
    BY <2>2, <2>3, <2>4, <2>5
       DEF Next, appendRaw, append, begin, Configure, Drain, MakeRoomEvict, MakeRoomDone,
           Publish, NewEpisode, SameEpisode, MarkerDone, TripDone, BeginGuarded, initRing,
           BeginKeep, RepairStep, RepairDone, BeginRecording, BootRecord, AppendCall,
           TripCall, ConfigureOn, ConfigureOff, configure, handleGetTelemetryBlock,
           AckStep, AckDone, PeekStep, PeekDone, Reply, Produce, service, HeapGrows
<1>. QED BY <1>1, Invariance, PTL DEF Spec, LiveBytesUntouched

\* With the heap inside the ring no step writes a record or the header.
THEOREM HeapSafe == Spec => RingLeftToHeap
<1>1. IInv /\ [Next]_vars =>
        [brk = "inside" => data' = data /\ nv' \in {nv, BadHeader}]_vars
  <2> SUFFICES ASSUME IInv, Next, brk = "inside"
               PROVE  data' = data /\ nv' \in {nv, BadHeader}
    OBVIOUS
  <2>1. pc \in {"boot", "idle", "reply", "trip"} /\ TypeOK /\ RecordInv
    BY DEF IInv, HeapInv
  <2>2. CASE \E torn \in BOOLEAN : Reset(torn)
    <3>1. data' \in Debris /\ nv' \in {nv, BadHeader}
      BY <2>2 DEF Reset
    <3>. QED BY <3>1, <2>1, DebrisFacts
  <2>3. CASE UNCHANGED <<nv, data>>
    BY <2>3
  <2>4. heapTooClose
    BY DEF heapTooClose
  <2>5. QED
    BY <2>1, <2>2, <2>3, <2>4
       DEF Next, appendRaw, append, begin, Configure, Drain, MakeRoomEvict, MakeRoomDone,
           WritePad, WriteRecord,
           Publish, NewEpisode, SameEpisode, MarkerDone, TripDone, BeginGuarded, initRing,
           BeginKeep, RepairStep, RepairDone, BootRecord, AppendCall,
           TripCall, ConfigureOn, ConfigureOff, configure, handleGetTelemetryBlock,
           AckStep, AckDone, PeekStep, PeekDone, Reply, Produce, service, HeapGrows
<1>. QED BY <1>1, Invariance, PTL DEF Spec, RingLeftToHeap

------------------------------------------------------------------------------
(***************************************************************************)
(* The chain of lengths.  A chain is the set B of the offsets at which the *)
(* records between r and w begin: each is a record or a PAD, the next one  *)
(* begins where it ends, it lies between the cursors, and none begins      *)
(* inside another.                                                         *)
(***************************************************************************)
Between(r, w) == {o \in Offsets : IF r <= w THEN r <= o /\ o < w ELSE r <= o \/ o < w}

Span(d, b) == b .. b + d[b] - 1

\* wellFormedAt without its last condition, that the record ends before w.
Typed(d, b) ==
  /\ d[b] # 0 /\ b + d[b] <= kDataSize
  /\ IF d[b] < kRecordHeaderLen
     THEN d[b] > 1 => d[b + 1] = REC_PAD
     ELSE \/ d[b + 1] = REC_PAD
          \/ /\ d[b + 1] = REC_CMD
             /\ d[b] \in CmdLens
             /\ d[b + kRecordHeaderLen] = d[b] - (kRecordHeaderLen + 1)
          \/ d[b + 1] = REC_FRAME /\ d[b] = kFrameRecordLen
          \/ d[b + 1] = REC_STATE /\ d[b] = kStateRecordLen

Link(B, d, r, w, b) ==
  /\ Typed(d, b) /\ Wrap(b + d[b]) \in B
  /\ Span(d, b) \subseteq Between(r, w)
  /\ \A c \in B \ {b} : c \notin Span(d, b)

Chain(B, d, r, w) ==
  /\ B \in SUBSET Offsets /\ r \in B /\ w \in B
  /\ \A b \in B \ {w} : Link(B, d, r, w, b)

Ring == [Offsets -> Nat]

LEMMA OffsetIs == Offsets \subseteq Nat /\ \A o \in Nat : o \in Offsets <=> o < kDataSize
BY RingFacts DEF Offsets

LEMMA WellFormedIs ==
  ASSUME NEW d, NEW b, NEW w
  PROVE  wellFormedAt(d, b, w) <=> Typed(d, b) /\ ~(b < w /\ b + d[b] > w)
BY DEF wellFormedAt, Typed

LEMMA SpanIs ==
  ASSUME NEW d \in Ring, NEW b \in Offsets, Typed(d, b)
  PROVE  /\ d[b] \in Nat \ {0} /\ b + d[b] <= kDataSize /\ b \in Span(d, b)
         /\ \A o \in Nat : o \in Span(d, b) <=> b <= o /\ o < b + d[b]
         /\ Span(d, b) \subseteq Offsets
<1>1. d[b] \in Nat /\ d[b] # 0 /\ b \in Nat /\ b + d[b] <= kDataSize
  BY OffsetIs DEF Typed, Ring
<1>. QED
  BY <1>1, OffsetIs, RingFacts DEF Span, Offsets

\* A record of a chain is well formed with respect to the end of the chain.
LEMMA ChainWellFormed ==
  ASSUME NEW d \in Ring, NEW r, NEW w, NEW B, Chain(B, d, r, w), NEW b \in B, b # w
  PROVE  wellFormedAt(d, b, w) /\ b \in Between(r, w) /\ Wrap(b + d[b]) \in B
<1>1. Link(B, d, r, w, b) /\ b \in Offsets /\ w \in Offsets /\ w \in B \ {b}
  BY DEF Chain
<1>2. Typed(d, b) /\ w \notin Span(d, b) /\ Wrap(b + d[b]) \in B /\ Span(d, b) \subseteq Between(r, w)
  BY <1>1 DEF Link
<1>3. /\ d[b] \in Nat /\ b \in Span(d, b) /\ b \in Nat /\ w \in Nat
      /\ \A o \in Nat : o \in Span(d, b) <=> b <= o /\ o < b + d[b]
  BY <1>1, <1>2, SpanIs, OffsetIs
<1>4. ~(b < w /\ b + d[b] > w)
  BY <1>2, <1>3
<1>. QED
  BY <1>2, <1>3, <1>4, WellFormedIs

\* An empty chain.
LEMMA ChainEmpty ==
  ASSUME NEW d \in Ring, NEW r \in Offsets PROVE Chain({r}, d, r, r)
BY DEF Chain

\* Only the bytes between the cursors matter.
LEMMA ChainSame ==
  ASSUME NEW d \in Ring, NEW e \in Ring, NEW r \in Offsets, NEW w \in Offsets, NEW B,
         Chain(B, d, r, w), \A o \in Between(r, w) : e[o] = d[o]
  PROVE  Chain(B, e, r, w)
<1>1. ASSUME NEW b \in B \ {w} PROVE Link(B, e, r, w, b)
  <2>1. /\ b \in Offsets /\ Typed(d, b) /\ Wrap(b + d[b]) \in B
        /\ Span(d, b) \subseteq Between(r, w)
        /\ \A c \in B \ {b} : c \notin Span(d, b)
    BY DEF Chain, Link
  <2>2. /\ d[b] \in Nat \ {0} /\ b \in Nat
        /\ \A o \in Nat : o \in Span(d, b) <=> b <= o /\ o < b + d[b]
    BY <2>1, SpanIs, OffsetIs
  <2>3. \A o \in Nat : b <= o /\ o < b + d[b] => e[o] = d[o]
    BY <2>1, <2>2
  <2>4. e[b] = d[b]
    BY <2>2, <2>3
  <2>5. d[b] > 1 => e[b + 1] = d[b + 1]
    BY <2>2, <2>3
  <2>6. d[b] \in CmdLens => e[b + kRecordHeaderLen] = d[b + kRecordHeaderLen]
    <3>1. d[b] \in CmdLens => d[b] > kRecordHeaderLen
      BY RingAssumption DEF CmdLens
    <3>. QED
      BY <2>2, <2>3, <3>1, RingAssumption
  <2>7. Typed(e, b)
    BY <2>1, <2>2, <2>4, <2>5, <2>6, RingAssumption DEF Typed
  <2>8. Span(e, b) = Span(d, b)
    BY <2>4 DEF Span
  <2>. QED
    BY <2>1, <2>4, <2>7, <2>8 DEF Link
<1>. QED
  BY <1>1 DEF Chain

\* A cursor that has moved along the chain is the beginning of the rest of it.
LEMMA ChainRest ==
  ASSUME NEW d \in Ring, NEW r \in Offsets, NEW w \in Offsets, NEW B,
         Chain(B, d, r, w), NEW x \in B
  PROVE  Chain({b \in B : b = w \/ b \in Between(x, w)}, d, x, w)
<1>. DEFINE C == {b \in B : b = w \/ b \in Between(x, w)}
<1>0. B \in SUBSET Offsets /\ w \in B /\ r \in Nat /\ w \in Nat /\ x \in Nat /\ x \in Offsets
      /\ r < kDataSize /\ w < kDataSize /\ x < kDataSize /\ kDataSize \in Nat
  BY OffsetIs, RingFacts DEF Chain
<1>1. x \in C
  <2>1. x # w => x \in Between(x, w)
    BY <1>0 DEF Between
  <2>. QED
    BY <2>1
<1>2. ASSUME NEW b \in C \ {w} PROVE Link(C, d, x, w, b)
  <2>. DEFINE n == Wrap(b + d[b])
  <2>1. /\ b \in B /\ b \in Offsets /\ b # w /\ b \in Between(x, w)
        /\ Typed(d, b) /\ n \in B /\ Span(d, b) \subseteq Between(r, w)
        /\ \A c \in B \ {b} : c \notin Span(d, b)
    BY <1>0 DEF Chain, Link
  <2>2. /\ d[b] \in Nat \ {0} /\ b \in Nat /\ b + d[b] <= kDataSize /\ b \in Span(d, b)
        /\ \A o \in Nat : o \in Span(d, b) <=> b <= o /\ o < b + d[b]
        /\ Span(d, b) \subseteq Offsets
    BY <2>1, SpanIs, OffsetIs
  <2>3. x = b \/ ~(b <= x /\ x < b + d[b])
    BY <1>0, <2>1, <2>2
  <2>4. ~(b <= w /\ w < b + d[b])
    BY <1>0, <2>1, <2>2
  <2>5. IF x <= w THEN x <= b /\ b < w ELSE x <= b \/ b < w
    BY <2>1 DEF Between
  <2>6. ASSUME NEW o \in Span(d, b) PROVE o \in Between(x, w)
    <3>1. o \in Offsets /\ o \in Nat /\ b <= o /\ o < b + d[b]
      BY <2>2, OffsetIs
    <3>2. IF x <= w THEN x <= o /\ o < w ELSE x <= o \/ o < w
      BY <1>0, <2>2, <2>3, <2>4, <2>5, <3>1
    <3>. QED
      BY <3>1, <3>2 DEF Between
  <2>7. n = w \/ n \in Between(x, w)
    <3>1. n \in Offsets /\ n \in Nat
      BY <1>0, <2>1, OffsetIs
    <3>2. n = IF b + d[b] = kDataSize THEN 0 ELSE b + d[b]
      BY DEF Wrap
    <3>3. n = w \/ IF x <= w THEN x <= n /\ n < w ELSE x <= n \/ n < w
      <4>. HIDE DEF n
      <4>. QED
        BY <1>0, <2>2, <2>3, <2>4, <2>5, <3>1, <3>2
    <3>. QED
      BY <3>1, <3>3 DEF Between
  <2>. HIDE DEF n
  <2>8. n \in C
    BY <2>1, <2>7
  <2>. QED
    BY <2>1, <2>6, <2>8 DEF Link, n
<1>. QED
  BY <1>0, <1>1, <1>2 DEF Chain

\* A record or PAD written behind the chain makes it one longer.
LEMMA ChainLonger ==
  ASSUME NEW d \in Ring, NEW r \in Offsets, NEW w \in Offsets, NEW B, Chain(B, d, r, w),
         Typed(d, w), NEW x, x = Wrap(w + d[w]), x # r, x \notin Between(r, w),
         \A o \in Span(d, w) : o \notin Between(r, w)
  PROVE  Chain(B \cup {x}, d, r, x)
<1>0. /\ B \in SUBSET Offsets /\ r \in B /\ w \in B /\ r \in Nat /\ w \in Nat
      /\ r < kDataSize /\ w < kDataSize /\ kDataSize \in Nat
  BY OffsetIs, RingFacts DEF Chain
<1>1. /\ d[w] \in Nat \ {0} /\ w + d[w] <= kDataSize /\ w \in Span(d, w)
      /\ \A o \in Nat : o \in Span(d, w) <=> w <= o /\ o < w + d[w]
      /\ Span(d, w) \subseteq Offsets
  BY SpanIs
<1>2. x \in Offsets /\ x \in Nat /\ x < kDataSize /\ x = IF w + d[w] = kDataSize THEN 0 ELSE w + d[w]
  <2>1. x = IF w + d[w] = kDataSize THEN 0 ELSE w + d[w]
    BY DEF Wrap
  <2>. QED
    BY <2>1, <1>0, <1>1, OffsetIs
<1>3. ~(w <= x /\ x < w + d[w])
  <2>1. x = 0 /\ w = 0 => d[w] = kDataSize
    BY <1>0, <1>1, <1>2
  <2>2. ~(w = 0 /\ d[w] = kDataSize)
    <3>. SUFFICES ASSUME w = 0, d[w] = kDataSize PROVE FALSE
      OBVIOUS
    <3>1. x = 0
      BY <1>0, <1>1, <1>2
    <3>2. x < r /\ r \in Span(d, w) /\ kDataSize - 1 \in Span(d, w)
      BY <1>0, <1>1, <1>2, <3>1
    <3>3. r \in Between(r, w)
      BY <1>0, <3>1, <3>2 DEF Between
    <3>. QED
      BY <3>2, <3>3
  <2>. QED
    BY <1>0, <1>1, <1>2, <2>1, <2>2
<1>4. \A o \in Offsets : (o \in Between(r, w) \/ o \in Span(d, w)) => o \in Between(r, x)
  <2>1. IF r <= w THEN ~(r <= x /\ x < w) ELSE ~(r <= x \/ x < w)
    BY <1>2 DEF Between
  <2>2. r <= w \/ w + d[w] <= r
    <3>. SUFFICES ASSUME ~(r <= w), ~(w + d[w] <= r) PROVE FALSE
      OBVIOUS
    <3>1. r \in Span(d, w) /\ r \in Between(r, w)
      BY <1>0, <1>1 DEF Between
    <3>. QED
      BY <3>1
  <2>3. ASSUME NEW o \in Offsets, o \in Between(r, w) \/ (w <= o /\ o < w + d[w])
        PROVE  IF r <= x THEN r <= o /\ o < x ELSE r <= o \/ o < x
    <3>1. \/ IF r <= w THEN r <= o /\ o < w ELSE r <= o \/ o < w
          \/ w <= o /\ o < w + d[w]
      BY <2>3 DEF Between
    <3>2. o \in Nat /\ o < kDataSize
      BY OffsetIs
    <3>. QED
      BY <1>0, <1>1, <1>2, <2>1, <2>2, <3>1, <3>2
  <2>. QED
    BY <1>1, <2>3, OffsetIs DEF Between
<1>5. ASSUME NEW b \in B, b # w PROVE b \in Between(r, w) /\ b # x
  BY <1>5, ChainWellFormed
<1>6. ASSUME NEW b \in B, b # w PROVE Link(B \cup {x}, d, r, x, b)
  <2>1. /\ Typed(d, b) /\ Wrap(b + d[b]) \in B /\ Span(d, b) \subseteq Between(r, w)
        /\ \A c \in B \ {b} : c \notin Span(d, b)
    BY <1>6 DEF Chain, Link
  <2>2. Span(d, b) \subseteq Between(r, x) /\ x \notin Span(d, b)
    BY <1>4, <2>1 DEF Between
  <2>. QED
    BY <2>1, <2>2 DEF Link
<1>7. Link(B \cup {x}, d, r, x, w)
  <2>1. Span(d, w) \subseteq Between(r, x) /\ x \notin Span(d, w)
    BY <1>1, <1>2, <1>3, <1>4
  <2>2. \A c \in B \ {w} : c \notin Span(d, w)
    BY <1>5
  <2>. QED
    BY <2>1, <2>2 DEF Link
<1>. QED
  BY <1>0, <1>2, <1>6, <1>7 DEF Chain

------------------------------------------------------------------------------
(***************************************************************************)
(* ChainInv: while the ring may be touched its records form a chain, on    *)
(* which the ack and peek walks stand; the repair walk has a chain behind  *)
(* it; and what an append has written so far is the record it will publish.*)
(***************************************************************************)
Held(d, r, w, S) == \E B : Chain(B, d, r, w) /\ S \subseteq B

\* A record that begins with its length and has the length of its type.
GoodRec(rec) ==
  /\ rec[1] = Len(rec)
  /\ \/ /\ rec[2] = REC_CMD /\ Len(rec) \in CmdLens
        /\ rec[kRecordHeaderLen + 1] = Len(rec) - (kRecordHeaderLen + 1)
     \/ rec[2] = REC_FRAME /\ Len(rec) = kFrameRecordLen
     \/ rec[2] = REC_STATE /\ Len(rec) = kStateRecordLen

Using == Appending \cup {"episode", "marked", "cfgon", "ack", "peek"}

Open == /\ enabled => ring_ok
        /\ pc \in Using => ring_ok
        /\ pc \in {"boot", "repair"} => ~ring_ok

Standing == IF pc \in {"ack", "peek"} THEN {op.off} ELSE {}

Chained == ring_ok => Held(data, hdr.read_off, hdr.write_off, Standing)

Repairing ==
  pc = "repair" => /\ op.off \in Between(hdr.read_off, hdr.write_off) \cup {hdr.write_off}
                   /\ Held(data, hdr.read_off, op.off, {})

PadWritten == data[hdr.write_off] = tail /\ (tail >= 2 => data[hdr.write_off + 1] = REC_PAD)

Written ==
  /\ pc \in Appending => GoodRec(op.rec)
  /\ pc \in {"rec", "head"} /\ Pads => PadWritten
  /\ pc = "head" => (\A o \in DOMAIN RecBytes : data[o] = RecBytes[o]) /\ freeBytes(hdr) >= need

ChainInv == Open /\ Chained /\ Repairing /\ Written

LEMMA HeldEmpty == ASSUME NEW d \in Ring, NEW r \in Offsets PROVE Held(d, r, r, {})
BY ChainEmpty DEF Held

LEMMA HeldLonger ==
  ASSUME NEW d \in Ring, NEW r \in Offsets, NEW w \in Offsets, Held(d, r, w, {}),
         Typed(d, w), NEW x, x = Wrap(w + d[w]), x # r, x \notin Between(r, w),
         \A o \in Span(d, w) : o \notin Between(r, w)
  PROVE  Held(d, r, x, {})
<1>1. PICK B : Chain(B, d, r, w)
  BY DEF Held
<1>2. Chain(B \cup {x}, d, r, x)
  BY <1>1, ChainLonger
<1>. QED
  BY <1>2 DEF Held

\* The header that publishes a record, and the PAD before it, publishes a chain.
LEMMA HeldPublished ==
  ASSUME NEW d \in Ring, NEW r \in Offsets, NEW w \in Offsets, Held(d, r, w, {}),
         NEW len \in Nat, len > 2, NEW at, at = IF kDataSize - w < len THEN 0 ELSE w,
         NEW n, n = IF kDataSize - w < len THEN kDataSize - w + len ELSE len,
         IF w >= r THEN kDataSize - 1 - (w - r) >= n ELSE r - w - 1 >= n,
         kDataSize - w < len =>
           d[w] = kDataSize - w /\ (kDataSize - w >= 2 => d[w + 1] = REC_PAD),
         d[at] = len, Typed(d, at)
  PROVE  Held(d, r, Wrap(at + len), {})
<1>0. /\ r \in Nat /\ w \in Nat /\ r < kDataSize /\ w < kDataSize /\ kDataSize \in Nat
      /\ kDataSize > 3
  BY OffsetIs, RingFacts
<1>1. CASE ~(kDataSize - w < len)
  <2>1. at = w /\ n = len /\ d[w] = len
    BY <1>1
  <2>. DEFINE x == Wrap(w + d[w])
  <2>2. x = IF w + len = kDataSize THEN 0 ELSE w + len
    BY <2>1 DEF Wrap
  <2>. HIDE DEF x
  <2>3. x # r /\ (IF r <= w THEN ~(r <= x /\ x < w) ELSE ~(r <= x \/ x < w))
    BY <1>0, <1>1, <2>1, <2>2
  <2>4. ASSUME NEW o \in Span(d, w) PROVE o \notin Between(r, w)
    <3>1. o \in Nat /\ w <= o /\ o < w + len
      BY <1>0, <2>1 DEF Span
    <3>2. ~(IF r <= w THEN r <= o /\ o < w ELSE r <= o \/ o < w)
      BY <1>0, <1>1, <2>1, <3>1
    <3>. QED
      BY <3>2 DEF Between
  <2>5. x \notin Between(r, w)
    BY <2>3 DEF Between
  <2>6. Held(d, r, x, {})
    BY <2>1, <2>3, <2>4, <2>5, HeldLonger DEF x
  <2>. QED
    BY <2>1, <2>6 DEF x
<1>2. CASE kDataSize - w < len
  <2>1. at = 0 /\ n = kDataSize - w + len /\ d[0] = len /\ d[w] = kDataSize - w
    BY <1>2
  <2>2. r <= w /\ len < r
    BY <1>0, <1>2, <2>1
  <2>3. Typed(d, w)
    BY <1>0, <1>2, RingAssumption DEF Typed
  <2>4. Wrap(w + d[w]) = 0
    BY <1>0, <2>1 DEF Wrap
  <2>5. ASSUME NEW o \in Span(d, w) PROVE o \notin Between(r, w)
    <3>1. o \in Nat /\ w <= o
      BY <1>0, <2>1 DEF Span
    <3>. QED
      BY <1>0, <2>2, <3>1 DEF Between
  <2>6. 0 # r /\ 0 \notin Between(r, w) /\ 0 \in Offsets
    BY <1>0, <2>2, OffsetIs DEF Between
  <2>7. Held(d, r, 0, {})
    BY <2>3, <2>4, <2>5, <2>6, HeldLonger
  <2>. DEFINE x == Wrap(0 + d[0])
  <2>8. x = len
    BY <1>0, <2>1, <2>2 DEF Wrap
  <2>9. x # r /\ x \notin Between(r, 0)
    BY <1>0, <2>2, <2>8 DEF Between
  <2>10. ASSUME NEW o \in Span(d, 0) PROVE o \notin Between(r, 0)
    <3>1. o \in Nat /\ o < len
      BY <1>0, <2>1 DEF Span
    <3>. QED
      BY <1>0, <2>2, <3>1 DEF Between
  <2>11. Typed(d, 0)
    BY <2>1
  <2>. HIDE DEF x
  <2>12. Held(d, r, x, {})
    BY <2>6, <2>7, <2>9, <2>10, <2>11, HeldLonger DEF x
  <2>13. Wrap(at + len) = x
    BY <2>1 DEF x
  <2>. QED
    BY <2>12, <2>13
<1>. QED
  BY <1>1, <1>2

LEMMA GoodRecords ==
  /\ \A rec \in ProducerRecords \cup {SynthRecord} : GoodRec(rec)
  /\ \A arg \in Nat : GoodRec(buildState(arg))
<1>1. ASSUME NEW type \in {REC_CMD, REC_FRAME, REC_STATE}, NEW len \in RecordLens, NEW payload \in Nat,
             type = REC_CMD => len \in CmdLens,
             type = REC_FRAME => len = kFrameRecordLen,
             type = REC_STATE => len = kStateRecordLen
      PROVE  GoodRec(Built(type, len, payload))
  <2>. DEFINE b == Built(type, len, payload)
  <2>1. type \in Nat
    BY DEF REC_CMD, REC_FRAME, REC_STATE
  <2>2. Len(b) = len /\ len \in Nat /\ len > 2
    BY <1>1, <2>1, BuiltType, RingFacts
  <2>3. b[1] = len /\ b[2] = type
    BY <2>2, RingAssumption, SMTT(60) DEF Built
  <2>4. type = REC_CMD => b[kRecordHeaderLen + 1] = len - (kRecordHeaderLen + 1)
    <3>. SUFFICES ASSUME type = REC_CMD PROVE b[kRecordHeaderLen + 1] = len - (kRecordHeaderLen + 1)
      OBVIOUS
    <3>1. kRecordHeaderLen + 1 \in 1 .. len /\ kRecordHeaderLen + 1 # 1 /\ kRecordHeaderLen + 1 # 2
      BY <1>1, <2>2, RingAssumption DEF CmdLens
    <3>. QED
      BY <3>1 DEF Built
  <2>. HIDE DEF b
  <2>5. GoodRec(b)
    BY <1>1, <2>2, <2>3, <2>4 DEF GoodRec
  <2>. QED
    BY <2>5 DEF b
<1>2. ASSUME NEW len \in CmdLens PROVE GoodRec(Built(REC_CMD, len, 0))
  <2>1. len \in RecordLens /\ REC_CMD # REC_FRAME /\ REC_CMD # REC_STATE
    BY DEF RecordLens, REC_CMD, REC_FRAME, REC_STATE
  <2>. QED
    BY <1>1, <2>1
<1>3. GoodRec(Built(REC_FRAME, kFrameRecordLen, 0))
  <2>1. REC_FRAME # REC_CMD /\ REC_FRAME # REC_STATE
    BY DEF REC_CMD, REC_FRAME, REC_STATE
  <2>. QED
    BY <1>1, <2>1, RingFacts
<1>4. \A arg \in Nat : GoodRec(buildState(arg))
  <2>1. REC_STATE # REC_CMD /\ REC_STATE # REC_FRAME
    BY DEF REC_CMD, REC_FRAME, REC_STATE
  <2>. QED
    BY <1>1, <2>1, RingFacts DEF buildState
<1>5. kCmdRecordLenMax \in CmdLens
  BY RingAssumption DEF CmdLens
<1>. QED
  BY <1>2, <1>3, <1>4, <1>5 DEF ProducerRecords, SynthRecord

LEMMA RingTypes ==
  ASSUME IInv
  PROVE  /\ data \in Ring /\ hdr.read_off \in Offsets /\ hdr.write_off \in Offsets
         /\ op \in Locals /\ op.off \in Offsets /\ hdr.dropped \in Nat
         /\ op.ret \in {"idle", "bootrec", "cfgoff"}
         /\ pc \in Appending => Len(op.rec) \in RecordLens
BY DEF IInv, TypeOK, Ring, Header, Locals, RecordInv

\* The steps that leave the cursors and the bytes alone.
LEMMA PlainStep ==
  ASSUME IInv, ChainInv, data' = data, hdr'.read_off = hdr.read_off, hdr'.write_off = hdr.write_off,
         ring_ok' => ring_ok, enabled' => ring_ok', pc' \in Using => ring_ok',
         pc' = "boot" => ~ring_ok', pc' # "repair",
         pc' \in {"ack", "peek"} => op'.off = hdr.read_off \/ op'.off \in Standing,
         pc' \in Appending => GoodRec(op'.rec),
         pc' = "rec" => ~Pads', pc' # "head"
  PROVE  ChainInv'
<1>1. Open'
  BY DEF Open
<1>2. Chained'
  <2>. SUFFICES ASSUME ring_ok' PROVE Held(data, hdr.read_off, hdr.write_off, Standing')
    BY DEF Chained
  <2>1. PICK B : Chain(B, data, hdr.read_off, hdr.write_off) /\ Standing \subseteq B
    BY DEF ChainInv, Chained, Held
  <2>2. hdr.read_off \in B
    BY <2>1 DEF Chain
  <2>3. Standing' \subseteq B
    BY <2>1, <2>2 DEF Standing
  <2>. QED
    BY <2>1, <2>3 DEF Held
<1>3. Repairing' /\ Written'
  BY DEF Repairing, Written
<1>. QED
  BY <1>1, <1>2, <1>3 DEF ChainInv

\* The call of append, or of the heap guard.
LEMMA TripCallGood ==
  ASSUME NEW ret, TripCall(ret)
  PROVE  data' = data /\ hdr' = hdr /\ pc' \in {"room", "trip"} /\ (pc' = "room" => GoodRec(op'.rec))
<1>1. GoodRec(buildState(0))
  BY GoodRecords
<1>2. [Idle EXCEPT !.rec = buildState(0), !.ctx = "trip", !.ret = ret].rec = buildState(0)
  BY DEF Idle
<1>. QED
  BY <1>1, <1>2 DEF TripCall

LEMMA AppendCallGood ==
  ASSUME NEW rec, NEW ret, NEW todo, AppendCall(rec, ret, todo), GoodRec(rec)
  PROVE  data' = data /\ hdr' = hdr /\ pc' \in {"room", "trip"} /\ (pc' = "room" => GoodRec(op'.rec))
<1>1. [Idle EXCEPT !.rec = rec, !.ret = ret, !.todo = todo].rec = rec
  BY DEF Idle
<1>. QED
  BY <1>1, TripCallGood DEF AppendCall

LEMMA CallStep ==
  ASSUME IInv, ChainInv, ring_ok, data' = data, hdr' = hdr, pc' \in {"room", "trip"},
         pc' = "room" => GoodRec(op'.rec), ring_ok' = ring_ok, enabled' = enabled
  PROVE  ChainInv'
<1>1. pc' \notin {"boot", "repair", "ack", "peek", "rec", "head"}
  OBVIOUS
<1>. QED
  BY <1>1, PlainStep DEF Appending

LEMMA ReturnStep ==
  ASSUME IInv, ChainInv, data' = data, hdr'.read_off = hdr.read_off, hdr'.write_off = hdr.write_off,
         ring_ok' => ring_ok, enabled' => ring_ok',
         pc' \in {"idle", "bootrec", "cfgoff", "reply"}
  PROVE  ChainInv'
<1>1. pc' \notin Using /\ pc' \notin {"boot", "repair", "ack", "peek", "rec", "head"} /\ pc' \notin Appending
  BY DEF Using, Appending
<1>. QED
  BY <1>1, PlainStep

\* makeRoom never finds the chain broken.
LEMMA NeverBroken == IInv /\ ChainInv => ChainNeverBroken
<1>. SUFFICES ASSUME IInv, ChainInv PROVE ChainNeverBroken
  OBVIOUS
<1>1. ASSUME pc = "room", MustEvict PROVE wellFormedAt(data, hdr.read_off, hdr.write_off)
  <2>1. ring_ok /\ hdr.read_off # hdr.write_off
    BY <1>1 DEF ChainInv, Open, Using, Appending, MustEvict
  <2>2. PICK B : Chain(B, data, hdr.read_off, hdr.write_off)
    BY <2>1 DEF ChainInv, Chained, Held
  <2>3. hdr.read_off \in B
    BY <2>2 DEF Chain
  <2>. QED
    BY <2>1, <2>2, <2>3, RingTypes, ChainWellFormed
<1>2. ASSUME pc \in {"ack", "peek"}, op.off # hdr.write_off
      PROVE  wellFormedAt(data, op.off, hdr.write_off)
  <2>1. ring_ok
    BY <1>2 DEF ChainInv, Open, Using
  <2>2. PICK B : Chain(B, data, hdr.read_off, hdr.write_off) /\ op.off \in B
    BY <1>2, <2>1 DEF ChainInv, Chained, Held, Standing
  <2>. QED
    BY <1>2, <2>2, RingTypes, ChainWellFormed
<1>. QED
  BY <1>1, <1>2 DEF ChainNeverBroken

\* ack and peek move along the chain.
LEMMA WalkStep ==
  ASSUME IInv, ChainInv, pc \in {"ack", "peek"}, pc' = pc, op.off # hdr.write_off,
         op'.off = Wrap(op.off + data[op.off]),
         UNCHANGED <<hdr, data, ring_ok, enabled>>
  PROVE  ChainInv'
<1>1. ring_ok
  BY DEF ChainInv, Open, Using
<1>2. PICK B : Chain(B, data, hdr.read_off, hdr.write_off) /\ op.off \in B
  BY <1>1 DEF ChainInv, Chained, Held, Standing
<1>3. op'.off \in B
  BY <1>2, RingTypes, ChainWellFormed
<1>4. Chained'
  <2>1. Standing' \subseteq B
    BY <1>3 DEF Standing
  <2>. QED
    BY <1>2, <2>1 DEF Chained, Held
<1>5. Open' /\ Repairing' /\ Written'
  BY DEF ChainInv, Open, Repairing, Written, Appending
<1>. QED
  BY <1>4, <1>5 DEF ChainInv

\* A new read_off on the chain.
LEMMA HeldRest ==
  ASSUME NEW d \in Ring, NEW r \in Offsets, NEW w \in Offsets, NEW x, Held(d, r, w, {x})
  PROVE  Held(d, x, w, {x})
<1>1. PICK B : Chain(B, d, r, w) /\ x \in B
  BY DEF Held
<1>. DEFINE C == {b \in B : b = w \/ b \in Between(x, w)}
<1>2. Chain(C, d, x, w)
  BY <1>1, ChainRest
<1>. HIDE DEF C
<1>3. x \in C
  BY <1>2 DEF Chain
<1>. QED
  BY <1>2, <1>3 DEF Held

LEMMA HeldLess ==
  ASSUME NEW d, NEW r, NEW w, NEW S, Held(d, r, w, S) PROVE Held(d, r, w, {})
BY DEF Held

LEMMA EvictChain ==
  ASSUME IInv, ChainInv, MakeRoomEvict PROVE ChainInv'
<1>. DEFINE r == hdr.read_off
            w == hdr.write_off
            x == Wrap(r + data[r])
<1>0. data \in Ring /\ r \in Offsets /\ w \in Offsets /\ hdr \in Header
  BY RingTypes DEF IInv, TypeOK
<1>1. ring_ok /\ pc = "room" /\ r # w
  BY DEF MakeRoomEvict, MustEvict, ChainInv, Open, Using, Appending
<1>2. PICK B : Chain(B, data, r, w)
  BY <1>1 DEF ChainInv, Chained, Held
<1>3. x \in B
  BY <1>0, <1>1, <1>2, ChainWellFormed DEF Chain
<1>4. hdr' = [hdr EXCEPT !.read_off = x] /\ data' = data /\ pc' = "room" /\ op'.rec = op.rec
      /\ ring_ok' = ring_ok /\ enabled' = enabled
  BY <1>1, RingTypes DEF MakeRoomEvict, volatile, Locals
<1>5. hdr'.read_off = x /\ hdr'.write_off = w
  BY <1>0, <1>4 DEF Header
<1>. HIDE DEF r, w, x
<1>6. Held(data, x, w, {x})
  BY <1>0, <1>2, <1>3, HeldRest DEF Held
<1>7. Chained'
  BY <1>4, <1>5, <1>6, HeldLess DEF Chained, Standing
<1>8. Open' /\ Repairing' /\ Written'
  BY <1>1, <1>4 DEF ChainInv, Open, Repairing, Written
<1>. QED
  BY <1>7, <1>8 DEF ChainInv

LEMMA RoomDoneChain ==
  ASSUME IInv, ChainInv, MakeRoomDone PROVE ChainInv'
<1>0. hdr \in Header /\ op.evicted \in Nat /\ hdr.dropped \in Nat
  BY DEF IInv, TypeOK, Header, Locals
<1>1. pc = "room" /\ data' = data /\ op' = op /\ pc' = (IF Pads THEN "pad" ELSE "rec")
      /\ ring_ok' = ring_ok /\ enabled' = enabled /\ (~MustEvict \/ ChainBroken)
  BY DEF MakeRoomDone, volatile
<1>2. ring_ok
  BY <1>1 DEF ChainInv, Open, Using, Appending
<1>3. ~MustEvict
  <2>. SUFFICES ASSUME MustEvict PROVE FALSE
    OBVIOUS
  <2>1. wellFormedAt(data, hdr.read_off, hdr.write_off) /\ data[hdr.read_off] \in Nat
    BY <1>1, NeverBroken, RingTypes DEF ChainNeverBroken, Ring
  <2>2. data[hdr.read_off] # 0 /\ hdr.read_off + data[hdr.read_off] <= kDataSize
    BY <2>1 DEF wellFormedAt
  <2>3. ~ChainBroken
    <3>1. hdr.read_off \in Nat /\ kDataSize \in Nat
      BY RingTypes, OffsetIs, RingFacts
    <3>2. ~(hdr.read_off + data[hdr.read_off] > kDataSize)
      BY <2>1, <2>2, <3>1
    <3>. QED
      BY <2>2, <3>2 DEF ChainBroken
  <2>. QED
    BY <1>1, <2>3
<1>4. hdr' = hdr \/ hdr' = [hdr EXCEPT !.dropped = @ + op.evicted]
  BY <1>3 DEF MakeRoomDone, sealHeader
<1>5. hdr'.read_off = hdr.read_off /\ hdr'.write_off = hdr.write_off
  BY <1>0, <1>4 DEF Header
<1>6. Pads' = Pads
  BY <1>1, <1>5 DEF Pads, tail, RecLen
<1>7. GoodRec(op.rec)
  BY <1>1 DEF ChainInv, Written, Appending
<1>8. pc' \in {"pad", "rec"} /\ (pc' = "rec" => ~Pads')
  BY <1>1, <1>6
<1>9. /\ enabled' => ring_ok'
      /\ pc' \in Using => ring_ok'
      /\ pc' \notin {"boot", "repair", "ack", "peek", "head"}
  BY <1>1, <1>2, <1>8
<1>. QED
  BY <1>1, <1>2, <1>5, <1>7, <1>8, <1>9, PlainStep

\* Where the PAD and the record go, when there is room.
LEMMA RoomIs ==
  ASSUME IInv, pc \in Appending, freeBytes(hdr) >= need
  PROVE  /\ IF hdr.write_off >= hdr.read_off
            THEN kDataSize - 1 - (hdr.write_off - hdr.read_off) >= need
            ELSE hdr.read_off - hdr.write_off - 1 >= need
         /\ Pads => hdr.read_off <= hdr.write_off /\ Len(op.rec) < hdr.read_off
<1>. DEFINE r == hdr.read_off
            w == hdr.write_off
            len == Len(op.rec)
<1>1. /\ r \in 0 .. kDataSize - 1 /\ w \in 0 .. kDataSize - 1
      /\ len \in Nat /\ len > 2 /\ kDataSize \in Nat
  BY WriteFacts, RingFacts DEF IInv, Offsets
<1>2. freeBytes(hdr) = kDataSize - 1 - (IF w >= r THEN w - r ELSE kDataSize - r + w)
  BY DEF freeBytes, usedBytes
<1>3. need = (IF kDataSize - w < len THEN kDataSize - w + len ELSE len)
      /\ (Pads <=> kDataSize - w < len)
  BY DEF need, Pads, tail, RecLen
<1>. HIDE DEF r, w, len
<1>4. IF w >= r THEN kDataSize - 1 - (w - r) >= need ELSE r - w - 1 >= need
  BY <1>1, <1>2, <1>3
<1>5. Pads => r <= w /\ len < r
  BY <1>1, <1>3, <1>4
<1>. QED
  BY <1>4, <1>5 DEF r, w, len

\* A write keeps the chain: its bytes are not between the cursors.
LEMMA WriteKeepsChain ==
  ASSUME IInv, ChainInv, WritePad \/ WriteRecord PROVE Chained'
<1>0. /\ data \in Ring /\ hdr.read_off \in Offsets /\ hdr.write_off \in Offsets /\ hdr' = hdr
      /\ ring_ok' = ring_ok /\ pc' \in {"rec", "head"} /\ pc \in {"pad", "rec"}
  BY RingTypes DEF WritePad, WriteRecord, volatile
<1>1. data' \in Ring
  BY Inductive DEF IInv, TypeOK, Ring, Next, appendRaw
<1>2. ASSUME NEW o \in Between(hdr.read_off, hdr.write_off) PROVE data'[o] = data[o]
  <2>1. o \in Live(hdr) /\ o \in Offsets
    BY DEF Between, Live
  <2>2. (pc = "pad" => o \notin DOMAIN PadBytes) /\ (pc = "rec" => o \notin DOMAIN RecBytes)
    BY <2>1, WriteIsFree
  <2>. QED
    BY <2>1, <2>2 DEF WritePad, WriteRecord, Store
<1>3. ring_ok
  BY <1>0 DEF ChainInv, Open, Using, Appending
<1>4. PICK B : Chain(B, data, hdr.read_off, hdr.write_off)
  BY <1>3 DEF ChainInv, Chained, Held
<1>5. Chain(B, data', hdr.read_off, hdr.write_off)
  BY <1>0, <1>1, <1>2, <1>4, ChainSame
<1>6. Standing' = {}
  BY <1>0 DEF Standing
<1>. QED
  BY <1>0, <1>5, <1>6 DEF Chained, Held

LEMMA PadChain ==
  ASSUME IInv, ChainInv, WritePad PROVE ChainInv'
<1>0. /\ pc = "pad" /\ pc' = "rec" /\ hdr' = hdr /\ op' = op /\ ring_ok' = ring_ok
      /\ enabled' = enabled /\ data' = Store(data, PadBytes)
      /\ hdr.write_off \in Offsets /\ kDataSize \in Nat
  BY RingTypes, RingFacts DEF WritePad, volatile
<1>1. tail' = tail /\ Pads' = Pads
  BY <1>0 DEF Pads, tail, RecLen
<1>2. PadWritten'
  <2>1. data'[hdr.write_off] = tail
    BY <1>0 DEF Store, PadBytes
  <2>2. ASSUME tail >= 2 PROVE data'[hdr.write_off + 1] = REC_PAD
    <3>1. hdr.write_off + 1 \in Offsets /\ hdr.write_off + 1 # hdr.write_off
      <4>1. hdr.write_off \in Nat /\ kDataSize - hdr.write_off >= 2 /\ kDataSize \in Nat
        BY <1>0, <2>2, OffsetIs DEF tail
      <4>2. hdr.write_off + 1 \in Nat /\ hdr.write_off + 1 < kDataSize
        BY <4>1
      <4>. QED
        BY <4>1, <4>2, OffsetIs
    <3>. QED
      BY <1>0, <2>2, <3>1 DEF Store, PadBytes
  <2>. QED
    BY <1>0, <1>1, <2>1, <2>2 DEF PadWritten
<1>3. GoodRec(op.rec)
  BY <1>0 DEF ChainInv, Written, Appending
<1>4. Open' /\ Repairing' /\ Written'
  BY <1>0, <1>2, <1>3 DEF ChainInv, Open, Repairing, Written, Using, Appending
<1>. QED
  BY <1>4, WriteKeepsChain DEF ChainInv

LEMMA RecordChain ==
  ASSUME IInv, ChainInv, WriteRecord PROVE ChainInv'
<1>0. /\ pc = "rec" /\ pc' = "head" /\ hdr' = hdr /\ op' = op /\ ring_ok' = ring_ok
      /\ enabled' = enabled /\ data' = Store(data, RecBytes)
      /\ hdr.write_off \in Offsets /\ kDataSize \in Nat
  BY RingTypes, RingFacts DEF WriteRecord, volatile
<1>1. tail' = tail /\ Pads' = Pads /\ need' = need /\ freeBytes(hdr') = freeBytes(hdr)
      /\ RecBytes' = RecBytes
  BY <1>0 DEF Pads, tail, RecLen, need, RecBytes, WriteAt, StampSeq
<1>2. freeBytes(hdr) >= need
  BY <1>0 DEF IInv, RoomInv
<1>3. /\ WriteAt \in Nat /\ Len(op.rec) \in Nat /\ Len(op.rec) > 2
      /\ WriteAt + Len(op.rec) <= kDataSize
      /\ DOMAIN RecBytes = WriteAt .. WriteAt + Len(op.rec) - 1
  <2>1. /\ WriteAt \in Offsets /\ Len(op.rec) \in Nat /\ Len(op.rec) > 2
        /\ WriteAt + Len(op.rec) \in 0 .. kDataSize
    BY <1>0, WriteFacts DEF IInv, Appending
  <2>. QED
    BY <1>0, <2>1, OffsetIs DEF RecBytes, RecLen
<1>4. \A o \in DOMAIN RecBytes : data'[o] = RecBytes[o]
  <2>1. DOMAIN RecBytes \subseteq Offsets
    BY <1>0, <1>3, OffsetIs
  <2>. QED
    BY <1>0, <2>1 DEF Store
<1>5. ASSUME Pads PROVE PadWritten'
  <2>1. PadWritten
    BY <1>0, <1>5 DEF ChainInv, Written
  <2>2. Len(op.rec) < hdr.read_off /\ hdr.read_off <= hdr.write_off /\ hdr.read_off \in Nat
        /\ hdr.write_off \in Nat
    BY <1>0, <1>2, <1>5, RoomIs, RingTypes, OffsetIs DEF Appending
  <2>3. WriteAt = 0
    BY <1>5 DEF WriteAt
  <2>4. hdr.write_off \notin DOMAIN RecBytes /\ hdr.write_off + 1 \notin DOMAIN RecBytes
    BY <1>3, <2>2, <2>3
  <2>5. data'[hdr.write_off] = data[hdr.write_off]
    BY <1>0, <2>4 DEF Store
  <2>6. ASSUME tail >= 2 PROVE data'[hdr.write_off + 1] = data[hdr.write_off + 1]
    <3>1. hdr.write_off + 1 \in Offsets
      BY <1>0, <2>2, <2>6, OffsetIs DEF tail
    <3>. QED
      BY <1>0, <2>4, <3>1 DEF Store
  <2>. QED
    BY <1>0, <1>1, <2>1, <2>5, <2>6 DEF PadWritten
<1>6. GoodRec(op.rec)
  BY <1>0 DEF ChainInv, Written, Appending
<1>7. Written'
  BY <1>0, <1>1, <1>2, <1>4, <1>5, <1>6 DEF Written
<1>8. Open' /\ Repairing'
  BY <1>0 DEF ChainInv, Open, Repairing, Using, Appending
<1>. QED
  BY <1>7, <1>8, WriteKeepsChain DEF ChainInv

\* The sequence number of the record at off; a PAD has none.
RecAt(d, off) == IF isPadAt(d, off) THEN <<>> ELSE <<seqAt(d, off)>>

\* The record Publish publishes.
LEMMA PublishIs ==
  ASSUME IInv, ChainInv, Publish
  PROVE  /\ Held(data, hdr.read_off, hdr.write_off, {})
         /\ Len(op.rec) \in Nat /\ Len(op.rec) > 2 /\ WriteAt \in Offsets
         /\ WriteAt = (IF kDataSize - hdr.write_off < Len(op.rec) THEN 0 ELSE hdr.write_off)
         /\ need = (IF kDataSize - hdr.write_off < Len(op.rec)
                    THEN kDataSize - hdr.write_off + Len(op.rec) ELSE Len(op.rec))
         /\ IF hdr.write_off >= hdr.read_off
            THEN kDataSize - 1 - (hdr.write_off - hdr.read_off) >= need
            ELSE hdr.read_off - hdr.write_off - 1 >= need
         /\ kDataSize - hdr.write_off < Len(op.rec) =>
              /\ data[hdr.write_off] = kDataSize - hdr.write_off
              /\ kDataSize - hdr.write_off >= 2 => data[hdr.write_off + 1] = REC_PAD
         /\ data[WriteAt] = Len(op.rec) /\ Typed(data, WriteAt)
         /\ RecAt(data, WriteAt) = <<StampSeq>>
<1>. DEFINE r == hdr.read_off
            w == hdr.write_off
            len == Len(op.rec)
            at == WriteAt
<1>0. /\ pc = "head" /\ data \in Ring /\ r \in Offsets /\ w \in Offsets /\ kDataSize \in Nat
  BY RingTypes, RingFacts DEF Publish
<1>1. Held(data, r, w, {})
  BY <1>0, HeldLess DEF ChainInv, Open, Chained, Using, Appending
<1>5. /\ len \in Nat /\ len > 2 /\ at \in Offsets /\ at \in Nat /\ at + len <= kDataSize
      /\ DOMAIN RecBytes = at .. at + len - 1
  <2>1. /\ at \in Offsets /\ len \in Nat /\ len > 2 /\ at + len \in 0 .. kDataSize
    BY <1>0, WriteFacts DEF IInv, Appending
  <2>. QED
    BY <1>0, <2>1, OffsetIs DEF RecBytes, RecLen
<1>6. GoodRec(op.rec) /\ (Pads => PadWritten) /\ freeBytes(hdr) >= need
      /\ \A o \in DOMAIN RecBytes : data[o] = RecBytes[o]
  BY <1>0 DEF ChainInv, Written, Appending
<1>7. at = (IF kDataSize - w < len THEN 0 ELSE w)
      /\ need = IF kDataSize - w < len THEN kDataSize - w + len ELSE len
  BY DEF WriteAt, need, Pads, tail, RecLen
<1>8. IF w >= r THEN kDataSize - 1 - (w - r) >= need ELSE r - w - 1 >= need
  BY <1>0, <1>6, RoomIs DEF Appending
<1>9. kDataSize - w < len =>
        data[w] = kDataSize - w /\ (kDataSize - w >= 2 => data[w + 1] = REC_PAD)
  BY <1>6 DEF Pads, PadWritten, tail, RecLen
<1>10. \A i \in 0 .. len - 1 : i # 2 => data[at + i] = op.rec[i + 1]
  <2>1. ASSUME NEW i \in 0 .. len - 1, i # 2 PROVE data[at + i] = op.rec[i + 1]
    <3>1. at + i \in DOMAIN RecBytes /\ at + i # at + 2 /\ (at + i) - at + 1 = i + 1
      BY <1>5, <2>1
    <3>2. RecBytes[at + i] = op.rec[i + 1]
      BY <3>1 DEF RecBytes
    <3>. QED
      BY <1>6, <3>1, <3>2
  <2>. QED
    BY <2>1
<1>11. data[at] = op.rec[1] /\ data[at + 1] = op.rec[2]
  <2>1. 0 \in 0 .. len - 1 /\ 1 \in 0 .. len - 1 /\ at + 0 = at /\ 0 + 1 = 1 /\ 1 + 1 = 2
    BY <1>5
  <2>2. data[at + 0] = op.rec[0 + 1] /\ data[at + 1] = op.rec[1 + 1]
    BY <1>10, <2>1
  <2>. QED
    BY <2>1, <2>2
<1>12. len \in CmdLens => data[at + kRecordHeaderLen] = op.rec[kRecordHeaderLen + 1]
  <2>1. len \in CmdLens => kRecordHeaderLen \in 0 .. len - 1 /\ kRecordHeaderLen # 2
    BY <1>5, RingAssumption DEF CmdLens
  <2>. QED
    BY <1>10, <2>1
<1>s. data[at + 2] = StampSeq
  <2>1. at + 2 \in DOMAIN RecBytes
    BY <1>5
  <2>2. RecBytes[at + 2] = StampSeq
    BY <2>1 DEF RecBytes
  <2>. QED
    BY <1>6, <2>1, <2>2
<1>. HIDE DEF len, at, r, w
<1>13. op.rec[1] = len
       /\ \/ /\ op.rec[2] = REC_CMD /\ len \in CmdLens
             /\ op.rec[kRecordHeaderLen + 1] = len - (kRecordHeaderLen + 1)
          \/ op.rec[2] = REC_FRAME /\ len = kFrameRecordLen
          \/ op.rec[2] = REC_STATE /\ len = kStateRecordLen
  BY <1>6 DEF GoodRec, len
<1>l. len >= kRecordHeaderLen
  BY <1>5, <1>13, RingAssumption DEF CmdLens
<1>14. data[at] = len /\ Typed(data, at)
  BY <1>5, <1>11, <1>12, <1>13, <1>l, RingAssumption DEF Typed
<1>15. RecAt(data, at) = <<StampSeq>>
  <2>1. op.rec[2] # REC_PAD
    BY <1>13 DEF REC_PAD, REC_CMD, REC_FRAME, REC_STATE
  <2>2. ~isPadAt(data, at)
    BY <1>11, <1>14, <1>l, <2>1 DEF isPadAt
  <2>. QED
    BY <1>s, <2>2 DEF RecAt, seqAt
<1>. QED
  BY <1>1, <1>5, <1>7, <1>8, <1>9, <1>14, <1>15 DEF len, at, r, w

\* The header publishes a chain that is one record longer.
LEMMA PublishChain ==
  ASSUME IInv, ChainInv, Publish PROVE ChainInv'
<1>. DEFINE r == hdr.read_off
            w == hdr.write_off
            len == Len(op.rec)
            at == WriteAt
            n == need
<1>0. /\ pc = "head" /\ data' = data /\ ring_ok' = ring_ok /\ enabled' = enabled
      /\ data \in Ring /\ r \in Offsets /\ w \in Offsets /\ hdr \in Header
  BY RingTypes DEF Publish, volatile, IInv, TypeOK
<1>1. ring_ok
  BY <1>0 DEF ChainInv, Open, Using, Appending
<1>2. pc' \in {"trip", "marked", "episode", "idle", "bootrec", "cfgoff"}
  BY <1>0, RingTypes DEF Publish, Return
<1>3. hdr' = [hdr EXCEPT !.write_off = Wrap(at + len), !.next_seq = (StampSeq + 1) % SeqMod]
  BY DEF Publish, sealHeader, RecLen
<1>4. hdr'.read_off = r /\ hdr'.write_off = Wrap(at + len)
  BY <1>0, <1>3 DEF Header
<1>5. /\ Held(data, r, w, {}) /\ len \in Nat /\ len > 2
      /\ at = (IF kDataSize - w < len THEN 0 ELSE w)
      /\ n = (IF kDataSize - w < len THEN kDataSize - w + len ELSE len)
      /\ IF w >= r THEN kDataSize - 1 - (w - r) >= n ELSE r - w - 1 >= n
      /\ kDataSize - w < len =>
           data[w] = kDataSize - w /\ (kDataSize - w >= 2 => data[w + 1] = REC_PAD)
      /\ data[at] = len /\ Typed(data, at)
  BY PublishIs
<1>. HIDE DEF r, w, len, at, n
<1>6. Held(data, r, Wrap(at + len), {})
  BY <1>0, <1>5, HeldPublished
<1>7. Chained'
  BY <1>0, <1>2, <1>4, <1>6 DEF Chained, Standing
<1>8. Open' /\ Repairing' /\ Written'
  BY <1>0, <1>1, <1>2 DEF ChainInv, Open, Repairing, Written, Using, Appending
<1>. QED
  BY <1>7, <1>8 DEF ChainInv

\* repairChain: the walk has a chain behind it and stays between the cursors.
LEMMA RepairWalk ==
  ASSUME NEW d \in Ring, NEW r \in Offsets, NEW w \in Offsets, NEW off \in Between(r, w),
         wellFormedAt(d, off, w), Held(d, r, off, {}), NEW x, x = Wrap(off + d[off])
  PROVE  x \in Between(r, w) \cup {w} /\ Held(d, r, x, {})
<1>0. /\ r \in Nat /\ w \in Nat /\ off \in Nat /\ off \in Offsets /\ kDataSize \in Nat
      /\ r < kDataSize /\ w < kDataSize /\ off < kDataSize
      /\ IF r <= w THEN r <= off /\ off < w ELSE r <= off \/ off < w
  BY OffsetIs, RingFacts DEF Between
<1>1. Typed(d, off) /\ ~(off < w /\ off + d[off] > w)
  BY WellFormedIs
<1>2. d[off] \in Nat \ {0} /\ off + d[off] <= kDataSize
  BY <1>0, <1>1, SpanIs
<1>3. x = IF off + d[off] = kDataSize THEN 0 ELSE off + d[off]
  BY DEF Wrap
<1>4. x \in Offsets /\ x \in Nat
  BY <1>0, <1>2, <1>3, OffsetIs
<1>5. x = w \/ IF r <= w THEN r <= x /\ x < w ELSE r <= x \/ x < w
  BY <1>0, <1>1, <1>2, <1>3, <1>4
<1>6. x # r /\ ~(IF r <= off THEN r <= x /\ x < off ELSE r <= x \/ x < off)
  BY <1>0, <1>1, <1>2, <1>3, <1>4
<1>7. ASSUME NEW o \in Span(d, off) PROVE o \notin Between(r, off)
  <2>1. o \in Nat /\ off <= o /\ o < off + d[off]
    BY <1>0, <1>2 DEF Span
  <2>2. ~(IF r <= off THEN r <= o /\ o < off ELSE r <= o \/ o < off)
    BY <1>0, <1>1, <1>2, <2>1
  <2>. QED
    BY <2>2 DEF Between
<1>8. Held(d, r, x, {})
  <2>1. x \notin Between(r, off)
    BY <1>6 DEF Between
  <2>. QED
    BY <1>0, <1>1, <1>6, <1>7, <2>1, HeldLonger
<1>. QED
  BY <1>4, <1>5, <1>8 DEF Between

LEMMA BeginChain ==
  ASSUME IInv, ChainInv, begin PROVE ChainInv'
<1>0. data \in Ring /\ hdr.read_off \in Offsets /\ hdr.write_off \in Offsets /\ hdr \in Header
  BY RingTypes DEF IInv, TypeOK
<1>b. ASSUME pc' = "bootrec", data' = data, ring_ok' = TRUE, Held(data, hdr'.read_off, hdr'.write_off, {})
      PROVE  ChainInv'
  BY <1>b DEF ChainInv, Open, Chained, Repairing, Written, Standing, Using, Appending
<1>1. CASE BeginGuarded
  <2>1. ~ring_ok
    BY <1>1 DEF BeginGuarded, ChainInv, Open
  <2>. QED
    BY <1>1, <2>1, ReturnStep DEF BeginGuarded, volatile, ChainInv, Open
<1>2. CASE initRing
  <2>1. hdr'.read_off = 0 /\ hdr'.write_off = 0
    BY <1>2 DEF initRing, sealHeader, FreshHeader
  <2>2. Held(data, hdr'.read_off, hdr'.write_off, {})
    BY <1>0, <2>1, HeldEmpty, RingFacts
  <2>. QED
    BY <1>2, <2>2, <1>b DEF initRing, BeginRecording
<1>3. CASE BeginKeep
  <2>1. /\ pc = "boot" /\ pc' = "repair" /\ hdr' = hdr /\ data' = data
        /\ ring_ok' = ring_ok /\ enabled' = enabled /\ op'.off = hdr.read_off
    BY <1>3 DEF BeginKeep, volatile, Idle
  <2>2. ~ring_ok /\ ~enabled
    BY <2>1 DEF ChainInv, Open
  <2>3. hdr.read_off \in Between(hdr.read_off, hdr.write_off) \cup {hdr.write_off}
    <3>1. hdr.read_off \in Nat /\ hdr.write_off \in Nat
      BY <1>0, OffsetIs
    <3>2. CASE hdr.read_off <= hdr.write_off
      BY <1>0, <3>1, <3>2 DEF Between
    <3>3. CASE ~(hdr.read_off <= hdr.write_off)
      BY <1>0, <3>1, <3>3 DEF Between
    <3>. QED  BY <3>2, <3>3
  <2>4. Held(data, hdr.read_off, hdr.read_off, {})
    BY <1>0, HeldEmpty
  <2>. QED
    BY <2>1, <2>2, <2>3, <2>4
       DEF ChainInv, Open, Chained, Repairing, Written, Using, Appending
<1>4. CASE RepairStep
  <2>1. /\ pc = "repair" /\ pc' = "repair" /\ hdr' = hdr /\ data' = data
        /\ ring_ok' = ring_ok /\ enabled' = enabled
        /\ op'.off = Wrap(op.off + data[op.off])
        /\ op.off # hdr.write_off /\ wellFormedAt(data, op.off, hdr.write_off)
    BY <1>4, RingTypes DEF RepairStep, volatile, Locals
  <2>2. op.off \in Between(hdr.read_off, hdr.write_off) /\ Held(data, hdr.read_off, op.off, {})
        /\ ~ring_ok /\ ~enabled
    BY <2>1 DEF ChainInv, Repairing, Open
  <2>3. /\ op'.off \in Between(hdr.read_off, hdr.write_off) \cup {hdr.write_off}
        /\ Held(data, hdr.read_off, op'.off, {})
    BY <1>0, <2>1, <2>2, RepairWalk
  <2>. QED
    BY <2>1, <2>2, <2>3 DEF ChainInv, Open, Chained, Repairing, Written, Using, Appending
<1>5. CASE RepairDone
  <2>1. Held(data, hdr.read_off, op.off, {})
    BY <1>5 DEF RepairDone, ChainInv, Repairing
  <2>2. hdr'.read_off = hdr.read_off /\ hdr'.write_off = op.off
    BY <1>0, <1>5 DEF RepairDone, sealHeader, Header
  <2>. QED
    BY <1>5, <2>1, <2>2, <1>b DEF RepairDone, BeginRecording
<1>6. CASE BootRecord
  <2>1. ring_ok' = ring_ok /\ enabled' = enabled
    BY <1>6 DEF BootRecord, volatile
  <2>2. CASE enabled /\ AppendCall(buildState(0), "bootrec", op.todo - 1)
    <3>1. GoodRec(buildState(0)) /\ ring_ok
      BY <2>2, GoodRecords DEF ChainInv, Open
    <3>2. data' = data /\ hdr' = hdr /\ pc' \in {"room", "trip"} /\ (pc' = "room" => GoodRec(op'.rec))
      BY <2>2, <3>1, AppendCallGood
    <3>. QED
      BY <2>1, <3>1, <3>2, CallStep
  <2>3. CASE pc' = "idle" /\ UNCHANGED <<hdr, nv, data>>
    BY <2>1, <2>3, ReturnStep DEF ChainInv, Open
  <2>. QED
    BY <1>6, <2>2, <2>3 DEF BootRecord
<1>. QED
  BY <1>1, <1>2, <1>3, <1>4, <1>5, <1>6 DEF begin

LEMMA DrainChain ==
  ASSUME IInv, ChainInv, Drain PROVE ChainInv'
<1>0. /\ data \in Ring /\ hdr.read_off \in Offsets /\ hdr.write_off \in Offsets /\ hdr \in Header
      /\ op \in Locals
  BY RingTypes DEF IInv, TypeOK
<1>o. enabled => ring_ok
  BY DEF ChainInv, Open
<1>1. ASSUME NEW a, handleGetTelemetryBlock(a) PROVE ChainInv'
  <2>0. ring_ok' = ring_ok /\ enabled' = enabled
    BY <1>1 DEF handleGetTelemetryBlock, volatile
  <2>1. CASE ring_ok /\ TripCall("idle")
    BY <2>0, <2>1, TripCallGood, CallStep
  <2>2. CASE pc' = "reply" /\ UNCHANGED <<hdr, nv, data>>
    BY <2>0, <2>2, <1>o, ReturnStep
  <2>3. CASE /\ ring_ok /\ pc' \in {"ack", "peek"} /\ UNCHANGED <<hdr, nv, data>>
             /\ op'.off = hdr.read_off
    <3>1. pc' \notin Appending /\ pc' \notin {"boot", "repair", "rec", "head"}
      BY <2>3 DEF Appending
    <3>. QED
      BY <2>0, <2>3, <3>1, PlainStep
  <2>4. [Idle EXCEPT !.off = hdr.read_off, !.ack = a].off = hdr.read_off
        /\ [Idle EXCEPT !.off = hdr.read_off, !.ack = op.ack].off = hdr.read_off
    BY DEF Idle
  <2>. QED
    BY <1>1, <2>1, <2>2, <2>3, <2>4 DEF handleGetTelemetryBlock, PeekFrom
<1>2. CASE AckStep
  <2>1. op'.off = Wrap(op.off + data[op.off])
    BY <1>0, <1>2 DEF AckStep, Locals
  <2>. QED
    BY <1>2, <2>1, WalkStep DEF AckStep, AckFrees, volatile
<1>3. CASE AckDone
  <2>1. /\ pc = "ack" /\ pc' = "peek" /\ data' = data /\ ring_ok' = ring_ok /\ enabled' = enabled
        /\ op'.off = op.off
    BY <1>3 DEF AckDone, PeekFrom, volatile, Idle
  <2>2. ring_ok
    BY <2>1 DEF ChainInv, Open, Using
  <2>3. hdr'.read_off = op.off /\ hdr'.write_off = hdr.write_off
    BY <1>0, <1>3 DEF AckDone, sealHeader, Header
  <2>4. Held(data, hdr.read_off, hdr.write_off, {op.off})
    BY <2>1, <2>2 DEF ChainInv, Chained, Standing
  <2>5. Held(data, op.off, hdr.write_off, {op.off})
    BY <1>0, <2>4, HeldRest
  <2>6. Chained'
    BY <2>1, <2>3, <2>5 DEF Chained, Standing
  <2>. QED
    BY <2>1, <2>2, <2>6 DEF ChainInv, Open, Repairing, Written, Using, Appending
<1>4. CASE PeekStep
  <2>1. op'.off = Wrap(op.off + data[op.off])
    BY <1>0, <1>4 DEF PeekStep, Locals
  <2>. QED
    BY <1>4, <2>1, WalkStep DEF PeekStep, PeekTakes, volatile
<1>5. CASE PeekDone
  BY <1>5, <1>o, ReturnStep DEF PeekDone, volatile
<1>6. CASE Reply
  BY <1>6, <1>o, ReturnStep DEF Reply, volatile
<1>. QED
  BY <1>1, <1>2, <1>3, <1>4, <1>5, <1>6 DEF Drain

LEMMA AppendChain ==
  ASSUME IInv, ChainInv, append PROVE ChainInv'
<1>0. hdr \in Header /\ op.ret \in {"idle", "bootrec", "cfgoff"} /\ (enabled => ring_ok)
  BY RingTypes DEF IInv, TypeOK, ChainInv, Open
<1>1. CASE NewEpisode
  <2>. DEFINE since == hdr.dropped - dropped_reported
  <2>1. since \in Nat
    BY RingTypes DEF IInv, DropInv, TypeOK
  <2>2. op'.rec = buildState(since) /\ GoodRec(buildState(since))
    BY <1>1, <2>1, GoodRecords, RingTypes DEF NewEpisode, Locals
  <2>3. ring_ok
    BY <1>1 DEF NewEpisode, ChainInv, Open, Using
  <2>. QED
    BY <1>1, <2>2, <2>3, CallStep DEF NewEpisode, volatile
<1>2. CASE SameEpisode
  BY <1>0, <1>2, ReturnStep DEF SameEpisode, Return, volatile
<1>3. CASE MarkerDone
  BY <1>0, <1>3, ReturnStep DEF MarkerDone, Return
<1>4. CASE TripDone
  <2>1. hdr'.read_off = hdr.read_off /\ hdr'.write_off = hdr.write_off
    BY <1>0, <1>4 DEF TripDone, sealHeader, Header
  <2>. QED
    BY <1>0, <1>4, <2>1, ReturnStep DEF TripDone, Return
<1>. QED
  BY <1>1, <1>2, <1>3, <1>4 DEF append

LEMMA ConfigureChain ==
  ASSUME IInv, ChainInv, Configure PROVE ChainInv'
<1>0. hdr \in Header /\ (enabled => ring_ok) /\ GoodRec(buildState(0))
  BY GoodRecords DEF IInv, TypeOK, ChainInv, Open
<1>1. CASE ConfigureOn
  <2>1. hdr'.read_off = hdr.read_off /\ hdr'.write_off = hdr.write_off
    BY <1>0, <1>1 DEF ConfigureOn, sealHeader, Header
  <2>2. op'.rec = buildState(0)
    BY <1>1 DEF ConfigureOn, Idle
  <2>3. ring_ok /\ ring_ok' = ring_ok /\ pc' = "room" /\ data' = data
    BY <1>1 DEF ConfigureOn, ChainInv, Open, Using
  <2>. QED
    BY <1>0, <2>1, <2>2, <2>3, PlainStep
<1>2. CASE ConfigureOff
  <2>1. hdr'.read_off = hdr.read_off /\ hdr'.write_off = hdr.write_off
    BY <1>0, <1>2 DEF ConfigureOff, sealHeader, Header
  <2>. QED
    BY <1>2, <2>1, ReturnStep DEF ConfigureOff
<1>3. ASSUME NEW on \in BOOLEAN, NEW synth \in BOOLEAN, configure(on, synth) PROVE ChainInv'
  <2>0. ring_ok /\ ring_ok' = ring_ok /\ enabled' = enabled /\ pc = "idle"
    BY <1>3 DEF configure
  <2>1. CASE TripCall("idle")
    BY <2>0, <2>1, TripCallGood, CallStep
  <2>2. CASE pc' = "cfgon" /\ UNCHANGED <<hdr, nv, data>>
    <3>1. pc' \notin Appending
      BY <2>2 DEF Appending
    <3>. QED
      BY <2>0, <2>2, <3>1, PlainStep
  <2>3. CASE pc' = "room" /\ op'.rec = buildState(0) /\ UNCHANGED <<hdr, nv, data>>
    BY <1>0, <2>0, <2>3, CallStep
  <2>4. CASE pc' = pc /\ UNCHANGED <<hdr, nv, data>>
    BY <1>0, <2>0, <2>4, ReturnStep
  <2>5. [Idle EXCEPT !.rec = buildState(0),
                     !.ret = IF on THEN "idle" ELSE "cfgoff"].rec = buildState(0)
    BY DEF Idle
  <2>. QED
    BY <1>3, <2>1, <2>2, <2>3, <2>4, <2>5 DEF configure
<1>. QED
  BY <1>1, <1>2, <1>3 DEF Configure

LEMMA ChainInductive == IInv /\ ChainInv /\ [Next]_vars => ChainInv'
<1>. SUFFICES ASSUME IInv, ChainInv, [Next]_vars PROVE ChainInv'
  OBVIOUS
<1>o. enabled => ring_ok
  BY DEF ChainInv, Open
<1>1. CASE appendRaw
  BY <1>1, EvictChain, RoomDoneChain, PadChain, RecordChain, PublishChain DEF appendRaw
<1>2. CASE append
  BY <1>2, AppendChain
<1>3. CASE begin
  BY <1>3, BeginChain
<1>4. CASE Configure
  BY <1>4, ConfigureChain
<1>5. CASE Drain
  BY <1>5, DrainChain
<1>6. CASE Produce
  <2>1. PICK rec \in ProducerRecords : AppendCall(rec, "idle", 0)
    BY <1>6 DEF Produce
  <2>2. GoodRec(rec) /\ ring_ok /\ ring_ok' = ring_ok /\ enabled' = enabled
    BY <1>6, <1>o, GoodRecords DEF Produce, volatile
  <2>. QED
    BY <2>1, <2>2, AppendCallGood, CallStep
<1>7. CASE service
  <2>0. ring_ok /\ ring_ok' = ring_ok /\ enabled' = enabled /\ GoodRec(SynthRecord)
    BY <1>7, GoodRecords DEF service, volatile
  <2>1. CASE TripCall("idle")
    BY <2>0, <2>1, TripCallGood, CallStep
  <2>2. CASE AppendCall(SynthRecord, "idle", 0)
    BY <2>0, <2>2, AppendCallGood, CallStep
  <2>. QED
    BY <1>7, <2>1, <2>2 DEF service
<1>8. CASE HeapGrows
  BY <1>8, <1>o, ReturnStep DEF HeapGrows, volatile
<1>9. CASE \E torn \in BOOLEAN : Reset(torn)
  BY <1>9 DEF Reset, ChainInv, Open, Chained, Repairing, Written, Using, Appending
<1>10. CASE UNCHANGED vars
  <2>1. /\ hdr' = hdr /\ data' = data /\ pc' = pc /\ op' = op /\ ring_ok' = ring_ok
        /\ enabled' = enabled
    BY <1>10 DEF vars, volatile
  <2>2. Open' /\ Chained' /\ Repairing'
    BY <2>1 DEF ChainInv, Open, Chained, Repairing, Standing
  <2>3. Written'
    BY <2>1 DEF ChainInv, Written, PadWritten, tail, Pads, RecLen, need, freeBytes, usedBytes,
                RecBytes, WriteAt, StampSeq
  <2>. QED
    BY <2>2, <2>3 DEF ChainInv
<1>. QED
  BY <1>1, <1>2, <1>3, <1>4, <1>5, <1>6, <1>7, <1>8, <1>9, <1>10 DEF Next

\* The ring is well formed at every step, for every ring size and set of record
\* lengths: each field is in its range, and whatever a reset, torn or clean, in
\* the middle of whichever write left behind, repairChain rebuilds a chain on
\* which makeRoom, ack and peek never meet a byte that is not a record's first.
THEOREM RingIsSound == Spec => []RingSound
<1>1. Init => ChainInv
  BY DEF Init, ChainInv, Open, Chained, Repairing, Written, Using, Appending
<1>2. Spec => []ChainInv
  BY <1>1, ChainInductive, Invariance, PTL DEF Spec
<1>3. IInv /\ ChainInv => RingSound
  BY NeverBroken DEF RingSound, IInv
<1>. QED
  BY <1>2, <1>3, Invariance, PTL

------------------------------------------------------------------------------
(***************************************************************************)
(* The records between two cursors.  RecordsTo is a recursive function; it *)
(* exists and is unique because each step of the walk leaves fewer bytes.  *)
(***************************************************************************)
LEMMA Least ==
  ASSUME NEW S \in SUBSET Nat, S # {}
  PROVE  \E m \in S : \A n \in S : m <= n
<1>1. IsWellFoundedOn(OpToRel(<, Nat), Nat)
  BY NatLessThanWellFounded, Zenon
<1>2. PICK x \in S : \A y \in S : <<y, x>> \notin OpToRel(<, Nat)
  BY <1>1, WFMin, Zenon
<1>3. ASSUME NEW y \in S PROVE x <= y
  <2>1. <<y, x>> \notin {z \in Nat \X Nat : z[1] < z[2]}
    BY <1>2 DEF OpToRel
  <2>. QED
    BY <2>1
<1>. QED
  BY <1>3

\* A walk that ends where stop says and goes on at a smaller number next.
Walks(f, n, stop, hd, next) ==
  \A k \in 0 .. n - 1 : f[k] = IF stop[k] THEN <<>> ELSE hd[k] \o f[next[k]]

LEMMA WalkExists ==
  ASSUME NEW n \in Nat, NEW stop, NEW hd, NEW next,
         \A k \in 0 .. n - 1 : hd[k] \in Seq(Nat),
         \A k \in 0 .. n - 1 : ~stop[k] => next[k] \in Nat /\ next[k] < k
  PROVE  \E f \in [0 .. n - 1 -> Seq(Nat)] : Walks(f, n, stop, hd, next)
<1>. DEFINE P(m) == \E f \in [0 .. m - 1 -> Seq(Nat)] : Walks(f, m, stop, hd, next)
            S == {m \in Nat : m <= n /\ ~P(m)}
<1>. SUFFICES ASSUME ~P(n) PROVE FALSE
  OBVIOUS
<1>. HIDE DEF P
<1>0. n \in S
  OBVIOUS
<1>1. PICK m \in S : \A i \in S : m <= i
  BY <1>0, Least
<1>2. m \in Nat /\ m <= n /\ ~P(m)
  OBVIOUS
<1>3. P(0)
  <2>. DEFINE z == [k \in 0 .. 0 - 1 |-> <<>>]
  <2>1. z \in [0 .. 0 - 1 -> Seq(Nat)]
    OBVIOUS
  <2>2. Walks(z, 0, stop, hd, next)
    BY DEF Walks
  <2>. QED
    BY <2>1, <2>2 DEF P
<1>4. m - 1 \in Nat /\ m # 0
  BY <1>2, <1>3
<1>5. P(m - 1)
  BY <1>1, <1>2, <1>4
<1>6. PICK f \in [0 .. (m - 1) - 1 -> Seq(Nat)] : Walks(f, m - 1, stop, hd, next)
  BY <1>5 DEF P
<1>. DEFINE j == m - 1
            v == IF stop[j] THEN <<>> ELSE hd[j] \o f[next[j]]
            g == [k \in 0 .. m - 1 |-> IF k = j THEN v ELSE f[k]]
<1>7. v \in Seq(Nat)
  <2>1. CASE stop[j]
    <3>1. v = <<>>
      BY <2>1
    <3>. QED
      BY <3>1
  <2>2. CASE ~stop[j]
    <3>1. j \in 0 .. n - 1 /\ next[j] \in 0 .. (m - 1) - 1
      BY <1>2, <1>4, <2>2
    <3>2. hd[j] \in Seq(Nat) /\ f[next[j]] \in Seq(Nat)
      BY <3>1
    <3>. QED
      BY <2>2, <3>2
  <2>. QED
    BY <2>1, <2>2
<1>8. g \in [0 .. m - 1 -> Seq(Nat)]
  <2>. HIDE DEF v
  <2>1. ASSUME NEW k \in 0 .. m - 1, k # j PROVE k \in 0 .. (m - 1) - 1
    BY <1>2, <1>4, <2>1
  <2>. QED
    BY <1>7, <2>1
<1>9. Walks(g, m, stop, hd, next)
  <2>. SUFFICES ASSUME NEW k \in 0 .. m - 1
                PROVE  g[k] = IF stop[k] THEN <<>> ELSE hd[k] \o g[next[k]]
    BY DEF Walks
  <2>1. ~stop[k] => next[k] \in 0 .. m - 1 /\ next[k] # j /\ next[k] < k
    BY <1>2, <1>4
  <2>2. ~stop[k] => g[next[k]] = f[next[k]]
    BY <2>1
  <2>3. CASE k = j
    <3>1. g[k] = v
      BY <2>3
    <3>. QED
      BY <2>2, <2>3, <3>1
  <2>4. CASE k # j
    <3>1. k \in 0 .. (m - 1) - 1
      BY <1>2, <1>4, <2>4
    <3>2. g[k] = f[k]
      BY <2>4
    <3>3. f[k] = IF stop[k] THEN <<>> ELSE hd[k] \o f[next[k]]
      BY <1>6, <3>1 DEF Walks
    <3>. HIDE DEF g
    <3>. QED
      BY <2>2, <3>2, <3>3
  <2>. QED
    BY <2>3, <2>4
<1>. HIDE DEF g
<1>. QED
  BY <1>2, <1>8, <1>9 DEF P

LEMMA WalkUnique ==
  ASSUME NEW n \in Nat, NEW stop, NEW hd, NEW next, NEW f, NEW g,
         \A k \in 0 .. n - 1 : ~stop[k] => next[k] \in Nat /\ next[k] < k,
         Walks(f, n, stop, hd, next), Walks(g, n, stop, hd, next)
  PROVE  \A k \in 0 .. n - 1 : f[k] = g[k]
<1>. DEFINE S == {k \in 0 .. n - 1 : f[k] # g[k]}
<1>. SUFFICES ASSUME S # {} PROVE FALSE
  OBVIOUS
<1>0. S \in SUBSET Nat
  OBVIOUS
<1>1. PICK k \in S : \A i \in S : k <= i
  BY <1>0, Least
<1>2. k \in 0 .. n - 1 /\ f[k] # g[k]
  OBVIOUS
<1>3. /\ f[k] = IF stop[k] THEN <<>> ELSE hd[k] \o f[next[k]]
      /\ g[k] = IF stop[k] THEN <<>> ELSE hd[k] \o g[next[k]]
  BY <1>2 DEF Walks
<1>4. ~stop[k] => f[next[k]] = g[next[k]]
  <2>. SUFFICES ASSUME ~stop[k] PROVE f[next[k]] = g[next[k]]
    OBVIOUS
  <2>1. next[k] \in 0 .. n - 1 /\ ~(k <= next[k])
    BY <1>2
  <2>2. next[k] \notin S
    BY <1>1, <2>1
  <2>. QED
    BY <2>1, <2>2
<1>. QED
  BY <1>2, <1>3, <1>4

\* The bytes from a cursor to the end of the chain, and the records in them.
Dist(r, w) == IF w >= r THEN w - r ELSE kDataSize - r + w

Recs(d, r, w) == RecordsTo(d, w)[Dist(r, w)]

LEMMA DistIs ==
  ASSUME NEW r \in Offsets, NEW w \in Offsets
  PROVE  /\ Dist(r, w) \in Offsets /\ Dist(r, w) \in Nat /\ Dist(r, w) < kDataSize
         /\ BackFrom(w, Dist(r, w)) = r /\ (Dist(r, w) = 0 <=> r = w)
<1>1. r \in Nat /\ w \in Nat /\ r < kDataSize /\ w < kDataSize /\ kDataSize \in Nat
  BY OffsetIs, RingFacts
<1>2. Dist(r, w) \in Nat /\ Dist(r, w) < kDataSize /\ (Dist(r, w) = 0 <=> r = w)
  BY <1>1 DEF Dist
<1>3. BackFrom(w, Dist(r, w)) = r
  BY <1>1 DEF Dist, BackFrom
<1>. QED
  BY <1>2, <1>3, OffsetIs

LEMMA BackIs ==
  ASSUME NEW w \in Offsets, NEW k \in Offsets
  PROVE  BackFrom(w, k) \in Offsets /\ Dist(BackFrom(w, k), w) = k
<1>1. k \in Nat /\ w \in Nat /\ k < kDataSize /\ w < kDataSize /\ kDataSize \in Nat
  BY OffsetIs, RingFacts
<1>2. BackFrom(w, k) \in Nat /\ BackFrom(w, k) < kDataSize
  BY <1>1 DEF BackFrom
<1>3. Dist(BackFrom(w, k), w) = k
  BY <1>1 DEF BackFrom, Dist
<1>. QED
  BY <1>2, <1>3, OffsetIs

\* A record that is well formed ends closer to w.
LEMMA Closer ==
  ASSUME NEW d \in Ring, NEW r \in Offsets, NEW w \in Offsets, r # w, wellFormedAt(d, r, w)
  PROVE  /\ Wrap(r + d[r]) \in Offsets /\ d[r] \in Nat \ {0} /\ d[r] <= Dist(r, w)
         /\ Dist(Wrap(r + d[r]), w) = Dist(r, w) - d[r]
<1>1. r \in Nat /\ w \in Nat /\ r < kDataSize /\ w < kDataSize /\ kDataSize \in Nat
  BY OffsetIs, RingFacts
<1>2. Typed(d, r) /\ ~(r < w /\ r + d[r] > w)
  BY WellFormedIs
<1>3. d[r] \in Nat \ {0} /\ r + d[r] <= kDataSize
  BY <1>2, SpanIs
<1>4. Wrap(r + d[r]) \in Offsets
  BY WellFormedStep DEF Ring
<1>5. d[r] <= Dist(r, w) /\ Dist(Wrap(r + d[r]), w) = Dist(r, w) - d[r]
  BY <1>1, <1>2, <1>3 DEF Dist, Wrap
<1>. QED
  BY <1>3, <1>4, <1>5

LEMMA RecAtType ==
  ASSUME NEW d \in Ring, NEW r \in Offsets, Typed(d, r)
  PROVE  RecAt(d, r) \in Seq(Nat) /\ (isPadAt(d, r) => RecAt(d, r) = <<>>)
         /\ (~isPadAt(d, r) => RecAt(d, r) = <<seqAt(d, r)>> /\ seqAt(d, r) \in Nat)
<1>1. ASSUME ~isPadAt(d, r) PROVE seqAt(d, r) \in Nat
  <2>1. d[r] \in Nat /\ d[r] >= kRecordHeaderLen /\ r + d[r] <= kDataSize /\ r \in Nat
    BY <1>1, OffsetIs DEF isPadAt, Typed, Ring
  <2>2. r + 2 \in Offsets
    BY <2>1, RingAssumption, OffsetIs
  <2>. QED
    BY <2>2 DEF seqAt, Ring
<1>. QED
  BY <1>1 DEF RecAt

\* The walk of RecordsTo, as the functions Walks takes.
Stops(d, w) == [k \in Offsets |-> k = 0 \/ ~wellFormedAt(d, BackFrom(w, k), w)]
Heads(d, w) == [k \in Offsets |-> IF Stops(d, w)[k] THEN <<>> ELSE RecAt(d, BackFrom(w, k))]
Nexts(d, w) == [k \in Offsets |-> k - d[BackFrom(w, k)]]

LEMMA WalkGoesDown ==
  ASSUME NEW d \in Ring, NEW w \in Offsets, NEW k \in Offsets
  PROVE  /\ Heads(d, w)[k] \in Seq(Nat)
         /\ ~Stops(d, w)[k] => /\ Nexts(d, w)[k] \in Nat /\ Nexts(d, w)[k] < k
                               /\ Heads(d, w)[k] = RecAt(d, BackFrom(w, k))
<1>. DEFINE r == BackFrom(w, k)
<1>1. r \in Offsets /\ Dist(r, w) = k /\ k \in Nat
  BY BackIs, OffsetIs
<1>2. CASE Stops(d, w)[k]
  <2>1. Heads(d, w)[k] = <<>>
    BY <1>2 DEF Heads
  <2>. QED
    BY <1>2, <2>1
<1>3. CASE ~Stops(d, w)[k]
  <2>1. k # 0 /\ wellFormedAt(d, r, w) /\ Nexts(d, w)[k] = k - d[r]
    BY <1>3 DEF Stops, Nexts
  <2>2. r # w
    BY <1>1, <2>1, DistIs
  <2>3. d[r] \in Nat \ {0} /\ d[r] <= k
    BY <1>1, <2>1, <2>2, Closer
  <2>4. Heads(d, w)[k] = RecAt(d, r) /\ Typed(d, r)
    BY <1>3, <2>1, WellFormedIs DEF Heads
  <2>5. RecAt(d, r) \in Seq(Nat)
    BY <1>1, <2>4, RecAtType
  <2>6. Nexts(d, w)[k] \in Nat /\ Nexts(d, w)[k] < k
    BY <1>1, <2>1, <2>3
  <2>. QED
    BY <2>4, <2>5, <2>6
<1>. QED
  BY <1>2, <1>3

LEMMA RecordsToIs ==
  ASSUME NEW d \in Ring, NEW w \in Offsets
  PROVE  /\ RecordsTo(d, w) \in [Offsets -> Seq(Nat)]
         /\ Walks(RecordsTo(d, w), kDataSize, Stops(d, w), Heads(d, w), Nexts(d, w))
<1>. DEFINE stop == Stops(d, w)
            hd == Heads(d, w)
            next == Nexts(d, w)
            body(f, k) == IF k = 0 \/ ~wellFormedAt(d, BackFrom(w, k), w) THEN <<>>
                          ELSE (IF isPadAt(d, BackFrom(w, k)) THEN <<>>
                                ELSE <<seqAt(d, BackFrom(w, k))>>)
                               \o f[k - d[BackFrom(w, k)]]
            T == RecordsTo(d, w)
<1>0. Offsets = 0 .. kDataSize - 1 /\ kDataSize \in Nat
  BY RingFacts DEF Offsets
<1>1. T = CHOOSE walk : walk = [k \in Offsets |-> body(walk, k)]
  BY DEF RecordsTo
<1>. HIDE DEF T
<1>2. ASSUME NEW f, NEW k \in Offsets
      PROVE  body(f, k) = IF stop[k] THEN <<>> ELSE hd[k] \o f[next[k]]
  BY DEF Stops, Heads, Nexts, RecAt
<1>. HIDE DEF body
<1>. HIDE DEF stop, hd, next
<1>3. /\ \A k \in 0 .. kDataSize - 1 : hd[k] \in Seq(Nat)
      /\ \A k \in 0 .. kDataSize - 1 : ~stop[k] => next[k] \in Nat /\ next[k] < k
  BY <1>0, WalkGoesDown DEF stop, hd, next
<1>4. PICK f \in [0 .. kDataSize - 1 -> Seq(Nat)] : Walks(f, kDataSize, stop, hd, next)
  BY <1>0, <1>3, WalkExists
<1>5. f = [k \in Offsets |-> body(f, k)]
  <2>1. \A k \in Offsets : f[k] = body(f, k)
    BY <1>0, <1>2, <1>4 DEF Walks
  <2>2. f = [k \in Offsets |-> f[k]]
    BY <1>0
  <2>. QED
    BY <2>1, <2>2
<1>6. T = [k \in Offsets |-> body(T, k)]
  BY <1>1, <1>5
<1>7. \A k \in Offsets : T[k] = IF stop[k] THEN <<>> ELSE hd[k] \o T[next[k]]
  BY <1>2, <1>6
<1>8. Walks(T, kDataSize, stop, hd, next)
  BY <1>0, <1>7 DEF Walks
<1>9. \A k \in 0 .. kDataSize - 1 : T[k] = f[k]
  BY <1>0, <1>3, <1>4, <1>8, WalkUnique
<1>10. T = [k \in Offsets |-> T[k]]
  BY <1>6
<1>11. T \in [Offsets -> Seq(Nat)]
  BY <1>0, <1>9, <1>10
<1>. QED
  BY <1>8, <1>11 DEF T, stop, hd, next

\* The three ways a walk goes on from r, and that it returns sequence numbers.
LEMMA RecsIs ==
  ASSUME NEW d \in Ring, NEW r \in Offsets, NEW w \in Offsets
  PROVE  /\ Recs(d, r, w) \in Seq(Nat)
         /\ r = w \/ ~wellFormedAt(d, r, w) => Recs(d, r, w) = <<>>
         /\ r # w /\ wellFormedAt(d, r, w) =>
              Recs(d, r, w) = RecAt(d, r) \o Recs(d, Wrap(r + d[r]), w)
<1>. DEFINE k == Dist(r, w)
            T == RecordsTo(d, w)
<1>1. k \in Offsets /\ BackFrom(w, k) = r /\ (k = 0 <=> r = w) /\ k \in 0 .. kDataSize - 1
  BY DistIs DEF Offsets
<1>2. T \in [Offsets -> Seq(Nat)] /\ Recs(d, r, w) = T[k]
  BY RecordsToIs DEF Recs
<1>3. T[k] = IF Stops(d, w)[k] THEN <<>> ELSE Heads(d, w)[k] \o T[Nexts(d, w)[k]]
  BY <1>1, RecordsToIs DEF Walks
<1>4. Stops(d, w)[k] <=> r = w \/ ~wellFormedAt(d, r, w)
  BY <1>1 DEF Stops
<1>5. ASSUME r # w, wellFormedAt(d, r, w)
      PROVE  T[k] = RecAt(d, r) \o Recs(d, Wrap(r + d[r]), w)
  <2>1. Heads(d, w)[k] = RecAt(d, r) /\ Nexts(d, w)[k] = k - d[r]
    BY <1>1, <1>4, <1>5 DEF Heads, Nexts
  <2>2. Dist(Wrap(r + d[r]), w) = k - d[r]
    BY <1>5, Closer
  <2>. HIDE DEF k, T
  <2>. QED
    BY <1>3, <1>4, <1>5, <2>1, <2>2 DEF Recs, T
<1>. HIDE DEF k, T
<1>. QED
  BY <1>1, <1>2, <1>3, <1>4, <1>5

\* The record that begins nearest to w, of those in X.
LEMMA Nearest ==
  ASSUME NEW X \in SUBSET Offsets, X # {}, NEW w \in Offsets
  PROVE  \E x \in X : \A y \in X : Dist(x, w) <= Dist(y, w)
<1>. DEFINE S == {Dist(x, w) : x \in X}
<1>1. S \in SUBSET Nat /\ S # {}
  BY DistIs
<1>2. PICK m \in S : \A n \in S : m <= n
  BY <1>1, Least
<1>. QED
  BY <1>2

\* A well-formed record between the cursors ends between them, or at w.
LEMMA StaysBetween ==
  ASSUME NEW d \in Ring, NEW r \in Offsets, NEW w \in Offsets, NEW x \in Between(r, w),
         wellFormedAt(d, x, w)
  PROVE  /\ x \in Offsets /\ x # w /\ Wrap(x + d[x]) \in Between(r, w) \cup {w}
         /\ Span(d, x) \subseteq Between(r, w)
<1>0. /\ r \in Nat /\ w \in Nat /\ x \in Nat /\ x \in Offsets /\ kDataSize \in Nat
      /\ r < kDataSize /\ w < kDataSize /\ x < kDataSize
      /\ IF r <= w THEN r <= x /\ x < w ELSE r <= x \/ x < w
  BY OffsetIs, RingFacts DEF Between
<1>1. x # w
  BY <1>0
<1>2. Typed(d, x) /\ ~(x < w /\ x + d[x] > w)
  BY WellFormedIs
<1>3. /\ d[x] \in Nat \ {0} /\ x + d[x] <= kDataSize /\ Span(d, x) \subseteq Offsets
      /\ \A o \in Nat : o \in Span(d, x) <=> x <= o /\ o < x + d[x]
  BY <1>0, <1>2, SpanIs
<1>. DEFINE n == Wrap(x + d[x])
<1>4. n = IF x + d[x] = kDataSize THEN 0 ELSE x + d[x]
  BY DEF Wrap
<1>. HIDE DEF n
<1>5. n \in Nat /\ n < kDataSize /\ n \in Offsets
  BY <1>0, <1>3, <1>4, OffsetIs
<1>6. n = w \/ IF r <= w THEN r <= n /\ n < w ELSE r <= n \/ n < w
  BY <1>0, <1>2, <1>3, <1>4, <1>5
<1>7. ASSUME NEW o \in Span(d, x) PROVE o \in Between(r, w)
  <2>1. o \in Offsets /\ o \in Nat /\ x <= o /\ o < x + d[x]
    BY <1>3, OffsetIs
  <2>2. IF r <= w THEN r <= o /\ o < w ELSE r <= o \/ o < w
    BY <1>0, <1>2, <1>3, <2>1
  <2>. QED
    BY <2>1, <2>2 DEF Between
<1>8. n \in Between(r, w) \cup {w}
  BY <1>5, <1>6 DEF Between
<1>. QED
  BY <1>0, <1>1, <1>7, <1>8 DEF n

\* What wellFormedAt and RecAt read lies between the cursors.
LEMMA SameAt ==
  ASSUME NEW d \in Ring, NEW e \in Ring, NEW r \in Offsets, NEW w \in Offsets,
         \A o \in Between(r, w) : e[o] = d[o], NEW x \in Between(r, w), wellFormedAt(d, x, w)
  PROVE  wellFormedAt(e, x, w) /\ e[x] = d[x] /\ RecAt(e, x) = RecAt(d, x)
<1>1. Typed(d, x) /\ x \in Offsets /\ x \in Nat /\ ~(x < w /\ x + d[x] > w)
      /\ Span(d, x) \subseteq Between(r, w)
  BY StaysBetween, WellFormedIs, OffsetIs
<1>2. /\ d[x] \in Nat \ {0}
      /\ \A o \in Nat : o \in Span(d, x) <=> x <= o /\ o < x + d[x]
  BY <1>1, SpanIs
<1>3. \A o \in Nat : x <= o /\ o < x + d[x] => e[o] = d[o]
  BY <1>1, <1>2
<1>4. e[x] = d[x] /\ (d[x] > 1 => e[x + 1] = d[x + 1]) /\ (d[x] > 2 => e[x + 2] = d[x + 2])
  BY <1>1, <1>2, <1>3
<1>5. d[x] \in CmdLens => e[x + kRecordHeaderLen] = d[x + kRecordHeaderLen]
  <2>1. d[x] \in CmdLens => d[x] > kRecordHeaderLen
    BY RingAssumption DEF CmdLens
  <2>. QED
    BY <1>1, <1>2, <1>3, <2>1, RingAssumption
<1>6. Typed(e, x)
  BY <1>1, <1>2, <1>4, <1>5, RingAssumption DEF Typed
<1>7. d[x] >= kRecordHeaderLen => d[x] > 2
  BY <1>2, RingAssumption
<1>8. isPadAt(e, x) <=> isPadAt(d, x)
  BY <1>2, <1>4, <1>7, RingAssumption DEF isPadAt
<1>9. ~isPadAt(d, x) => seqAt(e, x) = seqAt(d, x)
  BY <1>2, <1>4, <1>7 DEF isPadAt, seqAt
<1>. QED
  BY <1>1, <1>4, <1>6, <1>8, <1>9, WellFormedIs DEF RecAt

LEMMA FromStart ==
  ASSUME NEW r \in Offsets, NEW w \in Offsets
  PROVE  r \in Between(r, w) \cup {w}
<1>1. r \in Nat /\ w \in Nat
  BY OffsetIs
<1>. QED
  BY <1>1 DEF Between

\* The records between the cursors are in the bytes between the cursors.
LEMMA RecsSame ==
  ASSUME NEW d \in Ring, NEW e \in Ring, NEW r \in Offsets, NEW w \in Offsets,
         \A o \in Between(r, w) : e[o] = d[o]
  PROVE  Recs(e, r, w) = Recs(d, r, w)
<1>. DEFINE X == {x \in Between(r, w) \cup {w} : Recs(e, x, w) # Recs(d, x, w)}
<1>. SUFFICES ASSUME X # {} PROVE FALSE
  BY FromStart
<1>1. X \in SUBSET Offsets
  BY DEF Between
<1>2. PICK x \in X : \A y \in X : Dist(x, w) <= Dist(y, w)
  BY <1>1, Nearest
<1>3. x \in Offsets /\ Recs(e, x, w) # Recs(d, x, w)
  BY <1>1
<1>4. x # w /\ x \in Between(r, w)
  BY <1>3, RecsIs
<1>5. wellFormedAt(d, x, w) <=> wellFormedAt(e, x, w)
  BY <1>4, SameAt
<1>6. wellFormedAt(d, x, w)
  BY <1>3, <1>5, RecsIs
<1>7. e[x] = d[x] /\ RecAt(e, x) = RecAt(d, x)
  BY <1>4, <1>6, SameAt
<1>. DEFINE n == Wrap(x + d[x])
<1>8. n \in Between(r, w) \cup {w} /\ n \in Offsets
  BY <1>3, <1>4, <1>6, StaysBetween, Closer
<1>9. ~(Dist(x, w) <= Dist(n, w))
  <2>1. d[x] \in Nat \ {0} /\ Dist(n, w) = Dist(x, w) - d[x] /\ Dist(x, w) \in Nat
    BY <1>3, <1>4, <1>6, Closer, DistIs
  <2>. HIDE DEF n
  <2>. QED
    BY <2>1
<1>10. Recs(e, n, w) = Recs(d, n, w)
  BY <1>2, <1>8, <1>9
<1>11. /\ Recs(d, x, w) = RecAt(d, x) \o Recs(d, n, w)
       /\ Recs(e, x, w) = RecAt(e, x) \o Recs(e, Wrap(x + e[x]), w)
  BY <1>3, <1>4, <1>5, <1>6, RecsIs
<1>. QED
  BY <1>3, <1>7, <1>10, <1>11

LEMMA Regroup ==
  ASSUME NEW a \in Seq(Nat), NEW p \in Seq(Nat), NEW q \in Seq(Nat)
  PROVE  (a \o p) \o q = a \o (p \o q)
BY ConcatAssociative, SMTT(60)

\* A walk over a chain that ends at m goes on at m.
LEMMA RecsConcat ==
  ASSUME NEW d \in Ring, NEW r \in Offsets, NEW m \in Offsets, NEW w \in Offsets,
         Held(d, r, m, {}), m \in Between(r, w) \cup {w}
  PROVE  Recs(d, r, w) = Recs(d, r, m) \o Recs(d, m, w)
<1>0. PICK B : Chain(B, d, r, m)
  BY DEF Held
<1>1. B \in SUBSET Offsets /\ r \in B /\ m \in B
  BY <1>0 DEF Chain
<1>. DEFINE X == {b \in B : Recs(d, b, w) # Recs(d, b, m) \o Recs(d, m, w)}
<1>. SUFFICES ASSUME X # {} PROVE FALSE
  BY <1>1
<1>2. X \in SUBSET Offsets
  BY <1>1
<1>3. PICK b \in X : \A y \in X : Dist(b, m) <= Dist(y, m)
  BY <1>2, Nearest
<1>4. b \in B /\ b \in Offsets /\ Recs(d, b, w) # Recs(d, b, m) \o Recs(d, m, w)
  BY <1>1
<1>t. Recs(d, m, w) \in Seq(Nat)
  BY RecsIs
<1>5. b # m
  <2>. SUFFICES ASSUME b = m PROVE FALSE
    OBVIOUS
  <2>1. Recs(d, m, m) = <<>>
    BY RecsIs
  <2>2. <<>> \o Recs(d, m, w) = Recs(d, m, w)
    BY <1>t, ConcatEmptySeq
  <2>. QED
    BY <1>4, <2>1, <2>2
<1>. DEFINE n == Wrap(b + d[b])
<1>6. wellFormedAt(d, b, m) /\ b \in Between(r, m) /\ n \in B /\ n \in Offsets
  BY <1>0, <1>1, <1>4, <1>5, ChainWellFormed
<1>7. wellFormedAt(d, b, w) /\ b # w
  <2>1. Typed(d, b) /\ ~(b < m /\ b + d[b] > m)
    BY <1>6, WellFormedIs
  <2>2. d[b] \in Nat \ {0} /\ b + d[b] <= kDataSize
    BY <1>4, <2>1, SpanIs
  <2>3. /\ r \in Nat /\ m \in Nat /\ w \in Nat /\ b \in Nat /\ kDataSize \in Nat
        /\ r < kDataSize /\ m < kDataSize /\ w < kDataSize /\ b < kDataSize
    BY <1>4, OffsetIs, RingFacts
  <2>4. IF r <= m THEN r <= b /\ b < m ELSE r <= b \/ b < m
    BY <1>6 DEF Between
  <2>5. m = w \/ IF r <= w THEN r <= m /\ m < w ELSE r <= m \/ m < w
    BY DEF Between
  <2>6. ~(b < w /\ b + d[b] > w) /\ b # w
    BY <2>1, <2>2, <2>3, <2>4, <2>5
  <2>. QED
    BY <2>1, <2>6, WellFormedIs
<1>8. ~(Dist(b, m) <= Dist(n, m))
  <2>1. d[b] \in Nat \ {0} /\ Dist(n, m) = Dist(b, m) - d[b] /\ Dist(b, m) \in Nat
    BY <1>4, <1>5, <1>6, Closer, DistIs
  <2>. HIDE DEF n
  <2>. QED
    BY <2>1
<1>9. Recs(d, n, w) = Recs(d, n, m) \o Recs(d, m, w)
  BY <1>3, <1>6, <1>8
<1>10. /\ Recs(d, b, w) = RecAt(d, b) \o Recs(d, n, w)
       /\ Recs(d, b, m) = RecAt(d, b) \o Recs(d, n, m)
  BY <1>4, <1>5, <1>6, <1>7, RecsIs
<1>11. RecAt(d, b) \in Seq(Nat) /\ Recs(d, n, m) \in Seq(Nat)
  BY <1>4, <1>6, RecAtType, RecsIs, WellFormedIs
<1>. HIDE DEF n, X
<1>12. (RecAt(d, b) \o Recs(d, n, m)) \o Recs(d, m, w)
         = RecAt(d, b) \o (Recs(d, n, m) \o Recs(d, m, w))
  <2>. DEFINE a == RecAt(d, b)
              p == Recs(d, n, m)
              q == Recs(d, m, w)
  <2>1. a \in Seq(Nat) /\ p \in Seq(Nat) /\ q \in Seq(Nat)
    BY <1>11, <1>t
  <2>. HIDE DEF a, p, q
  <2>2. (a \o p) \o q = a \o (p \o q)
    BY ONLY <2>1, Regroup
  <2>. QED
    BY <2>2 DEF a, p, q
<1>. QED
  BY <1>4, <1>9, <1>10, <1>12

\* One record further along the chain.
LEMMA RecsLonger ==
  ASSUME NEW d \in Ring, NEW r \in Offsets, NEW off \in Offsets, Held(d, r, off, {}),
         Typed(d, off), NEW x, x = Wrap(off + d[off]), x # off, off \in Between(r, x)
  PROVE  Recs(d, r, x) = Recs(d, r, off) \o RecAt(d, off)
<1>1. d[off] \in Nat \ {0} /\ off + d[off] <= kDataSize /\ off \in Nat /\ kDataSize \in Nat
  BY SpanIs, OffsetIs, RingFacts
<1>2. x = IF off + d[off] = kDataSize THEN 0 ELSE off + d[off]
  BY DEF Wrap
<1>3. x \in Offsets /\ ~(off < x /\ off + d[off] > x)
  BY <1>1, <1>2, OffsetIs
<1>4. wellFormedAt(d, off, x)
  BY <1>3, WellFormedIs
<1>5. Recs(d, off, x) = RecAt(d, off) \o Recs(d, x, x) /\ Recs(d, x, x) = <<>>
  BY <1>3, <1>4, RecsIs
<1>6. Recs(d, off, x) = RecAt(d, off)
  BY <1>5, RecAtType, ConcatEmptySeq
<1>7. Recs(d, r, x) = Recs(d, r, off) \o Recs(d, off, x)
  <2>1. d \in Ring /\ r \in Offsets /\ off \in Offsets /\ x \in Offsets
        /\ Held(d, r, off, {}) /\ off \in Between(r, x) \cup {x}
    BY <1>3
  <2>. QED
    BY ONLY <2>1, RecsConcat
<1>. QED
  BY ONLY <1>6, <1>7

\* The step of a walk from r to w: the record under it is the next one.
LEMMA RecsWalk ==
  ASSUME NEW d \in Ring, NEW r \in Offsets, NEW w \in Offsets, NEW off \in Between(r, w),
         wellFormedAt(d, off, w), Held(d, r, off, {}), NEW x, x = Wrap(off + d[off])
  PROVE  /\ Recs(d, r, x) = Recs(d, r, off) \o RecAt(d, off)
         /\ x \in Offsets /\ x \in Between(r, w) \cup {w} /\ Held(d, r, x, {})
<1>0. /\ r \in Nat /\ w \in Nat /\ off \in Nat /\ off \in Offsets /\ kDataSize \in Nat
      /\ r < kDataSize /\ w < kDataSize /\ off < kDataSize
      /\ IF r <= w THEN r <= off /\ off < w ELSE r <= off \/ off < w
  BY OffsetIs, RingFacts DEF Between
<1>1. Typed(d, off) /\ ~(off < w /\ off + d[off] > w)
  BY WellFormedIs
<1>2. d[off] \in Nat \ {0} /\ off + d[off] <= kDataSize
  BY <1>0, <1>1, SpanIs
<1>3. x = IF off + d[off] = kDataSize THEN 0 ELSE off + d[off]
  BY DEF Wrap
<1>4. x # off /\ IF r <= x THEN r <= off /\ off < x ELSE r <= off \/ off < x
  BY <1>0, <1>1, <1>2, <1>3
<1>5. x \in Between(r, w) \cup {w} /\ Held(d, r, x, {})
  BY RepairWalk
<1>6. x \in Offsets
  BY <1>5 DEF Between
<1>7. off \in Between(r, x)
  BY <1>0, <1>4 DEF Between
<1>. QED
  BY <1>0, <1>1, <1>4, <1>5, <1>6, <1>7, RecsLonger

\* The header that publishes a record, and the PAD before it, adds that record.
LEMMA RecsPublished ==
  ASSUME NEW d \in Ring, NEW r \in Offsets, NEW w \in Offsets, Held(d, r, w, {}),
         NEW len \in Nat, len > 2, NEW at, at = IF kDataSize - w < len THEN 0 ELSE w,
         NEW n, n = IF kDataSize - w < len THEN kDataSize - w + len ELSE len,
         IF w >= r THEN kDataSize - 1 - (w - r) >= n ELSE r - w - 1 >= n,
         kDataSize - w < len =>
           d[w] = kDataSize - w /\ (kDataSize - w >= 2 => d[w + 1] = REC_PAD),
         d[at] = len, Typed(d, at)
  PROVE  Recs(d, r, Wrap(at + len)) = Recs(d, r, w) \o RecAt(d, at)
<1>0. /\ r \in Nat /\ w \in Nat /\ r < kDataSize /\ w < kDataSize /\ kDataSize \in Nat
      /\ kDataSize > 3
  BY OffsetIs, RingFacts
<1>1. CASE ~(kDataSize - w < len)
  <2>1. at = w /\ n = len /\ d[w] = len
    BY <1>1
  <2>. DEFINE x == Wrap(w + d[w])
  <2>2. x = IF w + len = kDataSize THEN 0 ELSE w + len
    BY <2>1 DEF Wrap
  <2>. HIDE DEF x
  <2>3. x # w /\ IF r <= x THEN r <= w /\ w < x ELSE r <= w \/ w < x
    BY <1>0, <1>1, <2>1, <2>2
  <2>4. w \in Between(r, x)
    BY <2>3 DEF Between
  <2>5. Recs(d, r, x) = Recs(d, r, w) \o RecAt(d, w)
    BY <2>1, <2>3, <2>4, RecsLonger DEF x
  <2>. QED
    BY <2>1, <2>5 DEF x
<1>2. CASE kDataSize - w < len
  <2>1. at = 0 /\ n = kDataSize - w + len /\ d[0] = len /\ d[w] = kDataSize - w
    BY <1>2
  <2>2. r <= w /\ len < r /\ 0 \in Offsets
    BY <1>0, <1>2, <2>1, OffsetIs
  <2>3. Typed(d, w) /\ isPadAt(d, w)
    BY <1>0, <1>2, RingAssumption DEF Typed, isPadAt
  <2>4. Wrap(w + d[w]) = 0
    BY <1>0, <2>1 DEF Wrap
  <2>5. 0 # w /\ w \in Between(r, 0)
    <3>1. ~(r <= 0) /\ r <= w /\ w # 0
      BY <1>0, <2>2
    <3>. QED
      BY <3>1 DEF Between
  <2>6. Recs(d, r, 0) = Recs(d, r, w) \o RecAt(d, w)
    BY <2>3, <2>4, <2>5, RecsLonger
  <2>7. Recs(d, r, 0) = Recs(d, r, w)
    <3>1. RecAt(d, w) = <<>> /\ Recs(d, r, w) \in Seq(Nat)
      BY <2>3, RecAtType, RecsIs
    <3>. QED
      BY <2>6, <3>1, ConcatEmptySeq
  <2>8. Held(d, r, 0, {})
    <3>1. ASSUME NEW o \in Span(d, w) PROVE o \notin Between(r, w)
      <4>1. o \in Nat /\ w <= o
        BY <1>0, <2>1 DEF Span
      <4>. QED
        BY <1>0, <2>2, <4>1 DEF Between
    <3>2. 0 # r /\ 0 \notin Between(r, w)
      BY <1>0, <2>2 DEF Between
    <3>. QED
      BY <2>3, <2>4, <3>1, <3>2, HeldLonger
  <2>. DEFINE x == Wrap(0 + d[0])
  <2>9. x = len
    BY <1>0, <2>1, <2>2 DEF Wrap
  <2>10. x # 0 /\ 0 \in Between(r, x)
    BY <1>0, <2>2, <2>9 DEF Between
  <2>. HIDE DEF x
  <2>11. Recs(d, r, x) = Recs(d, r, 0) \o RecAt(d, 0)
    BY <2>1, <2>2, <2>8, <2>10, RecsLonger DEF x
  <2>12. Wrap(at + len) = x
    BY <2>1 DEF x
  <2>. QED
    BY <2>1, <2>7, <2>11, <2>12
<1>. QED
  BY <1>1, <1>2

------------------------------------------------------------------------------
(***************************************************************************)
(* LogInv: the header in the cache and the one in OCRAM differ in read_off *)
(* alone, and by the records evicted so far; each walk of the 0xA9 handler *)
(* has behind it exactly the records it has acknowledged or copied.        *)
(***************************************************************************)
LogOf(h, d) == IF h.ok THEN Recs(d, h.read_off, h.write_off) ELSE <<>>

Kept == Recs(data, hdr.read_off, hdr.write_off)

Walked(d, r, x, w) == x \in Between(r, w) \cup {w} /\ Held(d, r, x, {})

Mirror ==
  /\ hdr.write_off = nv.write_off /\ hdr.next_seq = nv.next_seq
  /\ hdr.dropped = nv.dropped /\ hdr.ok = nv.ok
  /\ pc \notin Appending => hdr.read_off = nv.read_off
  /\ nv.next_seq # 0
  /\ ring_ok \/ pc = "repair" => nv.ok

Evicting ==
  pc = "room" => /\ Walked(data, nv.read_off, hdr.read_off, hdr.write_off)
                 /\ Len(Recs(data, nv.read_off, hdr.read_off)) = op.evicted

UpTo(s, a) == \A i \in 1 .. Len(s) : s[i] <= a

Acking ==
  pc = "ack" => /\ Walked(data, hdr.read_off, op.off, hdr.write_off)
                /\ UpTo(Recs(data, hdr.read_off, op.off), op.ack)
                /\ op.ack < hdr.next_seq

Peeking ==
  pc = "peek" => /\ Walked(data, hdr.read_off, op.off, hdr.write_off)
                 /\ op.got = Recs(data, hdr.read_off, op.off)
                 /\ op.used <= Budget

Block ==
  /\ Len(op.got) <= Len(Kept) /\ op.got = SubSeq(Kept, 1, Len(op.got))
  /\ op.used <= Budget /\ op.more = (Len(op.got) < Len(Kept))
  /\ op.more => op.used + data[op.off] > Budget

Replying == pc = "reply" /\ ring_ok => Block

Later(s, a) == s # <<>> => s[1] > a

Acked ==
  op.ack > 0 => /\ pc \in {"ack", "peek", "reply"} /\ ring_ok
                /\ pc # "ack" => Later(Kept, op.ack)

LogInv == Mirror /\ Evicting /\ Acking /\ Peeking /\ Replying /\ Acked

Writing == {"pad", "rec", "head"}

LEMMA RecordsIs ==
  ASSUME NEW h PROVE Records(h) = LogOf(h, data)
BY DEF Records, LogOf, Recs, Dist, usedBytes

LEMMA LogIs ==
  /\ pc \in Writing => Log = LogOf(hdr, data)
  /\ pc \notin Writing => Log = LogOf(nv, data)
BY RecordsIs DEF Log, Writing

\* The types the steps below need, in the state before and after a step.
LEMMA LogTypes ==
  ASSUME IInv
  PROVE  /\ data \in Ring /\ hdr \in Header /\ nv \in Header /\ op \in Locals
         /\ hdr.read_off \in Offsets /\ hdr.write_off \in Offsets
         /\ nv.read_off \in Offsets /\ nv.write_off \in Offsets
         /\ hdr.next_seq \in 0 .. SeqMod - 1 /\ nv.next_seq \in 0 .. SeqMod - 1
         /\ hdr.dropped \in Nat /\ nv.dropped \in Nat
         /\ op.off \in Offsets /\ op.ack \in Nat /\ op.evicted \in Nat /\ op.used \in Nat
         /\ op.got \in Seq(Nat)
BY DEF IInv, TypeOK, Ring, Header, Locals

\* A step that changes nothing the log is made of.
LEMMA KeepStep ==
  ASSUME Log' = Log, nv'.ok = nv.ok, nv'.next_seq = nv.next_seq, nv'.dropped = nv.dropped
  PROVE  RingLog!Next
<1>1. Risk' \in RingLog!Risks
  BY DEF Risk, RingLog!Risks
<1>. QED
  BY <1>1 DEF RingLog!Next, RingLog!Keep

\* A step that leaves the bytes and the cursors alone.
LEMMA SameLog ==
  ASSUME data' = data, pc \notin Writing, pc' \notin Writing,
         nv'.ok = nv.ok, nv'.next_seq = nv.next_seq, nv'.dropped = nv.dropped,
         nv'.read_off = nv.read_off, nv'.write_off = nv.write_off
  PROVE  RingLog!Next
<1>1. Log' = LogOf(nv', data') /\ Log = LogOf(nv, data)
  BY DEF Log, Writing, Records, LogOf, Recs, Dist, usedBytes
<1>2. LogOf(nv', data') = LogOf(nv, data)
  BY DEF LogOf
<1>. QED
  BY <1>1, <1>2, KeepStep

LEMMA WalkedFrom ==
  ASSUME NEW d \in Ring, NEW r \in Offsets, NEW w \in Offsets
  PROVE  Walked(d, r, r, w) /\ Recs(d, r, r) = <<>>
BY FromStart, HeldEmpty, RecsIs DEF Walked

\* The same for LogInv: the step that starts no walk of the 0xA9 handler.
LEMMA PlainLog ==
  ASSUME IInv, IInv', LogInv, data' = data, pc \notin Appending,
         hdr'.read_off = hdr.read_off, hdr'.write_off = hdr.write_off,
         hdr'.ok = hdr.ok, hdr'.next_seq = hdr.next_seq, hdr'.dropped = hdr.dropped,
         nv'.read_off = nv.read_off, nv'.write_off = nv.write_off,
         nv'.ok = nv.ok, nv'.next_seq = nv.next_seq, nv'.dropped = nv.dropped,
         ring_ok' => ring_ok, pc' \notin Writing \cup {"ack", "peek", "repair"},
         pc' = "reply" => ~ring_ok', pc' = "room" => op'.evicted = 0, op'.ack = 0
  PROVE  LogInv' /\ RingLog!Next
<1>1. RingLog!Next
  BY SameLog DEF Appending, Writing
<1>2. hdr.read_off = nv.read_off
  BY DEF LogInv, Mirror
<1>3. Mirror'
  BY <1>2 DEF LogInv, Mirror
<1>4. Evicting'
  <2>1. Walked(data, hdr.read_off, hdr.read_off, hdr.write_off)
        /\ Recs(data, hdr.read_off, hdr.read_off) = <<>>
    BY LogTypes, WalkedFrom
  <2>. QED
    BY <1>2, <2>1 DEF Evicting
<1>5. Acking' /\ Peeking' /\ Replying' /\ Acked'
  BY DEF Acking, Peeking, Replying, Acked
<1>. QED
  BY <1>1, <1>3, <1>4, <1>5 DEF LogInv

\* Steps that leave the header and the bytes as they are.
LEMMA CalmStep ==
  ASSUME IInv, IInv', LogInv, UNCHANGED <<hdr, nv, data>>, pc \notin Appending,
         ring_ok' => ring_ok, pc' \notin Writing \cup {"ack", "peek", "repair"},
         pc' = "reply" => ~ring_ok', pc' = "room" => op'.evicted = 0, op'.ack = 0
  PROVE  LogInv' /\ RingLog!Next
BY PlainLog

LEMMA IdleFields ==
  /\ Idle.ack = 0 /\ Idle.evicted = 0 /\ Idle.got = <<>> /\ Idle.used = 0
BY DEF Idle

LEMMA TripCallPlain ==
  ASSUME NEW ret, TripCall(ret)
  PROVE  /\ UNCHANGED <<hdr, nv, data>> /\ pc' \in {"room", "trip"}
         /\ op'.evicted = 0 /\ op'.ack = 0
BY DEF TripCall, Idle

LEMMA AppendCallPlain ==
  ASSUME NEW rec, NEW ret, NEW todo, AppendCall(rec, ret, todo)
  PROVE  /\ UNCHANGED <<hdr, nv, data>> /\ pc' \in {"room", "trip"}
         /\ op'.evicted = 0 /\ op'.ack = 0
BY TripCallPlain DEF AppendCall, Idle

LEMMA CallLog ==
  ASSUME IInv, IInv', LogInv, UNCHANGED <<hdr, nv, data>>, pc \notin Appending,
         ring_ok' => ring_ok, pc' \in {"room", "trip"}, op'.evicted = 0, op'.ack = 0
  PROVE  LogInv' /\ RingLog!Next
<1>1. pc' \notin Writing \cup {"ack", "peek", "repair"} /\ pc' # "reply"
  BY DEF Writing
<1>. QED
  BY <1>1, CalmStep

\* makeRoom drops a record: the header in OCRAM still holds it, op counts it.
LEMMA EvictLog ==
  ASSUME IInv, IInv', ChainInv, LogInv, MakeRoomEvict PROVE LogInv' /\ RingLog!Next
<1>. DEFINE r == hdr.read_off
            w == hdr.write_off
            x == Wrap(r + data[r])
            s == Recs(data, nv.read_off, r)
<1>0. /\ data \in Ring /\ r \in Offsets /\ w \in Offsets /\ hdr \in Header /\ nv.read_off \in Offsets
      /\ op \in Locals /\ op.evicted \in Nat
  BY LogTypes
<1>1. /\ pc = "room" /\ pc' = "room" /\ r # w /\ data' = data /\ nv' = nv /\ ring_ok' = ring_ok
      /\ hdr' = [hdr EXCEPT !.read_off = x] /\ wellFormedAt(data, r, w)
  BY NeverBroken DEF MakeRoomEvict, MustEvict, ChainNeverBroken, volatile
<1>2. /\ hdr'.read_off = x /\ hdr'.write_off = w /\ hdr'.ok = hdr.ok
      /\ hdr'.next_seq = hdr.next_seq /\ hdr'.dropped = hdr.dropped
  BY <1>0, <1>1 DEF Header
<1>3. /\ op'.evicted = (IF isPadAt(data, r) THEN op.evicted ELSE op.evicted + 1)
      /\ op'.ack = op.ack
  BY <1>0 DEF MakeRoomEvict, Locals
<1>4. Walked(data, nv.read_off, r, w) /\ Len(s) = op.evicted /\ Mirror /\ Acked
  BY <1>1 DEF LogInv, Evicting
<1>. HIDE DEF r, w, x
<1>5. r \in Between(nv.read_off, w) /\ Held(data, nv.read_off, r, {})
  BY <1>1, <1>4 DEF Walked
<1>6. /\ Recs(data, nv.read_off, x) = s \o RecAt(data, r)
      /\ Walked(data, nv.read_off, x, w)
  <2>1. x = Wrap(r + data[r])
    BY DEF x
  <2>2. data \in Ring /\ r \in Offsets /\ w \in Offsets /\ nv.read_off \in Offsets
        /\ wellFormedAt(data, r, w)
    BY <1>0, <1>1
  <2>3. /\ Recs(data, nv.read_off, x) = Recs(data, nv.read_off, r) \o RecAt(data, r)
        /\ x \in Between(nv.read_off, w) \cup {w} /\ Held(data, nv.read_off, x, {})
    BY <1>5, <2>1, <2>2, RecsWalk
  <2>. QED
    BY <2>3 DEF Walked
<1>7. Len(s \o RecAt(data, r)) = op'.evicted
  <2>1. s \in Seq(Nat) /\ RecAt(data, r) \in Seq(Nat)
        /\ RecAt(data, r) = IF isPadAt(data, r) THEN <<>> ELSE <<seqAt(data, r)>>
    BY <1>0, <1>1, RecsIs, RecAtType, WellFormedIs DEF RecAt
  <2>2. Len(RecAt(data, r)) = IF isPadAt(data, r) THEN 0 ELSE 1
    BY <2>1
  <2>. HIDE DEF s
  <2>3. Len(s \o RecAt(data, r)) = Len(s) + Len(RecAt(data, r))
    BY <2>1, LenProperties, ConcatProperties
  <2>. QED
    BY <1>0, <1>3, <1>4, <2>2, <2>3
<1>8. Evicting'
  BY <1>1, <1>2, <1>6, <1>7 DEF Evicting
<1>9. Mirror'
  <2>1. pc' \in Appending /\ hdr'.write_off = hdr.write_off
    BY <1>1, <1>2 DEF Appending, w
  <2>. QED
    BY <1>1, <1>2, <1>4, <2>1 DEF Mirror
<1>10. Acking' /\ Peeking' /\ Replying'
  BY <1>1 DEF Acking, Peeking, Replying
<1>11. Acked'
  BY <1>1, <1>3, <1>4 DEF Acked
<1>12. RingLog!Next
  BY <1>1, SameLog DEF Writing
<1>. QED
  BY <1>8, <1>9, <1>10, <1>11, <1>12 DEF LogInv

\* What RoomDoneChain shows of the branch makeRoom takes.
LEMMA RoomEnough ==
  ASSUME IInv, ChainInv, MakeRoomDone PROVE ~MustEvict
<1>1. pc = "room" /\ (~MustEvict \/ ChainBroken)
  BY DEF MakeRoomDone
<1>. SUFFICES ASSUME MustEvict PROVE FALSE
  OBVIOUS
<1>2. wellFormedAt(data, hdr.read_off, hdr.write_off) /\ data[hdr.read_off] \in Nat
      /\ hdr.read_off \in Nat /\ kDataSize \in Nat
  BY <1>1, NeverBroken, RingTypes, OffsetIs, RingFacts DEF ChainNeverBroken, Ring
<1>3. data[hdr.read_off] # 0 /\ hdr.read_off + data[hdr.read_off] <= kDataSize
  BY <1>2 DEF wellFormedAt
<1>4. ~(hdr.read_off + data[hdr.read_off] > kDataSize)
  BY <1>2, <1>3
<1>. QED
  BY <1>1, <1>3, <1>4 DEF ChainBroken

\* A log without its first k records, in the abstract specification's words.
LEMMA DropFirst ==
  ASSUME NEW s \in Seq(Nat), NEW t \in Seq(Nat)
  PROVE  /\ Len(s) \in 0 .. Len(s \o t)
         /\ t = SubSeq(s \o t, Len(s) + 1, Len(s \o t))
         /\ s = SubSeq(s \o t, 1, Len(s))
         /\ Len(s \o t) = Len(s) + Len(t)
         /\ \A i \in 1 .. Len(s) : (s \o t)[i] = s[i]
         /\ t # <<>> => Len(s) < Len(s \o t) /\ (s \o t)[Len(s) + 1] = t[1]
         /\ t = <<>> => Len(s) = Len(s \o t)
<1>1. /\ s \o t \in Seq(Nat) /\ Len(s) \in Nat /\ Len(t) \in Nat
      /\ Len(s \o t) = Len(s) + Len(t)
      /\ \A i \in 1 .. Len(s) + Len(t) :
            (s \o t)[i] = IF i <= Len(s) THEN s[i] ELSE t[i - Len(s)]
  BY ConcatProperties, LenProperties
<1>2. t = SubSeq(s \o t, Len(s) + 1, Len(s \o t)) /\ s = SubSeq(s \o t, 1, Len(s))
  <2>. DEFINE u == s \o t
              a == SubSeq(u, Len(s) + 1, Len(u))
              b == SubSeq(u, 1, Len(s))
  <2>0. u \in Seq(Nat) /\ Len(u) = Len(s) + Len(t)
        /\ \A i \in 1 .. Len(s) + Len(t) : u[i] = IF i <= Len(s) THEN s[i] ELSE t[i - Len(s)]
    BY <1>1
  <2>. HIDE DEF u
  <2>1. \A i \in 1 .. Len(u) : u[i] \in Nat
    BY <2>0, ElementOfSeq
  <2>2. /\ a \in Seq(Nat) /\ Len(a) = (IF Len(s) + 1 <= Len(u) THEN Len(u) - (Len(s) + 1) + 1 ELSE 0)
        /\ \A i \in 1 .. Len(u) - (Len(s) + 1) + 1 : a[i] = u[(Len(s) + 1) + i - 1]
    <3>1. \A i \in Len(s) + 1 .. Len(u) : u[i] \in Nat
      BY <1>1, <2>0, <2>1
    <3>2. Len(s) + 1 \in Int /\ Len(u) \in Int
      BY <1>1, <2>0
    <3>. QED
      BY <3>1, <3>2, SubSeqProperties
  <2>3. /\ b \in Seq(Nat) /\ Len(b) = (IF 1 <= Len(s) THEN Len(s) - 1 + 1 ELSE 0)
        /\ \A i \in 1 .. Len(s) - 1 + 1 : b[i] = u[1 + i - 1]
    <3>1. \A i \in 1 .. Len(s) : u[i] \in Nat
      BY <1>1, <2>0, <2>1
    <3>2. 1 \in Int /\ Len(s) \in Int
      BY <1>1
    <3>. QED
      BY <3>1, <3>2, SubSeqProperties
  <2>. HIDE DEF a, b
  <2>4. t = a
    <3>1. Len(a) = Len(t)
      BY <1>1, <2>0, <2>2
    <3>2. ASSUME NEW i \in 1 .. Len(t) PROVE t[i] = a[i]
      <4>. DEFINE k == Len(s)
                  l == Len(t)
                  n == Len(u)
      <4>1. /\ k \in Nat /\ l \in Nat /\ n = k + l /\ i \in 1 .. l
            /\ \A j \in 1 .. k + l : u[j] = IF j <= k THEN s[j] ELSE t[j - k]
            /\ \A j \in 1 .. n - (k + 1) + 1 : a[j] = u[(k + 1) + j - 1]
        BY <1>1, <2>0, <2>2
      <4>. HIDE DEF k, l, n
      <4>2. i \in 1 .. n - (k + 1) + 1 /\ (k + 1) + i - 1 = k + i
        BY ONLY <4>1
      <4>3. k + i \in 1 .. k + l /\ ~(k + i <= k) /\ (k + i) - k = i
        BY ONLY <4>1
      <4>4. a[i] = u[k + i]
        BY ONLY <4>1, <4>2
      <4>5. u[k + i] = t[i]
        BY ONLY <4>1, <4>3
      <4>. QED
        BY ONLY <4>4, <4>5
    <3>. QED
      BY <2>2, <3>1, <3>2, SeqEqual
  <2>5. s = b
    <3>1. Len(b) = Len(s)
      BY <1>1, <2>3
    <3>2. ASSUME NEW i \in 1 .. Len(s) PROVE s[i] = b[i]
      <4>. DEFINE k == Len(s)
                  l == Len(t)
      <4>1. /\ k \in Nat /\ l \in Nat /\ i \in 1 .. k
            /\ \A j \in 1 .. k + l : u[j] = IF j <= k THEN s[j] ELSE t[j - k]
            /\ \A j \in 1 .. k - 1 + 1 : b[j] = u[1 + j - 1]
        BY <1>1, <2>0, <2>3
      <4>. HIDE DEF k, l
      <4>2. i \in 1 .. k - 1 + 1 /\ 1 + i - 1 = i /\ i \in 1 .. k + l /\ i <= k
        BY ONLY <4>1
      <4>. QED
        BY ONLY <4>1, <4>2
    <3>. QED
      BY <2>3, <3>1, <3>2, SeqEqual
  <2>. QED
    BY <2>4, <2>5 DEF a, b, u
<1>3. t # <<>> => Len(t) > 0
  BY <1>1, EmptySeq
<1>4. Len(s) \in 0 .. Len(s \o t) /\ (t # <<>> => Len(s) < Len(s \o t))
  BY <1>1, <1>3
<1>5. \A i \in 1 .. Len(s) : (s \o t)[i] = s[i]
  BY <1>1
<1>6. t # <<>> => (s \o t)[Len(s) + 1] = t[1]
  <2>1. t # <<>> => /\ Len(s) + 1 \in 1 .. Len(s) + Len(t) /\ ~(Len(s) + 1 <= Len(s))
                    /\ Len(s) + 1 - Len(s) = 1
    BY <1>1, <1>3
  <2>. QED
    BY <1>1, <2>1
<1>7. t = <<>> => Len(t) = 0
  OBVIOUS
<1>8. t = <<>> => Len(s) = Len(s \o t)
  BY <1>1, <1>7
<1>. QED
  BY <1>1, <1>2, <1>4, <1>5, <1>6, <1>8

\* makeRoom is done: the records it counted leave the log at once.
LEMMA RoomDoneLog ==
  ASSUME IInv, ChainInv, LogInv, MakeRoomDone PROVE LogInv' /\ RingLog!Next
<1>. DEFINE r == hdr.read_off
            w == hdr.write_off
            s == Recs(data, nv.read_off, r)
            t == Recs(data, r, w)
            g == [hdr EXCEPT !.dropped = @ + op.evicted]
<1>0. /\ data \in Ring /\ r \in Offsets /\ w \in Offsets /\ nv.read_off \in Offsets
      /\ hdr \in Header /\ nv \in Header /\ op.evicted \in Nat /\ hdr.dropped \in Nat
  BY LogTypes
<1>1. /\ pc = "room" /\ pc' \in {"pad", "rec"} /\ ~MustEvict /\ data' = data /\ op' = op
      /\ ring_ok' = ring_ok
  BY RoomEnough DEF MakeRoomDone, volatile
<1>2. IF op.evicted > 0 THEN hdr' = g /\ nv' = g ELSE hdr' = hdr /\ nv' = nv
  BY <1>1 DEF MakeRoomDone, sealHeader
<1>3. /\ g.read_off = r /\ g.write_off = w /\ g.ok = hdr.ok /\ g.next_seq = hdr.next_seq
      /\ g.dropped = hdr.dropped + op.evicted
  BY <1>0 DEF Header
<1>4. ring_ok /\ nv.ok /\ hdr.ok
  BY <1>1 DEF ChainInv, Open, Using, Appending, LogInv, Mirror
<1>5. /\ Walked(data, nv.read_off, r, w) /\ Len(s) = op.evicted
      /\ Mirror /\ Acked /\ nv.write_off = w /\ nv.next_seq = hdr.next_seq
      /\ nv.dropped = hdr.dropped
  BY <1>1 DEF LogInv, Evicting, Mirror
<1>6. Recs(data, nv.read_off, w) = s \o t
  BY <1>0, <1>5, RecsConcat DEF Walked
<1>7. Log = s \o t
  BY <1>1, <1>4, <1>5, <1>6, LogIs DEF Writing, LogOf
<1>8. Log' = t
  <2>1. hdr'.read_off = r /\ hdr'.write_off = w /\ hdr'.ok
    BY <1>2, <1>3, <1>4
  <2>2. Log' = LogOf(hdr', data')
    BY <1>1 DEF Log, Writing, Records, LogOf, Recs, Dist, usedBytes
  <2>. QED
    BY <1>1, <2>1, <2>2 DEF LogOf
<1>9. s \in Seq(Nat) /\ t \in Seq(Nat)
  BY <1>0, RecsIs
<1>10. RingLog!Next
  <2>1. CASE op.evicted > 0
    <3>1. nv' = g
      BY <1>2, <2>1
    <3>2. /\ (IF nv.ok THEN nv.dropped ELSE 0) = hdr.dropped
          /\ (IF nv'.ok THEN nv'.dropped ELSE 0) = hdr.dropped + op.evicted
          /\ (IF nv.ok THEN nv.next_seq ELSE 1) = (IF nv'.ok THEN nv'.next_seq ELSE 1)
      BY <1>3, <1>4, <1>5, <3>1
    <3>. HIDE DEF s, t, g
    <3>3. op.evicted \in 1 .. Len(s \o t) /\ t = SubSeq(s \o t, op.evicted + 1, Len(s \o t))
      <4>1. Len(s) \in 0 .. Len(s \o t) /\ t = SubSeq(s \o t, Len(s) + 1, Len(s \o t))
            /\ Len(s \o t) = Len(s) + Len(t) /\ Len(t) \in Nat
        BY <1>9, DropFirst, LenProperties
      <4>. QED
        BY <1>0, <1>5, <2>1, <4>1
    <3>4. RingLog!Evict(op.evicted)
      BY <1>7, <1>8, <3>2, <3>3 DEF RingLog!Evict
    <3>5. \E k \in 1 .. Len(Log) : RingLog!Evict(k)
      BY <1>7, <3>3, <3>4
    <3>6. Risk' \in RingLog!Risks
      BY DEF Risk, RingLog!Risks
    <3>. QED
      BY <3>5, <3>6 DEF RingLog!Next
  <2>2. CASE ~(op.evicted > 0)
    <3>1. Len(s) = 0
      BY <1>0, <1>5, <2>2
    <3>2. s \o t = t
      <4>1. s = <<>>
        BY <1>9, <3>1, EmptySeq
      <4>. HIDE DEF s, t
      <4>. QED
        BY <1>9, <4>1, ConcatEmptySeq
    <3>3. Log' = Log /\ nv' = nv
      BY <1>2, <1>7, <1>8, <2>2, <3>2
    <3>. QED
      BY <3>3, KeepStep
  <2>. QED
    BY <2>1, <2>2
<1>11. Mirror'
  <2>1. pc' \in Appending /\ pc' # "repair"
    BY <1>1 DEF Appending
  <2>2. /\ hdr'.write_off = nv'.write_off /\ hdr'.next_seq = nv'.next_seq
        /\ hdr'.dropped = nv'.dropped /\ hdr'.ok = nv'.ok /\ nv'.next_seq = nv.next_seq
        /\ nv'.ok
    BY <1>2, <1>3, <1>4, <1>5
  <2>. QED
    BY <1>1, <1>5, <2>1, <2>2 DEF Mirror
<1>12. Evicting' /\ Acking' /\ Peeking' /\ Replying'
  BY <1>1 DEF Evicting, Acking, Peeking, Replying
<1>13. Acked'
  BY <1>1, <1>5 DEF Acked
<1>. QED
  BY <1>10, <1>11, <1>12, <1>13 DEF LogInv

\* A write leaves the records the header being written describes.
LEMMA WriteLog ==
  ASSUME IInv, IInv', ChainInv, LogInv, WritePad \/ WriteRecord
  PROVE  LogInv' /\ RingLog!Next /\ RingLog!Keep
<1>r. data' \in Ring
  BY DEF IInv, TypeOK, Ring
<1>0. /\ data \in Ring /\ data' \in Ring /\ hdr.read_off \in Offsets /\ hdr.write_off \in Offsets
      /\ hdr' = hdr /\ nv' = nv /\ op' = op
      /\ ring_ok' = ring_ok /\ pc' \in {"rec", "head"} /\ pc \in {"pad", "rec"}
  BY <1>r, LogTypes DEF WritePad, WriteRecord, volatile
<1>1. ASSUME NEW o \in Between(hdr.read_off, hdr.write_off) PROVE data'[o] = data[o]
  <2>1. o \in Live(hdr) /\ o \in Offsets
    BY DEF Between, Live
  <2>2. (pc = "pad" => o \notin DOMAIN PadBytes) /\ (pc = "rec" => o \notin DOMAIN RecBytes)
    BY <2>1, WriteIsFree
  <2>. QED
    BY <2>1, <2>2 DEF WritePad, WriteRecord, Store
<1>2. Recs(data', hdr.read_off, hdr.write_off) = Recs(data, hdr.read_off, hdr.write_off)
  BY <1>0, <1>1, RecsSame
<1>3. Log' = Log
  <2>1. Log = LogOf(hdr, data) /\ Log' = LogOf(hdr', data')
    BY <1>0 DEF Log, Writing, Records, LogOf, Recs, Dist, usedBytes
  <2>. QED
    BY <1>0, <1>2, <2>1 DEF LogOf
<1>4. RingLog!Next
  BY <1>0, <1>3, KeepStep
<1>5. LogInv'
  BY <1>0 DEF LogInv, Mirror, Evicting, Acking, Peeking, Replying, Acked, Appending
<1>6. RingLog!Keep
  BY <1>0, <1>3 DEF RingLog!Keep
<1>. QED
  BY <1>4, <1>5, <1>6

\* The header publishes the record: it is the youngest of the log.
LEMMA PublishLog ==
  ASSUME IInv, ChainInv, LogInv, Publish
  PROVE  LogInv' /\ RingLog!Next /\ RingLog!Emit
<1>. DEFINE r == hdr.read_off
            w == hdr.write_off
            x == Wrap(WriteAt + RecLen)
            q == (StampSeq + 1) % SeqMod
<1>0. /\ data \in Ring /\ r \in Offsets /\ w \in Offsets /\ hdr \in Header /\ need \in Nat
      /\ pc = "head" /\ data' = data /\ ring_ok' = ring_ok /\ hdr.next_seq \in 0 .. SeqMod - 1
      /\ WriteAt \in Offsets /\ WriteAt + Len(op.rec) \in 0 .. kDataSize
  BY LogTypes, WriteFacts DEF Publish, volatile, IInv, Appending
<1>1. hdr' = [hdr EXCEPT !.write_off = x, !.next_seq = q] /\ nv' = hdr'
  BY DEF Publish, sealHeader
<1>2. /\ hdr'.read_off = r /\ hdr'.write_off = x /\ hdr'.next_seq = q
      /\ hdr'.ok = hdr.ok /\ hdr'.dropped = hdr.dropped
  BY <1>0, <1>1 DEF Header
<1>3. /\ ring_ok /\ nv.ok /\ hdr.ok /\ nv.next_seq = hdr.next_seq /\ hdr.next_seq # 0
      /\ nv.dropped = hdr.dropped /\ op.ack = 0
  <2>1. ring_ok /\ Mirror /\ Acked
    BY <1>0 DEF ChainInv, Open, Using, Appending, LogInv
  <2>2. op.ack = 0
    BY <1>0, <2>1, LogTypes DEF Acked
  <2>. QED
    BY <2>1, <2>2 DEF Mirror
<1>4. Recs(data, r, x) = Recs(data, r, w) \o <<StampSeq>>
  <2>. DEFINE len == Len(op.rec)
              at == WriteAt
              n == need
  <2>1. /\ Held(data, r, w, {}) /\ len \in Nat /\ len > 2
        /\ at = (IF kDataSize - w < len THEN 0 ELSE w)
        /\ n = (IF kDataSize - w < len THEN kDataSize - w + len ELSE len)
        /\ IF w >= r THEN kDataSize - 1 - (w - r) >= n ELSE r - w - 1 >= n
        /\ kDataSize - w < len =>
             data[w] = kDataSize - w /\ (kDataSize - w >= 2 => data[w + 1] = REC_PAD)
        /\ data[at] = len /\ Typed(data, at) /\ RecAt(data, at) = <<StampSeq>>
    BY PublishIs
  <2>2. x = Wrap(at + len)
    BY DEF RecLen
  <2>. HIDE DEF len, at, n, r, w, x
  <2>3. data \in Ring /\ r \in Offsets /\ w \in Offsets
    BY <1>0
  <2>4. Recs(data, r, Wrap(at + len)) = Recs(data, r, w) \o RecAt(data, at)
    BY ONLY <2>1, <2>3, RecsPublished
  <2>. QED
    BY <2>1, <2>2, <2>4
<1>5. StampSeq \in 1 .. SeqMod - 2
  BY <1>0, <1>3, RingFacts DEF StampSeq, NoAck
<1>6. Log = Recs(data, r, w) /\ Log' = Recs(data, r, x)
  <2>1. pc' \notin Writing
    BY <1>0, RingTypes DEF Publish, Return, Writing
  <2>2. Log = LogOf(hdr, data) /\ Log' = LogOf(nv', data')
    BY <1>0, <2>1 DEF Log, Writing, Records, LogOf, Recs, Dist, usedBytes
  <2>. QED
    BY <1>0, <1>1, <1>2, <1>3, <2>2 DEF LogOf
<1>7. Log' = Append(Log, StampSeq)
  <2>1. Recs(data, r, w) \in Seq(Nat) /\ StampSeq \in Nat
    BY <1>0, <1>5, RecsIs
  <2>. QED
    BY <1>4, <1>6, <2>1, AppendIsConcat
<1>8. q = StampSeq + 1 /\ q # 0
  BY <1>5, RingFacts
<1>9. RingLog!Next /\ RingLog!Emit
  <2>1. RingLog!Stamp(IF nv.ok THEN nv.next_seq ELSE 1) = StampSeq
    BY <1>3 DEF RingLog!Stamp, RingLog!NoAck, StampSeq, NoAck
  <2>2. /\ (IF nv'.ok THEN nv'.next_seq ELSE 1) = (StampSeq + 1) % SeqMod
        /\ (IF nv'.ok THEN nv'.dropped ELSE 0) = (IF nv.ok THEN nv.dropped ELSE 0)
    BY <1>1, <1>2, <1>3
  <2>3. RingLog!Emit
    BY <1>7, <2>1, <2>2 DEF RingLog!Emit
  <2>4. Risk' \in RingLog!Risks
    BY DEF Risk, RingLog!Risks
  <2>. QED
    BY <2>3, <2>4 DEF RingLog!Next
<1>. HIDE DEF q, x
<1>10. pc' \in {"trip", "marked", "episode", "idle", "bootrec", "cfgoff"} /\ op'.ack = 0
  BY <1>0, <1>3, RingTypes DEF Publish, Return, Idle
<1>11. Mirror'
  BY <1>0, <1>1, <1>2, <1>3, <1>8, <1>10 DEF Mirror
<1>12. Evicting' /\ Acking' /\ Peeking' /\ Replying' /\ Acked'
  BY <1>10 DEF Evicting, Acking, Peeking, Replying, Acked
<1>. QED
  BY <1>9, <1>11, <1>12 DEF LogInv

\* Where a call ends, its locals are reset; outside the walks nothing is acked.
LEMMA AckZero ==
  ASSUME IInv, LogInv, pc \notin {"ack", "peek", "reply"} PROVE op.ack = 0
BY LogTypes DEF LogInv, Acked

LEMMA AppendLog ==
  ASSUME IInv, IInv', ChainInv, LogInv, append PROVE LogInv' /\ RingLog!Next
<1>0. /\ hdr \in Header /\ nv \in Header /\ op \in Locals
      /\ op.ret \in {"idle", "bootrec", "cfgoff"} /\ Mirror
  BY LogTypes, RingTypes DEF LogInv
<1>1. CASE NewEpisode
  <2>1. pc = "episode" /\ pc' = "room" /\ ring_ok' = ring_ok /\ UNCHANGED <<hdr, nv, data>>
    BY <1>1 DEF NewEpisode, volatile
  <2>2. op'.evicted = 0 /\ op'.ack = op.ack
    BY <1>0, <1>1 DEF NewEpisode, Locals
  <2>3. op'.ack = 0
    BY <2>1, <2>2, AckZero
  <2>. QED
    BY <2>1, <2>2, <2>3, CallLog DEF Appending
<1>r. ASSUME Return, UNCHANGED <<hdr, nv, data>>, ring_ok' => ring_ok, pc \notin Appending
      PROVE  LogInv' /\ RingLog!Next
  <2>1. op'.ack = 0 /\ op'.evicted = 0 /\ pc' \in {"idle", "bootrec", "cfgoff"}
    BY <1>0, <1>r DEF Return, Idle
  <2>2. pc' \notin Writing \cup {"ack", "peek", "repair"} /\ pc' # "reply" /\ pc' # "room"
    BY <2>1 DEF Writing
  <2>. QED
    BY <1>r, <2>1, <2>2, CalmStep
<1>2. CASE SameEpisode
  BY <1>2, <1>r DEF SameEpisode, volatile, Appending
<1>3. CASE MarkerDone
  BY <1>3, <1>r DEF MarkerDone, Appending
<1>4. CASE TripDone
  <2>. DEFINE g == [hdr EXCEPT !.on = FALSE]
  <2>1. /\ pc = "trip" /\ data' = data /\ ~ring_ok' /\ Return
        /\ (hdr' = g /\ nv' = g) \/ UNCHANGED <<hdr, nv>>
    BY <1>4 DEF TripDone, sealHeader
  <2>2. CASE UNCHANGED <<hdr, nv>>
    BY <2>1, <2>2, <1>r DEF Appending
  <2>3. CASE hdr' = g /\ nv' = g
    <3>1. /\ g.read_off = hdr.read_off /\ g.write_off = hdr.write_off /\ g.ok = hdr.ok
          /\ g.next_seq = hdr.next_seq /\ g.dropped = hdr.dropped
      BY <1>0 DEF Header
    <3>2. /\ hdr.read_off = nv.read_off /\ hdr.write_off = nv.write_off /\ hdr.ok = nv.ok
          /\ hdr.next_seq = nv.next_seq /\ hdr.dropped = nv.dropped /\ pc \notin Appending
      BY <1>0, <2>1 DEF Mirror, Appending
    <3>3. op'.ack = 0 /\ pc' \notin Writing \cup {"ack", "peek", "repair", "reply", "room"}
      BY <1>0, <2>1 DEF Return, Idle, Writing
    <3>. HIDE DEF g
    <3>. QED
      BY <2>1, <2>3, <3>1, <3>2, <3>3, PlainLog
  <2>. QED
    BY <2>1, <2>2, <2>3
<1>. QED
  BY <1>1, <1>2, <1>3, <1>4 DEF append

\* A step of begin() that leaves the header alone.
LEMMA BeginLog ==
  ASSUME IInv, IInv', ChainInv, LogInv, begin PROVE LogInv' /\ RingLog!Next
<1>0. /\ data \in Ring /\ hdr \in Header /\ nv \in Header /\ op \in Locals /\ Mirror
      /\ hdr.read_off \in Offsets /\ hdr.write_off \in Offsets /\ op.off \in Offsets
  BY LogTypes DEF LogInv
<1>z. pc \in {"boot", "repair", "bootrec"} => op.ack = 0 /\ pc \notin Appending /\ pc \notin Writing
  BY AckZero DEF Appending, Writing
<1>1. CASE BeginGuarded
  <2>1. /\ pc = "boot" /\ pc' = "idle" /\ UNCHANGED <<hdr, nv, data, op>> /\ ring_ok' = ring_ok
    BY <1>1 DEF BeginGuarded, volatile
  <2>2. pc' \notin Writing \cup {"ack", "peek", "repair"} /\ pc' # "reply" /\ pc' # "room"
    BY <2>1 DEF Writing
  <2>. QED
    BY <1>z, <2>1, <2>2, CalmStep
\* The ring begins to record: no walk of the host is under way.
<1>b. ASSUME pc' = "bootrec", hdr' = nv', nv'.ok, nv'.next_seq # 0, op'.ack = 0 PROVE LogInv'
  <2>1. Mirror'
    BY <1>b DEF Mirror
  <2>2. Evicting' /\ Acking' /\ Peeking' /\ Replying' /\ Acked'
    BY <1>b DEF Evicting, Acking, Peeking, Replying, Acked
  <2>. QED
    BY <2>1, <2>2 DEF LogInv
<1>2. CASE initRing
  <2>1. /\ pc = "boot" /\ pc' = "bootrec" /\ data' = data /\ hdr' = FreshHeader /\ nv' = FreshHeader
        /\ ~hdr.ok \/ hdr.next_seq = 0
    BY <1>2 DEF initRing, BeginRecording, sealHeader, validHeader, Idle
  <2>2. ~nv.ok
    BY <1>0, <2>1 DEF Mirror
  <2>3. op'.ack = 0
    BY <1>2 DEF initRing, BeginRecording, Idle
  <2>4. /\ FreshHeader.ok /\ FreshHeader.next_seq = 1 /\ FreshHeader.dropped = 0
        /\ FreshHeader.read_off = 0 /\ FreshHeader.write_off = 0
    BY DEF FreshHeader
  <2>5. Log = <<>> /\ Log' = <<>>
    <3>1. Log = LogOf(nv, data) /\ Log' = LogOf(nv', data')
      BY <2>1 DEF Log, Writing, Records, LogOf, Recs, Dist, usedBytes
    <3>2. Recs(data, 0, 0) = <<>>
      BY <1>0, RecsIs, RingFacts
    <3>. QED
      BY <2>1, <2>2, <2>4, <3>1, <3>2 DEF LogOf
  <2>6. /\ (IF nv'.ok THEN nv'.next_seq ELSE 1) = (IF nv.ok THEN nv.next_seq ELSE 1)
        /\ (IF nv'.ok THEN nv'.dropped ELSE 0) = (IF nv.ok THEN nv.dropped ELSE 0)
    BY <2>1, <2>2, <2>4
  <2>7. RingLog!Next
    <3>1. Risk' \in RingLog!Risks
      BY DEF Risk, RingLog!Risks
    <3>. QED
      BY <2>5, <2>6, <3>1 DEF RingLog!Next, RingLog!Keep
  <2>. QED
    BY <1>b, <2>1, <2>3, <2>4, <2>7
<1>3. CASE BeginKeep
  <2>1. /\ pc = "boot" /\ pc' = "repair" /\ UNCHANGED <<hdr, nv, data>> /\ ring_ok' = ring_ok
        /\ op'.ack = 0 /\ hdr.ok
    BY <1>3 DEF BeginKeep, volatile, validHeader, Idle
  <2>2. RingLog!Next
    BY <2>1, SameLog DEF Writing
  <2>3. Mirror'
    BY <1>0, <1>z, <2>1 DEF Mirror
  <2>4. Evicting' /\ Acking' /\ Peeking' /\ Replying' /\ Acked'
    BY <2>1 DEF Evicting, Acking, Peeking, Replying, Acked
  <2>. QED
    BY <2>2, <2>3, <2>4 DEF LogInv
<1>4. CASE RepairStep
  <2>1. /\ pc = "repair" /\ pc' = "repair" /\ UNCHANGED <<hdr, nv, data>> /\ ring_ok' = ring_ok
        /\ op'.ack = op.ack
    BY <1>0, <1>4 DEF RepairStep, volatile, Locals
  <2>2. RingLog!Next
    BY <2>1, SameLog DEF Writing
  <2>3. Mirror'
    BY <1>0, <1>z, <2>1 DEF Mirror
  <2>4. Evicting' /\ Acking' /\ Peeking' /\ Replying' /\ Acked'
    BY <1>z, <2>1 DEF Evicting, Acking, Peeking, Replying, Acked
  <2>. QED
    BY <2>2, <2>3, <2>4 DEF LogInv
<1>5. CASE RepairDone
  <2>. DEFINE r == hdr.read_off
              w == hdr.write_off
              m == op.off
              g == [hdr EXCEPT !.write_off = m, !.boot_count = @ + 1, !.on = TRUE]
  <2>1. /\ pc = "repair" /\ pc' = "bootrec" /\ data' = data /\ hdr' = g /\ nv' = g
        /\ m = w \/ ~wellFormedAt(data, m, w)
    BY <1>5 DEF RepairDone, BeginRecording, sealHeader
  <2>2. op'.ack = 0
    BY <1>5 DEF RepairDone, BeginRecording, Idle
  <2>3. /\ g.read_off = r /\ g.write_off = m /\ g.ok = hdr.ok
        /\ g.next_seq = hdr.next_seq /\ g.dropped = hdr.dropped
    BY <1>0 DEF Header
  <2>4. /\ nv.ok /\ hdr.ok /\ nv.read_off = r /\ nv.write_off = w /\ nv.next_seq = hdr.next_seq
        /\ nv.dropped = hdr.dropped /\ nv.next_seq # 0
    BY <1>0, <1>z, <2>1 DEF Mirror
  <2>5. m \in Between(r, w) \cup {w} /\ Held(data, r, m, {})
    BY <2>1 DEF ChainInv, Repairing
  <2>6. Recs(data, r, w) = Recs(data, r, m) \o Recs(data, m, w)
    BY <1>0, <2>5, RecsConcat
  <2>7. Recs(data, m, w) = <<>> /\ Recs(data, r, m) \in Seq(Nat)
    BY <1>0, <2>1, RecsIs
  <2>8. Recs(data, r, w) = Recs(data, r, m)
    BY <2>6, <2>7, ConcatEmptySeq
  <2>9. Log' = Log
    <3>1. Log = LogOf(nv, data) /\ Log' = LogOf(nv', data')
      BY <2>1 DEF Log, Writing, Records, LogOf, Recs, Dist, usedBytes
    <3>2. Log = Recs(data, r, w)
      BY <2>4, <3>1 DEF LogOf
    <3>3. Log' = Recs(data, r, m)
      BY <2>1, <2>3, <2>4, <3>1 DEF LogOf
    <3>. QED
      BY <2>8, <3>2, <3>3
  <2>. HIDE DEF g
  <2>10. RingLog!Next
    BY <2>1, <2>3, <2>4, <2>9, KeepStep
  <2>. QED
    BY <1>b, <2>1, <2>2, <2>3, <2>4, <2>10
<1>6. CASE BootRecord
  <2>1. ring_ok' = ring_ok /\ pc = "bootrec"
    BY <1>6 DEF BootRecord, volatile
  <2>2. CASE enabled /\ AppendCall(buildState(0), "bootrec", op.todo - 1)
    BY <1>z, <2>1, <2>2, AppendCallPlain, CallLog
  <2>3. CASE pc' = "idle" /\ op' = Idle /\ UNCHANGED <<hdr, nv, data>>
    <3>1. pc' \notin Writing \cup {"ack", "peek", "repair"} /\ pc' # "reply" /\ pc' # "room"
      BY <2>3 DEF Writing
    <3>. QED
      BY <1>z, <2>1, <2>3, <3>1, IdleFields, CalmStep
  <2>. QED
    BY <1>6, <2>2, <2>3 DEF BootRecord
<1>. QED
  BY <1>1, <1>2, <1>3, <1>4, <1>5, <1>6 DEF begin

\* configure() changes no record and no cursor.
LEMMA ConfigureLog ==
  ASSUME IInv, IInv', ChainInv, LogInv, Configure PROVE LogInv' /\ RingLog!Next
<1>0. hdr \in Header /\ nv \in Header /\ Mirror
  BY LogTypes DEF LogInv
<1>s. ASSUME NEW b \in BOOLEAN, pc \notin Appending, data' = data, ring_ok' => ring_ok,
             hdr' = [hdr EXCEPT !.on = b], nv' = hdr', op'.ack = 0,
             pc' = "idle" \/ (pc' = "room" /\ op'.evicted = 0)
      PROVE  LogInv' /\ RingLog!Next
  <2>1. /\ hdr'.read_off = hdr.read_off /\ hdr'.write_off = hdr.write_off /\ hdr'.ok = hdr.ok
        /\ hdr'.next_seq = hdr.next_seq /\ hdr'.dropped = hdr.dropped
    BY <1>0, <1>s DEF Header
  <2>2. /\ hdr.read_off = nv.read_off /\ hdr.write_off = nv.write_off /\ hdr.ok = nv.ok
        /\ hdr.next_seq = nv.next_seq /\ hdr.dropped = nv.dropped
    BY <1>0, <1>s DEF Mirror
  <2>3. /\ nv'.read_off = nv.read_off /\ nv'.write_off = nv.write_off /\ nv'.ok = nv.ok
        /\ nv'.next_seq = nv.next_seq /\ nv'.dropped = nv.dropped
    BY <1>s, <2>1, <2>2
  <2>4. pc' \notin Writing \cup {"ack", "peek", "repair"} /\ pc' # "reply"
        /\ (pc' = "room" => op'.evicted = 0)
    BY <1>s DEF Writing
  <2>. QED
    BY <1>s, <2>1, <2>3, <2>4, PlainLog
<1>1. CASE ConfigureOn
  <2>1. pc = "cfgon" /\ pc' = "room" /\ data' = data /\ ring_ok' = ring_ok
        /\ hdr' = [hdr EXCEPT !.on = TRUE] /\ nv' = hdr' /\ op'.ack = 0 /\ op'.evicted = 0
    BY <1>1 DEF ConfigureOn, sealHeader, Idle
  <2>. QED
    BY <2>1, <1>s DEF Appending
<1>2. CASE ConfigureOff
  <2>1. /\ pc = "cfgoff" /\ pc' = "idle" /\ data' = data /\ ring_ok' = ring_ok /\ op'.ack = 0
        /\ \/ hdr' = [hdr EXCEPT !.on = FALSE] /\ nv' = hdr'
           \/ UNCHANGED <<hdr, nv>>
    BY <1>2 DEF ConfigureOff, sealHeader, Idle
  <2>2. CASE hdr' = [hdr EXCEPT !.on = FALSE] /\ nv' = hdr'
    <3>1. /\ pc \notin Appending /\ data' = data /\ (ring_ok' => ring_ok) /\ op'.ack = 0
          /\ pc' = "idle" \/ (pc' = "room" /\ op'.evicted = 0)
      BY <2>1 DEF Appending
    <3>. QED
      BY <2>2, <3>1, <1>s, Zenon
  <2>3. CASE UNCHANGED <<hdr, nv>>
    <3>1. pc \notin Appending /\ pc' \notin Writing \cup {"ack", "peek", "repair"}
          /\ pc' # "reply" /\ pc' # "room"
      BY <2>1 DEF Writing, Appending
    <3>. QED
      BY <2>1, <2>3, <3>1, CalmStep
  <2>. QED
    BY <2>1, <2>2, <2>3
<1>3. ASSUME NEW on \in BOOLEAN, NEW synth \in BOOLEAN, configure(on, synth)
      PROVE  LogInv' /\ RingLog!Next
  <2>0. ring_ok' = ring_ok /\ pc = "idle" /\ pc \notin Appending /\ op.ack = 0
    BY <1>3, AckZero DEF configure, Appending
  <2>1. CASE TripCall("idle")
    BY <2>0, <2>1, TripCallPlain, CallLog
  <2>2. CASE pc' \in {"cfgon", "room", "idle"} /\ UNCHANGED <<hdr, nv, data>> /\ op'.ack = 0
             /\ (pc' = "room" => op'.evicted = 0)
    <3>1. pc' \notin Writing \cup {"ack", "peek", "repair"} /\ pc' # "reply"
      BY <2>2 DEF Writing
    <3>. QED
      BY <2>0, <2>2, <3>1, CalmStep
  <2>3. Idle.ack = 0
        /\ [Idle EXCEPT !.rec = buildState(0), !.ret = IF on THEN "idle" ELSE "cfgoff"].ack = 0
        /\ [Idle EXCEPT !.rec = buildState(0), !.ret = IF on THEN "idle" ELSE "cfgoff"].evicted = 0
    BY DEF Idle
  <2>. QED
    BY <1>3, <2>0, <2>1, <2>2, <2>3 DEF configure
<1>. QED
  BY <1>1, <1>2, <1>3 DEF Configure

------------------------------------------------------------------------------
(***************************************************************************)
(* The 0xA9 handler.                                                       *)
(***************************************************************************)
LEMMA WalkKeeps ==
  ASSUME LogInv, UNCHANGED <<hdr, nv, data>>, pc \notin Appending,
         pc' \notin Appending \cup {"repair"}, ring_ok' = ring_ok
  PROVE  Mirror' /\ Evicting' /\ RingLog!Next
<1>1. RingLog!Next
  BY SameLog DEF Appending, Writing
<1>2. Mirror'
  BY DEF LogInv, Mirror
<1>3. Evicting'
  BY DEF Evicting, Appending
<1>. QED
  BY <1>1, <1>2, <1>3

LEMMA HandleLog ==
  ASSUME IInv, IInv', ChainInv, LogInv, NEW a \in (0 .. MaxSeq) \cup {NoAck},
         handleGetTelemetryBlock(a)
  PROVE  LogInv' /\ RingLog!Next
<1>. DEFINE r == hdr.read_off
            w == hdr.write_off
<1>0. /\ pc = "idle" /\ pc \notin Appending /\ ring_ok' = ring_ok /\ op.ack = 0
      /\ data \in Ring /\ r \in Offsets /\ w \in Offsets /\ hdr.next_seq \in 0 .. SeqMod - 1
  BY AckZero, LogTypes DEF handleGetTelemetryBlock, volatile, Appending
<1>1. CASE ~ring_ok /\ pc' = "reply" /\ op' = Idle /\ UNCHANGED <<hdr, nv, data>>
  <2>1. pc' \notin Writing \cup {"ack", "peek", "repair"} /\ pc' # "room"
    BY <1>1 DEF Writing
  <2>. QED
    BY <1>0, <1>1, <2>1, IdleFields, CalmStep
<1>2. CASE TripCall("idle")
  BY <1>0, <1>2, TripCallPlain, CallLog
<1>w. Walked(data, r, r, w) /\ Recs(data, r, r) = <<>>
  BY <1>0, WalkedFrom
<1>3. CASE /\ ring_ok /\ a # NoAck /\ a < hdr.next_seq /\ pc' = "ack"
           /\ op' = [Idle EXCEPT !.off = r, !.ack = a] /\ UNCHANGED <<hdr, nv, data>>
  <2>1. op'.off = r /\ op'.ack = a
    BY <1>3 DEF Idle
  <2>2. Mirror' /\ Evicting' /\ RingLog!Next
    BY <1>0, <1>3, WalkKeeps DEF Appending
  <2>3. UpTo(<<>>, a)
    BY DEF UpTo
  <2>4. Acking'
    BY <1>3, <1>w, <2>1, <2>3 DEF Acking, UpTo
  <2>5. Peeking' /\ Replying' /\ Acked'
    BY <1>0, <1>3 DEF Peeking, Replying, Acked
  <2>. QED
    BY <2>2, <2>4, <2>5 DEF LogInv
<1>4. CASE ring_ok /\ PeekFrom(r) /\ UNCHANGED <<hdr, nv, data>>
  <2>1. pc' = "peek" /\ op'.off = r /\ op'.ack = 0 /\ op'.got = <<>> /\ op'.used = 0
    BY <1>0, <1>4 DEF PeekFrom, Idle
  <2>2. Mirror' /\ Evicting' /\ RingLog!Next
    BY <1>0, <1>4, <2>1, WalkKeeps DEF Appending
  <2>3. Peeking'
    BY <1>4, <1>w, <2>1, RingAssumption DEF Peeking
  <2>4. Acking' /\ Replying' /\ Acked'
    BY <2>1 DEF Acking, Replying, Acked
  <2>. QED
    BY <2>2, <2>3, <2>4 DEF LogInv
<1>. QED
  BY <1>1, <1>2, <1>3, <1>4 DEF handleGetTelemetryBlock

LEMMA UpToMore ==
  ASSUME NEW s \in Seq(Nat), NEW t \in Seq(Nat), NEW a, UpTo(s, a), UpTo(t, a)
  PROVE  UpTo(s \o t, a)
<1>. SUFFICES ASSUME NEW i \in 1 .. Len(s \o t) PROVE (s \o t)[i] <= a
  BY DEF UpTo
<1>1. /\ Len(s) \in Nat /\ Len(t) \in Nat /\ Len(s \o t) = Len(s) + Len(t)
      /\ (s \o t)[i] = IF i <= Len(s) THEN s[i] ELSE t[i - Len(s)]
  BY ConcatProperties, LenProperties
<1>2. CASE i <= Len(s)
  BY <1>1, <1>2 DEF UpTo
<1>3. CASE ~(i <= Len(s))
  <2>1. i - Len(s) \in 1 .. Len(t)
    BY <1>1, <1>3
  <2>. QED
    BY <1>1, <1>3, <2>1 DEF UpTo
<1>. QED
  BY <1>2, <1>3

\* ack and peek go on from the record under op.off.
LEMMA UnderWalk ==
  ASSUME IInv, ChainInv, pc \in {"ack", "peek"},
         Walked(data, hdr.read_off, op.off, hdr.write_off), op.off # hdr.write_off,
         NEW x, x = Wrap(op.off + data[op.off])
  PROVE  /\ wellFormedAt(data, op.off, hdr.write_off)
         /\ Recs(data, hdr.read_off, x) = Recs(data, hdr.read_off, op.off) \o RecAt(data, op.off)
         /\ Walked(data, hdr.read_off, x, hdr.write_off)
         /\ Recs(data, hdr.read_off, op.off) \in Seq(Nat) /\ RecAt(data, op.off) \in Seq(Nat)
<1>. DEFINE r == hdr.read_off
            w == hdr.write_off
            m == op.off
<1>0. data \in Ring /\ r \in Offsets /\ w \in Offsets /\ m \in Offsets
  BY LogTypes
<1>1. wellFormedAt(data, m, w) /\ Typed(data, m)
  BY NeverBroken, WellFormedIs DEF ChainNeverBroken
<1>2. m \in Between(r, w) /\ Held(data, r, m, {})
  BY DEF Walked
<1>3. x = Wrap(m + data[m])
  OBVIOUS
<1>. HIDE DEF r, w, m
<1>4. /\ Recs(data, r, x) = Recs(data, r, m) \o RecAt(data, m)
      /\ x \in Between(r, w) \cup {w} /\ Held(data, r, x, {})
  BY ONLY <1>0, <1>1, <1>2, <1>3, RecsWalk
<1>5. Recs(data, r, m) \in Seq(Nat) /\ RecAt(data, m) \in Seq(Nat)
  BY <1>0, <1>1, RecsIs, RecAtType
<1>. QED
  BY <1>1, <1>4, <1>5 DEF r, w, m, Walked

LEMMA AckStepLog ==
  ASSUME IInv, ChainInv, LogInv, AckStep PROVE LogInv' /\ RingLog!Next
<1>. DEFINE m == op.off
            x == Wrap(m + data[m])
            s == Recs(data, hdr.read_off, m)
<1>0. /\ pc = "ack" /\ pc' = "ack" /\ UNCHANGED <<hdr, nv, data>> /\ ring_ok' = ring_ok
      /\ op'.off = x /\ op'.ack = op.ack /\ m # hdr.write_off
      /\ ~isPadAt(data, m) => seqAt(data, m) <= op.ack
  BY LogTypes DEF AckStep, AckFrees, volatile, Locals
<1>1. Walked(data, hdr.read_off, m, hdr.write_off) /\ UpTo(s, op.ack) /\ op.ack < hdr.next_seq
      /\ Acked
  BY <1>0 DEF LogInv, Acking
<1>2. /\ Recs(data, hdr.read_off, x) = s \o RecAt(data, m)
      /\ Walked(data, hdr.read_off, x, hdr.write_off)
      /\ s \in Seq(Nat) /\ RecAt(data, m) \in Seq(Nat)
  BY <1>0, <1>1, UnderWalk
<1>3. UpTo(RecAt(data, m), op.ack)
  <2>1. CASE isPadAt(data, m)
    BY <2>1 DEF RecAt, UpTo
  <2>2. CASE ~isPadAt(data, m)
    BY <1>0, <2>2 DEF RecAt, UpTo
  <2>. QED
    BY <2>1, <2>2
<1>. HIDE DEF x, s, m
<1>4. UpTo(s \o RecAt(data, m), op.ack)
  BY <1>1, <1>2, <1>3, UpToMore
<1>5. Mirror' /\ Evicting' /\ RingLog!Next
  BY <1>0, WalkKeeps DEF Appending
<1>6. UpTo(Recs(data, hdr.read_off, x), op.ack)
  BY <1>2, <1>4
<1>7. Acking'
  BY <1>0, <1>1, <1>2, <1>6 DEF Acking, UpTo
<1>8. Peeking' /\ Replying' /\ Acked'
  BY <1>0, <1>1 DEF Peeking, Replying, Acked
<1>. QED
  BY <1>5, <1>7, <1>8 DEF LogInv

\* The ack is over: the records up to op.off leave the log, and no other.
LEMMA AckDoneLog ==
  ASSUME IInv, ChainInv, LogInv, AckDone PROVE LogInv' /\ RingLog!Next
<1>. DEFINE r == hdr.read_off
            w == hdr.write_off
            m == op.off
            s == Recs(data, r, m)
            t == Recs(data, m, w)
<1>0. /\ data \in Ring /\ r \in Offsets /\ w \in Offsets /\ m \in Offsets /\ hdr \in Header
      /\ op.ack \in Nat /\ hdr.next_seq \in 0 .. SeqMod - 1
  BY LogTypes
<1>1. /\ pc = "ack" /\ pc' = "peek" /\ data' = data /\ ring_ok' = ring_ok /\ ~AckFrees
      /\ op'.off = m /\ op'.ack = op.ack /\ op'.got = <<>> /\ op'.used = 0
      /\ m # r => hdr' = [hdr EXCEPT !.read_off = m] /\ nv' = hdr'
      /\ m = r => hdr' = hdr /\ nv' = nv
  BY DEF AckDone, PeekFrom, sealHeader, volatile, Idle
<1>2. /\ hdr'.read_off = m /\ hdr'.write_off = w /\ hdr'.ok = hdr.ok
      /\ hdr'.next_seq = hdr.next_seq /\ hdr'.dropped = hdr.dropped
  BY <1>0, <1>1 DEF Header
<1>3. /\ ring_ok /\ nv.ok /\ hdr.ok /\ nv.read_off = r /\ nv.write_off = w
      /\ nv.next_seq = hdr.next_seq /\ nv.dropped = hdr.dropped /\ nv.next_seq # 0
  BY <1>1 DEF ChainInv, Open, Using, Appending, LogInv, Mirror
<1>4. /\ nv'.read_off = m /\ nv'.write_off = w /\ nv'.ok = nv.ok
      /\ nv'.next_seq = nv.next_seq /\ nv'.dropped = nv.dropped
  BY <1>1, <1>2, <1>3
<1>5. Walked(data, r, m, w) /\ UpTo(s, op.ack) /\ op.ack < hdr.next_seq
  BY <1>1 DEF LogInv, Acking
<1>6. Recs(data, r, w) = s \o t /\ s \in Seq(Nat) /\ t \in Seq(Nat)
  <2>1. Recs(data, r, w) = s \o t
    BY <1>0, <1>5, RecsConcat DEF Walked
  <2>2. s \in Seq(Nat) /\ t \in Seq(Nat)
    BY <1>0, RecsIs
  <2>. QED
    BY <2>1, <2>2
<1>7. Log = s \o t /\ Log' = t
  <2>1. Log = LogOf(nv, data) /\ Log' = LogOf(nv', data')
    BY <1>1 DEF Log, Writing, Records, LogOf, Recs, Dist, usedBytes
  <2>. QED
    BY <1>1, <1>3, <1>4, <1>6, <2>1 DEF LogOf
<1>8. Later(t, op.ack)
  <2>. SUFFICES ASSUME t # <<>> PROVE t[1] > op.ack
    BY DEF Later
  <2>1. m # w /\ wellFormedAt(data, m, w) /\ Typed(data, m)
    BY <1>0, RecsIs, WellFormedIs
  <2>2. ~isPadAt(data, m) /\ ~(seqAt(data, m) <= op.ack)
    BY <1>1, <2>1 DEF AckFrees
  <2>3. t = <<seqAt(data, m)>> \o Recs(data, Wrap(m + data[m]), w) /\ seqAt(data, m) \in Nat
    BY <1>0, <2>1, <2>2, RecsIs, RecAtType
  <2>4. Wrap(m + data[m]) \in Offsets
    BY <1>0, <2>1, Closer
  <2>5. Recs(data, Wrap(m + data[m]), w) \in Seq(Nat)
    BY <1>0, <2>4, RecsIs
  <2>. HIDE DEF t
  <2>6. t[1] = seqAt(data, m)
    BY <2>3, <2>5
  <2>. QED
    BY <1>0, <2>2, <2>3, <2>6
<1>. HIDE DEF r, w, m, s, t
<1>9. RingLog!Next
  <2>1. /\ Len(s) \in 0 .. Len(s \o t) /\ t = SubSeq(s \o t, Len(s) + 1, Len(s \o t))
        /\ \A i \in 1 .. Len(s) : (s \o t)[i] = s[i]
        /\ t # <<>> => (s \o t)[Len(s) + 1] = t[1]
        /\ t = <<>> => Len(s) = Len(s \o t)
    BY <1>6, DropFirst
  <2>2. Len(s) \in Nat
    BY <1>6, LenProperties
  <2>3. RingLog!Freed(op.ack, Len(s))
    <3>1. ASSUME NEW i \in 1 .. Len(s) PROVE Log[i] <= op.ack
      BY <1>5, <1>7, <2>1 DEF UpTo
    <3>2. ASSUME Len(s) < Len(Log) PROVE Log[Len(s) + 1] > op.ack
      <4>1. t # <<>>
        BY <1>7, <2>1, <2>2, <3>2
      <4>. QED
        BY <1>7, <1>8, <2>1, <4>1 DEF Later
    <3>. QED
      BY <3>1, <3>2 DEF RingLog!Freed
  <2>4. op.ack < IF nv.ok THEN nv.next_seq ELSE 1
    BY <1>3, <1>5
  <2>5. RingLog!Ack(op.ack, Len(s))
    <3>1. Log' = SubSeq(Log, Len(s) + 1, Len(Log))
      BY <1>7, <2>1
    <3>2. /\ (IF nv'.ok THEN nv'.next_seq ELSE 1) = (IF nv.ok THEN nv.next_seq ELSE 1)
          /\ (IF nv'.ok THEN nv'.dropped ELSE 0) = (IF nv.ok THEN nv.dropped ELSE 0)
      BY <1>4
    <3>. QED
      BY <2>3, <2>4, <3>1, <3>2 DEF RingLog!Ack
  <2>6. op.ack \in 0 .. SeqMod - 1 /\ Len(s) \in 0 .. Len(Log)
    BY <1>0, <1>5, <1>7, <2>1, RingFacts
  <2>7. \E a \in 0 .. SeqMod - 1, k \in 0 .. Len(Log) : RingLog!Ack(a, k)
    BY <2>5, <2>6
  <2>8. Risk' \in RingLog!Risks
    BY DEF Risk, RingLog!Risks
  <2>. QED
    BY <2>7, <2>8 DEF RingLog!Next
<1>10. Mirror'
  BY <1>1, <1>2, <1>3, <1>4 DEF Mirror
<1>11. Evicting' /\ Acking' /\ Replying'
  BY <1>1 DEF Evicting, Acking, Replying
<1>12. Peeking'
  <2>1. Walked(data, m, m, w) /\ Recs(data, m, m) = <<>>
    BY <1>0, WalkedFrom
  <2>. QED
    BY <1>1, <1>2, <2>1, RingAssumption DEF Peeking
<1>13. Acked'
  <2>1. Kept' = t
    BY <1>1, <1>2 DEF Kept, t
  <2>. QED
    BY <1>1, <1>3, <1>8, <2>1 DEF Acked, Later
<1>. QED
  BY <1>9, <1>10, <1>11, <1>12, <1>13 DEF LogInv

LEMMA PeekStepLog ==
  ASSUME IInv, ChainInv, LogInv, PeekStep PROVE LogInv' /\ RingLog!Next
<1>. DEFINE m == op.off
            x == Wrap(m + data[m])
            s == Recs(data, hdr.read_off, m)
<1>0. /\ pc = "peek" /\ pc' = "peek" /\ UNCHANGED <<hdr, nv, data>> /\ ring_ok' = ring_ok
      /\ op'.off = x /\ op'.ack = op.ack /\ m # hdr.write_off
      /\ op'.got = (IF isPadAt(data, m) THEN op.got ELSE Append(op.got, seqAt(data, m)))
      /\ op'.used = (IF isPadAt(data, m) THEN op.used ELSE op.used + data[m])
      /\ ~isPadAt(data, m) => op.used + data[m] <= Budget
  BY LogTypes DEF PeekStep, PeekTakes, volatile, Locals
<1>1. Walked(data, hdr.read_off, m, hdr.write_off) /\ op.got = s /\ op.used <= Budget /\ Acked
  BY <1>0 DEF LogInv, Peeking
<1>2. /\ Recs(data, hdr.read_off, x) = s \o RecAt(data, m)
      /\ Walked(data, hdr.read_off, x, hdr.write_off)
      /\ s \in Seq(Nat) /\ RecAt(data, m) \in Seq(Nat)
  BY <1>0, <1>1, UnderWalk
<1>3. op'.got = s \o RecAt(data, m) /\ op'.used <= Budget
  <2>. HIDE DEF s, m, x
  <2>1. CASE isPadAt(data, m)
    <3>1. RecAt(data, m) = <<>>
      BY <2>1 DEF RecAt
    <3>2. s \o <<>> = s
      BY <1>2, ConcatEmptySeq
    <3>. QED
      BY <1>0, <1>1, <2>1, <3>1, <3>2
  <2>2. CASE ~isPadAt(data, m)
    <3>1. RecAt(data, m) = <<seqAt(data, m)>>
      BY <2>2 DEF RecAt
    <3>2. seqAt(data, m) \in Nat
      <4>1. <<seqAt(data, m)>> \in Seq(Nat)
        BY <1>2, <3>1
      <4>. QED
        BY <4>1
    <3>3. Append(s, seqAt(data, m)) = s \o <<seqAt(data, m)>>
      BY <1>2, <3>2, AppendIsConcat
    <3>. QED
      BY <1>0, <1>1, <2>2, <3>1, <3>3
  <2>. QED
    BY <2>1, <2>2
<1>. HIDE DEF x, s, m
<1>5. Mirror' /\ Evicting' /\ RingLog!Next
  BY <1>0, WalkKeeps DEF Appending
<1>7. Peeking'
  BY <1>0, <1>2, <1>3 DEF Peeking
<1>8. Acking' /\ Replying'
  BY <1>0 DEF Acking, Replying
<1>9. Acked'
  BY <1>0, <1>1 DEF Acked, Later, Kept
<1>. QED
  BY <1>5, <1>7, <1>8, <1>9 DEF LogInv

\* The peek is over: what is left does not fit, or nothing is left.
LEMMA PeekDoneLog ==
  ASSUME IInv, ChainInv, LogInv, PeekDone PROVE LogInv' /\ RingLog!Next
<1>. DEFINE r == hdr.read_off
            w == hdr.write_off
            m == op.off
            s == Recs(data, r, m)
            t == Recs(data, m, w)
<1>0. /\ data \in Ring /\ r \in Offsets /\ w \in Offsets /\ m \in Offsets /\ op \in Locals
      /\ op.used \in Nat
  BY LogTypes
<1>1. /\ pc = "peek" /\ pc' = "reply" /\ UNCHANGED <<hdr, nv, data>> /\ ring_ok' = ring_ok
      /\ ~PeekTakes /\ op'.off = m /\ op'.ack = op.ack /\ op'.got = op.got
      /\ op'.used = op.used /\ op'.more = (m # w)
  BY <1>0 DEF PeekDone, volatile, Locals
<1>2. Walked(data, r, m, w) /\ op.got = s /\ op.used <= Budget /\ Acked
  BY <1>1 DEF LogInv, Peeking
<1>3. Recs(data, r, w) = s \o t /\ s \in Seq(Nat) /\ t \in Seq(Nat)
  BY <1>0, <1>2, RecsConcat, RecsIs DEF Walked
<1>4. m = w => t = <<>>
  BY <1>0, RecsIs
<1>5. ASSUME m # w PROVE t # <<>> /\ op.used + data[m] > Budget
  <2>1. wellFormedAt(data, m, w) /\ Typed(data, m)
    BY <1>0, <1>1, <1>5, NeverBroken, WellFormedIs DEF ChainNeverBroken
  <2>2. ~isPadAt(data, m) /\ ~(op.used + data[m] <= Budget)
    BY <1>1, <1>5, <2>1 DEF PeekTakes
  <2>3. data[m] \in Nat
    BY <1>0 DEF Ring
  <2>4. t = <<seqAt(data, m)>> \o Recs(data, Wrap(m + data[m]), w) /\ seqAt(data, m) \in Nat
    BY <1>0, <1>5, <2>1, <2>2, RecsIs, RecAtType
  <2>5. Wrap(m + data[m]) \in Offsets
    BY <1>0, <1>5, <2>1, Closer
  <2>6. Recs(data, Wrap(m + data[m]), w) \in Seq(Nat)
    BY <1>0, <2>5, RecsIs
  <2>. HIDE DEF t
  <2>7. Len(t) > 0
    BY <2>4, <2>6
  <2>8. t # <<>>
    BY <2>7
  <2>. QED
    BY <1>0, <2>2, <2>3, <2>8, RingAssumption
<1>. HIDE DEF r, w, m, s, t
<1>6. Kept' = s \o t
  BY <1>1, <1>3 DEF Kept, r, w
<1>7. /\ Len(s) <= Len(s \o t) /\ s = SubSeq(s \o t, 1, Len(s))
      /\ (m # w) = (Len(s) < Len(s \o t))
  <2>. DEFINE a == Len(s)
              b == Len(t)
              c == Len(s \o t)
  <2>1. /\ a \in Nat /\ b \in Nat /\ c = a + b /\ s = SubSeq(s \o t, 1, a)
        /\ (t # <<>> => a < c) /\ (t = <<>> => a = c)
    BY <1>3, DropFirst, LenProperties
  <2>. HIDE DEF a, b, c
  <2>2. a <= c
    BY <2>1
  <2>3. (m # w) => a < c
    BY <1>5, <2>1
  <2>4. (m = w) => ~(a < c)
    BY <1>4, <2>1
  <2>5. (m # w) = (a < c)
    BY <2>3, <2>4
  <2>. QED
    BY <2>1, <2>2, <2>5, Zenon DEF a, c
<1>8. Block'
  <2>g. op'.got = s
    BY <1>1, <1>2
  <2>1. op'.got = s /\ Len(op'.got) <= Len(Kept')
    BY <1>6, <1>7, <2>g
  <2>2. op'.got = SubSeq(Kept', 1, Len(op'.got))
    BY <1>6, <1>7, <2>1
  <2>3. op'.more = (Len(op'.got) < Len(Kept'))
    <3>2. op'.more = (m # w)
      BY <1>1
    <3>. QED
      BY <1>6, <1>7, <2>g, <3>2
  <2>4. op'.more => op'.used + data'[op'.off] > Budget
    BY <1>1, <1>5
  <2>5. op'.used <= Budget
    BY <1>1, <1>2
  <2>. QED
    BY <2>1, <2>2, <2>3, <2>4, <2>5 DEF Block
<1>9. Mirror' /\ Evicting' /\ RingLog!Next
  BY <1>1, WalkKeeps DEF Appending
<1>10. Peeking' /\ Acking' /\ Replying'
  BY <1>1, <1>8 DEF Peeking, Acking, Replying
<1>11. Acked'
  BY <1>1, <1>2 DEF Acked, Later, Kept
<1>. QED
  BY <1>9, <1>10, <1>11 DEF LogInv

LEMMA DrainLog ==
  ASSUME IInv, IInv', ChainInv, LogInv, Drain PROVE LogInv' /\ RingLog!Next
<1>1. CASE \E a \in (0 .. MaxSeq) \cup {NoAck} : handleGetTelemetryBlock(a)
  BY <1>1, HandleLog
<1>2. CASE AckStep
  BY <1>2, AckStepLog
<1>3. CASE AckDone
  BY <1>3, AckDoneLog
<1>4. CASE PeekStep
  BY <1>4, PeekStepLog
<1>5. CASE PeekDone
  BY <1>5, PeekDoneLog
<1>6. CASE Reply
  <2>1. /\ pc = "reply" /\ pc' = "idle" /\ op' = Idle /\ UNCHANGED <<hdr, nv, data>>
        /\ ring_ok' = ring_ok
    BY <1>6 DEF Reply, volatile
  <2>2. pc \notin Appending /\ pc' \notin Writing \cup {"ack", "peek", "repair"}
        /\ pc' # "reply" /\ pc' # "room"
    BY <2>1 DEF Writing, Appending
  <2>. QED
    BY <2>1, <2>2, IdleFields, CalmStep
<1>. QED
  BY <1>1, <1>2, <1>3, <1>4, <1>5, <1>6 DEF Drain

------------------------------------------------------------------------------
\* A reset in the middle of a write spoils no record of the log, unless OCRAM's
\* header still reaches a record that has been evicted to make room.
LEMMA ResetLog ==
  ASSUME IInv, IInv', LogInv, NEW torn \in BOOLEAN, Reset(torn)
  PROVE  LogInv' /\ RingLog!Next
<1>d. data' \in Ring
  BY DEF IInv, TypeOK, Ring
<1>0. /\ pc' = "boot" /\ op' = Idle /\ ~ring_ok' /\ hdr' = nv' /\ data' \in Debris
      /\ nv' = (IF torn THEN BadHeader ELSE nv) /\ (torn => HeaderAtRisk)
      /\ data \in Ring /\ hdr.read_off \in Offsets /\ hdr.write_off \in Offsets
  BY LogTypes DEF Reset
<1>b. ~BadHeader.ok /\ BadHeader.next_seq = 1
  BY DEF BadHeader, FreshHeader
<1>m. Mirror
  BY DEF LogInv
<1>1. Mirror'
  <2>1. nv'.next_seq # 0
    BY <1>0, <1>b, <1>m DEF Mirror
  <2>. QED
    BY <1>0, <2>1 DEF Mirror
<1>2. Evicting' /\ Acking' /\ Peeking' /\ Replying' /\ Acked'
  BY <1>0, IdleFields DEF Evicting, Acking, Peeking, Replying, Acked
<1>r. Risk' \in RingLog!Risks
  BY DEF Risk, RingLog!Risks
<1>l. Log' = LogOf(nv', data')
  BY <1>0 DEF Log, Writing, Records, LogOf, Recs, Dist, usedBytes
<1>3. CASE torn
  <2>1. Log' = <<>> /\ ~nv'.ok
    BY <1>0, <1>3, <1>b, <1>l DEF LogOf
  <2>2. Risk \in {"wipe", "scramble"}
    BY <1>0, <1>3 DEF Risk
  <2>3. RingLog!Wipe
    BY <2>1, <2>2 DEF RingLog!Wipe
  <2>. QED
    BY <1>1, <1>2, <1>r, <2>3 DEF LogInv, RingLog!Next
<1>4. CASE ~torn /\ pc \notin Writing
  <2>1. data' = data
    BY <1>0, <1>4, DebrisFacts DEF Writing, IInv
  <2>2. nv' = nv /\ pc' \notin Writing
    BY <1>0, <1>4 DEF Writing
  <2>3. RingLog!Next
    BY <1>4, <2>1, <2>2, SameLog
  <2>. QED
    BY <1>1, <1>2, <2>3 DEF LogInv
<1>5. CASE ~torn /\ pc \in Writing /\ Exposed
  <2>1. Risk = "scramble"
    BY <1>5 DEF Risk
  <2>2. RingLog!Scramble
    BY <1>0, <1>5, <2>1 DEF RingLog!Scramble
  <2>. QED
    BY <1>1, <1>2, <1>r, <2>2 DEF LogInv, RingLog!Next
<1>6. CASE ~torn /\ pc \in Writing /\ ~Exposed
  <2>. DEFINE r == hdr.read_off
              w == hdr.write_off
  <2>1. nv' = nv /\ nv.read_off = r /\ nv.write_off = w /\ nv.ok = hdr.ok
    BY <1>0, <1>6, <1>m DEF Exposed, Writing, Mirror
  <2>2. ASSUME NEW o \in Between(r, w) PROVE data'[o] = data[o]
    <3>1. o \in Live(hdr) /\ o \in Offsets
      BY DEF Between, Live
    <3>2. /\ pc = "pad" => o \notin DOMAIN PadBytes
          /\ pc = "rec" => o \notin DOMAIN RecBytes
      BY <3>1, WriteIsFree
    <3>3. /\ pc = "pad" => \A i \in Offsets \ DOMAIN PadBytes : data'[i] = data[i]
          /\ pc = "rec" => \A i \in Offsets \ DOMAIN RecBytes : data'[i] = data[i]
          /\ pc \notin {"pad", "rec"} => data' = data
      BY <1>0, DebrisFacts DEF IInv
    <3>. QED
      BY <3>1, <3>2, <3>3
  <2>3. Recs(data', r, w) = Recs(data, r, w)
    BY <1>0, <1>d, <2>2, RecsSame
  <2>4. Log = LogOf(hdr, data)
    BY <1>6, LogIs
  <2>5. Log' = Log
    BY <1>l, <2>1, <2>3, <2>4 DEF LogOf
  <2>6. RingLog!Next
    BY <2>1, <2>5, KeepStep
  <2>. QED
    BY <1>1, <1>2, <2>6 DEF LogInv
<1>. QED
  BY <1>3, <1>4, <1>5, <1>6

LEMMA LogStep == IInv /\ IInv' /\ ChainInv /\ LogInv /\ [Next]_vars => LogInv' /\ RingLog!Next
<1>. SUFFICES ASSUME IInv, IInv', ChainInv, LogInv, [Next]_vars PROVE LogInv' /\ RingLog!Next
  OBVIOUS
<1>1. CASE appendRaw
  BY <1>1, EvictLog, RoomDoneLog, WriteLog, PublishLog DEF appendRaw
<1>2. CASE append
  BY <1>2, AppendLog
<1>3. CASE begin
  BY <1>3, BeginLog
<1>4. CASE Configure
  BY <1>4, ConfigureLog
<1>5. CASE Drain
  BY <1>5, DrainLog
<1>6. CASE Produce
  <2>1. PICK rec \in ProducerRecords : AppendCall(rec, "idle", 0)
    BY <1>6 DEF Produce
  <2>2. ring_ok' = ring_ok /\ pc \notin Appending
    BY <1>6 DEF Produce, volatile, Appending
  <2>. QED
    BY <2>1, <2>2, AppendCallPlain, CallLog
<1>7. CASE service
  <2>1. ring_ok' = ring_ok /\ pc \notin Appending
    BY <1>7 DEF service, volatile, Appending
  <2>2. CASE TripCall("idle")
    BY <2>1, <2>2, TripCallPlain, CallLog
  <2>3. CASE AppendCall(SynthRecord, "idle", 0)
    BY <2>1, <2>3, AppendCallPlain, CallLog
  <2>. QED
    BY <1>7, <2>2, <2>3 DEF service
<1>8. CASE HeapGrows
  <2>1. /\ pc = "idle" /\ pc' = "idle" /\ op' = op /\ ring_ok' = ring_ok
        /\ UNCHANGED <<hdr, nv, data>>
    BY <1>8 DEF HeapGrows, volatile
  <2>2. /\ pc \notin Appending /\ op.ack = 0
        /\ pc' \notin Writing \cup {"ack", "peek", "repair"} /\ pc' # "reply" /\ pc' # "room"
    BY <2>1, AckZero DEF Appending, Writing
  <2>. QED
    BY <2>1, <2>2, CalmStep
<1>9. CASE \E torn \in BOOLEAN : Reset(torn)
  BY <1>9, ResetLog
<1>10. CASE UNCHANGED vars
  <2>1. hdr' = hdr /\ nv' = nv /\ data' = data /\ pc' = pc /\ op' = op /\ ring_ok' = ring_ok
    BY <1>10 DEF vars, volatile
  <2>2. Mirror' /\ Evicting' /\ Acking'
    BY <2>1 DEF LogInv, Mirror, Evicting, Acking, Walked, UpTo
  <2>3. Peeking' /\ Replying' /\ Acked'
    BY <2>1 DEF LogInv, Peeking, Replying, Acked, Block, Kept, Later, Walked
  <2>4. Log' = Log
    BY <2>1 DEF Log, Records, usedBytes
  <2>5. RingLog!Next
    BY <2>1, <2>4, KeepStep
  <2>. QED
    BY <2>2, <2>3, <2>5 DEF LogInv
<1>. QED
  BY <1>1, <1>2, <1>3, <1>4, <1>5, <1>6, <1>7, <1>8, <1>9, <1>10 DEF Next

LEMMA InitLog == Init => ChainInv /\ LogInv /\ RingLog!Init
<1>. SUFFICES ASSUME Init PROVE ChainInv /\ LogInv /\ RingLog!Init
  OBVIOUS
<1>1. pc = "boot" /\ op = Idle /\ hdr = nv /\ nv = BadHeader /\ ~ring_ok /\ ~enabled
  BY DEF Init
<1>2. ~BadHeader.ok /\ BadHeader.next_seq = 1
  BY DEF BadHeader, FreshHeader
<1>3. ChainInv
  BY <1>1 DEF ChainInv, Open, Chained, Repairing, Written, Using, Appending
<1>4. LogInv
  BY <1>1, <1>2, IdleFields DEF LogInv, Mirror, Evicting, Acking, Peeking, Replying, Acked
<1>5. Log = <<>>
  BY <1>1, <1>2, LogIs DEF Writing, LogOf
<1>6. RingLog!Init
  BY <1>1, <1>2, <1>5 DEF RingLog!Init, Risk, RingLog!Risks
<1>. QED
  BY <1>3, <1>4, <1>6

LEMMA LogInvariance == Spec => []ChainInv /\ []LogInv
BY InitLog, ChainInductive, LogStep, Invariance, PTL DEF Spec

\* The ring implements the log, for every ring size, record length, budget and
\* bound: each step of Telemetry.cpp, the loops and flushes of makeRoom, appendRaw,
\* repairChain and the 0xA9 handler included, and each reset between two of them,
\* is one step of TelemetryLog or changes nothing it speaks of.
THEOREM RingImplementsLog == Spec => ImplementsLog
<1>1. IInv /\ IInv' /\ ChainInv /\ LogInv /\ [Next]_vars => [RingLog!Next]_(RingLog!logVars)
  BY LogStep
<1>. QED
  BY <1>1, InitLog, Invariance, LogInvariance, PTL DEF Spec, ImplementsLog, RingLog!Spec

------------------------------------------------------------------------------
(***************************************************************************)
(* RepliesExact.  The block is exact in every run.  That the ack leaves no *)
(* record it covers needs the records to stand in the order of their       *)
(* sequence numbers, which holds until the counter wraps or a reset strikes*)
(* an append that has evicted a PAD and nothing else.                      *)
(***************************************************************************)
LEMMA ReplyLog ==
  ASSUME LogInv, pc = "reply" PROVE ring_ok => Log = Kept
<1>. SUFFICES ASSUME ring_ok PROVE Log = Kept
  OBVIOUS
<1>1. Log = LogOf(nv, data)
  BY LogIs DEF Writing
<1>2. nv.ok /\ hdr.read_off = nv.read_off /\ hdr.write_off = nv.write_off
  BY DEF LogInv, Mirror, Appending
<1>. QED
  BY <1>1, <1>2 DEF LogOf, Kept

\* Each reply of the 0xA9 handler carries the longest run of whole records, from
\* the oldest one on, that fits into the budget of a block.
THEOREM BlocksExact == Spec => []BlockIsPrefix
<1>1. LogInv => BlockIsPrefix
  <2>. SUFFICES ASSUME LogInv, pc = "reply", ring_ok
                PROVE  /\ Len(op.got) <= Len(Log)
                       /\ op.got = SubSeq(Log, 1, Len(op.got))
                       /\ op.used <= Budget
                       /\ op.more = (Len(op.got) < Len(Log))
                       /\ op.more => op.used + data[op.off] > Budget
    BY DEF BlockIsPrefix
  <2>1. Log = Kept /\ Block
    BY ReplyLog DEF LogInv, Replying
  <2>. QED
    BY <2>1 DEF Block
<1>. QED
  BY <1>1, LogInvariance, PTL

\* An ack never leaves the oldest record behind when it covers it.
LEMMA OldestIsLater == Spec => [](pc = "reply" /\ op.ack > 0 => Later(Log, op.ack))
<1>1. LogInv => (pc = "reply" /\ op.ack > 0 => Later(Log, op.ack))
  BY ReplyLog DEF LogInv, Acked
<1>. QED
  BY <1>1, LogInvariance, PTL

Sorted(s, n) ==
  /\ \A i, j \in 1 .. Len(s) : i < j => s[i] < s[j]
  /\ \A i \in 1 .. Len(s) : s[i] < n

LEMMA SortedMore ==
  ASSUME NEW s \in Seq(Nat), NEW n \in Nat, Sorted(s, n)
  PROVE  Sorted(Append(s, n), n + 1)
<1>. DEFINE t == Append(s, n)
            k == Len(s)
<1>1. /\ k \in Nat /\ Len(t) = k + 1
      /\ \A i \in 1 .. k + 1 : t[i] = IF i <= k THEN s[i] ELSE n
  OBVIOUS
<1>2. /\ \A i, j \in 1 .. k : i < j => s[i] < s[j]
      /\ \A i \in 1 .. k : s[i] < n /\ s[i] \in Nat
  BY ElementOfSeq DEF Sorted
<1>. HIDE DEF t, k
<1>3. ASSUME NEW i \in 1 .. Len(t) PROVE t[i] < n + 1
  BY <1>1, <1>2
<1>4. ASSUME NEW i \in 1 .. Len(t), NEW j \in 1 .. Len(t), i < j PROVE t[i] < t[j]
  <2>1. i \in 1 .. k /\ t[i] = s[i]
    BY <1>1, <1>4
  <2>2. CASE j \in 1 .. k
    BY <1>1, <1>2, <1>4, <2>1, <2>2
  <2>3. CASE j \notin 1 .. k
    <3>1. t[j] = n
      BY <1>1, <2>3
    <3>. QED
      BY <1>2, <2>1, <3>1
  <2>. QED
    BY <2>2, <2>3
<1>. QED
  BY <1>3, <1>4 DEF Sorted, t

LEMMA SortedRest ==
  ASSUME NEW s \in Seq(Nat), NEW n, Sorted(s, n), NEW k \in 0 .. Len(s)
  PROVE  SubSeq(s, k + 1, Len(s)) \in Seq(Nat) /\ Sorted(SubSeq(s, k + 1, Len(s)), n)
<1>. DEFINE t == SubSeq(s, k + 1, Len(s))
            m == Len(s)
<1>1. m \in Nat /\ k \in Nat /\ k <= m
  BY LenProperties
<1>2. Len(t) = m - k /\ \A i \in 1 .. m - k : t[i] = s[k + i]
  <2>1. \A i \in k + 1 .. m : s[i] \in Nat
    <3>1. \A i \in k + 1 .. m : i \in 1 .. m
      BY <1>1
    <3>. QED
      BY <3>1, ElementOfSeq
  <2>2. k + 1 \in Int /\ m \in Int
    BY <1>1
  <2>3. /\ Len(t) = (IF k + 1 <= m THEN m - (k + 1) + 1 ELSE 0)
        /\ \A i \in 1 .. m - (k + 1) + 1 : t[i] = s[(k + 1) + i - 1]
    BY <2>1, <2>2, SubSeqProperties
  <2>. HIDE DEF t, m
  <2>4. Len(t) = m - k
    BY <1>1, <2>3
  <2>5. ASSUME NEW i \in 1 .. m - k PROVE t[i] = s[k + i]
    <3>1. i \in 1 .. m - (k + 1) + 1 /\ (k + 1) + i - 1 = k + i
      BY <1>1
    <3>. QED
      BY <2>3, <3>1
  <2>. QED
    BY <2>4, <2>5
<1>t. t \in Seq(Nat)
  <2>1. \A i \in k + 1 .. m : i \in 1 .. m
    BY <1>1
  <2>2. \A i \in k + 1 .. m : s[i] \in Nat
    BY <2>1, ElementOfSeq
  <2>3. k + 1 \in Int /\ m \in Int
    BY <1>1
  <2>. QED
    BY <2>2, <2>3, SubSeqProperties
<1>3. /\ \A i, j \in 1 .. m : i < j => s[i] < s[j]
      /\ \A i \in 1 .. m : s[i] < n
  BY DEF Sorted
<1>. HIDE DEF t, m
<1>4. ASSUME NEW i \in 1 .. Len(t) PROVE t[i] < n
  <2>1. k + i \in 1 .. m /\ t[i] = s[k + i]
    BY <1>1, <1>2
  <2>. QED
    BY <1>3, <2>1
<1>5. ASSUME NEW i \in 1 .. Len(t), NEW j \in 1 .. Len(t), i < j PROVE t[i] < t[j]
  <2>1. /\ k + i \in 1 .. m /\ t[i] = s[k + i] /\ k + j \in 1 .. m /\ t[j] = s[k + j]
        /\ k + i < k + j
    BY <1>1, <1>2, <1>5
  <2>. QED
    BY <1>3, <2>1
<1>. QED
  BY <1>t, <1>4, <1>5 DEF Sorted, t, m

\* The sequence number the log gives out next, and a log in that order.
NextSeq == IF nv.ok THEN nv.next_seq ELSE 1

Ordered == Log \in Seq(Nat) /\ Sorted(Log, NextSeq)

\* A step of a run in which the counter has not wrapped and no reset strikes an
\* append whose only eviction was a PAD.
Orderly == hdr.next_seq # NoAck /\ (Exposed => resets' = resets)

LEMMA ExposedStep ==
  ASSUME IInv, IInv', ChainInv, LogInv, Next, Exposed, resets' = resets
  PROVE  RingLog!Emit \/ RingLog!Keep
<1>1. pc \in {"pad", "rec", "head"} /\ resets \in Nat
  BY RingAssumption DEF Exposed, IInv, TypeOK
<1>2. WritePad \/ WriteRecord \/ Publish
  <2>1. ~append /\ ~begin
    BY <1>1 DEF append, begin, NewEpisode, SameEpisode, MarkerDone, TripDone, BeginGuarded,
                initRing, BeginKeep, RepairStep, RepairDone, BootRecord
  <2>2. ~Configure /\ ~Drain
    BY <1>1 DEF Configure, ConfigureOn, ConfigureOff, configure, Drain, handleGetTelemetryBlock,
                AckStep, AckDone, PeekStep, PeekDone, Reply
  <2>3. ~Produce /\ ~service /\ ~HeapGrows
    BY <1>1 DEF Produce, service, HeapGrows
  <2>4. ~MakeRoomEvict /\ ~MakeRoomDone
    BY <1>1 DEF MakeRoomEvict, MakeRoomDone
  <2>5. ASSUME NEW torn \in BOOLEAN PROVE ~Reset(torn)
    BY <1>1 DEF Reset
  <2>. QED
    BY <2>1, <2>2, <2>3, <2>4, <2>5 DEF Next, appendRaw
<1>. QED
  BY <1>2, WriteLog, PublishLog

LEMMA OrderedStep ==
  ASSUME IInv, IInv', ChainInv, LogInv, Ordered, [Next]_vars, [Orderly]_vars
  PROVE  Ordered'
<1>n. NextSeq \in 1 .. SeqMod - 1
  <2>1. nv.next_seq \in 0 .. SeqMod - 1 /\ nv.next_seq # 0
    BY LogTypes DEF LogInv, Mirror
  <2>. QED
    BY <2>1, RingFacts DEF NextSeq
<1>1. CASE UNCHANGED vars
  <2>1. Log' = Log /\ NextSeq' = NextSeq
    BY <1>1 DEF vars, volatile, Log, Records, usedBytes, NextSeq
  <2>. QED
    BY <2>1 DEF Ordered
<1>2. CASE Next /\ Orderly
  <2>0. NextSeq \in Nat /\ NextSeq + 1 < SeqMod /\ NextSeq \notin {0, NoAck}
    <3>1. NextSeq # NoAck
      BY <1>2, RingFacts DEF LogInv, Mirror, NextSeq, NoAck, Orderly
    <3>. QED
      BY <1>n, <3>1, RingFacts DEF NoAck
  <2>1. CASE RingLog!Emit
    <3>1. /\ Log' = Append(Log, RingLog!Stamp(NextSeq))
          /\ NextSeq' = (RingLog!Stamp(NextSeq) + 1) % SeqMod
      BY <2>1 DEF RingLog!Emit, NextSeq
    <3>2. RingLog!Stamp(NextSeq) = NextSeq
      BY <2>0 DEF RingLog!Stamp, RingLog!NoAck, NoAck
    <3>3. (NextSeq + 1) % SeqMod = NextSeq + 1
      BY <2>0, RingFacts
    <3>4. Log' = Append(Log, NextSeq) /\ NextSeq' = NextSeq + 1
      BY <3>1, <3>2, <3>3
    <3>5. Sorted(Append(Log, NextSeq), NextSeq + 1) /\ Append(Log, NextSeq) \in Seq(Nat)
      BY <2>0, SortedMore DEF Ordered
    <3>. QED
      BY <3>4, <3>5 DEF Ordered
  <2>2. CASE RingLog!Keep
    BY <2>2 DEF RingLog!Keep, Ordered, NextSeq
  <2>r. ASSUME NEW k \in 0 .. Len(Log), Log' = SubSeq(Log, k + 1, Len(Log)), NextSeq' = NextSeq
        PROVE  Ordered'
    BY <2>r, SortedRest DEF Ordered
  <2>3. CASE \E k \in 1 .. Len(Log) : RingLog!Evict(k)
    <3>1. PICK k \in 1 .. Len(Log) : RingLog!Evict(k)
      BY <2>3
    <3>2. Len(Log) \in Nat
      BY LenProperties DEF Ordered
    <3>3. k \in 0 .. Len(Log) /\ NextSeq' = NextSeq
      BY <3>1, <3>2 DEF RingLog!Evict, NextSeq
    <3>4. Log' = SubSeq(Log, k + 1, Len(Log))
      BY <3>1 DEF RingLog!Evict
    <3>. QED
      BY <3>3, <3>4, <2>r
  <2>4. CASE \E a \in 0 .. SeqMod - 1, k \in 0 .. Len(Log) : RingLog!Ack(a, k)
    <3>1. PICK a \in 0 .. SeqMod - 1, k \in 0 .. Len(Log) : RingLog!Ack(a, k)
      BY <2>4
    <3>2. NextSeq' = NextSeq /\ Log' = SubSeq(Log, k + 1, Len(Log))
      BY <3>1 DEF RingLog!Ack, NextSeq
    <3>. QED
      BY <3>2, <2>r
  <2>5. CASE RingLog!Wipe
    <3>1. Log' = <<>>
      BY <2>5 DEF RingLog!Wipe
    <3>. QED
      BY <3>1 DEF Ordered, Sorted
  <2>6. CASE RingLog!Scramble
    <3>1. Exposed
      BY <2>6 DEF RingLog!Scramble, Risk
    <3>2. RingLog!Emit \/ RingLog!Keep
      BY <1>2, <3>1, ExposedStep DEF Orderly
    <3>. QED
      BY <2>1, <2>2, <3>2
  <2>7. RingLog!Next
    BY LogStep
  <2>. QED
    BY <2>1, <2>2, <2>3, <2>4, <2>5, <2>6, <2>7 DEF RingLog!Next
<1>. QED
  BY <1>1, <1>2

\* In every run in which the counter has not wrapped and no reset strikes an
\* append that has evicted a PAD alone, each reply is exact: the longest run of
\* records that fits, and no record the host has acknowledged is left.
THEOREM RepliesAreExact == Spec /\ [][Orderly]_vars => []RepliesExact
<1>1. Init => Ordered
  <2>. SUFFICES ASSUME Init PROVE Ordered
    OBVIOUS
  <2>1. Log = <<>>
    BY InitLog DEF RingLog!Init
  <2>. QED
    BY <2>1 DEF Ordered, Sorted
<1>2. IInv /\ LogInv /\ BlockIsPrefix /\ Ordered => RepliesExact
  <2>. SUFFICES ASSUME IInv, LogInv, BlockIsPrefix, Ordered, pc = "reply", op.ack > 0,
                       NEW i \in 1 .. Len(Log)
                PROVE  Log[i] > op.ack
    BY DEF RepliesExact, AckIsExact
  <2>1. Later(Log, op.ack)
    BY ReplyLog DEF LogInv, Acked
  <2>. DEFINE s == Log
  <2>2. s \in Seq(Nat) /\ Sorted(s, NextSeq) /\ (s # <<>> => s[1] > op.ack) /\ i \in 1 .. Len(s)
    BY <2>1 DEF Ordered, Later
  <2>. HIDE DEF s
  <2>3. s # <<>> /\ 1 \in 1 .. Len(s) /\ (i = 1 \/ 1 < i)
    BY <2>2, LenProperties
  <2>4. s[1] \in Nat /\ s[i] \in Nat /\ (i = 1 \/ s[1] < s[i])
    BY <2>2, <2>3, ElementOfSeq DEF Sorted
  <2>5. op.ack \in Nat
    BY LogTypes
  <2>. QED
    BY <2>2, <2>3, <2>4, <2>5 DEF s
<1>. QED
  BY <1>1, <1>2, OrderedStep, Invariance, LogInvariance, BlocksExact, PTL DEF Spec
==============================================================================
