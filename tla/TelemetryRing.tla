---------------------------- MODULE TelemetryRing ----------------------------
(***************************************************************************)
(* The reset-surviving telemetry ring of src/Telemetry.cpp: a byte ring in *)
(* OCRAM, a header line in front of it, and the code that appends, evicts, *)
(* acknowledges, drains and, after a reset, repairs it.                    *)
(*                                                                         *)
(* OCRAM is write-back cached.  hdr is the header as the CPU sees it, nv   *)
(* the header as the last dcache flush left it: a reset throws hdr away    *)
(* and boots from nv.  data is the byte ring; its bytes are flushed right  *)
(* after they are written, so one copy is enough and a reset in the middle *)
(* of a write leaves part of it (Partial).                                 *)
(*                                                                         *)
(* The firmware is one thread.  Its loops and flushes are the steps of pc; *)
(* between any two of them a Reset may strike.  The record layout is the   *)
(* code's, scaled: byte 0 len, byte 1 type, byte 2 seq (one cell for the   *)
(* four bytes), then kRecordHeaderLen onwards the payload; the time stamp  *)
(* is left out.                                                            *)
(***************************************************************************)
EXTENDS Integers, Sequences, FiniteSets

CONSTANTS
  kDataSize,          \* bytes in the ring
  kRecordHeaderLen,   \* bytes before the payload
  kCmdRecordLenMax,   \* longest CMD record
  kFrameRecordLen,    \* FRAME record
  kStateRecordLen,    \* STATE record
  SeqMod,             \* 2^32: one past the largest sequence number
  Budget,             \* most record bytes of one GET_TELEMETRY_BLOCK reply
  MaxSeq,             \* bound: producers stop at this sequence number
  MaxResets,          \* bound: resets of one behaviour
  MaxBootExtras       \* bound: STATE records begin() adds after a watchdog reset

REC_PAD   == 0
REC_CMD   == 1
REC_FRAME == 2
REC_STATE == 3

Offsets   == 0 .. kDataSize - 1
NoAck     == SeqMod - 1              \* 0xFFFFFFFF
CmdLens   == kRecordHeaderLen + 1 .. kCmdRecordLenMax
RecordLens == CmdLens \cup {kFrameRecordLen, kStateRecordLen}

ASSUME RingAssumption ==
  /\ kDataSize \in Nat /\ SeqMod \in Nat /\ SeqMod > 3
  /\ kRecordHeaderLen \in Nat /\ kRecordHeaderLen >= 3
  /\ kCmdRecordLenMax \in Nat /\ kFrameRecordLen \in Nat
  /\ kStateRecordLen \in Nat /\ kStateRecordLen > kRecordHeaderLen
  /\ kFrameRecordLen > kRecordHeaderLen /\ kCmdRecordLenMax > kRecordHeaderLen
  /\ \A l \in RecordLens : 2 * l <= kDataSize
  /\ Budget \in Nat /\ MaxSeq \in Nat
  /\ MaxResets \in Nat /\ MaxBootExtras \in Nat

(***************************************************************************)
(* A heap below the guard band, inside it, or past the start of the ring.  *)
(***************************************************************************)
HeapLevels == {"clear", "close", "inside"}

VARIABLES
  hdr,               \* the header in the cache
  nv,                \* the header in OCRAM
  data,              \* the byte ring
  brk,               \* where __brkval stands
  ring_ok,           \* ring_ok_: the ring may be touched this boot
  enabled,           \* enabled_: producers record
  synth_on,          \* synth_on_
  dropped_reported,  \* hdr->dropped at the last overrun marker
  evicted_ever,      \* evicted_ever_
  resets,            \* resets so far
  pc,                \* the step the firmware is at
  op                 \* the locals of that step

volatile == <<ring_ok, enabled, synth_on, dropped_reported, evicted_ever>>
vars == <<hdr, nv, data, brk, volatile, resets, pc, op>>

(***************************************************************************)
(* Locals.  rec: the record being appended.  ctx: which appendRaw call     *)
(* this is (a producer's, its overrun marker's, the heap guard's).  ret:   *)
(* where the caller goes on.  since: count carried by the overrun marker.  *)
(* off, ack, got, used: the ack, peek and repair walks.  todo: STATE       *)
(* records begin() still has to append.                                    *)
(***************************************************************************)
Idle == [rec |-> <<>>, ctx |-> "append", ret |-> "idle", evicted |-> 0,
         since |-> 0, off |-> 0, ack |-> 0, got |-> <<>>, used |-> 0,
         more |-> FALSE, todo |-> 0]

Locals == [rec : Seq(Nat), ctx : {"append", "marker", "trip"},
           ret : {"idle", "bootrec", "cfgoff"}, evicted : Nat, since : Nat,
           off : Offsets, ack : Nat, got : Seq(Nat), used : Nat,
           more : BOOLEAN, todo : Nat]

Header == [write_off : Offsets, read_off : Offsets, next_seq : 0 .. SeqMod - 1,
           dropped : Nat, boot_count : Nat, on : BOOLEAN, ok : BOOLEAN]

(***************************************************************************)
(* Reading the ring.                                                       *)
(***************************************************************************)
usedBytes(h) == IF h.write_off >= h.read_off
                THEN h.write_off - h.read_off
                ELSE kDataSize - h.read_off + h.write_off

freeBytes(h) == kDataSize - 1 - usedBytes(h)

\* A cursor that has reached the end of the ring continues at 0.
Wrap(end) == IF end = kDataSize THEN 0 ELSE end

isPadAt(d, off) == d[off] >= kRecordHeaderLen => d[off + 1] = REC_PAD

seqAt(d, off) == d[off + 2]

wellFormedAt(d, off, w) ==
  LET len == d[off] IN
  /\ len # 0
  /\ off + len <= kDataSize
  /\ ~(off < w /\ off + len > w)
  /\ IF len < kRecordHeaderLen
     THEN len > 1 => d[off + 1] = REC_PAD
     ELSE \/ d[off + 1] = REC_PAD
          \/ /\ d[off + 1] = REC_CMD
             /\ len \in CmdLens
             /\ d[off + kRecordHeaderLen] = len - (kRecordHeaderLen + 1)
          \/ d[off + 1] = REC_FRAME /\ len = kFrameRecordLen
          \/ d[off + 1] = REC_STATE /\ len = kStateRecordLen

(***************************************************************************)
(* Records as the producers build them, before appendRaw stamps the seq.   *)
(***************************************************************************)
Built(type, len, payload) ==
  [i \in 1 .. len |-> CASE i = 1 -> len
                        [] i = 2 -> type
                        [] i = kRecordHeaderLen + 1 /\ type = REC_CMD
                             -> len - (kRecordHeaderLen + 1)
                        [] i = kRecordHeaderLen + 1 /\ type # REC_CMD -> payload
                        [] OTHER -> 0]

buildState(arg) == Built(REC_STATE, kStateRecordLen, arg)

ProducerRecords == {Built(REC_CMD, len, 0) : len \in CmdLens}
                   \cup {Built(REC_FRAME, kFrameRecordLen, 0), buildState(0)}

SynthRecord == Built(REC_CMD, kCmdRecordLenMax, 0)

(***************************************************************************)
(* The append under way: bytes left before the end of the ring, bytes      *)
(* needed, where the record goes, and the sequence number it gets (0 and   *)
(* 0xFFFFFFFF are reserved).                                               *)
(***************************************************************************)
RecLen   == Len(op.rec)
tail     == kDataSize - hdr.write_off
Pads     == tail < RecLen
\* Mutant: the bytes of the PAD are not counted.
need_NoTail == RecLen
need     == IF Pads THEN tail + RecLen ELSE RecLen
WriteAt  == IF Pads THEN 0 ELSE hdr.write_off
StampSeq == IF hdr.next_seq \in {0, NoAck} THEN 1 ELSE hdr.next_seq

\* Mutant: the PAD is one byte short of the end of the ring.
PadBytes_Short == [o \in {hdr.write_off} \cup
                         (IF tail >= 2 THEN {hdr.write_off + 1} ELSE {}) |->
                     IF o = hdr.write_off THEN tail - 1 ELSE REC_PAD]

PadBytes == [o \in {hdr.write_off} \cup
                   (IF tail >= 2 THEN {hdr.write_off + 1} ELSE {}) |->
               IF o = hdr.write_off THEN tail ELSE REC_PAD]

RecBytes == [o \in WriteAt .. WriteAt + RecLen - 1 |->
               IF o = WriteAt + 2 THEN StampSeq ELSE op.rec[o - WriteAt + 1]]

Store(d, bytes) ==
  [o \in Offsets |-> IF o \in DOMAIN bytes THEN bytes[o] ELSE d[o]]

\* What a reset in the middle of a write leaves: a record spans at most two
\* cache lines, and either of them may have reached memory alone.
Partial(d, bytes) ==
  {Store(d, [o \in {x \in DOMAIN bytes : x < cut} |-> bytes[o]]) : cut \in Offsets}
  \cup
  {Store(d, [o \in {x \in DOMAIN bytes : x >= cut} |-> bytes[o]]) : cut \in Offsets}

FreshHeader == [write_off |-> 0, read_off |-> 0, next_seq |-> 1, dropped |-> 0,
                boot_count |-> 0, on |-> TRUE, ok |-> TRUE]

\* Magic, version and checksum (ok), cursors in range (Header), a seq.
validHeader(h) == h.ok /\ h.next_seq # 0

\* A header that fails validHeader: its fields are never used.
BadHeader == [FreshHeader EXCEPT !.on = FALSE, !.ok = FALSE]

------------------------------------------------------------------------------
(***************************************************************************)
(* Power-on: OCRAM holds no valid ring.                                    *)
(***************************************************************************)
Init ==
  /\ nv = BadHeader
  /\ hdr = nv
  /\ data = [o \in Offsets |-> 0]
  /\ brk \in {"clear", "close"}
  /\ ring_ok = FALSE /\ enabled = FALSE /\ synth_on = FALSE
  /\ dropped_reported = 0 /\ evicted_ever = FALSE
  /\ resets = 0
  /\ pc = "boot" /\ op = Idle

(***************************************************************************)
(* sealHeader: checksum and flush.  The caller's header stores and the     *)
(* flush are one step; Window says when a reset may find them half done.   *)
(***************************************************************************)
sealHeader(h) == hdr' = h /\ nv' = h

\* Back to the producer's caller.
Return == pc' = op.ret /\ op' = [Idle EXCEPT !.ret = op.ret, !.todo = op.todo]

heapTooClose == brk # "clear"

\* Mutant: the marker is appended wherever the heap is.
TripCall_AlwaysMarks(ret) ==
  /\ pc' = "room"
  /\ op' = [Idle EXCEPT !.rec = buildState(0), !.ctx = "trip", !.ret = ret]
  /\ UNCHANGED <<hdr, nv, data>>

\* tripHeapGuard up to its append: a last marker if the header is intact.
TripCall(ret) ==
  /\ IF brk = "close"
     THEN /\ pc' = "room"
          /\ op' = [Idle EXCEPT !.rec = buildState(0), !.ctx = "trip", !.ret = ret]
     ELSE pc' = "trip" /\ op' = [Idle EXCEPT !.ret = ret]
  /\ UNCHANGED <<hdr, nv, data>>

\* append(): the heap guard, then appendRaw.
AppendCall(rec, ret, todo) ==
  \/ heapTooClose /\ TripCall(ret)
  \/ /\ ~heapTooClose
     /\ pc' = "room"
     /\ op' = [Idle EXCEPT !.rec = rec, !.ret = ret, !.todo = todo]
     /\ UNCHANGED <<hdr, nv, data>>

(***************************************************************************)
(* appendRaw                                                               *)
(***************************************************************************)
ChainBroken == data[hdr.read_off] = 0 \/ hdr.read_off + data[hdr.read_off] > kDataSize

MustEvict == freeBytes(hdr) < need /\ hdr.read_off # hdr.write_off

\* makeRoom: one record, or PAD, at a time.
MakeRoomEvict ==
  /\ pc = "room" /\ MustEvict /\ ~ChainBroken
  /\ op' = [op EXCEPT !.evicted =
              IF isPadAt(data, hdr.read_off) THEN @ ELSE @ + 1]
  /\ hdr' = [hdr EXCEPT !.read_off = Wrap(@ + data[@])]
  /\ UNCHANGED <<nv, data, brk, volatile, resets, pc>>

\* Mutant: the eviction is counted but not flushed.
MakeRoomDone_Unsealed ==
  /\ pc = "room" /\ ~MustEvict
  /\ hdr' = [hdr EXCEPT !.dropped = @ + op.evicted]
  /\ pc' = IF Pads THEN "pad" ELSE "rec"
  /\ UNCHANGED <<nv, data, brk, volatile, resets, op>>

\* The eviction is counted and published before anything is overwritten.
MakeRoomDone ==
  /\ pc = "room"
  /\ ~MustEvict \/ ChainBroken
  /\ LET h == IF MustEvict THEN [hdr EXCEPT !.read_off = hdr.write_off] ELSE hdr IN
     IF op.evicted > 0
     THEN sealHeader([h EXCEPT !.dropped = @ + op.evicted])
     ELSE hdr' = h /\ nv' = nv
  /\ pc' = IF Pads THEN "pad" ELSE "rec"
  /\ UNCHANGED <<data, brk, volatile, resets, op>>

WritePad ==
  /\ pc = "pad"
  /\ data' = Store(data, PadBytes)
  /\ pc' = "rec"
  /\ UNCHANGED <<hdr, nv, brk, volatile, resets, op>>

WriteRecord ==
  /\ pc = "rec"
  /\ data' = Store(data, RecBytes)
  /\ pc' = "head"
  /\ UNCHANGED <<hdr, nv, brk, volatile, resets, op>>

\* The header publishes the record; appendRaw returns to its caller.
Publish ==
  /\ pc = "head"
  /\ sealHeader([hdr EXCEPT !.write_off = Wrap(WriteAt + RecLen),
                            !.next_seq = (StampSeq + 1) % SeqMod])
  /\ \/ op.ctx = "trip" /\ pc' = "trip" /\ op' = op
     \/ op.ctx = "marker" /\ pc' = "marked" /\ op' = op
     \/ op.ctx = "append" /\ op.evicted > 0 /\ pc' = "episode" /\ op' = op
     \/ op.ctx = "append" /\ op.evicted = 0 /\ Return
  /\ UNCHANGED <<data, brk, volatile, resets>>

(***************************************************************************)
(* append after an eviction: one marker per episode.  Evictions at least   *)
(* kEvictEpisodeGapUs apart start a new one, whenever that is.             *)
(***************************************************************************)
NewEpisode ==
  /\ pc = "episode"
  /\ LET since == hdr.dropped - dropped_reported IN
     op' = [op EXCEPT !.rec = buildState(since), !.ctx = "marker",
                      !.since = since, !.evicted = 0]
  /\ pc' = "room"
  /\ UNCHANGED <<hdr, nv, data, brk, volatile, resets>>

SameEpisode ==
  /\ pc = "episode" /\ evicted_ever
  /\ Return
  /\ UNCHANGED <<hdr, nv, data, brk, volatile, resets>>

MarkerDone ==
  /\ pc = "marked"
  /\ dropped_reported' = hdr.dropped
  /\ evicted_ever' = TRUE
  /\ Return
  /\ UNCHANGED <<hdr, nv, data, brk, ring_ok, enabled, synth_on, resets>>

\* The rest of tripHeapGuard: the ring is not touched again this boot.
TripDone ==
  /\ pc = "trip"
  /\ IF brk = "close" THEN sealHeader([hdr EXCEPT !.on = FALSE])
                      ELSE UNCHANGED <<hdr, nv>>
  /\ enabled' = FALSE /\ synth_on' = FALSE /\ ring_ok' = FALSE
  /\ Return
  /\ UNCHANGED <<data, brk, dropped_reported, evicted_ever, resets>>

(***************************************************************************)
(* begin(): keep a valid ring, repaired, or start a new one; never touch   *)
(* it when the heap is too close.                                          *)
(***************************************************************************)
BeginGuarded ==
  /\ pc = "boot" /\ heapTooClose
  /\ pc' = "idle"
  /\ UNCHANGED <<hdr, nv, data, brk, volatile, resets, op>>

\* Recording starts; STATE(boot) and, after a watchdog reset, a few more.
BeginRecording(dropped) ==
  /\ ring_ok' = TRUE /\ enabled' = TRUE /\ synth_on' = FALSE
  /\ dropped_reported' = dropped /\ evicted_ever' = FALSE
  /\ pc' = "bootrec"
  /\ \E extras \in 0 .. (IF resets = 0 THEN 0 ELSE MaxBootExtras) :
       op' = [Idle EXCEPT !.ret = "bootrec", !.todo = 1 + extras]
  /\ UNCHANGED <<data, brk, resets>>

initRing ==
  /\ pc = "boot" /\ ~heapTooClose /\ ~validHeader(hdr)
  /\ sealHeader(FreshHeader)
  /\ BeginRecording(0)

BeginKeep ==
  /\ pc = "boot" /\ ~heapTooClose /\ validHeader(hdr)
  /\ pc' = "repair"
  /\ op' = [Idle EXCEPT !.off = hdr.read_off]
  /\ UNCHANGED <<hdr, nv, data, brk, volatile, resets>>

\* repairChain walks whole records and truncates at the first bad one.
RepairStep ==
  /\ pc = "repair" /\ op.off # hdr.write_off
  /\ wellFormedAt(data, op.off, hdr.write_off)
  /\ op' = [op EXCEPT !.off = Wrap(@ + data[@])]
  /\ UNCHANGED <<hdr, nv, data, brk, volatile, resets, pc>>

RepairDone ==
  /\ pc = "repair"
  /\ op.off = hdr.write_off \/ ~wellFormedAt(data, op.off, hdr.write_off)
  /\ sealHeader([hdr EXCEPT !.write_off = op.off, !.boot_count = @ + 1, !.on = TRUE])
  /\ BeginRecording(hdr.dropped)

BootRecord ==
  /\ pc = "bootrec"
  /\ \/ /\ enabled /\ op.todo > 0
        /\ AppendCall(buildState(0), "bootrec", op.todo - 1)
     \/ /\ ~enabled \/ op.todo = 0
        /\ pc' = "idle" /\ op' = Idle
        /\ UNCHANGED <<hdr, nv, data>>
  /\ UNCHANGED <<brk, volatile, resets>>

(***************************************************************************)
(* Calls from the main loop, one at a time.                                *)
(***************************************************************************)
\* cmd(), frame(), state(): no-ops unless events are enabled.
Produce ==
  /\ pc = "idle" /\ enabled /\ hdr.next_seq < MaxSeq
  /\ \E rec \in ProducerRecords : AppendCall(rec, "idle", 0)
  /\ UNCHANGED <<brk, volatile, resets>>

\* service(): the heap guard while idle, and the synthetic producer, which
\* events_enabled does not gate.
service ==
  /\ pc = "idle" /\ ring_ok
  /\ \/ heapTooClose /\ TripCall("idle")
     \/ /\ ~heapTooClose /\ synth_on /\ hdr.next_seq < MaxSeq
        /\ AppendCall(SynthRecord, "idle", 0)
  /\ UNCHANGED <<brk, volatile, resets>>

\* configure(): an enable is stored before its record, a disable after it.
configure(on, synth) ==
  /\ pc = "idle" /\ ring_ok /\ hdr.next_seq < MaxSeq
  /\ \/ /\ heapTooClose /\ TripCall("idle")
        /\ UNCHANGED synth_on
     \/ /\ ~heapTooClose
        /\ synth_on' = synth
        /\ \/ /\ on /\ ~enabled
              /\ pc' = "cfgon" /\ op' = Idle
           \/ /\ enabled
              /\ pc' = "room"
              /\ op' = [Idle EXCEPT !.rec = buildState(0),
                                    !.ret = IF on THEN "idle" ELSE "cfgoff"]
           \/ ~on /\ ~enabled /\ UNCHANGED <<pc, op>>
        /\ UNCHANGED <<hdr, nv, data>>
  /\ UNCHANGED <<brk, ring_ok, enabled, dropped_reported, evicted_ever, resets>>

ConfigureOn ==
  /\ pc = "cfgon"
  /\ sealHeader([hdr EXCEPT !.on = TRUE])
  /\ enabled' = TRUE
  /\ pc' = "room" /\ op' = [Idle EXCEPT !.rec = buildState(0)]
  /\ UNCHANGED <<data, brk, ring_ok, synth_on, dropped_reported, evicted_ever, resets>>

ConfigureOff ==
  /\ pc = "cfgoff"
  /\ IF enabled THEN sealHeader([hdr EXCEPT !.on = FALSE]) ELSE UNCHANGED <<hdr, nv>>
  /\ enabled' = FALSE
  /\ pc' = "idle" /\ op' = Idle
  /\ UNCHANGED <<data, brk, ring_ok, synth_on, dropped_reported, evicted_ever, resets>>

(***************************************************************************)
(* GET_TELEMETRY_BLOCK: ack(), then peek(), then the reply.  A disabled    *)
(* ring still answers, with no record.                                     *)
(***************************************************************************)
PeekFrom(off) == pc' = "peek" /\ op' = [Idle EXCEPT !.off = off, !.ack = op.ack]

handleGetTelemetryBlock(ack_seq) ==
  /\ pc = "idle"
  /\ \/ /\ ~ring_ok
        /\ pc' = "reply" /\ op' = Idle
        /\ UNCHANGED <<hdr, nv, data>>
     \/ ring_ok /\ heapTooClose /\ TripCall("idle")
     \/ /\ ring_ok /\ ~heapTooClose
        /\ ack_seq # NoAck /\ ack_seq < hdr.next_seq
        /\ pc' = "ack"
        /\ op' = [Idle EXCEPT !.off = hdr.read_off, !.ack = ack_seq]
        /\ UNCHANGED <<hdr, nv, data>>
     \/ /\ ring_ok /\ ~heapTooClose
        /\ ack_seq = NoAck \/ ack_seq >= hdr.next_seq
        /\ PeekFrom(hdr.read_off)
        /\ UNCHANGED <<hdr, nv, data>>
  /\ UNCHANGED <<brk, volatile, resets>>

AckFrees ==
  /\ op.off # hdr.write_off
  /\ wellFormedAt(data, op.off, hdr.write_off)
  /\ ~isPadAt(data, op.off) => seqAt(data, op.off) <= op.ack

AckStep ==
  /\ pc = "ack" /\ AckFrees
  /\ op' = [op EXCEPT !.off = Wrap(@ + data[@])]
  /\ UNCHANGED <<hdr, nv, data, brk, volatile, resets, pc>>

AckDone ==
  /\ pc = "ack" /\ ~AckFrees
  /\ IF op.off # hdr.read_off
     THEN sealHeader([hdr EXCEPT !.read_off = op.off])
     ELSE UNCHANGED <<hdr, nv>>
  /\ PeekFrom(op.off)
  /\ UNCHANGED <<data, brk, volatile, resets>>

\* Mutant: each record is held against the budget alone.
PeekTakes_EachAlone ==
  /\ op.off # hdr.write_off
  /\ wellFormedAt(data, op.off, hdr.write_off)
  /\ ~isPadAt(data, op.off) => data[op.off] <= Budget

PeekTakes ==
  /\ op.off # hdr.write_off
  /\ wellFormedAt(data, op.off, hdr.write_off)
  /\ ~isPadAt(data, op.off) => op.used + data[op.off] <= Budget

PeekStep ==
  /\ pc = "peek" /\ PeekTakes
  /\ op' = [op EXCEPT !.off = Wrap(@ + data[@]),
                      !.got = IF isPadAt(data, op.off) THEN @
                              ELSE Append(@, seqAt(data, op.off)),
                      !.used = IF isPadAt(data, op.off) THEN @
                               ELSE @ + data[op.off]]
  /\ UNCHANGED <<hdr, nv, data, brk, volatile, resets, pc>>

PeekDone ==
  /\ pc = "peek" /\ ~PeekTakes
  /\ op' = [op EXCEPT !.more = (op.off # hdr.write_off)]
  /\ pc' = "reply"
  /\ UNCHANGED <<hdr, nv, data, brk, volatile, resets>>

Reply ==
  /\ pc = "reply"
  /\ pc' = "idle" /\ op' = Idle
  /\ UNCHANGED <<hdr, nv, data, brk, volatile, resets>>

(***************************************************************************)
(* The environment: the heap grows between calls, and the chip resets at   *)
(* any moment (watchdog, SYSTEM_RESET, program button) with OCRAM powered. *)
(***************************************************************************)
HeapGrows ==
  /\ pc = "idle"
  /\ \/ brk = "clear" /\ brk' \in {"close", "inside"}
     \/ brk = "close" /\ brk' = "inside"
  /\ UNCHANGED <<hdr, nv, data, volatile, resets, pc, op>>

\* The header line is dirty or about to be: the cache may write it back on
\* its own before the checksum is in, and the header in OCRAM is then void.
\* So it is once the heap has grown over it.
HeaderAtRisk ==
  \/ hdr # nv
  \/ pc \in {"head", "ack", "repair", "trip", "cfgon", "cfgoff"}
  \/ brk = "inside"

Debris == CASE pc = "pad" -> Partial(data, PadBytes)
            [] pc = "rec" -> Partial(data, RecBytes)
            [] OTHER -> {data}

Reset(torn) ==
  /\ resets < MaxResets
  /\ torn => HeaderAtRisk
  /\ nv' = IF torn THEN BadHeader ELSE nv
  /\ hdr' = nv'
  /\ data' \in Debris
  /\ brk' \in HeapLevels
  /\ ring_ok' = FALSE /\ enabled' = FALSE /\ synth_on' = FALSE
  /\ dropped_reported' = 0 /\ evicted_ever' = FALSE
  /\ resets' = resets + 1
  /\ pc' = "boot" /\ op' = Idle

appendRaw == MakeRoomEvict \/ MakeRoomDone \/ WritePad \/ WriteRecord \/ Publish
append == NewEpisode \/ SameEpisode \/ MarkerDone \/ TripDone
begin == BeginGuarded \/ initRing \/ BeginKeep \/ RepairStep \/ RepairDone \/ BootRecord
Configure == ConfigureOn \/ ConfigureOff
              \/ \E on, synth \in BOOLEAN : configure(on, synth)
Drain == \/ \E a \in (0 .. MaxSeq) \cup {NoAck} : handleGetTelemetryBlock(a)
         \/ AckStep \/ AckDone \/ PeekStep \/ PeekDone \/ Reply

Next == \/ appendRaw \/ append \/ begin \/ Configure \/ Drain
        \/ Produce \/ service \/ HeapGrows
        \/ \E torn \in BOOLEAN : Reset(torn)

Spec == Init /\ [][Next]_vars

------------------------------------------------------------------------------
PcValues == {"boot", "repair", "bootrec", "idle", "room", "pad", "rec", "head",
             "episode", "marked", "trip", "cfgon", "cfgoff", "ack", "peek", "reply"}

\* Every cursor stays inside the ring, and the locals have their types.
TypeOK ==
  /\ hdr \in Header /\ nv \in Header
  /\ data \in [Offsets -> Nat]
  /\ brk \in HeapLevels
  /\ ring_ok \in BOOLEAN /\ enabled \in BOOLEAN /\ synth_on \in BOOLEAN
  /\ dropped_reported \in Nat /\ evicted_ever \in BOOLEAN
  /\ resets \in 0 .. MaxResets
  /\ pc \in PcValues
  /\ op \in Locals

(***************************************************************************)
(* The inductive invariant behind the theorems of TelemetryRingProofs.     *)
(***************************************************************************)
Appending == {"room", "pad", "rec", "head"}

\* The record under way has one of the lengths the producers use.
RecordInv == pc \in Appending => Len(op.rec) \in RecordLens

\* makeRoom has made room, so the bytes about to be written are free.
RoomInv == pc \in {"pad", "rec"} => freeBytes(hdr) >= need

\* The overrun marker never counts backwards.
DropInv == dropped_reported <= hdr.dropped

\* No step past the heap guard runs with the heap inside the ring.
HeapInv == /\ brk = "inside" => pc \in {"boot", "idle", "reply", "trip"}
           /\ brk = "close" => \/ pc \in {"boot", "idle", "reply", "trip"}
                               \/ pc \in Appending /\ op.ctx = "trip"
           /\ brk # "clear" /\ pc \in Appending \cup {"trip"} => op.ret = "idle"

IInv == TypeOK /\ RecordInv /\ RoomInv /\ DropInv /\ HeapInv

(***************************************************************************)
(* What the ring holds: the records from read_off to write_off, PADs       *)
(* skipped, in order.  The walk is over the number of bytes left before w. *)
(***************************************************************************)
BackFrom(w, k) == IF k <= w THEN w - k ELSE kDataSize + w - k

RecordsTo(d, w) ==
  LET walk[k \in Offsets] ==
        LET off == BackFrom(w, k) IN
        IF k = 0 \/ ~wellFormedAt(d, off, w) THEN <<>>
        ELSE (IF isPadAt(d, off) THEN <<>> ELSE <<seqAt(d, off)>>) \o walk[k - d[off]]
  IN walk

Records(h) == IF h.ok THEN RecordsTo(data, h.write_off)[usedBytes(h)] ELSE <<>>

\* The log a reset would find, except that during the write of a record it is
\* the one the header being written describes.
Log == Records(IF pc \in {"pad", "rec", "head"} THEN hdr ELSE nv)

\* Published bytes are overwritten while OCRAM's header still reaches them.
Exposed == pc \in {"pad", "rec", "head"} /\ hdr.read_off # nv.read_off

Risk == IF Exposed THEN "scramble" ELSE IF HeaderAtRisk THEN "wipe" ELSE "none"

RingLog == INSTANCE TelemetryLog WITH
             log <- Log,
             next_seq <- IF nv.ok THEN nv.next_seq ELSE 1,
             dropped <- IF nv.ok THEN nv.dropped ELSE 0,
             risk <- Risk

\* The ring implements the log: every append, eviction, ack, boot and reset of
\* Telemetry.cpp is one step of TelemetryLog, or none.
ImplementsLog == RingLog!Spec

\* No walk of the running firmware ever stands on bytes that are not a record:
\* the "corrupt chain" branches of makeRoom, ack and peek are never taken,
\* whatever a reset left behind.
ChainNeverBroken ==
  /\ pc = "room" /\ MustEvict =>
       wellFormedAt(data, hdr.read_off, hdr.write_off)
  /\ pc \in {"ack", "peek"} /\ op.off # hdr.write_off =>
       wellFormedAt(data, op.off, hdr.write_off)

\* The bytes between the cursors.
Live(h) == {o \in Offsets : IF h.read_off <= h.write_off
                            THEN h.read_off <= o /\ o < h.write_off
                            ELSE h.read_off <= o \/ o < h.write_off}

\* appendRaw never overwrites a byte between read_off and write_off, PAD and
\* wrap-around included, and neither does a reset in the middle of it.
LiveBytesUntouched == [][\A o \in Live(hdr) : data'[o] = data[o]]_vars

\* Once the heap has grown into the ring, the firmware writes neither a record
\* nor the header (a reset may find the header clobbered by the heap).
RingLeftToHeap ==
  [][brk = "inside" => data' = data /\ nv' \in {nv, BadHeader}]_vars

\* A GET_TELEMETRY_BLOCK reply is the longest run of whole records from the
\* oldest unacknowledged one that fits, and says whether more is waiting.
BlockIsPrefix ==
  pc = "reply" /\ ring_ok =>
    /\ Len(op.got) <= Len(Log)
    /\ op.got = SubSeq(Log, 1, Len(op.got))
    /\ op.used <= Budget
    /\ op.more = (Len(op.got) < Len(Log))
    /\ op.more => op.used + data[op.off] > Budget

\* "Acking frees exactly the records with seq <= ack_seq" (README): when the
\* reply goes out, no record the host acknowledged is left in the ring.
AckIsExact ==
  pc = "reply" /\ op.ack > 0 => \A i \in 1 .. Len(Log) : Log[i] > op.ack

\* The ring is well formed at every step: each field in its range, and the chain
\* of lengths unbroken wherever makeRoom, ack or peek follow it.
RingSound == TypeOK /\ ChainNeverBroken

\* What the 0xA9 handler does is exact: the block is the longest prefix that
\* fits, and the ack leaves no record that it covers.
RepliesExact == BlockIsPrefix /\ AckIsExact
==============================================================================
