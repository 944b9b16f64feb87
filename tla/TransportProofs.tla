-------------------------- MODULE TransportProofs ---------------------------
(***************************************************************************)
(* The safety of one command source for every payload length, buffer size  *)
(* and card: commands and answers are paired, what is sent as a file is    *)
(* read as a file, nothing is spliced into a raw stream, and an archive is *)
(* as long as its header says.  The first part of the invariant is about   *)
(* control, the second about the stream of tokens that the host still      *)
(* sends, the third about the archive that is being sent.                  *)
(***************************************************************************)
EXTENDS Transport, SequenceTheorems, NaturalsInduction, WellFoundedInduction, TLAPS

Tokens == Heads \cup {"arg", "data"}

Phases == {"kLocalHeader", "kFileData", "kDataDescriptor", "kCentralDir", "kEocd"}
ArFields == {"active", "phase", "entries", "i", "remaining", "open", "sent", "promised"}

\* What the archive's steps rely on.
IsArchive(a) == DOMAIN a = ArFields /\ a.active \in BOOLEAN /\ a.phase \in Phases

\* An upload keeps its command unconsumed until it has been answered, and a
\* synchronous bulk write or drain has its own still to answer.
Transfers ==
  /\ up.phase # "off" => ready = "put" /\ up.left > 0 /\ ~ar.active
  /\ pc \in {"fw", "drain"} => ready \in Bulk /\ left > 0 /\ up.phase = "off" /\ ~ar.active
  /\ pc \in {"raw", "write"} => ar.active

\* A response is queued only between dispatch and flush, and not by both
\* dispatch and an upload in one turn; a raw part follows an empty buffer.
Responses ==
  /\ resp # "lost"
  /\ resp = "queued" => pc \in {"service", "raw", "write", "flush"}
  /\ pc = "service" /\ up.phase # "off" => resp # "queued"
  /\ pc = "write" /\ conn /\ ~gaveUp => resp = "none"
  /\ ar.active /\ ar.sent # 0 /\ ~gaveUp => resp = "none"

\* What a client that is gone has sent is gone with it.
Gone == ~conn => pipe = <<>> /\ todo = <<>>

\* TypeOK in two parts: the queues and the rest.
QueueTypes ==
  /\ rx \in Seq(Tokens) /\ pipe \in Seq(Tokens) /\ todo \in Seq(Tokens)
  /\ Len(rx) <= RxSize /\ Len(pipe) <= PipeSize
  /\ out \in Seq({"R", "W"}) /\ Len(out) <= TxSize

OtherTypes ==
  /\ kind \in Kinds /\ conn \in BOOLEAN /\ (kind = "serial" => conn)
  /\ ready \in Heads \cup {"none"} /\ resp \in {"none", "queued", "skipped", "lost"}
  /\ up \in [phase : {"off", "kWriting", "kDraining"}, left : 0 .. PayLen]
  /\ files \subseteq DOMAIN Sizes
  /\ pc \in {"poll", "dispatch", "fw", "drain", "service", "raw", "write", "flush"}
  /\ left \in 0 .. PayLen /\ debt \in Nat /\ gaveUp \in BOOLEAN

ControlInv ==
  OtherTypes /\ IsArchive(ar) /\ OneReplyPerCommand /\ Transfers /\ Responses
QueueInv == QueueTypes /\ Gone

\* The frame that begins at s[i] is whole, and what follows begins another.
Whole(s, i) ==
  /\ s[i] \in {"cmd", "get"} =>
       i + 1 <= Len(s) /\ (i + 2 <= Len(s) => s[i + 2] \in Heads)
  /\ s[i] \in Bulk =>
       /\ i + PayLen <= Len(s) /\ \A j \in i + 1 .. i + PayLen : s[j] = "data"
       /\ i + PayLen + 1 <= Len(s) => s[i + PayLen + 1] \in Heads

\* The stream s is k chunks of payload and then frames.
Aligned(s, k) ==
  /\ k <= Len(s) /\ \A j \in 1 .. k : s[j] = "data"
  /\ k + 1 <= Len(s) => s[k + 1] \in Heads
  /\ \A i \in k + 1 .. Len(s) : Whole(s, i)

\* What the host has sent or begun to send, as the controller will read it.
Joined(a, b, c) == (a \o b) \o c
Stream == Joined(rx, pipe, todo)

InStep == conn /\ ~gaveUp => Aligned(Stream, Owed)

Entry == [file : Nat, size : Nat]

\* The entries an archive was begun with, and where it is among them.
IsPlaced(a) ==
  /\ a.entries \in Seq(Entry)
  /\ a.i \in Nat /\ a.remaining \in Nat /\ a.sent \in Nat
  /\ a.phase # "kEocd" => a.i \in 1 .. Len(a.entries)
  /\ a.promised = Offset(a.entries)[Len(a.entries)] + Len(a.entries) + 1

Promised(a) == a.active => IsPlaced(a) /\ a.sent + ToSend(a) = a.promised

\* The archive promises what it sends, and a part is on its way only when the
\* archive has one to send.
ArchiveInv == Promised(ar) /\ (pc \in {"raw", "write"} => ar.active /\ Sends(ar))

IInv == ControlInv /\ QueueInv /\ InStep /\ ArchiveInv
-----------------------------------------------------------------------------
(* Streams. *)

LEMMA SizesAreSizes ==
  /\ PayLen \in Nat /\ PayLen > 0 /\ PipeSize \in Nat /\ TxSize \in Nat
  /\ RxSize \in Nat /\ RxSize >= 2
BY TransportAssumption

\* Dropping the first n tokens.
Dropped(s, n, t) ==
  /\ t \in Seq(Tokens) /\ Len(t) = Len(s) - n
  /\ \A j \in 1 .. Len(t) : t[j] = s[j + n]

LEMMA TailDropped ==
  ASSUME NEW s \in Seq(Tokens), s # <<>>
  PROVE  Dropped(s, 1, Tail(s)) /\ Len(s) >= 1 /\ Len(s) \in Nat
BY HeadTailProperties, LenProperties, EmptySeq DEF Dropped

LEMMA WholeShifts ==
  ASSUME NEW s \in Seq(Tokens), NEW n \in Nat, NEW t, Dropped(s, n, t), n <= Len(s),
         NEW i \in 1 .. Len(t), Whole(s, i + n)
  PROVE  Whole(t, i)
<1>. DEFINE m == i + n
<1>1. Len(s) \in Nat /\ Len(t) \in Nat /\ Len(s) = Len(t) + n
  BY LenProperties DEF Dropped
<1>2. t[i] = s[m] /\ \A j \in 1 .. Len(t) : t[j] = s[j + n]
  BY DEF Dropped
<1>3. CASE t[i] \in {"cmd", "get"}
  <2>1. m + 1 <= Len(s) /\ (m + 2 <= Len(s) => s[m + 2] \in Heads)
    BY <1>2, <1>3 DEF Whole
  <2>2. i + 1 <= Len(t)
    BY <1>1, <2>1
  <2>3. ASSUME i + 2 <= Len(t) PROVE t[i + 2] \in Heads
    <3>1. t[i + 2] = s[(i + 2) + n]
      BY <1>1, <1>2, <2>3
    <3>2. (i + 2) + n = m + 2 /\ m + 2 <= Len(s)
      BY <1>1, <2>3
    <3>. QED  BY <2>1, <3>1, <3>2
  <2>. QED  BY <1>3, <2>2, <2>3 DEF Whole, Bulk
<1>4. CASE t[i] \in Bulk
  <2>1. /\ m + PayLen <= Len(s) /\ \A j \in m + 1 .. m + PayLen : s[j] = "data"
        /\ m + PayLen + 1 <= Len(s) => s[m + PayLen + 1] \in Heads
    BY <1>2, <1>4 DEF Whole
  <2>2. i + PayLen <= Len(t)
    BY <1>1, <2>1, SizesAreSizes
  <2>3. ASSUME NEW j \in i + 1 .. i + PayLen PROVE t[j] = "data"
    <3>1. j \in 1 .. Len(t) /\ j + n \in m + 1 .. m + PayLen
      BY <1>1, <2>2, SizesAreSizes
    <3>. QED  BY <1>2, <2>1, <3>1
  <2>4. ASSUME i + PayLen + 1 <= Len(t) PROVE t[i + PayLen + 1] \in Heads
    <3>1. i + PayLen + 1 \in 1 .. Len(t) /\ (i + PayLen + 1) + n = m + PayLen + 1
      BY <1>1, <2>4, SizesAreSizes
    <3>2. m + PayLen + 1 <= Len(s)
      BY <1>1, <2>4, SizesAreSizes
    <3>. QED  BY <1>2, <2>1, <3>1, <3>2
  <2>. QED  BY <1>4, <2>2, <2>3, <2>4 DEF Whole, Bulk
<1>. QED  BY <1>3, <1>4 DEF Whole

\* A chunk of payload is read.
LEMMA ReadChunk ==
  ASSUME NEW s \in Seq(Tokens), NEW k \in Nat, k > 0, Aligned(s, k), s # <<>>
  PROVE  Aligned(Tail(s), k - 1)
<1>. DEFINE t == Tail(s)
<1>1. Dropped(s, 1, t) /\ Len(s) \in Nat /\ Len(t) \in Nat /\ Len(s) = Len(t) + 1
  BY TailDropped, LenProperties DEF Dropped
<1>2. \A j \in 1 .. Len(t) : t[j] = s[j + 1]
  BY <1>1 DEF Dropped
<1>. HIDE DEF t
<1>3. /\ k <= Len(s) /\ \A j \in 1 .. k : s[j] = "data"
      /\ k + 1 <= Len(s) => s[k + 1] \in Heads
  BY DEF Aligned
<1>4. k - 1 <= Len(t) /\ \A j \in 1 .. k - 1 : t[j] = "data"
  BY <1>1, <1>2, <1>3
<1>5. (k - 1) + 1 <= Len(t) => t[(k - 1) + 1] \in Heads
  BY <1>1, <1>2, <1>3
<1>6. ASSUME NEW i \in (k - 1) + 1 .. Len(t) PROVE Whole(t, i)
  <2>1. i \in 1 .. Len(t) /\ i + 1 \in k + 1 .. Len(s)
    BY <1>1
  <2>2. Whole(s, i + 1)
    BY <2>1 DEF Aligned
  <2>. QED  BY <1>1, <2>1, <2>2, WholeShifts
<1>. QED  BY <1>4, <1>5, <1>6 DEF Aligned, t

\* A framed command is taken.
LEMMA TakeCommand ==
  ASSUME NEW s \in Seq(Tokens), Aligned(s, 0), s # <<>>, s[1] \in {"cmd", "get"},
         NEW t, Dropped(s, 2, t)
  PROVE  Aligned(t, 0)
<1>1. Len(s) \in Nat /\ Len(t) \in Nat /\ Len(s) = Len(t) + 2 /\ Len(s) >= 1
  BY LenProperties, EmptySeq DEF Dropped
<1>2. \A j \in 1 .. Len(t) : t[j] = s[j + 2]
  BY DEF Dropped
<1>3. \A i \in 1 .. Len(s) : Whole(s, i)
  BY DEF Aligned
<1>4. 3 <= Len(s) => s[3] \in Heads
  BY <1>1, <1>3 DEF Whole
<1>5. 1 <= Len(t) => t[1] \in Heads
  BY <1>1, <1>2, <1>4
<1>6. ASSUME NEW i \in 1 .. Len(t) PROVE Whole(t, i)
  <2>1. i + 2 \in 1 .. Len(s)
    BY <1>1
  <2>. QED  BY <1>1, <1>3, <2>1, WholeShifts
<1>. QED  BY <1>1, <1>5, <1>6 DEF Aligned

\* The header of a bulk write is taken: its payload is next.
LEMMA TakeBulk ==
  ASSUME NEW s \in Seq(Tokens), Aligned(s, 0), s # <<>>, s[1] \in Bulk
  PROVE  Aligned(Tail(s), PayLen)
<1>. DEFINE t == Tail(s)
<1>1. Dropped(s, 1, t) /\ Len(s) \in Nat /\ Len(t) \in Nat /\ Len(s) = Len(t) + 1 /\ Len(s) >= 1
  BY TailDropped, LenProperties DEF Dropped
<1>2. \A j \in 1 .. Len(t) : t[j] = s[j + 1]
  BY <1>1 DEF Dropped
<1>. HIDE DEF t
<1>3. \A i \in 1 .. Len(s) : Whole(s, i)
  BY DEF Aligned
<1>4. /\ 1 + PayLen <= Len(s) /\ \A j \in 1 + 1 .. 1 + PayLen : s[j] = "data"
      /\ 1 + PayLen + 1 <= Len(s) => s[1 + PayLen + 1] \in Heads
  BY <1>1, <1>3 DEF Whole
<1>5. PayLen <= Len(t) /\ \A j \in 1 .. PayLen : t[j] = "data"
  BY <1>1, <1>2, <1>4, SizesAreSizes
<1>6. PayLen + 1 <= Len(t) => t[PayLen + 1] \in Heads
  BY <1>1, <1>2, <1>4, SizesAreSizes
<1>7. ASSUME NEW i \in PayLen + 1 .. Len(t) PROVE Whole(t, i)
  <2>1. i \in 1 .. Len(t) /\ i + 1 \in 1 .. Len(s)
    BY <1>1, SizesAreSizes
  <2>. QED  BY <1>1, <1>3, <2>1, WholeShifts
<1>. QED  BY <1>5, <1>6, <1>7 DEF Aligned, t
\* The host begins another frame.
LEMMA AnotherFrame ==
  ASSUME NEW s \in Seq(Tokens), NEW k \in Nat, Aligned(s, k),
         NEW f \in Seq(Tokens), f # <<>>, Aligned(f, 0)
  PROVE  Aligned(s \o f, k)
<1>. DEFINE t == s \o f
            n == Len(s)
<1>1. /\ t \in Seq(Tokens) /\ Len(t) = n + Len(f) /\ n \in Nat /\ Len(f) \in Nat /\ Len(f) > 0
      /\ \A j \in 1 .. n + Len(f) : t[j] = IF j <= n THEN s[j] ELSE f[j - n]
  BY ConcatProperties, LenProperties, EmptySeq
<1>. HIDE DEF t
<1>2. \A j \in 1 .. n : t[j] = s[j]
  BY <1>1
<1>3. ASSUME NEW j \in 1 .. Len(f) PROVE t[j + n] = f[j]
  <2>1. j + n \in 1 .. n + Len(f) /\ ~(j + n <= n) /\ (j + n) - n = j
    BY <1>1
  <2>. QED  BY <1>1, <2>1
<1>4. t[n + 1] \in Heads
  <2>1. f[1] \in Heads
    BY <1>1 DEF Aligned
  <2>2. t[1 + n] = f[1]
    BY <1>1, <1>3
  <2>. QED  BY <1>1, <2>1, <2>2
<1>. HIDE DEF n
<1>5. /\ k <= n /\ \A j \in 1 .. k : s[j] = "data"
      /\ k + 1 <= n => s[k + 1] \in Heads
  BY DEF Aligned, n
<1>6. k <= Len(t) /\ \A j \in 1 .. k : t[j] = "data"
  BY <1>1, <1>2, <1>5
<1>7. t[k + 1] \in Heads
  <2>1. CASE k + 1 <= n
    BY <1>1, <1>2, <1>5, <2>1
  <2>2. CASE k = n
    BY <1>4, <2>2
  <2>. QED  BY <1>1, <1>5, <2>1, <2>2
<1>8. ASSUME NEW i \in k + 1 .. Len(t) PROVE Whole(t, i)
  <2>1. CASE i <= n
    <3>1. Whole(s, i) /\ t[i] = s[i] /\ i \in 1 .. n
      BY <1>1, <1>2, <2>1 DEF Aligned, n
    <3>2. CASE t[i] \in {"cmd", "get"}
      <4>1. i + 1 <= n /\ (i + 2 <= n => s[i + 2] \in Heads)
        BY <3>1, <3>2 DEF Whole, n
      <4>2. i + 2 <= n => t[i + 2] = s[i + 2]
        BY <1>1, <1>2, <3>1
      <4>3. ~(i + 2 <= n) => i + 2 = n + 1
        BY <1>1, <4>1
      <4>. QED  BY <1>1, <1>4, <3>2, <4>1, <4>2, <4>3, SMTT(60) DEF Whole, Bulk
    <3>3. CASE t[i] \in Bulk
      <4>1. /\ i + PayLen <= n /\ \A j \in i + 1 .. i + PayLen : s[j] = "data"
            /\ i + PayLen + 1 <= n => s[i + PayLen + 1] \in Heads
        BY <3>1, <3>3 DEF Whole, n
      <4>2. i + PayLen <= Len(t) /\ \A j \in i + 1 .. i + PayLen : t[j] = "data"
        BY <1>1, <1>2, <3>1, <4>1, SizesAreSizes
      <4>3. t[i + PayLen + 1] \in Heads
        <5>1. CASE i + PayLen + 1 <= n
          BY <1>1, <1>2, <3>1, <4>1, <5>1, SizesAreSizes
        <5>2. CASE i + PayLen + 1 = n + 1
          BY <1>4, <5>2
        <5>. QED  BY <1>1, <3>1, <4>1, <5>1, <5>2, SizesAreSizes
      <4>. QED  BY <3>3, <4>2, <4>3 DEF Whole, Bulk
    <3>. QED  BY <3>2, <3>3 DEF Whole
  <2>2. CASE i > n
    <3>. DEFINE j == i - n
    <3>1. j \in 1 .. Len(f) /\ i = j + n
      BY <1>1, <2>2
    <3>2. Whole(f, j) /\ t[i] = f[j]
      BY <1>1, <1>3, <3>1 DEF Aligned
    <3>. HIDE DEF j
    <3>3. CASE t[i] \in {"cmd", "get"}
      <4>1. j + 1 <= Len(f) /\ (j + 2 <= Len(f) => f[j + 2] \in Heads)
        BY <3>2, <3>3 DEF Whole
      <4>2. i + 1 <= Len(t)
        BY <1>1, <3>1, <4>1
      <4>3. ASSUME i + 2 <= Len(t) PROVE t[i + 2] \in Heads
        <5>1. j + 2 \in 1 .. Len(f) /\ (j + 2) + n = i + 2
          BY <1>1, <3>1, <4>3
        <5>. QED  BY <1>1, <1>3, <4>1, <5>1
      <4>. QED  BY <3>3, <4>2, <4>3 DEF Whole, Bulk
    <3>4. CASE t[i] \in Bulk
      <4>1. /\ j + PayLen <= Len(f) /\ \A m \in j + 1 .. j + PayLen : f[m] = "data"
            /\ j + PayLen + 1 <= Len(f) => f[j + PayLen + 1] \in Heads
        BY <3>2, <3>4 DEF Whole
      <4>2. i + PayLen <= Len(t)
        BY <1>1, <3>1, <4>1, SizesAreSizes
      <4>3. ASSUME NEW m \in i + 1 .. i + PayLen PROVE t[m] = "data"
        <5>1. m - n \in j + 1 .. j + PayLen /\ m - n \in 1 .. Len(f) /\ (m - n) + n = m
          BY <1>1, <3>1, <4>1, SizesAreSizes
        <5>. QED  BY <1>3, <4>1, <5>1
      <4>4. ASSUME i + PayLen + 1 <= Len(t) PROVE t[i + PayLen + 1] \in Heads
        <5>1. j + PayLen + 1 \in 1 .. Len(f) /\ (j + PayLen + 1) + n = i + PayLen + 1
          BY <1>1, <3>1, <4>4, SizesAreSizes
        <5>2. j + PayLen + 1 <= Len(f)
          BY <5>1, <1>1
        <5>. QED  BY <1>3, <4>1, <5>1, <5>2
      <4>. QED  BY <3>4, <4>2, <4>3, <4>4 DEF Whole, Bulk
    <3>. QED  BY <3>3, <3>4 DEF Whole
  <2>. QED  BY <1>1, <2>1, <2>2
<1>. QED  BY <1>6, <1>7, <1>8 DEF Aligned, t

LEMMA FramesAreFrames ==
  ASSUME NEW f \in Frames
  PROVE  f \in Seq(Tokens) /\ f # <<>> /\ Aligned(f, 0)
<1>1. CASE f \in {<<"cmd", "arg">>, <<"get", "arg">>}
  <2>1. f \in Seq(Tokens) /\ f # <<>> /\ Len(f) = 2 /\ f[1] \in {"cmd", "get"} /\ f[2] = "arg"
    <3>1. CASE f = <<"cmd", "arg">>
      BY <3>1 DEF Tokens, Heads
    <3>2. CASE f = <<"get", "arg">>
      BY <3>2 DEF Tokens, Heads
    <3>. QED  BY <1>1, <3>1, <3>2
  <2>2. Whole(f, 1) /\ Whole(f, 2)
    BY <2>1 DEF Whole, Bulk
  <2>. QED  BY <2>1, <2>2 DEF Aligned, Heads
<1>2. ASSUME NEW h \in Bulk, f = <<h>> \o Payload
      PROVE  f \in Seq(Tokens) /\ f # <<>> /\ Aligned(f, 0)
  <2>1. Payload \in Seq(Tokens) /\ Len(Payload) = PayLen /\ \A j \in 1 .. PayLen : Payload[j] = "data"
    BY SizesAreSizes DEF Payload, Tokens
  <2>2. <<h>> \in Seq(Tokens) /\ Len(<<h>>) = 1 /\ <<h>>[1] = h
    BY DEF Tokens, Heads
  <2>. HIDE DEF Payload
  <2>3. /\ f \in Seq(Tokens) /\ Len(f) = 1 + PayLen
        /\ \A i \in 1 .. 1 + PayLen : f[i] = IF i <= 1 THEN <<h>>[i] ELSE Payload[i - 1]
    BY <1>2, <2>1, <2>2, ConcatProperties
  <2>4. f[1] = h /\ \A i \in 2 .. 1 + PayLen : f[i] = "data"
    BY <2>1, <2>2, <2>3, SizesAreSizes
  <2>5. Whole(f, 1)
    BY <2>3, <2>4, SizesAreSizes DEF Whole, Bulk
  <2>6. \A i \in 2 .. Len(f) : Whole(f, i)
    BY <2>3, <2>4 DEF Whole, Bulk
  <2>7. Len(f) > 0 /\ f # <<>>
    BY <2>3, SizesAreSizes
  <2>8. \A i \in 1 .. Len(f) : Whole(f, i)
    BY <2>3, <2>5, <2>6, SizesAreSizes
  <2>. QED  BY <2>3, <2>4, <2>7, <2>8, SizesAreSizes DEF Aligned, Heads
<1>. QED  BY <1>1, <1>2 DEF Frames, Bulk

\* A token moves from the host's frame f into the pipe b: it becomes c, and t
\* is left of the frame.
Moved(b, f, c, t) == f \in Seq(Tokens) /\ f # <<>> /\ c = Append(b, Head(f)) /\ t = Tail(f)

LEMMA SendKeepsStream ==
  ASSUME NEW a \in Seq(Tokens), NEW b \in Seq(Tokens), NEW f, NEW c, NEW t, Moved(b, f, c, t)
  PROVE  Joined(a, c, t) = Joined(a, b, f)
<1>0. f \in Seq(Tokens) /\ f # <<>> /\ c = Append(b, Head(f)) /\ t = Tail(f)
  BY DEF Moved
<1>1. Head(f) \in Tokens /\ Tail(f) \in Seq(Tokens)
  BY <1>0, HeadTailProperties
<1>2. Append(b, Head(f)) = b \o <<Head(f)>> /\ Append(b, Head(f)) \in Seq(Tokens)
  BY <1>1, AppendIsConcat, AppendProperties
<1>3. <<Head(f)>> \o Tail(f) = f /\ <<Head(f)>> \in Seq(Tokens)
  BY <1>0, <1>1
<1>4. (a \o (b \o <<Head(f)>>)) = (a \o b) \o <<Head(f)>>
  BY <1>3, ConcatAssociative
<1>5. ((a \o b) \o <<Head(f)>>) \o Tail(f) = (a \o b) \o (<<Head(f)>> \o Tail(f))
  <2>1. a \o b \in Seq(Tokens)
    BY ConcatProperties
  <2>. QED  BY <1>1, <1>3, <2>1, ConcatAssociative
<1>. QED  BY <1>0, <1>2, <1>3, <1>4, <1>5 DEF Joined

\* Reading from the buffer, or past an empty one, reads the stream.
LEMMA TailOfStream ==
  ASSUME NEW a \in Seq(Tokens), NEW b \in Seq(Tokens), a # <<>>
  PROVE  Tail(a) \o b = Tail(a \o b) /\ a \o b # <<>>
<1>. DEFINE s == Tail(a) \o b
            t == Tail(a \o b)
<1>1. Tail(a) \in Seq(Tokens) /\ Len(Tail(a)) = Len(a) - 1 /\ Len(a) \in Nat /\ Len(a) > 0
  BY HeadTailProperties, LenProperties, EmptySeq
<1>2. a \o b \in Seq(Tokens) /\ Len(a \o b) = Len(a) + Len(b) /\ Len(b) \in Nat
  BY ConcatProperties, LenProperties
<1>3. a \o b # <<>>
  BY <1>1, <1>2, EmptySeq
<1>4. /\ s \in Seq(Tokens) /\ Len(s) = Len(a) - 1 + Len(b)
      /\ t \in Seq(Tokens) /\ Len(t) = Len(a) - 1 + Len(b)
  BY <1>1, <1>2, <1>3, ConcatProperties, HeadTailProperties
<1>5. ASSUME NEW i \in 1 .. Len(s) PROVE s[i] = t[i]
  <2>1. s[i] = IF i <= Len(a) - 1 THEN Tail(a)[i] ELSE b[i - (Len(a) - 1)]
    BY <1>1, <1>2, <1>4, ConcatProperties
  <2>2. t[i] = (a \o b)[i + 1]
    BY <1>2, <1>3, <1>4, HeadTailProperties
  <2>3. (a \o b)[i + 1] = IF i + 1 <= Len(a) THEN a[i + 1] ELSE b[i + 1 - Len(a)]
    BY <1>1, <1>2, <1>4, ConcatProperties
  <2>4. i <= Len(a) - 1 => Tail(a)[i] = a[i + 1]
    BY <1>1, <1>4, HeadTailProperties
  <2>. QED  BY <1>1, <1>2, <1>4, <2>1, <2>2, <2>3, <2>4
<1>. HIDE DEF s, t
<1>6. s = t
  BY <1>4, <1>5, SeqEqual
<1>. QED  BY <1>3, <1>6 DEF s, t
LEMMA StreamTypes ==
  ASSUME QueueTypes
  PROVE  /\ rx \in Seq(Tokens) /\ pipe \in Seq(Tokens) /\ todo \in Seq(Tokens)
         /\ Stream \in Seq(Tokens)
         /\ Len(rx) \in Nat /\ Len(pipe) \in Nat /\ Len(rx) <= RxSize /\ Len(pipe) <= PipeSize
<1>1. rx \in Seq(Tokens) /\ pipe \in Seq(Tokens) /\ todo \in Seq(Tokens)
  BY DEF QueueTypes
<1>2. rx \o pipe \in Seq(Tokens)
  BY <1>1, ConcatProperties
<1>3. (rx \o pipe) \o todo \in Seq(Tokens)
  BY <1>1, <1>2, ConcatProperties
<1>4. Len(rx) \in Nat /\ Len(pipe) \in Nat /\ Len(rx) <= RxSize /\ Len(pipe) <= PipeSize
  BY <1>1, LenProperties DEF QueueTypes
<1>. QED  BY <1>1, <1>3, <1>4 DEF Stream, Joined

\* Topping up rx_buf_ moves tokens without changing the stream.
LEMMA FillStream ==
  ASSUME QueueTypes
  PROVE  /\ fill.rx \in Seq(Tokens) /\ fill.pipe \in Seq(Tokens)
         /\ fill.rx \o fill.pipe = rx \o pipe
         /\ Len(fill.rx) <= RxSize /\ Len(fill.pipe) <= PipeSize
<1>. DEFINE n == IF Len(pipe) < RxSize - Len(rx) THEN Len(pipe) ELSE RxSize - Len(rx)
            p == SubSeq(pipe, 1, n)
            q == SubSeq(pipe, n + 1, Len(pipe))
<1>1. fill.rx = rx \o p /\ fill.pipe = q
  BY DEF fill
<1>2. n \in 0 .. Len(pipe) /\ Len(rx) + n <= RxSize
  BY StreamTypes, SizesAreSizes
<1>. HIDE DEF n
<1>3. \A i \in 1 .. Len(pipe) : pipe[i] \in Tokens
  BY StreamTypes, ElementOfSeq
<1>4. p \in Seq(Tokens) /\ Len(p) = n
  BY <1>2, <1>3, StreamTypes, SubSeqProperties
<1>5. q \in Seq(Tokens) /\ Len(q) = Len(pipe) - n
  BY <1>2, <1>3, StreamTypes, SubSeqProperties
<1>6. p \o q = pipe
  <2>1. p \o q = SubSeq(pipe, 1, Len(pipe))
    <3>1. 1 \in 1 .. Len(pipe) + 1 /\ n \in 1 - 1 .. Len(pipe) /\ Len(pipe) \in n .. Len(pipe)
      BY <1>2, StreamTypes
    <3>2. pipe \in Seq(Tokens)
      BY StreamTypes
    <3>. QED  BY <3>1, <3>2, ConcatAdjacentSubSeq
  <2>. QED  BY <2>1, StreamTypes, SubSeqFull
<1>. HIDE DEF p, q
<1>7. (rx \o p) \o q = rx \o (p \o q)
  <2>1. rx \in Seq(Tokens) /\ p \in Seq(Tokens) /\ q \in Seq(Tokens)
    BY <1>4, <1>5, StreamTypes
  <2>. QED  BY <2>1, ConcatAssociative
<1>8. rx \o p \in Seq(Tokens) /\ Len(rx \o p) = Len(rx) + n
  BY <1>4, StreamTypes, ConcatProperties
<1>. QED  BY <1>1, <1>2, <1>4, <1>5, <1>6, <1>7, <1>8, StreamTypes, SizesAreSizes

\* readBulkBytes takes the first token of the stream.
LEMMA ReadStream ==
  ASSUME QueueTypes, readBulkBytes, todo' = todo
  PROVE  /\ Stream # <<>> /\ Stream' = Tail(Stream)
         /\ rx' \in Seq(Tokens) /\ pipe' \in Seq(Tokens)
         /\ Len(rx') <= RxSize /\ Len(pipe') <= PipeSize
         /\ kind = "net" /\ pipe = <<>> => pipe' = <<>>
<1>1. CASE kind = "serial" /\ fill.rx # <<>> /\ rx' = Tail(fill.rx) /\ pipe' = fill.pipe
  <2>. DEFINE b == fill.rx
              p == fill.pipe
  <2>1. /\ b \in Seq(Tokens) /\ p \in Seq(Tokens) /\ b \o p = rx \o pipe
        /\ Len(b) <= RxSize /\ Len(p) <= PipeSize
    BY FillStream
  <2>2. b # <<>> /\ rx' = Tail(b) /\ pipe' = p
    BY <1>1
  <2>. HIDE DEF b, p
  <2>3. Tail(b) \o p = Tail(b \o p) /\ b \o p # <<>> /\ b \o p \in Seq(Tokens)
    BY <2>1, <2>2, TailOfStream, ConcatProperties
  <2>4. Tail(b \o p) \o todo = Tail((b \o p) \o todo) /\ (b \o p) \o todo # <<>>
    BY <2>3, StreamTypes, TailOfStream
  <2>5. Tail(b) \in Seq(Tokens) /\ Len(Tail(b)) = Len(b) - 1 /\ Len(b) \in Nat
    BY <2>1, <2>2, HeadTailProperties, LenProperties
  <2>6. Len(Tail(b)) <= RxSize
    BY <2>1, <2>5, SizesAreSizes
  <2>. QED  BY <1>1, <2>1, <2>2, <2>3, <2>4, <2>5, <2>6 DEF Stream, Joined
<1>2. CASE kind = "net" /\ rx # <<>> /\ rx' = Tail(rx) /\ UNCHANGED pipe
  <2>3. Tail(rx) \o pipe = Tail(rx \o pipe) /\ rx \o pipe # <<>> /\ rx \o pipe \in Seq(Tokens)
    BY <1>2, StreamTypes, TailOfStream, ConcatProperties
  <2>4. Tail(rx \o pipe) \o todo = Tail((rx \o pipe) \o todo) /\ (rx \o pipe) \o todo # <<>>
    BY <2>3, StreamTypes, TailOfStream
  <2>5. Tail(rx) \in Seq(Tokens) /\ Len(Tail(rx)) = Len(rx) - 1
    BY <1>2, StreamTypes, HeadTailProperties
  <2>6. Len(Tail(rx)) <= RxSize
    BY <2>5, StreamTypes, SizesAreSizes
  <2>. QED  BY <1>2, <2>3, <2>4, <2>5, <2>6, StreamTypes DEF Stream, Joined
<1>3. CASE kind = "net" /\ rx = <<>> /\ pipe # <<>> /\ pipe' = Tail(pipe) /\ UNCHANGED rx
  <2>1. Tail(pipe) \in Seq(Tokens) /\ Len(Tail(pipe)) = Len(pipe) - 1
    BY <1>3, StreamTypes, HeadTailProperties
  <2>2. rx \o pipe = pipe /\ rx \o Tail(pipe) = Tail(pipe)
    BY <1>3, <2>1, StreamTypes, ConcatEmptySeq
  <2>3. Tail(pipe) \o todo = Tail(pipe \o todo) /\ pipe \o todo # <<>>
    BY <1>3, StreamTypes, TailOfStream
  <2>4. Len(Tail(pipe)) <= PipeSize
    BY <2>1, StreamTypes, SizesAreSizes
  <2>. QED  BY <1>3, <2>1, <2>2, <2>3, <2>4, StreamTypes DEF Stream, Joined
<1>. QED  BY <1>1, <1>2, <1>3 DEF readBulkBytes

\* parseIncoming leaves the stream alone, takes a command off it or the header
\* of a bulk write; only a stream that begins no frame is misread.
LEMMA ParseStream ==
  ASSUME QueueTypes, pipe' = fill.pipe, parse(fill.rx), todo' = todo
  PROVE  /\ rx' \in Seq(Tokens) /\ pipe' \in Seq(Tokens)
         /\ Len(rx') <= RxSize /\ Len(pipe') <= PipeSize
         /\ \/ Stream' = Stream /\ UNCHANGED <<ready, debt>>
            \/ /\ Stream # <<>> /\ ready' = Stream[1] /\ ready' \in {"cmd", "get"}
               /\ Dropped(Stream, 2, Stream') /\ debt' = debt + 1
            \/ /\ Stream # <<>> /\ ready' = Stream[1] /\ ready' \in Bulk
               /\ Stream' = Tail(Stream) /\ debt' = debt + 1
            \/ /\ Stream # <<>> /\ Stream[1] \notin Heads
               /\ UNCHANGED <<ready, debt>> \/ (ready' = "cmd" /\ debt' = debt + 1)
<1>. DEFINE b == fill.rx
            p == fill.pipe
<1>1. /\ b \in Seq(Tokens) /\ p \in Seq(Tokens) /\ b \o p = rx \o pipe
      /\ Len(b) <= RxSize /\ Len(p) <= PipeSize /\ pipe' = p
  BY FillStream
<1>2. parse(b)
  OBVIOUS
<1>. HIDE DEF b, p
<1>3. Stream = (b \o p) \o todo /\ Stream \in Seq(Tokens) /\ todo \in Seq(Tokens)
  BY <1>1, StreamTypes DEF Stream, Joined
<1>4. Stream' = (rx' \o p) \o todo
  BY <1>1 DEF Stream, Joined
<1>5. Len(b) \in Nat
  BY <1>1, LenProperties
<1>6. ASSUME Len(b) >= 1
      PROVE  /\ b # <<>> /\ Stream # <<>> /\ Stream[1] = b[1]
             /\ (Tail(b) \o p) \o todo = Tail(Stream)
             /\ Tail(b) \in Seq(Tokens) /\ Len(Tail(b)) = Len(b) - 1 /\ Len(Tail(b)) <= RxSize
  <2>1. b # <<>>
    BY <1>1, <1>6, EmptySeq
  <2>2. Tail(b) \o p = Tail(b \o p) /\ b \o p # <<>> /\ b \o p \in Seq(Tokens)
    BY <1>1, <2>1, TailOfStream, ConcatProperties
  <2>3. Tail(b \o p) \o todo = Tail((b \o p) \o todo) /\ (b \o p) \o todo # <<>>
    BY <1>3, <2>2, TailOfStream
  <2>4. (b \o p)[1] = b[1]
    BY <1>1, <1>5, <1>6, ConcatProperties, LenProperties
  <2>5. ((b \o p) \o todo)[1] = (b \o p)[1]
    <3>1. Len(b \o p) \in Nat \ {0}
      BY <2>2, EmptySeq
    <3>. QED  BY <1>3, <2>2, <3>1, ConcatProperties, LenProperties
  <2>6. Tail(b) \in Seq(Tokens) /\ Len(Tail(b)) = Len(b) - 1
    BY <1>1, <2>1, HeadTailProperties
  <2>7. Len(Tail(b)) <= RxSize
    BY <1>1, <1>5, <2>6, SizesAreSizes
  <2>. QED  BY <1>3, <2>1, <2>2, <2>3, <2>4, <2>5, <2>6, <2>7
<1>7. CASE rx' = b /\ UNCHANGED <<ready, debt>>
  BY <1>1, <1>3, <1>4, <1>7
<1>8. CASE /\ Len(b) >= 2 /\ b[1] \in {"cmd", "get"}
           /\ ready' = b[1] /\ rx' = SubSeq(b, 3, Len(b)) /\ debt' = debt + 1
  <2>1. SubSeq(b, 3, Len(b)) = Tail(Tail(b))
    <3>1. Tail(b) = SubSeq(b, 2, Len(b))
      BY <1>1, <1>5, <1>6, <1>8, TailIsSubSeq
    <3>2. 2 \in 1 .. Len(b) /\ Len(b) \in 2 .. Len(b)
      BY <1>5, <1>8
    <3>3. Tail(SubSeq(b, 2, Len(b))) = SubSeq(b, 2 + 1, Len(b))
      BY <1>1, <3>2, HeadTailOfSubSeq
    <3>. QED  BY <3>1, <3>3
  <2>2. /\ Stream # <<>> /\ Stream[1] = b[1] /\ (Tail(b) \o p) \o todo = Tail(Stream)
        /\ Tail(b) \in Seq(Tokens) /\ Len(Tail(b)) = Len(b) - 1
    BY <1>5, <1>6, <1>8
  <2>. DEFINE c == Tail(b)
  <2>3. c # <<>> /\ c \in Seq(Tokens) /\ Len(c) = Len(b) - 1
    BY <1>5, <1>8, <2>2, EmptySeq
  <2>4. rx' = Tail(c)
    BY <1>8, <2>1
  <2>. HIDE DEF c
  <2>5. Tail(c) \o p = Tail(c \o p) /\ c \o p # <<>> /\ c \o p \in Seq(Tokens)
    BY <1>1, <2>3, TailOfStream, ConcatProperties
  <2>6. Tail(c \o p) \o todo = Tail((c \o p) \o todo) /\ (c \o p) \o todo # <<>>
    BY <1>3, <2>5, TailOfStream
  <2>7. Stream' = Tail(Tail(Stream)) /\ Tail(Stream) # <<>>
    BY <1>4, <2>2, <2>4, <2>5, <2>6 DEF c
  <2>8. Dropped(Stream, 2, Tail(Tail(Stream)))
    <3>. DEFINE t == Tail(Stream)
                u == Tail(t)
    <3>1. Dropped(Stream, 1, t) /\ Len(Stream) \in Nat
      BY <1>3, <2>2, TailDropped
    <3>2. Dropped(t, 1, u) /\ Len(t) \in Nat
      BY <2>7, <3>1, TailDropped DEF Dropped
    <3>. HIDE DEF t, u
    <3>3. u \in Seq(Tokens) /\ Len(u) = Len(Stream) - 2 /\ Len(u) \in Nat
      BY <3>1, <3>2, LenProperties DEF Dropped
    <3>4. ASSUME NEW j \in 1 .. Len(u) PROVE u[j] = Stream[j + 2]
      <4>1. u[j] = t[j + 1]
        BY <3>2 DEF Dropped
      <4>2. j + 1 \in 1 .. Len(t) /\ (j + 1) + 1 = j + 2
        BY <3>2, <3>3 DEF Dropped
      <4>3. t[j + 1] = Stream[(j + 1) + 1]
        BY <3>1, <4>2 DEF Dropped
      <4>. QED  BY <4>1, <4>2, <4>3
    <3>5. Dropped(Stream, 2, u)
      BY <3>3, <3>4 DEF Dropped
    <3>. QED  BY <3>5 DEF t, u
  <2>9. rx' \in Seq(Tokens) /\ Len(rx') <= RxSize
    <3>1. Tail(c) \in Seq(Tokens) /\ Len(Tail(c)) = Len(c) - 1
      BY <2>3, HeadTailProperties
    <3>. QED  BY <1>1, <1>5, <2>3, <2>4, <3>1, SizesAreSizes
  <2>. QED  BY <1>1, <1>8, <2>2, <2>7, <2>8, <2>9
<1>9. CASE /\ Len(b) >= 1 /\ b[1] \in Bulk
           /\ ready' = b[1] /\ rx' = Tail(b) /\ debt' = debt + 1
  BY <1>1, <1>4, <1>6, <1>9
<1>10. CASE /\ Len(b) >= 1 /\ b[1] \notin Heads
            /\ \/ rx' = <<>> /\ UNCHANGED <<ready, debt>>
               \/ ready' = "cmd" /\ rx' = Tail(b) /\ debt' = debt + 1
  <2>1. <<>> \in Seq(Tokens) /\ Len(<<>>) <= RxSize
    BY EmptySeq, SizesAreSizes
  <2>. QED  BY <1>1, <1>6, <1>10, <2>1
<1>. QED  BY <1>2, <1>7, <1>8, <1>9, <1>10 DEF parse
-----------------------------------------------------------------------------
(* Control. *)

LEMMA TypesSplit == TypeOK <=> QueueTypes /\ OtherTypes /\ ar.active \in BOOLEAN
BY DEF TypeOK, QueueTypes, OtherTypes, Tokens

LEMMA ArchiveSteps ==
  /\ IsArchive(NoArchive) /\ NoArchive.active = FALSE
  /\ \A a, fs, ss : a = Collect(fs, ss) => IsArchive(a) /\ a.sent = 0
  /\ \A a, b : IsArchive(a) /\ b = FileDone(a) =>
       IsArchive(b) /\ b.sent = a.sent /\ b.active = a.active
  /\ \A a, fs, b : IsArchive(a) /\ b \in Sent(a, fs) => IsArchive(b)
<1>1. IsArchive(NoArchive) /\ NoArchive.active = FALSE
  BY DEF IsArchive, NoArchive, ArFields, Phases
<1>2. ASSUME NEW fs, NEW ss, NEW a, a = Collect(fs, ss) PROVE IsArchive(a) /\ a.sent = 0
  <2>. DEFINE there == Entries(fs, ss)
              k == IF there = <<>> THEN "kEocd" ELSE "kLocalHeader"
              n == Offset(there)[Len(there)] + Len(there) + 1
  <2>1. a = [NoArchive EXCEPT !.active = TRUE, !.entries = there, !.phase = k, !.promised = n]
    BY <1>2 DEF Collect
  <2>2. k \in Phases
    BY DEF Phases
  <2>. HIDE DEF there, k, n
  <2>. QED  BY <2>1, <2>2 DEF IsArchive, NoArchive, ArFields
<1>3. ASSUME NEW a, NEW b, IsArchive(a), b = FileDone(a)
      PROVE  IsArchive(b) /\ b.sent = a.sent /\ b.active = a.active
  BY <1>3 DEF IsArchive, FileDone, ArFields, Phases
<1>4. ASSUME NEW a, NEW fs, NEW b, IsArchive(a), b \in Sent(a, fs) PROVE IsArchive(b)
  <2>1. CASE a.phase = "kLocalHeader"
    BY <1>4, <2>1 DEF IsArchive, Sent, LocalHeader, ArFields, Phases
  <2>2. CASE a.phase = "kFileData"
    BY <1>4, <2>2 DEF IsArchive, Sent, FileData, ArFields, Phases
  <2>3. CASE a.phase = "kDataDescriptor"
    BY <1>4, <2>3 DEF IsArchive, Sent, DataDescriptor, ArFields, Phases
  <2>4. CASE a.phase = "kCentralDir"
    BY <1>4, <2>4 DEF IsArchive, Sent, CentralDir, ArFields, Phases
  <2>5. CASE a.phase = "kEocd"
    BY <1>1, <1>4, <2>5 DEF Sent
  <2>. QED  BY <1>4, <2>1, <2>2, <2>3, <2>4, <2>5 DEF IsArchive, Phases
<1>. QED  BY <1>1, <1>2, <1>3, <1>4
LEMMA NoUploadType ==
  /\ NoUpload \in [phase : {"off", "kWriting", "kDraining"}, left : 0 .. PayLen]
  /\ NoUpload.phase = "off"
BY SizesAreSizes DEF NoUpload

LEMMA ControlInit == Init => ControlInv
<1>. SUFFICES ASSUME Init PROVE ControlInv
  OBVIOUS
<1>1. OtherTypes
  <2>1. /\ kind \in Kinds /\ conn = TRUE /\ ready = "none" /\ resp = "none" /\ up = NoUpload
        /\ files = DOMAIN Sizes /\ pc = "poll" /\ left = 0 /\ debt = 0 /\ gaveUp = FALSE
    BY DEF Init
  <2>2. 0 \in 0 .. PayLen
    BY SizesAreSizes
  <2>3. files \subseteq DOMAIN Sizes
    BY <2>1
  <2>. QED  BY <2>1, <2>2, <2>3, NoUploadType DEF OtherTypes
<1>2. IsArchive(ar) /\ ar.active = FALSE
  BY ArchiveSteps DEF Init
<1>. QED
  BY <1>1, <1>2 DEF Init, ControlInv, OneReplyPerCommand, Transfers, Responses, NoUpload

\* What is not owned by the step in question.
LEMMA ControlFrame ==
  ASSUME ControlInv, UNCHANGED <<kind, ready, resp, up, ar, pc, left, debt, gaveUp>>,
         conn' \in BOOLEAN, conn' => conn, kind = "serial" => conn' = conn,
         files' \subseteq files
  PROVE  ControlInv'
<1>1. OtherTypes'
  BY DEF ControlInv, OtherTypes
<1>2. IsArchive(ar)' /\ OneReplyPerCommand' /\ Transfers' /\ Responses'
  BY DEF ControlInv, IsArchive, OneReplyPerCommand, Transfers, Responses, OtherTypes
<1>. QED  BY <1>1, <1>2 DEF ControlInv

\* The loop's steps up to dispatch.
LEMMA ControlPoll ==
  ASSUME ControlInv, QueueTypes, Poll \/ Reconnect \/ Idle
  PROVE  ControlInv'
<1>. USE DEF ControlInv, OtherTypes, OneReplyPerCommand, Transfers, Responses, Heads, Bulk
<1>1. CASE Poll
  <2>1. ready' \in Heads \cup {"none"} /\ debt' = (IF ready' # "none" THEN 1 ELSE 0)
        /\ (ready # "none" => ready' = ready)
    <3>1. CASE ready # "none"
      BY <1>1, <3>1 DEF Poll
    <3>2. CASE ready = "none"
      <4>1. pipe' = fill.pipe /\ parse(fill.rx) /\ todo' = todo
        BY <1>1, <3>2 DEF Poll
      <4>2. \/ UNCHANGED <<ready, debt>>
            \/ ready' \in {"cmd", "get"} \cup Bulk /\ debt' = debt + 1
        BY <4>1, ParseStream
      <4>. QED  BY <3>2, <4>2
    <3>. QED  BY <3>1, <3>2
  <2>2. /\ pc = "poll" /\ pc' = "dispatch" /\ conn
        /\ UNCHANGED <<kind, conn, resp, up, ar, files, left, gaveUp>>
    BY <1>1 DEF Poll
  <2>3. OtherTypes'
    BY <2>1, <2>2
  <2>. QED  BY <2>1, <2>2, <2>3 DEF IsArchive
<1>2. CASE Reconnect
  <2>1. /\ pc = "poll" /\ ~conn /\ up' = NoUpload /\ ar' = NoArchive /\ ready' = "none"
        /\ debt' = 0 /\ gaveUp' = FALSE /\ conn' \in BOOLEAN /\ pc' = "dispatch"
        /\ UNCHANGED <<kind, resp, files, left>>
    BY <1>2 DEF Reconnect
  <2>2. IsArchive(ar') /\ ar'.active = FALSE
    BY <2>1, ArchiveSteps
  <2>3. up' \in [phase : {"off", "kWriting", "kDraining"}, left : 0 .. PayLen] /\ up'.phase = "off"
    BY <2>1, NoUploadType
  <2>4. OtherTypes'
    BY <2>1, <2>3
  <2>. QED  BY <2>1, <2>2, <2>3, <2>4 DEF IsArchive
<1>3. CASE Idle
  BY <1>3 DEF Idle, Owns, IsArchive
<1>. QED  BY <1>1, <1>2, <1>3

\* processCommand.
LEMMA ControlDispatch ==
  ASSUME ControlInv,
         \/ HandleBinary \/ HandleGetSdArchive \/ Handoff \/ Refuse \/ StartFirmware
  PROVE  ControlInv'
<1>. USE DEF ControlInv, OtherTypes, OneReplyPerCommand, Transfers, Responses, Heads, Bulk,
             Dispatching, Owns, sendResponse
<1>1. CASE HandleBinary
  BY <1>1 DEF HandleBinary, IsArchive
<1>2. CASE HandleGetSdArchive
  <2>1. IsArchive(ar') /\ ar'.sent = 0
    BY <1>2, ArchiveSteps DEF HandleGetSdArchive
  <2>. QED  BY <1>2, <2>1 DEF HandleGetSdArchive, IsArchive
<1>3. CASE Handoff
  BY <1>3, SizesAreSizes DEF Handoff, IsArchive
<1>4. CASE Refuse
  BY <1>4, SizesAreSizes DEF Refuse, IsArchive
<1>5. CASE StartFirmware
  BY <1>5, SizesAreSizes DEF StartFirmware, IsArchive
<1>. QED  BY <1>1, <1>2, <1>3, <1>4, <1>5

\* The synchronous bulk writes and drains.
LEMMA ControlBulk ==
  ASSUME ControlInv,
         \/ FirmwareChunk \/ FirmwareWriteError \/ FirmwareTimeout \/ DrainChunk \/ DrainTimeout
  PROVE  ControlInv'
<1>. USE SizesAreSizes
     DEF ControlInv, OtherTypes, OneReplyPerCommand, Transfers, Responses, Heads, Bulk,
             sendResponse, bulkDone
<1>1. CASE FirmwareChunk
  BY <1>1 DEF FirmwareChunk, IsArchive
<1>2. CASE FirmwareWriteError
  BY <1>2 DEF FirmwareWriteError, IsArchive
<1>3. CASE FirmwareTimeout
  BY <1>3 DEF FirmwareTimeout, IsArchive
<1>4. CASE DrainChunk
  BY <1>4 DEF DrainChunk, IsArchive
<1>5. CASE DrainTimeout
  BY <1>5 DEF DrainTimeout, IsArchive
<1>. QED  BY <1>1, <1>2, <1>3, <1>4, <1>5

\* serviceUpload.
LEMMA ControlUpload ==
  ASSUME ControlInv, UploadChunk \/ UploadWaits \/ UploadTimeout \/ UploadDrainTimeout
  PROVE  ControlInv'
<1>. USE SizesAreSizes
     DEF ControlInv, OtherTypes, OneReplyPerCommand, Transfers, Responses, Heads, Bulk,
             sendResponse, uploadDone, NoUpload
<1>1. CASE UploadChunk
  <2>1. CASE up.left = 1
    BY <1>1, <2>1 DEF UploadChunk, IsArchive
  <2>2. CASE up.left # 1
    BY <1>1, <2>2 DEF UploadChunk, IsArchive
  <2>. QED  BY <2>1, <2>2
<1>2. CASE UploadWaits
  BY <1>2 DEF UploadWaits, IsArchive
<1>3. CASE UploadTimeout
  BY <1>3 DEF UploadTimeout, IsArchive
<1>4. CASE UploadDrainTimeout
  BY <1>4 DEF UploadDrainTimeout, IsArchive
<1>. QED  BY <1>1, <1>2, <1>3, <1>4

\* serviceArchive, sendRaw and flushResponses.
LEMMA ControlArchive ==
  ASSUME ControlInv,
         \/ NoTransfer \/ ArchiveTimeout \/ ArchiveStep \/ RawFlush \/ RawWrite \/ RawStall \/ Flush
  PROVE  ControlInv'
<1>. USE DEF ControlInv, OtherTypes, OneReplyPerCommand, Transfers, Responses, Heads, Bulk
<1>1. CASE NoTransfer
  BY <1>1 DEF NoTransfer, Owns, IsArchive
<1>2. CASE ArchiveTimeout
  BY <1>2, ArchiveSteps DEF ArchiveTimeout
<1>3. CASE ArchiveStep
  <2>1. IsArchive(ar') /\ ar'.sent = ar.sent /\ ar'.active = ar.active
    BY <1>3, ArchiveSteps DEF ArchiveStep
  <2>. QED  BY <1>3, <2>1 DEF ArchiveStep, IsArchive
<1>4. CASE RawFlush
  <2>1. /\ resp' \in {"none", "skipped", resp} /\ gaveUp' \in BOOLEAN
        /\ conn /\ ~gaveUp' => resp' = "none"
        /\ resp = "none" => resp' = "none"
        /\ gaveUp => gaveUp'
    BY <1>4 DEF RawFlush, flush, flushed, Room
  <2>. QED  BY <1>4, <2>1 DEF RawFlush, IsArchive
<1>5. CASE RawWrite
  <2>1. IsArchive(ar')
    BY <1>5, ArchiveSteps DEF RawWrite
  <2>. QED  BY <1>5, <2>1 DEF RawWrite, IsArchive
<1>6. CASE RawStall
  BY <1>6, ArchiveSteps DEF RawStall
<1>7. CASE Flush
  <2>1. /\ resp' \in {"none", "skipped"} /\ gaveUp' \in BOOLEAN
        /\ resp = "none" => resp' = "none"
        /\ gaveUp => gaveUp'
    BY <1>7 DEF Flush, flush, flushed
  <2>. QED  BY <1>7, <2>1 DEF Flush, IsArchive
<1>. QED  BY <1>1, <1>2, <1>3, <1>4, <1>5, <1>6, <1>7

LEMMA ControlStep ==
  ASSUME ControlInv, QueueTypes, [Next]_vars
  PROVE  ControlInv'
<1>1. CASE Loop \/ Deadline
  BY <1>1, ControlPoll, ControlDispatch, ControlBulk, ControlUpload, ControlArchive
     DEF Loop, Deadline
<1>2. CASE HostSend \/ HostRead \/ Disconnect \/ OtherDeletes \/ UNCHANGED vars
  <2>1. /\ UNCHANGED <<kind, ready, resp, up, ar, pc, left, debt, gaveUp>>
        /\ conn' \in BOOLEAN /\ (conn' => conn) /\ (kind = "serial" => conn' = conn)
        /\ files' \subseteq files
    <3>1. CASE HostSend
      BY <3>1 DEF HostSend, ControlInv, OtherTypes
    <3>2. CASE HostRead \/ UNCHANGED vars
      BY <3>2 DEF HostRead, vars, ControlInv, OtherTypes
    <3>3. CASE Disconnect
      BY <3>3 DEF Disconnect, ControlInv, OtherTypes
    <3>4. CASE OtherDeletes
      BY <3>4 DEF OtherDeletes, ControlInv, OtherTypes
    <3>. QED  BY <1>2, <3>1, <3>2, <3>3, <3>4
  <2>. QED  BY <2>1, ControlFrame
<1>. QED  BY <1>1, <1>2 DEF Next
-----------------------------------------------------------------------------
(* The queues. *)

LEMMA QueueInit == Init => QueueInv
<1>. SUFFICES ASSUME Init PROVE QueueInv
  OBVIOUS
<1>1. rx = <<>> /\ pipe = <<>> /\ todo = <<>> /\ out = <<>>
  BY DEF Init
<1>2. <<>> \in Seq(Tokens) /\ <<>> \in Seq({"R", "W"})
  BY EmptySeq
<1>3. Len(rx) <= RxSize /\ Len(pipe) <= PipeSize /\ Len(out) <= TxSize
  BY <1>1, EmptySeq, SizesAreSizes
<1>. QED  BY <1>1, <1>2, <1>3 DEF QueueInv, QueueTypes, Gone

LEMMA OutTypes ==
  ASSUME out \in Seq({"R", "W"}), Len(out) <= TxSize,
         \/ out' = out
         \/ out # <<>> /\ out' = Tail(out)
         \/ Room /\ out' = Append(out, "R")
         \/ Room /\ out' = Append(out, "W")
         \/ out' = <<>>
  PROVE  out' \in Seq({"R", "W"}) /\ Len(out') <= TxSize
<1>1. Len(out) \in Nat
  BY LenProperties
<1>2. CASE out # <<>> /\ out' = Tail(out)
  <2>1. Tail(out) \in Seq({"R", "W"}) /\ Len(Tail(out)) = Len(out) - 1
    BY <1>2, HeadTailProperties
  <2>2. Len(Tail(out)) <= TxSize
    BY <1>1, <2>1, SizesAreSizes
  <2>. QED  BY <1>2, <2>1, <2>2
<1>3. ASSUME NEW x \in {"R", "W"}, Room, out' = Append(out, x)
      PROVE  out' \in Seq({"R", "W"}) /\ Len(out') <= TxSize
  <2>1. Append(out, x) \in Seq({"R", "W"}) /\ Len(Append(out, x)) = Len(out) + 1
    BY AppendProperties
  <2>. QED  BY <1>1, <1>3, <2>1, SizesAreSizes DEF Room
<1>4. CASE out' = <<>>
  BY <1>4, EmptySeq, SizesAreSizes
<1>. QED  BY <1>2, <1>3, <1>4

\* The steps that leave the tokens from the host where they are.
LEMMA QueueRest ==
  ASSUME QueueInv, UNCHANGED <<rx, pipe, todo>>, conn' = conn,
         \/ out' = out
         \/ out # <<>> /\ out' = Tail(out)
         \/ Room /\ out' = Append(out, "R")
         \/ Room /\ out' = Append(out, "W")
  PROVE  QueueInv'
<1>1. out' \in Seq({"R", "W"}) /\ Len(out') <= TxSize
  BY OutTypes DEF QueueInv, QueueTypes
<1>. QED  BY <1>1 DEF QueueInv, QueueTypes, Gone

LEMMA QueueSend ==
  ASSUME QueueInv, HostSend
  PROVE  QueueInv'
<1>1. PICK f \in IF todo = <<>> THEN Frames ELSE {todo} :
        pipe' = Append(pipe, Head(f)) /\ todo' = Tail(f)
  BY DEF HostSend
<1>2. f \in Seq(Tokens) /\ f # <<>>
  BY FramesAreFrames DEF QueueInv, QueueTypes
<1>3. Head(f) \in Tokens /\ Tail(f) \in Seq(Tokens)
  BY <1>2, HeadTailProperties
<1>4. /\ Append(pipe, Head(f)) \in Seq(Tokens) /\ Len(Append(pipe, Head(f))) = Len(pipe) + 1
      /\ Len(pipe) \in Nat
  BY <1>3, AppendProperties, LenProperties DEF QueueInv, QueueTypes
<1>5. Len(pipe') <= PipeSize
  BY <1>1, <1>4, SizesAreSizes DEF HostSend
<1>6. conn' = TRUE /\ rx' = rx /\ out' = out
  BY DEF HostSend
<1>. QED  BY <1>1, <1>3, <1>4, <1>5, <1>6 DEF QueueInv, QueueTypes, Gone

LEMMA QueueRead ==
  ASSUME ControlInv, QueueInv, readBulkBytes, todo' = todo, conn' = conn, out' = out
  PROVE  QueueInv'
<1>1. /\ rx' \in Seq(Tokens) /\ pipe' \in Seq(Tokens)
      /\ Len(rx') <= RxSize /\ Len(pipe') <= PipeSize
      /\ kind = "net" /\ pipe = <<>> => pipe' = <<>>
  BY ReadStream DEF QueueInv
<1>2. QueueTypes'
  BY <1>1 DEF QueueInv, QueueTypes
<1>3. kind \in {"serial", "net"} /\ (kind = "serial" => conn)
  BY TransportAssumption DEF ControlInv, OtherTypes
<1>4. Gone'
  BY <1>1, <1>3 DEF QueueInv, Gone
<1>. QED  BY <1>2, <1>4 DEF QueueInv

LEMMA QueueStep ==
  ASSUME ControlInv, QueueInv, [Next]_vars
  PROVE  QueueInv'
<1>1. CASE HostSend
  BY <1>1, QueueSend
<1>2. CASE \/ HostRead \/ OtherDeletes \/ Idle \/ HandleBinary \/ HandleGetSdArchive \/ Handoff
           \/ Refuse \/ StartFirmware \/ UNCHANGED vars
  BY <1>2, QueueRest
     DEF HostRead, OtherDeletes, Idle, HandleBinary, HandleGetSdArchive, Handoff,
         Refuse, StartFirmware, vars
<1>3. CASE \/ NoTransfer \/ UploadWaits \/ ArchiveStep \/ RawWrite \/ RawStall
           \/ FirmwareTimeout \/ DrainTimeout \/ UploadTimeout \/ UploadDrainTimeout
           \/ ArchiveTimeout
  BY <1>3, QueueRest
     DEF NoTransfer, UploadWaits, ArchiveStep, RawWrite, RawStall,
         FirmwareTimeout, DrainTimeout, UploadTimeout, UploadDrainTimeout, ArchiveTimeout
<1>4. CASE RawFlush \/ Flush
  <2>1. UNCHANGED <<rx, pipe, todo>> /\ conn' = conn
    BY <1>4 DEF RawFlush, Flush
  <2>2. out' = out \/ (Room /\ out' = Append(out, "R"))
    BY <1>4 DEF RawFlush, Flush, flush, flushed
  <2>. QED  BY <2>1, <2>2, QueueRest
<1>5. CASE FirmwareChunk \/ FirmwareWriteError \/ DrainChunk \/ UploadChunk
  <2>1. readBulkBytes /\ todo' = todo /\ conn' = conn /\ out' = out
    BY <1>5 DEF FirmwareChunk, FirmwareWriteError, DrainChunk, UploadChunk
  <2>. QED  BY <2>1, QueueRead
<1>6. CASE Disconnect
  BY <1>6, EmptySeq, SizesAreSizes DEF Disconnect, QueueInv, QueueTypes, Gone
<1>7. CASE Reconnect
  BY <1>7, EmptySeq, SizesAreSizes DEF Reconnect, QueueInv, QueueTypes, Gone
<1>8. CASE Poll
  <2>1. CASE ready # "none"
    BY <1>8, <2>1, QueueRest DEF Poll
  <2>2. CASE ready = "none"
    <3>1. pipe' = fill.pipe /\ parse(fill.rx) /\ todo' = todo /\ conn' = TRUE /\ out' = out
      BY <1>8, <2>2 DEF Poll, ControlInv, OtherTypes
    <3>2. /\ rx' \in Seq(Tokens) /\ pipe' \in Seq(Tokens)
          /\ Len(rx') <= RxSize /\ Len(pipe') <= PipeSize
      BY <3>1, ParseStream DEF QueueInv
    <3>. QED  BY <3>1, <3>2 DEF QueueInv, QueueTypes, Gone
  <2>. QED  BY <2>1, <2>2
<1>. QED
  BY <1>1, <1>2, <1>3, <1>4, <1>5, <1>6, <1>7, <1>8 DEF Next, Loop, Deadline
-----------------------------------------------------------------------------
(* In step with the host. *)

LEMMA AlignedStream ==
  ASSUME ControlInv
  PROVE  /\ Owed \in Nat
         /\ up.phase # "off" => Owed = up.left
         /\ pc \in {"fw", "drain"} => Owed = left
         /\ up.phase = "off" /\ pc \notin {"fw", "drain"} /\ ready \in Bulk => Owed = PayLen
         /\ up.phase = "off" /\ pc \notin {"fw", "drain"} /\ ready \notin Bulk => Owed = 0
BY SizesAreSizes DEF ControlInv, OtherTypes, Transfers, Owed

\* Steps that read nothing and owe what was owed.
LEMMA StepsAside ==
  ASSUME InStep, UNCHANGED <<rx, pipe, todo>>, Owed' = Owed, conn' => conn, ~gaveUp' => ~gaveUp
  PROVE  InStep'
BY DEF InStep, Stream, Joined

LEMMA InStepSend ==
  ASSUME QueueInv, ControlInv, InStep, HostSend
  PROVE  InStep'
<1>1. PICK f \in IF todo = <<>> THEN Frames ELSE {todo} :
        pipe' = Append(pipe, Head(f)) /\ todo' = Tail(f)
  BY DEF HostSend
<1>2. f \in Seq(Tokens) /\ f # <<>>
  BY FramesAreFrames DEF QueueInv, QueueTypes
<1>3. Stream' = Joined(rx, pipe, f)
  <2>1. rx \in Seq(Tokens) /\ pipe \in Seq(Tokens) /\ rx' = rx
    BY DEF QueueInv, QueueTypes, HostSend
  <2>2. Moved(pipe, f, pipe', todo')
    BY <1>1, <1>2 DEF Moved
  <2>3. Joined(rx, pipe', todo') = Joined(rx, pipe, f)
    BY <2>1, <2>2, SendKeepsStream
  <2>. QED  BY <2>1, <2>3 DEF Stream, Joined
<1>4. Owed' = Owed /\ conn' = conn /\ gaveUp' = gaveUp
  BY DEF HostSend, Owed
<1>5. CASE todo # <<>>
  <2>1. f = todo
    BY <1>5
  <2>2. Stream' = Stream
    BY <1>3, <2>1 DEF Stream, Joined
  <2>. QED  BY <1>4, <2>2 DEF InStep
<1>6. CASE todo = <<>>
  <2>1. f \in Frames
    BY <1>6
  <2>2. Stream = rx \o pipe
    <3>1. rx \o pipe \in Seq(Tokens)
      BY ConcatProperties DEF QueueInv, QueueTypes
    <3>. QED  BY <1>6, <3>1, ConcatEmptySeq DEF Stream, Joined
  <2>3. Stream' = Stream \o f /\ Stream \in Seq(Tokens)
    BY <1>3, <2>2, StreamTypes DEF QueueInv, Joined
  <2>4. Owed \in Nat
    BY AlignedStream
  <2>5. Aligned(Stream, Owed) => Aligned(Stream \o f, Owed)
    BY <2>1, <2>3, <2>4, FramesAreFrames, AnotherFrame
  <2>. QED  BY <1>4, <2>3, <2>5 DEF InStep
<1>. QED  BY <1>5, <1>6

\* A chunk is read as payload.
LEMMA InStepRead ==
  ASSUME QueueInv, ControlInv, InStep, readBulkBytes, todo' = todo,
         Owed > 0, Owed' = Owed - 1, conn' = conn, gaveUp' = gaveUp
  PROVE  InStep'
<1>1. Stream # <<>> /\ Stream' = Tail(Stream) /\ Stream \in Seq(Tokens)
  BY ReadStream, StreamTypes DEF QueueInv
<1>2. Owed \in Nat
  BY AlignedStream
<1>3. Aligned(Stream, Owed) => Aligned(Tail(Stream), Owed - 1)
  BY <1>1, <1>2, ReadChunk
<1>. QED  BY <1>1, <1>3 DEF InStep

LEMMA InStepPoll ==
  ASSUME QueueInv, ControlInv, InStep, Poll
  PROVE  InStep'
<1>1. CASE ready # "none"
  <2>1. UNCHANGED <<rx, pipe, todo, conn, gaveUp, up, ready, left>> /\ pc = "poll" /\ pc' = "dispatch"
    BY <1>1 DEF Poll
  <2>2. Owed' = Owed
    BY <2>1 DEF Owed
  <2>. QED  BY <2>1, <2>2, StepsAside
<1>2. CASE ready = "none"
  <2>1. /\ pipe' = fill.pipe /\ parse(fill.rx) /\ todo' = todo /\ pc = "poll" /\ pc' = "dispatch"
        /\ UNCHANGED <<up, left, gaveUp, conn>>
    BY <1>2 DEF Poll
  <2>2. up.phase = "off"
    BY <1>2 DEF ControlInv, Transfers
  <2>3. Owed = 0
    BY <1>2, <2>1, <2>2, AlignedStream DEF Bulk
  <2>4. Owed' = IF ready' \in Bulk THEN PayLen ELSE 0
    BY <2>1, <2>2 DEF Owed
  <2>5. Stream \in Seq(Tokens)
    BY StreamTypes DEF QueueInv
  <2>6. \/ Stream' = Stream /\ ready' = ready
        \/ /\ Stream # <<>> /\ ready' = Stream[1] /\ ready' \in {"cmd", "get"}
           /\ Dropped(Stream, 2, Stream')
        \/ /\ Stream # <<>> /\ ready' = Stream[1] /\ ready' \in Bulk
           /\ Stream' = Tail(Stream)
        \/ Stream # <<>> /\ Stream[1] \notin Heads
    BY <2>1, ParseStream DEF QueueInv
  <2>. SUFFICES ASSUME Aligned(Stream, 0) PROVE Aligned(Stream', Owed')
    BY <2>1, <2>3 DEF InStep
  <2>7. CASE Stream' = Stream /\ ready' = ready
    BY <1>2, <2>4, <2>7 DEF Bulk
  <2>8. CASE /\ Stream # <<>> /\ ready' = Stream[1] /\ ready' \in {"cmd", "get"}
             /\ Dropped(Stream, 2, Stream')
    <3>1. Aligned(Stream', 0)
      BY <2>5, <2>8, TakeCommand
    <3>2. Owed' = 0
      BY <2>4, <2>8 DEF Bulk
    <3>. QED  BY <3>1, <3>2
  <2>9. CASE /\ Stream # <<>> /\ ready' = Stream[1] /\ ready' \in Bulk
             /\ Stream' = Tail(Stream)
    <3>1. Aligned(Tail(Stream), PayLen)
      BY <2>5, <2>9, TakeBulk
    <3>. QED  BY <2>4, <2>9, <3>1
  <2>10. CASE Stream # <<>> /\ Stream[1] \notin Heads
    <3>1. Len(Stream) \in Nat /\ Len(Stream) > 0
      BY <2>5, <2>10, EmptySeq
    <3>2. Stream[0 + 1] \in Heads
      BY <3>1 DEF Aligned
    <3>. QED  BY <2>10, <3>2
  <2>. QED  BY <2>6, <2>7, <2>8, <2>9, <2>10
<1>. QED  BY <1>1, <1>2

LEMMA InStepStep ==
  ASSUME QueueInv, ControlInv, InStep, [Next]_vars
  PROVE  InStep'
<1>. DEFINE Chunks == FirmwareChunk \/ DrainChunk \/ UploadChunk
            GivesUp == Disconnect \/ FirmwareWriteError \/ DrainTimeout \/ UploadDrainTimeout
<1>1. CASE HostSend
  BY <1>1, InStepSend
<1>2. CASE Poll
  BY <1>2, InStepPoll
<1>3. CASE Reconnect
  <2>1. Stream' = <<>>
    <3>1. pipe = <<>> /\ todo = <<>> /\ rx' = <<>> /\ pipe' = pipe /\ todo' = todo
      BY <1>3 DEF Reconnect, QueueInv, Gone
    <3>2. <<>> \o <<>> = <<>>
      BY EmptySeq, ConcatEmptySeq
    <3>. QED  BY <3>1, <3>2 DEF Stream, Joined
  <2>2. Owed' = 0
    BY <1>3 DEF Reconnect, Owed, NoUpload, Bulk
  <2>3. Aligned(<<>>, 0)
    BY EmptySeq DEF Aligned
  <2>. QED  BY <2>1, <2>2, <2>3 DEF InStep
<1>4. CASE GivesUp
  BY <1>4 DEF InStep, Disconnect, FirmwareWriteError, DrainTimeout, UploadDrainTimeout
<1>5. CASE Chunks
  <2>1. readBulkBytes /\ todo' = todo /\ conn' = conn /\ gaveUp' = gaveUp
    BY <1>5 DEF FirmwareChunk, DrainChunk, UploadChunk
  <2>2. Owed > 0 /\ Owed' = Owed - 1
    <3>1. CASE FirmwareChunk \/ DrainChunk
      <4>1. pc \in {"fw", "drain"} /\ left > 0 /\ up.phase = "off" /\ up' = up /\ left \in Nat
        BY <3>1, SizesAreSizes DEF FirmwareChunk, DrainChunk, ControlInv, Transfers, OtherTypes
      <4>2. Owed = left
        BY <4>1, AlignedStream
      <4>3. CASE left = 1
        <5>1. ready' = "none" /\ pc' = "service"
          BY <3>1, <4>3 DEF FirmwareChunk, DrainChunk, bulkDone
        <5>2. Owed' = 0
          BY <4>1, <5>1 DEF Owed, Bulk
        <5>. QED  BY <4>2, <4>3, <5>2
      <4>4. CASE left # 1
        <5>1. left' = left - 1 /\ pc' = pc
          BY <3>1, <4>4 DEF FirmwareChunk, DrainChunk
        <5>2. Owed' = left'
          BY <4>1, <5>1 DEF Owed
        <5>. QED  BY <4>1, <4>2, <5>1, <5>2
      <4>. QED  BY <4>3, <4>4
    <3>2. CASE UploadChunk
      <4>1. up.phase # "off" /\ up.left > 0 /\ pc' = "flush" /\ up.left \in Nat
        BY <3>2, SizesAreSizes DEF UploadChunk, ControlInv, Transfers, OtherTypes
      <4>2. Owed = up.left
        BY <4>1, AlignedStream
      <4>3. CASE up.left = 1
        <5>1. ready' = "none" /\ up' = NoUpload
          BY <3>2, <4>3 DEF UploadChunk, uploadDone
        <5>2. Owed' = 0
          BY <4>1, <5>1 DEF Owed, Bulk, NoUpload
        <5>. QED  BY <4>2, <4>3, <5>2
      <4>4. CASE up.left # 1
        <5>1. PICK phase \in {up.phase, "kDraining"} : up' = [phase |-> phase, left |-> up.left - 1]
          BY <3>2, <4>4 DEF UploadChunk
        <5>2. up'.phase # "off" /\ up'.left = up.left - 1
          BY <4>1, <5>1
        <5>3. Owed' = up'.left
          BY <4>1, <5>2 DEF Owed
        <5>. QED  BY <4>1, <4>2, <5>2, <5>3
      <4>. QED  BY <4>3, <4>4
    <3>. QED  BY <1>5, <3>1, <3>2
  <2>. QED  BY <2>1, <2>2, InStepRead
<1>6. CASE \/ HostRead \/ OtherDeletes \/ Idle \/ NoTransfer \/ UploadWaits \/ ArchiveStep
           \/ RawFlush \/ RawWrite \/ RawStall \/ Flush \/ ArchiveTimeout \/ UNCHANGED vars
  <2>1. UNCHANGED <<rx, pipe, todo, conn, up, ready, left>>
    BY <1>6 DEF HostRead, OtherDeletes, Idle, NoTransfer, UploadWaits, ArchiveStep,
         RawFlush, RawWrite, RawStall, Flush, ArchiveTimeout, vars
  <2>2. pc' = pc \/ (pc \notin {"fw", "drain"} /\ pc' \notin {"fw", "drain"})
    BY <1>6 DEF HostRead, OtherDeletes, Idle, NoTransfer, UploadWaits, ArchiveStep,
         RawFlush, RawWrite, RawStall, Flush, ArchiveTimeout, vars
  <2>3. ~gaveUp' => ~gaveUp
    BY <1>6 DEF HostRead, OtherDeletes, Idle, NoTransfer, UploadWaits, ArchiveStep,
         RawFlush, RawWrite, RawStall, Flush, ArchiveTimeout, vars, flush, flushed
  <2>4. Owed' = Owed
    BY <2>1, <2>2 DEF Owed
  <2>. QED  BY <2>1, <2>3, <2>4, StepsAside
<1>7. CASE \/ HandleBinary \/ HandleGetSdArchive \/ Handoff \/ Refuse \/ StartFirmware
           \/ FirmwareTimeout \/ UploadTimeout
  <2>1. UNCHANGED <<rx, pipe, todo, conn, gaveUp>>
    BY <1>7 DEF HandleBinary, HandleGetSdArchive, Handoff, Refuse, StartFirmware,
         FirmwareTimeout, UploadTimeout
  <2>2. Owed' = Owed
    <3>1. CASE HandleBinary \/ HandleGetSdArchive
      BY <3>1 DEF HandleBinary, HandleGetSdArchive, Dispatching, Owns, Owed, Bulk
    <3>2. CASE Handoff
      BY <3>2 DEF Handoff, Dispatching, Owns, Owed, Bulk
    <3>3. CASE Refuse \/ StartFirmware
      BY <3>3 DEF Refuse, StartFirmware, Dispatching, Owns, Owed, Bulk
    <3>4. CASE FirmwareTimeout
      BY <3>4 DEF FirmwareTimeout, Owed, ControlInv, Transfers
    <3>5. CASE UploadTimeout
      BY <3>5 DEF UploadTimeout, Owed, ControlInv, OtherTypes
    <3>. QED  BY <1>7, <3>1, <3>2, <3>3, <3>4, <3>5
  <2>. QED  BY <2>1, <2>2, StepsAside
<1>. QED
  BY <1>1, <1>2, <1>3, <1>4, <1>5, <1>6, <1>7 DEF Next, Loop, Deadline

-----------------------------------------------------------------------------
(***************************************************************************)
(* The archive.  What its header promises comes of two loops, over the     *)
(* files and over the entries.  Both are recursive functions; they exist,  *)
(* and their values have their type, by induction on the turns.            *)
(***************************************************************************)

LEMMA Least ==
  ASSUME NEW S \in SUBSET Nat, S # {}
  PROVE  \E m \in S : \A n \in S : m <= n
<1>1. IsWellFoundedOn(OpToRel(<, Nat), Nat)
  BY NatLessThanWellFounded, Zenon
<1>2. PICK m \in S : \A n \in S : <<n, m>> \notin OpToRel(<, Nat)
  BY <1>1, WFMin, Zenon
<1>3. ASSUME NEW n \in S PROVE m <= n
  <2>1. <<n, m>> \notin {z \in Nat \X Nat : z[1] < z[2]}
    BY <1>2 DEF OpToRel
  <2>. QED  BY <2>1
<1>. QED  BY <1>3

\* f is a loop of n turns that begins with z; the turn k leads from v to turn[<<k, v>>].
Turns(f, n, z, turn) ==
  \A k \in 0 .. n : f[k] = IF k = 0 THEN z ELSE turn[<<k, f[k - 1]>>]

LEMMA LoopExists ==
  ASSUME NEW n \in Nat, NEW T, NEW z \in T, NEW turn \in [Nat \X T -> T]
  PROVE  \E f \in [0 .. n -> T] : Turns(f, n, z, turn)
<1>. DEFINE P(m) == \E f \in [0 .. m -> T] : Turns(f, m, z, turn)
            S == {m \in Nat : ~P(m)}
<1>. SUFFICES ASSUME ~P(n) PROVE FALSE
  OBVIOUS
<1>. HIDE DEF P
<1>1. PICK m \in S : \A i \in S : m <= i
  BY Least
<1>2. m # 0
  <2>. DEFINE f == [k \in 0 .. 0 |-> z]
  <2>1. f \in [0 .. 0 -> T] /\ Turns(f, 0, z, turn)
    BY DEF Turns
  <2>. QED  BY <2>1, <1>1 DEF P
<1>3. m - 1 \in Nat /\ P(m - 1)
  BY <1>1, <1>2
<1>4. PICK f \in [0 .. m - 1 -> T] : Turns(f, m - 1, z, turn)
  BY <1>3 DEF P
<1>. DEFINE v == turn[<<m, f[m - 1]>>]
            g == [k \in 0 .. m |-> IF k = m THEN v ELSE f[k]]
<1>5. v \in T
  BY <1>1, <1>3
<1>6. \A k \in 0 .. m : k # m => k \in 0 .. m - 1
  BY <1>1, <1>3
<1>7. g \in [0 .. m -> T]
  <2>. HIDE DEF v
  <2>. QED  BY <1>5, <1>6
<1>8. ASSUME NEW k \in 0 .. m PROVE g[k] = IF k = 0 THEN z ELSE turn[<<k, g[k - 1]>>]
  <2>1. k # 0 => k - 1 \in 0 .. m - 1 /\ k - 1 \in 0 .. m /\ k - 1 # m
    BY <1>1, <1>3
  <2>2. k # 0 => g[k - 1] = f[k - 1]
    BY <2>1
  <2>3. CASE k = m
    BY <1>2, <2>2, <2>3
  <2>4. CASE k # m
    <3>1. g[k] = f[k] /\ k \in 0 .. m - 1
      BY <1>6, <2>4
    <3>2. f[k] = IF k = 0 THEN z ELSE turn[<<k, f[k - 1]>>]
      BY <1>4, <3>1 DEF Turns
    <3>. QED  BY <2>2, <3>1, <3>2
  <2>. QED  BY <2>3, <2>4
<1>9. P(m)
  <2>. HIDE DEF g
  <2>. QED  BY <1>7, <1>8 DEF P, Turns
<1>. QED  BY <1>1, <1>9

\* What holds before a loop and is kept by each of its turns holds throughout.
LEMMA LoopKeeps ==
  ASSUME NEW n \in Nat, NEW T, NEW f, f[0] \in T,
         \A k \in 1 .. n : f[k - 1] \in T => f[k] \in T
  PROVE  \A k \in 0 .. n : f[k] \in T
<1>. DEFINE S == {k \in 0 .. n : f[k] \notin T}
<1>. SUFFICES ASSUME S # {} PROVE FALSE
  OBVIOUS
<1>0. S \in SUBSET Nat
  OBVIOUS
<1>1. PICK k \in S : \A i \in S : k <= i
  BY <1>0, Least
<1>2. k \in 1 .. n
  BY <1>1
<1>3. k - 1 \in 0 .. n /\ k - 1 \notin S
  BY <1>1, <1>2
<1>4. f[k - 1] \in T
  BY <1>3
<1>. QED  BY <1>1, <1>2, <1>4

LEMMA OffsetIs ==
  ASSUME NEW es \in Seq(Entry)
  PROVE  /\ Offset(es)[0] = 0
         /\ \A k \in 1 .. Len(es) : Offset(es)[k] = Offset(es)[k - 1] + 2 + es[k].size
         /\ \A k \in 0 .. Len(es) : Offset(es)[k] \in Nat
<1>. DEFINE n == Len(es)
            size == [k \in Nat |-> IF k \in 1 .. n THEN es[k].size ELSE 0]
            turn == [p \in Nat \X Nat |-> p[2] + 2 + size[p[1]]]
            body(g) == [k \in 0 .. n |-> IF k = 0 THEN 0 ELSE g[k - 1] + 2 + es[k].size]
            f == Offset(es)
<1>1. n \in Nat /\ \A k \in 1 .. n : es[k].size \in Nat
  <2>1. n \in Nat /\ \A k \in 1 .. n : es[k] \in Entry
    BY LenProperties, ElementOfSeq
  <2>. QED  BY <2>1 DEF Entry
<1>2. f = CHOOSE g : g = body(g)
  BY DEF Offset
<1>. HIDE DEF n, f
<1>3. turn \in [Nat \X Nat -> Nat]
  BY <1>1
<1>4. PICK g \in [0 .. n -> Nat] : Turns(g, n, 0, turn)
  BY <1>1, <1>3, LoopExists
<1>5. ASSUME NEW k \in 1 .. n PROVE g[k] = g[k - 1] + 2 + es[k].size
  <2>1. k \in 0 .. n /\ k # 0 /\ k - 1 \in 0 .. n /\ k \in Nat
    BY <1>1
  <2>2. g[k] = turn[<<k, g[k - 1]>>]
    BY <1>4, <2>1 DEF Turns
  <2>3. g[k - 1] \in Nat
    BY <2>1
  <2>. QED  BY <2>1, <2>2, <2>3
<1>6. g[0] = 0
  BY <1>1, <1>4 DEF Turns
<1>7. g = body(g)
  BY <1>5, <1>6
<1>8. f = body(f)
  BY <1>2, <1>7
<1>9. f[0] = 0 /\ \A k \in 1 .. n : f[k] = f[k - 1] + 2 + es[k].size
  BY <1>1, <1>8
<1>10. ASSUME NEW k \in 1 .. n, f[k - 1] \in Nat PROVE f[k] \in Nat
  <2>1. f[k] = f[k - 1] + 2 + es[k].size /\ es[k].size \in Nat
    BY <1>1, <1>9
  <2>. QED  BY <1>10, <2>1
<1>11. \A k \in 0 .. n : f[k] \in Nat
  <2>1. f[0] \in Nat
    BY <1>9
  <2>. HIDE DEF body
  <2>. QED  BY <1>1, <1>10, <2>1, LoopKeeps
<1>. QED  BY <1>9, <1>11 DEF n, f

LEMMA EntriesIs ==
  ASSUME NEW fs, NEW sizes \in Seq(Nat)
  PROVE  Entries(fs, sizes) \in Seq(Entry)
<1>. DEFINE n == Len(sizes)
            entry == [k \in Nat |-> [file |-> k, size |-> IF k \in 1 .. n THEN sizes[k] ELSE 0]]
            turn == [p \in Nat \X Seq(Entry) |->
                       IF p[1] \in fs THEN Append(p[2], entry[p[1]]) ELSE p[2]]
            body(g) == [k \in 0 .. n |->
                          IF k = 0 THEN <<>>
                          ELSE IF k \in fs THEN Append(g[k - 1], [file |-> k, size |-> sizes[k]])
                          ELSE g[k - 1]]
            f == CHOOSE g : g = body(g)
<1>1. n \in Nat /\ \A k \in 1 .. n : sizes[k] \in Nat
  BY LenProperties, ElementOfSeq
<1>2. Entries(fs, sizes) = f[n]
  BY DEF Entries
<1>. HIDE DEF n
<1>3. \A k \in Nat : entry[k] \in Entry
  BY <1>1 DEF Entry
<1>4. \A k \in 1 .. n : entry[k] = [file |-> k, size |-> sizes[k]] /\ k \in Nat
  BY <1>1
<1>. HIDE DEF entry
<1>5. turn \in [Nat \X Seq(Entry) -> Seq(Entry)]
  BY <1>3, AppendProperties
<1>6. PICK g \in [0 .. n -> Seq(Entry)] : Turns(g, n, <<>>, turn)
  BY <1>1, <1>5, LoopExists, EmptySeq
<1>7. ASSUME NEW k \in 1 .. n
      PROVE  g[k] = IF k \in fs THEN Append(g[k - 1], entry[k]) ELSE g[k - 1]
  <2>1. k \in 0 .. n /\ k # 0 /\ k - 1 \in 0 .. n /\ k \in Nat
    BY <1>1
  <2>2. g[k] = turn[<<k, g[k - 1]>>]
    BY <1>6, <2>1 DEF Turns
  <2>3. g[k - 1] \in Seq(Entry)
    BY <2>1
  <2>. QED  BY <2>1, <2>2, <2>3
<1>8. g[0] = <<>>
  <2>1. 0 \in 0 .. n
    BY <1>1
  <2>. HIDE DEF turn
  <2>. QED  BY <1>6, <2>1 DEF Turns
<1>9. g = body(g)
  <2>1. \A k \in 0 .. n : k # 0 => k \in 1 .. n
    BY <1>1
  <2>2. \A k \in 0 .. n : g[k] = body(g)[k]
    BY <1>4, <1>7, <1>8, <2>1
  <2>3. body(g) = [k \in 0 .. n |-> body(g)[k]]
    OBVIOUS
  <2>4. g = [k \in 0 .. n |-> g[k]]
    OBVIOUS
  <2>. HIDE DEF body
  <2>. QED  BY <2>2, <2>3, <2>4
<1>10. f = body(f)
  BY <1>9
<1>. HIDE DEF f
<1>11. f[0] = <<>>
  BY <1>1, <1>10
<1>12. ASSUME NEW k \in 1 .. n, f[k - 1] \in Seq(Entry) PROVE f[k] \in Seq(Entry)
  <2>1. k \in 0 .. n /\ k # 0
    BY <1>1
  <2>2. f[k] = IF k \in fs THEN Append(f[k - 1], entry[k]) ELSE f[k - 1]
    BY <1>4, <1>10, <2>1
  <2>3. entry[k] \in Entry
    BY <1>3, <1>4
  <2>. QED  BY <1>12, <2>2, <2>3, AppendProperties
<1>13. f[n] \in Seq(Entry)
  <2>1. f[0] \in Seq(Entry)
    BY <1>11, EmptySeq
  <2>2. \A k \in 0 .. n : f[k] \in Seq(Entry)
    BY <1>1, <1>12, <2>1, LoopKeeps
  <2>. QED  BY <1>1, <2>2
<1>. QED  BY <1>2, <1>13

LEMMA CollectPromises ==
  ASSUME NEW fs, NEW a, a = Collect(fs, Sizes)
  PROVE  Promised(a)
<1>. DEFINE es == Entries(fs, Sizes)
            n == Len(es)
            k == IF es = <<>> THEN "kEocd" ELSE "kLocalHeader"
            total == Offset(es)[n] + n + 1
<1>1. es \in Seq(Entry)
  BY EntriesIs, TransportAssumption
<1>2. n \in Nat /\ (es # <<>> => n > 0)
  BY <1>1, LenProperties, EmptySeq
<1>3. Offset(es)[0] = 0 /\ Offset(es)[n] \in Nat
  <2>1. n \in 0 .. Len(es)
    BY <1>2
  <2>. HIDE DEF es
  <2>. QED  BY <1>1, <2>1, OffsetIs
<1>4. es = <<>> => n = 0
  BY EmptySeq
<1>5. a = [NoArchive EXCEPT !.active = TRUE, !.entries = es, !.phase = k, !.promised = total]
  BY DEF Collect
<1>. HIDE DEF es
<1>6. /\ a.entries = es /\ a.phase = k /\ a.i = 1 /\ a.remaining = 0 /\ a.sent = 0
      /\ a.promised = total
  <2>. HIDE DEF k, total
  <2>. QED  BY <1>5 DEF NoArchive
<1>7. IsPlaced(a)
  BY <1>1, <1>2, <1>6 DEF IsPlaced
<1>8. ToSend(a) = total
  BY <1>2, <1>3, <1>4, <1>6 DEF ToSend
<1>. QED  BY <1>2, <1>3, <1>6, <1>7, <1>8 DEF Promised

\* The offsets around an archive's place.
LEMMA PlacedFacts ==
  ASSUME NEW a, IsPlaced(a), a.phase # "kEocd"
  PROVE  /\ Len(a.entries) \in Nat /\ a.i \in Nat /\ a.i >= 1 /\ a.i <= Len(a.entries)
         /\ Offset(a.entries)[Len(a.entries)] \in Nat
         /\ Offset(a.entries)[a.i - 1] \in Nat
         /\ Offset(a.entries)[a.i] = Offset(a.entries)[a.i - 1] + 2 + a.entries[a.i].size
         /\ a.entries[a.i].size \in Nat
<1>. DEFINE es == a.entries
            n == Len(es)
<1>1. es \in Seq(Entry) /\ a.i \in 1 .. n
  BY DEF IsPlaced
<1>2. n \in Nat /\ es[a.i] \in Entry
  BY <1>1, LenProperties, ElementOfSeq
<1>3. a.i - 1 \in 0 .. n /\ n \in 0 .. n
  BY <1>1, <1>2
<1>4. es[a.i].size \in Nat
  BY <1>2 DEF Entry
<1>. HIDE DEF es
<1>5. /\ Offset(es)[n] \in Nat /\ Offset(es)[a.i - 1] \in Nat
      /\ Offset(es)[a.i] = Offset(es)[a.i - 1] + 2 + es[a.i].size
  BY <1>1, <1>3, OffsetIs
<1>. QED  BY <1>1, <1>2, <1>4, <1>5 DEF es

\* A part sent is a part less to send, and the step that sends none skips none.
LEMMA StepPromises ==
  ASSUME NEW a, IsArchive(a), Promised(a), a.active, NEW fs, NEW b,
         \/ ~Sends(a) /\ b = FileDone(a)
         \/ Sends(a) /\ b \in Sent(a, fs)
  PROVE  Promised(b)
<1>. DEFINE n == Len(a.entries)
            size == a.entries[a.i].size
            before == Offset(a.entries)[a.i - 1]
            after == Offset(a.entries)[a.i]
            dir == Offset(a.entries)[n]
            Same == b.entries = a.entries /\ b.promised = a.promised
<1>1. /\ IsPlaced(a) /\ a.sent + ToSend(a) = a.promised
      /\ a.sent \in Nat /\ a.remaining \in Nat /\ a.i \in Nat
  BY DEF Promised, IsPlaced
<1>2. a.phase # "kEocd" =>
        /\ n \in Nat /\ a.i >= 1 /\ a.i <= n
        /\ dir \in Nat /\ before \in Nat /\ after = before + 2 + size /\ size \in Nat
  BY <1>1, PlacedFacts
<1>3. ASSUME Same, b.i \in Nat, b.remaining \in Nat, b.sent \in Nat,
             b.phase # "kEocd" => b.i \in 1 .. n,
             b.sent + ToSend(b) = a.sent + ToSend(a)
      PROVE  Promised(b)
  <2>1. IsPlaced(b)
    BY <1>1, <1>3 DEF IsPlaced
  <2>. QED  BY <1>1, <1>3, <2>1 DEF Promised
<1>4. CASE a.phase = "kLocalHeader"
  <2>1. b = LocalHeader(a, fs)
    BY <1>4 DEF Sends, Sent
  <2>2. /\ Same /\ b.i = a.i /\ b.sent = a.sent + 1
        /\ b.phase = "kFileData" /\ b.remaining = size
    BY <2>1 DEF LocalHeader, IsArchive, ArFields
  <2>3. ToSend(a) = dir - before + n + 1 /\ ToSend(b) = dir - after + n + 1 + 1 + size
    BY <1>4, <2>2 DEF ToSend
  <2>. HIDE DEF n, size, before, after, dir, Same
  <2>4. b.sent + ToSend(b) = a.sent + ToSend(a)
    BY ONLY <1>1, <1>2, <1>4, <2>2, <2>3
  <2>. QED  BY <1>1, <1>2, <1>3, <1>4, <2>2, <2>4
<1>5. CASE a.phase = "kFileData" /\ Sends(a)
  <2>1. PICK readable \in BOOLEAN : b = FileData(a, readable)
    BY <1>5 DEF Sent
  <2>2. /\ Same /\ b.i = a.i /\ b.sent = a.sent + 1
        /\ b.phase = "kFileData" /\ b.remaining = a.remaining - 1
    BY <1>5, <2>1 DEF FileData, IsArchive, ArFields
  <2>3. /\ ToSend(a) = dir - after + n + 1 + 1 + a.remaining
        /\ ToSend(b) = dir - after + n + 1 + 1 + b.remaining
    BY <1>5, <2>2 DEF ToSend
  <2>4. a.remaining # 0
    BY <1>5 DEF Sends
  <2>. HIDE DEF n, size, before, after, dir, Same
  <2>5. b.sent + ToSend(b) = a.sent + ToSend(a) /\ b.remaining \in Nat
    BY ONLY <1>1, <1>2, <1>5, <2>2, <2>3, <2>4
  <2>. QED  BY <1>1, <1>2, <1>3, <1>5, <2>2, <2>5
<1>6. CASE ~Sends(a)
  <2>1. b = FileDone(a) /\ a.phase = "kFileData" /\ a.remaining = 0
    BY <1>6 DEF Sends
  <2>2. /\ Same /\ b.i = a.i /\ b.sent = a.sent
        /\ b.phase = "kDataDescriptor" /\ b.remaining = a.remaining
    BY <2>1 DEF FileDone, IsArchive, ArFields
  <2>3. /\ ToSend(a) = dir - after + n + 1 + 1 + a.remaining
        /\ ToSend(b) = dir - after + n + 1 + 1
    BY <2>1, <2>2 DEF ToSend
  <2>. HIDE DEF n, size, before, after, dir, Same
  <2>4. b.sent + ToSend(b) = a.sent + ToSend(a)
    BY ONLY <1>1, <1>2, <2>1, <2>2, <2>3
  <2>. QED  BY <1>1, <1>2, <1>3, <2>1, <2>2, <2>4
<1>7. CASE a.phase = "kDataDescriptor"
  <2>1. b = DataDescriptor(a)
    BY <1>7 DEF Sends, Sent
  <2>2. ToSend(a) = dir - after + n + 1 + 1
    BY <1>7 DEF ToSend
  <2>3. CASE a.i < n
    <3>1. /\ Same /\ b.i = a.i + 1 /\ b.sent = a.sent + 1
          /\ b.phase = "kLocalHeader" /\ b.remaining = a.remaining
      BY <2>1, <2>3 DEF DataDescriptor, IsArchive, ArFields
    <3>2. b.i - 1 = a.i
      BY <1>1, <3>1
    <3>3. ToSend(b) = dir - after + n + 1
      BY <3>1, <3>2 DEF ToSend
    <3>. HIDE DEF n, size, before, after, dir, Same
    <3>4. b.sent + ToSend(b) = a.sent + ToSend(a) /\ b.i \in 1 .. n
      BY ONLY <1>1, <1>2, <1>7, <2>2, <2>3, <3>1, <3>3
    <3>. QED  BY <1>1, <1>2, <1>3, <1>7, <3>1, <3>4
  <2>4. CASE ~(a.i < n)
    <3>1. /\ Same /\ b.i = 1 /\ b.sent = a.sent + 1
          /\ b.phase = "kCentralDir" /\ b.remaining = a.remaining
      BY <2>1, <2>4 DEF DataDescriptor, IsArchive, ArFields
    <3>2. a.i = n
      BY <1>1, <1>2, <1>7, <2>4
    <3>3. ToSend(a) = dir - dir + n + 1 + 1 /\ ToSend(b) = n - 1 + 2
      BY <2>2, <3>1, <3>2 DEF ToSend
    <3>. HIDE DEF n, size, before, after, dir, Same
    <3>4. b.sent + ToSend(b) = a.sent + ToSend(a) /\ b.i \in 1 .. n
      BY ONLY <1>1, <1>2, <1>7, <3>1, <3>3
    <3>. QED  BY <1>1, <1>2, <1>3, <1>7, <3>1, <3>4
  <2>. QED  BY <2>3, <2>4
<1>8. CASE a.phase = "kCentralDir"
  <2>1. b = CentralDir(a)
    BY <1>8 DEF Sends, Sent
  <2>2. /\ Same /\ b.i = a.i + 1 /\ b.sent = a.sent + 1 /\ b.remaining = a.remaining
        /\ b.phase = IF a.i >= n THEN "kEocd" ELSE "kCentralDir"
    BY <1>8, <2>1 DEF CentralDir, IsArchive, ArFields
  <2>3. ToSend(a) = n - a.i + 2 /\ ToSend(b) = IF a.i >= n THEN 1 ELSE n - b.i + 2
    BY <1>8, <2>2 DEF ToSend
  <2>. HIDE DEF n, size, before, after, dir, Same
  <2>4. /\ b.sent + ToSend(b) = a.sent + ToSend(a)
        /\ b.phase # "kEocd" => b.i \in 1 .. n
    BY ONLY <1>1, <1>2, <1>8, <2>2, <2>3
  <2>. QED  BY <1>1, <1>2, <1>3, <1>8, <2>2, <2>4
<1>9. CASE a.phase = "kEocd"
  <2>1. b = NoArchive
    BY <1>9 DEF Sends, Sent
  <2>. QED  BY <2>1 DEF NoArchive, Promised
<1>. QED  BY <1>4, <1>5, <1>6, <1>7, <1>8, <1>9 DEF IsArchive, Phases

LEMMA ArchiveStepKeeps ==
  ASSUME IsArchive(ar), ArchiveInv, [Next]_vars
  PROVE  ArchiveInv'
<1>. DEFINE Idles == \/ HostSend \/ HostRead \/ Disconnect \/ OtherDeletes \/ UNCHANGED vars
            Others == \/ Poll \/ Idle \/ HandleBinary \/ Handoff \/ Refuse \/ StartFirmware
                      \/ FirmwareChunk \/ FirmwareWriteError \/ DrainChunk \/ NoTransfer
                      \/ UploadChunk \/ UploadWaits \/ Flush \/ FirmwareTimeout \/ DrainTimeout
                      \/ UploadTimeout \/ UploadDrainTimeout
<1>1. CASE Idles
  <2>1. ar' = ar /\ pc' = pc
    BY <1>1 DEF HostSend, HostRead, Disconnect, OtherDeletes, vars
  <2>. QED  BY <2>1 DEF ArchiveInv, Promised, IsPlaced, ToSend, Sends
<1>2. CASE Others
  <2>1. ar' = ar /\ pc' \notin {"raw", "write"}
    BY <1>2 DEF Poll, Idle, HandleBinary, Handoff, Refuse, StartFirmware, FirmwareChunk,
       FirmwareWriteError, DrainChunk, NoTransfer, UploadChunk, UploadWaits, Flush,
       FirmwareTimeout, DrainTimeout, UploadTimeout, UploadDrainTimeout, bulkDone
  <2>. QED  BY <2>1 DEF ArchiveInv, Promised, IsPlaced, ToSend
<1>3. CASE Reconnect \/ ArchiveTimeout \/ RawStall
  <2>1. ar' = NoArchive /\ pc' \notin {"raw", "write"}
    BY <1>3 DEF Reconnect, ArchiveTimeout, RawStall
  <2>2. NoArchive.active = FALSE
    BY DEF NoArchive
  <2>. QED  BY <2>1, <2>2 DEF ArchiveInv, Promised
<1>4. CASE HandleGetSdArchive
  <2>1. ar' = Collect(files, Sizes) /\ pc' = "service"
    BY <1>4 DEF HandleGetSdArchive
  <2>2. Promised(ar')
    BY <2>1, CollectPromises
  <2>. QED  BY <2>1, <2>2 DEF ArchiveInv, Promised, IsPlaced
<1>5. CASE ArchiveStep
  <2>1. CASE Sends(ar)
    <3>1. ar' = ar /\ pc' = "raw" /\ ar.active
      BY <1>5, <2>1 DEF ArchiveStep
    <3>. QED  BY <2>1, <3>1 DEF ArchiveInv, Promised, IsPlaced, ToSend, Sends
  <2>2. CASE ~Sends(ar)
    <3>1. ar' = FileDone(ar) /\ pc' = "flush" /\ ar.active
      BY <1>5, <2>2 DEF ArchiveStep
    <3>2. Promised(ar')
      BY <2>2, <3>1, StepPromises DEF ArchiveInv
    <3>. QED  BY <3>1, <3>2 DEF ArchiveInv
  <2>. QED  BY <2>1, <2>2
<1>6. CASE RawFlush
  <2>1. ar' = ar /\ pc = "raw"
    BY <1>6 DEF RawFlush
  <2>. QED  BY <2>1 DEF ArchiveInv, Promised, IsPlaced, ToSend, Sends
<1>7. CASE RawWrite
  <2>1. ar' \in Sent(ar, files) /\ pc' = "flush" /\ ar.active /\ Sends(ar)
    BY <1>7 DEF RawWrite, ArchiveInv
  <2>2. Promised(ar')
    BY <2>1, StepPromises DEF ArchiveInv
  <2>. QED  BY <2>1, <2>2 DEF ArchiveInv
<1>. QED
  BY <1>1, <1>2, <1>3, <1>4, <1>5, <1>6, <1>7 DEF Next, Loop, Deadline

-----------------------------------------------------------------------------
(* The theorems. *)

\* The inductive invariant of one command source.
THEOREM Invariance == Spec => []IInv
<1>1. Init => IInv
  <2>. SUFFICES ASSUME Init PROVE IInv
    OBVIOUS
  <2>1. ControlInv /\ QueueInv
    BY ControlInit, QueueInit
  <2>2. Stream = <<>>
    <3>1. <<>> \o <<>> = <<>>
      BY EmptySeq, ConcatEmptySeq
    <3>. QED  BY <3>1 DEF Init, Stream, Joined
  <2>3. Owed = 0
    BY DEF Init, Owed, NoUpload, Bulk
  <2>4. Aligned(<<>>, 0)
    BY EmptySeq DEF Aligned
  <2>5. ArchiveInv
    BY DEF Init, ArchiveInv, Promised, NoArchive
  <2>. QED  BY <2>1, <2>2, <2>3, <2>4, <2>5 DEF IInv, InStep
<1>2. IInv /\ [Next]_vars => IInv'
  BY ControlStep, QueueStep, InStepStep, ArchiveStepKeeps DEF IInv, QueueInv, ControlInv
<1>. QED
  BY <1>1, <1>2, PTL DEF Spec

\* Every command is answered exactly once and no answer is overwritten before a
\* flush has tried to send it, for every payload length, buffer size and card,
\* on USB and on TCP, whatever the host pipelines, cuts short or leaves unread.
THEOREM AnswersAreExact == Spec => []AnswersExact
<1>1. IInv => AnswersExact
  BY TypesSplit DEF IInv, ControlInv, QueueInv, IsArchive, Responses, AnswersExact, NoReplyLost
<1>. QED
  BY <1>1, Invariance, PTL

\* No byte of a file is parsed as a command and no command is swallowed with a
\* file, however the payload is split between rx_buf_ and the line when an
\* upload is handed off, refused, fails or times out, until the controller
\* gives up on a silent host.
THEOREM FramesAreAligned == Spec => []FramesStayAligned
<1>1. IInv => FramesStayAligned
  <2>. SUFFICES ASSUME IInv, conn, ~gaveUp
                PROVE  /\ Owed <= Len(Stream)
                       /\ \A i \in {j \in 1 .. Owed : j <= Len(Stream)} : Stream[i] = "data"
                       /\ Len(Stream) > Owed => Stream[Owed + 1] \in Heads
    BY DEF FramesStayAligned, Stream, Joined
  <2>1. Aligned(Stream, Owed)
    BY DEF IInv, InStep
  <2>2. Owed \in Nat /\ Len(Stream) \in Nat
    BY AlignedStream, StreamTypes, LenProperties DEF IInv, QueueInv
  <2>. QED  BY <2>1, <2>2 DEF Aligned
<1>. QED
  BY <1>1, Invariance, PTL

\* Nothing is spliced into a raw stream: a response goes out before an archive's
\* first part or after its end, and a part only when no response is queued
\* before it.
THEOREM RawStreamIsClean == Spec => RawStreamClean
<1>. DEFINE Clean == Len(out') > Len(out) /\ ar.active /\ ~gaveUp' =>
                       IF Last(out') = "R" THEN ar.sent = 0 ELSE resp = "none"
<1>1. IInv /\ [Next]_vars => Clean
  <2>. SUFFICES ASSUME IInv, [Next]_vars, Len(out') > Len(out), ar.active, ~gaveUp'
                PROVE  IF Last(out') = "R" THEN ar.sent = 0 ELSE resp = "none"
    OBVIOUS
  <2>1. out \in Seq({"R", "W"}) /\ Len(out) \in Nat
    BY LenProperties DEF IInv, QueueInv, QueueTypes
  <2>2. CASE out' = out
    BY <2>1, <2>2
  <2>3. CASE HostRead \/ Disconnect
    <3>1. out # <<>> => Len(Tail(out)) = Len(out) - 1
      BY <2>1, HeadTailProperties
    <3>. QED  BY <2>1, <2>3, <3>1, EmptySeq DEF HostRead, Disconnect
  <2>4. CASE RawFlush \/ Flush
    <3>1. CASE resp # "none" /\ out' = Append(out, "R") /\ gaveUp' = gaveUp
      <4>1. ar.sent = 0
        BY <3>1 DEF IInv, ControlInv, Responses
      <4>2. Last(out') = "R"
        <5>1. Len(Append(out, "R")) = Len(out) + 1 /\ Append(out, "R")[Len(out) + 1] = "R"
          BY <2>1, AppendProperties
        <5>. QED  BY <3>1, <5>1 DEF Last
      <4>. QED  BY <4>1, <4>2
    <3>2. out' = out \/ (resp # "none" /\ out' = Append(out, "R") /\ gaveUp' = gaveUp)
      BY <2>4 DEF RawFlush, Flush, flush, flushed
    <3>. QED  BY <2>2, <3>1, <3>2
  <2>5. CASE RawWrite
    <3>1. resp = "none"
      BY <2>5 DEF RawWrite, IInv, ControlInv, Responses
    <3>2. Last(out') = "W"
      <4>1. Len(Append(out, "W")) = Len(out) + 1 /\ Append(out, "W")[Len(out) + 1] = "W"
        BY <2>1, AppendProperties
      <4>. QED  BY <2>5, <4>1 DEF RawWrite, Last
    <3>. QED  BY <3>1, <3>2
  <2>6. \/ out' = out \/ HostRead \/ Disconnect \/ RawFlush \/ Flush \/ RawWrite
    BY DEF Next, Loop, Deadline, vars, HostSend, OtherDeletes, Poll, Reconnect, Idle,
       HandleBinary, HandleGetSdArchive, Handoff, Refuse, StartFirmware, FirmwareChunk,
       FirmwareWriteError, DrainChunk, NoTransfer, UploadChunk, UploadWaits, ArchiveStep,
       RawStall, FirmwareTimeout, DrainTimeout, UploadTimeout, UploadDrainTimeout,
       ArchiveTimeout
  <2>. QED  BY <2>2, <2>3, <2>4, <2>5, <2>6
<1>. QED
  BY <1>1, Invariance, PTL DEF Spec, RawStreamClean

\* What an archive has sent and has still to send is what its header promised,
\* for every set of files, their sizes, and whichever of them are deleted or
\* cannot be read while it is sent (serviceArchive pads with zeros).
THEOREM ArchivesKeepPromise == Spec => []ArchivePromise
<1>1. IInv => ArchivePromise
  BY DEF IInv, ArchiveInv, Promised, ArchivePromise
<1>. QED
  BY <1>1, Invariance, PTL

\* Each local header, and the directory after the last file, begins where
\* lhf_offset and ar_cd_offset_ say.
OffsetsTrue ==
  ar.active =>
    /\ ar.phase = "kLocalHeader" => ar.sent = Offset(ar.entries)[ar.i - 1]
    /\ ar.phase = "kCentralDir" /\ ar.i = 1 => ar.sent = Offset(ar.entries)[Len(ar.entries)]

\* The directory an archive ends with is true: handleGetSdArchive computed the
\* offsets in it before a byte was sent, and the files may have gone since.
THEOREM OffsetsAreTrue == Spec => []OffsetsTrue
<1>1. IInv => OffsetsTrue
  <2>. DEFINE n == Len(ar.entries)
              before == Offset(ar.entries)[ar.i - 1]
              dir == Offset(ar.entries)[n]
  <2>. SUFFICES ASSUME IInv, ar.active
                PROVE  /\ ar.phase = "kLocalHeader" => ar.sent = before
                       /\ ar.phase = "kCentralDir" /\ ar.i = 1 => ar.sent = dir
    BY DEF OffsetsTrue
  <2>1. /\ IsPlaced(ar) /\ ar.sent \in Nat /\ ar.i \in Nat
        /\ ar.sent + ToSend(ar) = dir + n + 1
    BY DEF IInv, ArchiveInv, Promised, IsPlaced
  <2>2. ar.phase # "kEocd" => n \in Nat /\ dir \in Nat /\ before \in Nat
    BY <2>1, PlacedFacts
  <2>3. /\ ar.phase = "kLocalHeader" => ToSend(ar) = dir - before + n + 1
        /\ ar.phase = "kCentralDir" => ToSend(ar) = n - ar.i + 2
    BY DEF ToSend
  <2>. HIDE DEF n, before, dir
  <2>. QED  BY ONLY <2>1, <2>2, <2>3
<1>. QED
  BY <1>1, Invariance, PTL
=============================================================================
