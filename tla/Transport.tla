----------------------------- MODULE Transport ------------------------------
(***************************************************************************)
(* One command source of the controller and its host: SerialManager.cpp    *)
(* (kind "serial") or NetworkManager.cpp ("net"), driven by the turns of   *)
(* loop() in main.cpp and by CommandProcessor::processCommand.             *)
(*                                                                         *)
(* What travels to the controller is a stream of tokens: the head and the  *)
(* rest of a framed command ("cmd" or "get", then "arg"), or the header of *)
(* a bulk write ("put" 0x85, "fw" 0xE0) and its PayLen chunks of "data".   *)
(* Nothing marks where a frame begins: whoever reads a data token as a     *)
(* command head is out of step.  To the host travel response frames ("R")  *)
(* and the unframed parts ("W") of an archive; a download's chunks take    *)
(* the same way.  The host may pipeline commands and stop reading or       *)
(* sending at any time.                                                    *)
(***************************************************************************)
EXTENDS SdArchive, SequencesExt

CONSTANTS
  Kinds,      \* the transports considered
  PayLen,     \* chunks in a bulk write
  RxSize,     \* RX_BUF_SIZE
  PipeSize,   \* tokens under way to the controller
  TxSize,     \* tokens under way to the host
  Sizes       \* the lengths of the files on the card

ASSUME TransportAssumption ==
  /\ Kinds \subseteq {"serial", "net"}
  /\ {PayLen, PipeSize, TxSize} \subseteq Nat \ {0} /\ RxSize \in Nat /\ RxSize >= 2
  /\ Sizes \in Seq(Nat)

VARIABLES
  kind,
  conn,     \* client_.connected(); always TRUE on serial
  todo,     \* what the host has still to send of its frame
  pipe,     \* sent, not yet read by the controller
  rx,       \* rx_buf_
  ready,    \* parsed_cmd_ while cmd_ready_, otherwise "none"
  resp,     \* resp_buf_: "none", "queued", "skipped" (a flush found no room)
            \* or "lost" (history: overwritten before a flush tried to send it)
  up,       \* the upload of serviceUpload: its phase ("off" when none) and left
  ar,       \* the archive of serviceArchive
  files,    \* the files on the card
  out,      \* written, not yet read by the host
  pc,       \* where loop() is
  left,     \* bytes still to read in a synchronous bulk write or drain
  debt,     \* history: commands parsed minus responses queued
  gaveUp    \* history: the controller stopped resynchronising, drained too
            \* much or sent out of order because the host was not there

vars == <<kind, conn, todo, pipe, rx, ready, resp, up, ar, files, out, pc, left, debt, gaveUp>>

Payload == [i \in 1 .. PayLen |-> "data"]
Frames  == {<<"cmd", "arg">>, <<"get", "arg">>, <<"put">> \o Payload, <<"fw">> \o Payload}
Bulk    == {"put", "fw"}
Heads   == {"cmd", "get"} \cup Bulk

NoUpload == [phase |-> "off", left |-> 0]

Room == Len(out) < TxSize

Init ==
  /\ kind \in Kinds /\ conn = TRUE
  /\ todo = <<>> /\ pipe = <<>> /\ rx = <<>> /\ out = <<>>
  /\ ready = "none" /\ resp = "none" /\ up = NoUpload /\ ar = NoArchive
  /\ files = DOMAIN Sizes
  /\ pc = "poll" /\ left = 0 /\ debt = 0 /\ gaveUp = FALSE

-----------------------------------------------------------------------------
(***************************************************************************)
(* The host, and the other source's DELETE_PATTERN_FILE.                   *)
(***************************************************************************)
HostSend ==
  /\ conn /\ Len(pipe) < PipeSize
  /\ \E frame \in IF todo = <<>> THEN Frames ELSE {todo} :
       pipe' = Append(pipe, Head(frame)) /\ todo' = Tail(frame)
  /\ UNCHANGED <<kind, conn, rx, ready, resp, up, ar, files, out, pc, left, debt, gaveUp>>

HostRead ==
  /\ out # <<>> /\ out' = Tail(out)
  /\ UNCHANGED <<kind, conn, todo, pipe, rx, ready, resp, up, ar, files, pc, left, debt, gaveUp>>

Disconnect ==
  /\ kind = "net" /\ conn /\ conn' = FALSE
  /\ todo' = <<>> /\ pipe' = <<>> /\ out' = <<>>
  /\ UNCHANGED <<kind, rx, ready, resp, up, ar, files, pc, left, debt, gaveUp>>

OtherDeletes ==
  /\ pc = "poll"
  /\ \E f \in files : files' = files \ {f}
  /\ UNCHANGED <<kind, conn, todo, pipe, rx, ready, resp, up, ar, out, pc, left, debt, gaveUp>>

-----------------------------------------------------------------------------
(***************************************************************************)
(* serviceUsb, serviceTcp and parseIncoming.                               *)
(***************************************************************************)
\* As much as rx_buf_ has room for.
fill ==
  LET n == IF Len(pipe) < RxSize - Len(rx) THEN Len(pipe) ELSE RxSize - Len(rx)
  IN  [rx |-> rx \o SubSeq(pipe, 1, n), pipe |-> SubSeq(pipe, n + 1, Len(pipe))]

\* parseIncoming on the buffer b.  A byte that begins no frame, met out of step
\* only, is discarded with the whole buffer, or looks like some command.
parse(b) ==
  \/ /\ Len(b) < 2 /\ Range(b) \subseteq {"cmd", "get"}
     /\ rx' = b /\ UNCHANGED <<ready, debt>>
  \/ /\ Len(b) >= 2 /\ b[1] \in {"cmd", "get"}
     /\ ready' = b[1] /\ rx' = SubSeq(b, 3, Len(b)) /\ debt' = debt + 1
  \/ /\ Len(b) >= 1 /\ b[1] \in Bulk
     /\ ready' = b[1] /\ rx' = Tail(b) /\ debt' = debt + 1
  \/ /\ Len(b) >= 1 /\ b[1] \notin Heads
     /\ \/ rx' = <<>> /\ UNCHANGED <<ready, debt>>
        \/ ready' = "cmd" /\ rx' = Tail(b) /\ debt' = debt + 1

Poll ==
  /\ pc = "poll" /\ pc' = "dispatch"
  /\ conn
  /\ IF ready # "none" THEN UNCHANGED <<rx, pipe, ready, debt>>
     ELSE pipe' = fill.pipe /\ parse(fill.rx)
  /\ UNCHANGED <<kind, conn, todo, resp, up, ar, files, out, left, gaveUp>>

\* serviceDisconnects ends the transfers of a client that is gone; serviceTcp
\* then drops what it sent and takes a new client.  resp_buf_ stays.
Reconnect ==
  /\ pc = "poll" /\ ~conn
  /\ up' = NoUpload /\ ar' = NoArchive
  /\ rx' = <<>> /\ ready' = "none" /\ debt' = 0 /\ gaveUp' = FALSE
  /\ conn' \in BOOLEAN /\ pc' = "dispatch"
  /\ UNCHANGED <<kind, todo, pipe, resp, files, out, left>>

-----------------------------------------------------------------------------
(***************************************************************************)
(* Responses.                                                              *)
(***************************************************************************)
sendResponse ==
  /\ resp' = IF resp \in {"queued", "lost"} THEN "lost" ELSE "queued"
  /\ debt' = debt - 1

\* flushResponses with nothing to send, or with room for what there is.
flushed ==
  \/ resp = "none" /\ UNCHANGED <<resp, out, gaveUp>>
  \/ /\ resp # "none" /\ conn /\ Room
     /\ out' = Append(out, "R") /\ resp' = "none" /\ UNCHANGED gaveUp

\* Without room, USB keeps the response; TCP ignores what client_.write() says.
flush ==
  \/ flushed
  \/ /\ resp # "none" /\ (~conn \/ (kind = "serial" /\ ~Room))
     /\ resp' = "skipped" /\ UNCHANGED <<out, gaveUp>>
  \/ /\ resp # "none" /\ kind = "net" /\ conn /\ ~Room
     /\ resp' = "none" /\ gaveUp' = TRUE /\ UNCHANGED out

-----------------------------------------------------------------------------
(***************************************************************************)
(* processCommand.                                                         *)
(***************************************************************************)
\* Mutant: a source is served while its archive is sent.
OwnsUploadOnly == up.phase # "off"

\* The source of a transfer is not served; its next command waits.
Owns == up.phase # "off" \/ ar.active

Idle ==
  /\ pc = "dispatch" /\ (ready = "none" \/ Owns)
  /\ pc' = "service"
  /\ UNCHANGED <<kind, conn, todo, pipe, rx, ready, resp, up, ar, files, out, left, debt, gaveUp>>

Dispatching(c) == pc = "dispatch" /\ ready = c /\ ~Owns

\* A binary or stream command, and a refused GET_SD_ARCHIVE.
HandleBinary ==
  /\ Dispatching("cmd") \/ Dispatching("get")
  /\ sendResponse /\ ready' = "none" /\ pc' = "service"
  /\ UNCHANGED <<kind, conn, todo, pipe, rx, up, ar, files, out, left, gaveUp>>

HandleGetSdArchive ==
  /\ Dispatching("get")
  /\ ar' = Collect(files, Sizes)
  /\ sendResponse /\ ready' = "none" /\ pc' = "service"
  /\ UNCHANGED <<kind, conn, todo, pipe, rx, up, files, out, left, gaveUp>>

\* Mutant: the command that was handed off is consumed at once.
HandoffConsumed ==
  /\ Dispatching("put")
  /\ up' = [phase |-> "kWriting", left |-> PayLen]
  /\ ready' = "none" /\ pc' = "service"
  /\ UNCHANGED <<kind, conn, todo, pipe, rx, resp, ar, files, out, left, debt, gaveUp>>

\* SET_PATTERN_FILE accepted: the command stays unconsumed.
Handoff ==
  /\ Dispatching("put")
  /\ up' = [phase |-> "kWriting", left |-> PayLen]
  /\ pc' = "service"
  /\ UNCHANGED <<kind, conn, todo, pipe, rx, ready, resp, ar, files, out, left, debt, gaveUp>>

\* A bulk write that is refused is drained first (drainBulkData).
Refuse ==
  /\ Dispatching("put") \/ Dispatching("fw")
  /\ pc' = "drain" /\ left' = PayLen
  /\ UNCHANGED <<kind, conn, todo, pipe, rx, ready, resp, up, ar, files, out, debt, gaveUp>>

\* handleSetFirmwareFile reads its payload within the call.
StartFirmware ==
  /\ Dispatching("fw")
  /\ pc' = "fw" /\ left' = PayLen
  /\ UNCHANGED <<kind, conn, todo, pipe, rx, ready, resp, up, ar, files, out, debt, gaveUp>>

\* readBulkBytes: one chunk, what was buffered first.  Serial tops rx_buf_ up
\* before it looks; TCP reads past an empty buffer.
readBulkBytes ==
  \/ kind = "serial" /\ fill.rx # <<>> /\ rx' = Tail(fill.rx) /\ pipe' = fill.pipe
  \/ kind = "net" /\ rx # <<>> /\ rx' = Tail(rx) /\ UNCHANGED pipe
  \/ kind = "net" /\ rx = <<>> /\ pipe # <<>> /\ pipe' = Tail(pipe) /\ UNCHANGED rx

\* The response that ends a synchronous bulk write.
bulkDone == sendResponse /\ ready' = "none" /\ pc' = "service" /\ left' = 0

FirmwareChunk ==
  /\ pc = "fw" /\ readBulkBytes
  /\ IF left = 1 THEN bulkDone ELSE left' = left - 1 /\ UNCHANGED <<pc, ready, resp, debt>>
  /\ UNCHANGED <<kind, conn, todo, up, ar, files, out, gaveUp>>

\* The chunk that could not be written is not counted as read, so the drain
\* that follows takes a chunk more than the host has to send.
FirmwareWriteError ==
  /\ pc = "fw" /\ readBulkBytes
  /\ pc' = "drain" /\ gaveUp' = TRUE
  /\ UNCHANGED <<kind, conn, todo, ready, resp, up, ar, files, out, left, debt>>

FirmwareTimeout ==
  /\ pc = "fw" /\ rx = <<>> /\ pipe = <<>> /\ pc' = "drain"
  /\ UNCHANGED <<kind, conn, todo, pipe, rx, ready, resp, up, ar, files, out, left, debt, gaveUp>>

DrainChunk ==
  /\ pc = "drain" /\ readBulkBytes
  /\ IF left = 1 THEN bulkDone ELSE left' = left - 1 /\ UNCHANGED <<pc, ready, resp, debt>>
  /\ UNCHANGED <<kind, conn, todo, up, ar, files, out, gaveUp>>

DrainTimeout ==
  /\ pc = "drain" /\ bulkDone /\ gaveUp' = TRUE
  /\ UNCHANGED <<kind, conn, todo, pipe, rx, up, ar, files, out>>

-----------------------------------------------------------------------------
(***************************************************************************)
(* serviceUpload.                                                          *)
(***************************************************************************)
uploadDone == up' = NoUpload /\ sendResponse /\ ready' = "none"

\* A chunk is written, fails to be written, or is discarded.
UploadChunk ==
  /\ pc = "service" /\ up.phase # "off" /\ readBulkBytes
  /\ IF up.left = 1 THEN uploadDone
     ELSE /\ \E phase \in {up.phase, "kDraining"} : up' = [phase |-> phase, left |-> up.left - 1]
          /\ UNCHANGED <<ready, resp, debt>>
  /\ pc' = "flush"
  /\ UNCHANGED <<kind, conn, todo, ar, files, out, left, gaveUp>>

UploadWaits ==
  /\ pc = "service" /\ up.phase # "off" /\ rx = <<>> /\ pipe = <<>>
  /\ pc' = "flush"
  /\ UNCHANGED <<kind, conn, todo, pipe, rx, ready, resp, up, ar, files, out, left, debt, gaveUp>>

\* Mutant: the deadline of an upload is set anew.
UploadTimeoutRearms ==
  /\ pc = "service" /\ up.phase = "kWriting" /\ pc' = "flush"
  /\ UNCHANGED <<kind, conn, todo, pipe, rx, ready, resp, up, ar, files, out, left, debt, gaveUp>>

\* Mutant: an upload that times out does not drain.
UploadTimeoutFinalizes ==
  /\ pc = "service" /\ up.phase = "kWriting"
  /\ uploadDone /\ pc' = "flush"
  /\ UNCHANGED <<kind, conn, todo, pipe, rx, ar, files, out, left, gaveUp>>

\* The deadline of the write phase begins the drain.
UploadTimeout ==
  /\ pc = "service" /\ up.phase = "kWriting"
  /\ up' = [up EXCEPT !.phase = "kDraining"] /\ pc' = "flush"
  /\ UNCHANGED <<kind, conn, todo, pipe, rx, ready, resp, ar, files, out, left, debt, gaveUp>>

UploadDrainTimeout ==
  /\ pc = "service" /\ up.phase = "kDraining"
  /\ uploadDone /\ gaveUp' = TRUE /\ pc' = "flush"
  /\ UNCHANGED <<kind, conn, todo, pipe, rx, ar, files, out, left>>

-----------------------------------------------------------------------------
(***************************************************************************)
(* serviceArchive and sendRaw.                                             *)
(***************************************************************************)
NoTransfer ==
  /\ pc = "service" /\ ~Owns /\ pc' = "flush"
  /\ UNCHANGED <<kind, conn, todo, pipe, rx, ready, resp, up, ar, files, out, left, debt, gaveUp>>

ArchiveTimeout ==
  /\ pc = "service" /\ ar.active
  /\ ar' = NoArchive /\ pc' = "flush"
  /\ UNCHANGED <<kind, conn, todo, pipe, rx, ready, resp, up, files, out, left, debt, gaveUp>>

ArchiveStep ==
  /\ pc = "service" /\ ar.active
  /\ IF Sends(ar) THEN pc' = "raw" /\ UNCHANGED ar
     ELSE ar' = FileDone(ar) /\ pc' = "flush"
  /\ UNCHANGED <<kind, conn, todo, pipe, rx, ready, resp, up, files, out, left, debt, gaveUp>>

\* sendRaw sends a queued response first; serial waits 5 s for room, then goes on.
RawFlush ==
  /\ pc = "raw"
  /\ \/ kind = "net" /\ flush
     \/ kind = "serial" /\ flushed
     \/ kind = "serial" /\ resp # "none" /\ ~Room /\ gaveUp' = TRUE /\ UNCHANGED <<resp, out>>
  /\ pc' = "write"
  /\ UNCHANGED <<kind, conn, todo, pipe, rx, ready, up, ar, files, left, debt>>

RawWrite ==
  /\ pc = "write" /\ conn /\ Room
  /\ out' = Append(out, "W") /\ ar' \in Sent(ar, files) /\ pc' = "flush"
  /\ UNCHANGED <<kind, conn, todo, pipe, rx, ready, resp, up, files, left, debt, gaveUp>>

\* No room for 2 s, or no client: a short count, which aborts the archive.
RawStall ==
  /\ pc = "write" /\ ~(conn /\ Room)
  /\ ar' = NoArchive /\ pc' = "flush"
  /\ UNCHANGED <<kind, conn, todo, pipe, rx, ready, resp, up, files, out, left, debt, gaveUp>>

Flush ==
  /\ pc = "flush" /\ flush /\ pc' = "poll"
  /\ UNCHANGED <<kind, conn, todo, pipe, rx, ready, up, ar, files, left, debt>>

-----------------------------------------------------------------------------
Loop ==
  \/ Poll \/ Reconnect \/ Idle \/ HandleBinary \/ HandleGetSdArchive \/ Handoff
  \/ Refuse \/ StartFirmware \/ FirmwareChunk \/ FirmwareWriteError \/ DrainChunk
  \/ NoTransfer \/ UploadChunk \/ UploadWaits \/ ArchiveStep \/ RawFlush \/ RawWrite \/ RawStall \/ Flush

\* What the clock of the controller brings about, without the host.
Deadline ==
  FirmwareTimeout \/ DrainTimeout \/ UploadTimeout \/ UploadDrainTimeout \/ ArchiveTimeout

Next ==
  \/ HostSend \/ HostRead \/ Disconnect \/ OtherDeletes
  \/ Loop \/ Deadline

\* loop() runs and the clock ticks; nothing is assumed of the host.  A deadline
\* is met once in every so many turns of loop().
Fairness == WF_vars(Loop) /\ SF_vars(Deadline)

Spec == Init /\ [][Next]_vars /\ Fairness

-----------------------------------------------------------------------------
(***************************************************************************)
(* Properties.                                                             *)
(***************************************************************************)
\* Every variable has its type; rx_buf_ never holds more than RX_BUF_SIZE
\* (serviceUsb and parseIncoming read into what room is left).
TypeOK ==
  /\ kind \in Kinds /\ conn \in BOOLEAN /\ (kind = "serial" => conn)
  /\ {todo, pipe, rx} \subseteq Seq(Heads \cup {"arg", "data"})
  /\ Len(rx) <= RxSize /\ Len(pipe) <= PipeSize /\ Len(out) <= TxSize
  /\ out \in Seq({"R", "W"})
  /\ ready \in Heads \cup {"none"} /\ resp \in {"none", "queued", "skipped", "lost"}
  /\ up \in [phase : {"off", "kWriting", "kDraining"}, left : 0 .. PayLen]
  /\ ar.active \in BOOLEAN /\ files \subseteq DOMAIN Sizes
  /\ pc \in {"poll", "dispatch", "fw", "drain", "service", "raw", "write", "flush"}
  /\ left \in 0 .. PayLen /\ debt \in Nat /\ gaveUp \in BOOLEAN

\* The payload the controller still means to read: all of it before a bulk
\* write is dispatched, then what the upload, the firmware write or the drain
\* has left.
Owed ==
  CASE up.phase # "off"                  -> up.left
    [] pc \in {"fw", "drain"}            -> left
    [] ready \in Bulk /\ up.phase = "off" /\ pc \notin {"fw", "drain"} -> PayLen
    [] OTHER                             -> 0

\* The command loop stays in step with the host: what the controller still
\* means to read as payload is exactly the payload that is still to come, and
\* what comes after it begins a command.  So no byte of a file is ever parsed
\* as a command, and no command is swallowed with a file, whatever is buffered
\* when an upload is refused, fails or times out (drainBulkData, the kDraining
\* phase of serviceUpload, the unconsumed command of a hand-off).  It holds
\* until the controller gives up on a silent host, or over-drains.
FramesStayAligned ==
  conn /\ ~gaveUp =>
    LET s == rx \o pipe \o todo
        pay == {i \in 1 .. Owed : i <= Len(s)}
    IN  /\ Owed <= Len(s) /\ \A i \in pay : s[i] = "data"
        /\ Len(s) > Owed => s[Owed + 1] \in Heads

\* Every command is answered exactly once: between two turns of the loop no
\* answer is owed but that of the command still unconsumed, and that one has
\* not been given yet (processCommand consumes what it answered; serviceUpload
\* answers and consumes what handleBulkWriteCommand left).
OneReplyPerCommand == debt = (IF ready # "none" THEN 1 ELSE 0)

\* No response is overwritten in resp_buf_ before a flushResponses() had its
\* try at sending it, although dispatch and the transfers both queue responses
\* in one turn of the loop.
NoReplyLost == resp # "lost"

\* An archive keeps its promise: the parts sent and the parts still to send
\* make up the length the response header announced, whichever files are
\* deleted or become unreadable meanwhile (zero padding in serviceArchive).
ArchivePromise == ar.active => ar.sent + ToSend(ar) = ar.promised

\* Nothing is spliced into a raw stream: while an archive is sent, a response
\* frame goes out only before its first part (the header), and a part only
\* when no response is queued before it, up to the moment the controller gives
\* up waiting for a host that does not read.
RawStreamClean ==
  [][Len(out') > Len(out) /\ ar.active /\ ~gaveUp' =>
       IF Last(out') = "R" THEN ar.sent = 0 ELSE resp = "none"]_vars

\* Every command parsed is consumed in the end, whatever the host does: no
\* transfer and no drain can wedge the source that started it.
CommandConsumed == ready # "none" ~> ready = "none"

\* The answers are exact, in number and order, although dispatch, transfers and
\* flushResponses() share one response buffer.
AnswersExact == TypeOK /\ OneReplyPerCommand /\ NoReplyLost
=============================================================================
