----------------------------- MODULE SdArchive ------------------------------
(***************************************************************************)
(* The ZIP stream of GET_SD_ARCHIVE (0x8A): handleGetSdArchive and the     *)
(* phases of serviceArchive in CommandProcessor.cpp.  The response header  *)
(* promises the length of the stream before a byte of it is sent; the      *)
(* files are opened one by one later, when they may be gone.               *)
(*                                                                         *)
(* An archive a is a record; each phase is an operator from it to the next *)
(* one, for a part that sendRaw() took whole.  Lengths are in parts: a     *)
(* chunk of data, a local header, a data descriptor, a directory entry and *)
(* the end record are one each.                                            *)
(***************************************************************************)
EXTENDS Integers, Sequences

NoArchive == [active |-> FALSE, phase |-> "kEocd", entries |-> <<>>, i |-> 1,
              remaining |-> 0, open |-> FALSE, sent |-> 0, promised |-> 0]

\* An entry for each file that opens, in the order of the library.
Entries(files, sizes) ==
  LET entries[f \in 0 .. Len(sizes)] ==
        IF f = 0 THEN <<>>
        ELSE IF f \in files THEN Append(entries[f - 1], [file |-> f, size |-> sizes[f]])
        ELSE entries[f - 1]
  IN  entries[Len(sizes)]

\* lhf_offset: how far into the stream each entry begins, and after the last
\* entry the directory.
Offset(entries) ==
  LET offset[k \in 0 .. Len(entries)] ==
        IF k = 0 THEN 0 ELSE offset[k - 1] + 2 + entries[k].size
  IN  offset

\* handleGetSdArchive.  An empty library goes straight to the end record.
Collect(files, sizes) ==
  LET entries == Entries(files, sizes)
      n       == Len(entries)
  IN  [NoArchive EXCEPT !.active = TRUE, !.entries = entries,
                        !.phase = IF entries = <<>> THEN "kEocd" ELSE "kLocalHeader",
                        !.promised = Offset(entries)[n] + n + 1]

LocalHeader(a, files) ==
  [a EXCEPT !.phase = "kFileData", !.remaining = a.entries[a.i].size,
            !.open = a.entries[a.i].file \in files, !.sent = @ + 1]

\* The step of kFileData that sends nothing.
FileDone(a) == [a EXCEPT !.phase = "kDataDescriptor", !.open = FALSE]

\* Mutant: what cannot be read is left out.
FileDataShort(a, readable) ==
  IF a.open /\ readable THEN [a EXCEPT !.remaining = @ - 1, !.sent = @ + 1]
  ELSE [a EXCEPT !.remaining = 0, !.open = FALSE]

\* A read that fails closes the file; what cannot be read is sent as zeros.
FileData(a, readable) ==
  [a EXCEPT !.remaining = @ - 1, !.sent = @ + 1, !.open = @ /\ readable]

DataDescriptor(a) ==
  IF a.i < Len(a.entries)
  THEN [a EXCEPT !.sent = @ + 1, !.i = @ + 1, !.phase = "kLocalHeader"]
  ELSE [a EXCEPT !.sent = @ + 1, !.i = 1, !.phase = "kCentralDir"]

CentralDir(a) ==
  [a EXCEPT !.sent = @ + 1, !.i = @ + 1,
            !.phase = IF a.i >= Len(a.entries) THEN "kEocd" ELSE @]

\* Does the next step of serviceArchive send a part?
Sends(a) == ~(a.phase = "kFileData" /\ a.remaining = 0)

\* The archives that follow a once the part of its phase has been sent.
Sent(a, files) ==
  CASE a.phase = "kLocalHeader"    -> {LocalHeader(a, files)}
    [] a.phase = "kFileData"       -> {FileData(a, readable) : readable \in BOOLEAN}
    [] a.phase = "kDataDescriptor" -> {DataDescriptor(a)}
    [] a.phase = "kCentralDir"     -> {CentralDir(a)}
    [] a.phase = "kEocd"           -> {NoArchive}

\* What is still to be sent.
ToSend(a) ==
  LET n       == Len(a.entries)
      from(k) == Offset(a.entries)[n] - Offset(a.entries)[k] + n + 1
  IN  CASE a.phase = "kLocalHeader"    -> from(a.i - 1)
        [] a.phase = "kFileData"       -> from(a.i) + 1 + a.remaining
        [] a.phase = "kDataDescriptor" -> from(a.i) + 1
        [] a.phase = "kCentralDir"     -> n - a.i + 2
        [] a.phase = "kEocd"           -> 1
=============================================================================
