--------------------------- MODULE FileTransfers ---------------------------
(***************************************************************************)
(* The commands of CommandProcessor.cpp that change the card: rename,      *)
(* delete, purge, and the three transfers that stream one chunk per turn   *)
(* of loop(): download (0x84, dl_), upload (0x85, ul_) and ZIP archive     *)
(* (0x8A, ar_).  A source that owns a transfer is not served               *)
(* (processCommand), so transfers meet commands and transfers of the other *)
(* source.                                                                 *)
(*                                                                         *)
(* A command that is refused only sends an error response; it is not an    *)
(* action.  Sizes are in chunks.                                           *)
(***************************************************************************)
EXTENDS PatternLibrary

CONSTANTS
  Sources,    \* the command sources, net_ and serial_
  Dropping,   \* the sources that can disconnect: isConnected() is overridden
  InitFiles,  \* the names that are on the card at first, Temp possibly included
  Chunks      \* length of an uploaded file

ASSUME TransferAssumption ==
  /\ Dropping \subseteq Sources /\ "none" \notin Sources
  /\ InitFiles \subseteq Names \cup {Temp}
  /\ Chunks \in Nat \ {0}

VARIABLES
  lib,         \* SdManager and the card
  off,         \* state_ = ArenaState::ALL_OFF
  dl, ul, ar   \* the transfers

vars == <<lib, off, dl, ul, ar>>

(***************************************************************************)
(* Transfers.  name is the path that was opened; skew (history) says that  *)
(* a name was listed twice when the transfer began, that a delete moved    *)
(* the index under it without moving the latched idx (Shifted), or that it *)
(* began beside such a transfer.                                           *)
(***************************************************************************)
NoSource == "none"

NoDownload == [active |-> FALSE, src |-> NoSource, idx |-> 0, name |-> Temp,
               remaining |-> 0, skew |-> FALSE]
NoUpload   == [active |-> FALSE, src |-> NoSource, idx |-> 0, name |-> Temp,
               remaining |-> 0, skew |-> FALSE, phase |-> "kWriting"]
NoArchive  == [active |-> FALSE, src |-> NoSource]

Transferring == dl.active \/ ul.active \/ ar.active

Owns(s) == \/ dl.active /\ dl.src = s
           \/ ul.active /\ ul.src = s
           \/ ar.active /\ ar.src = s

patternBusy(idx) == \/ dl.active /\ dl.idx = idx
                    \/ ul.active /\ ul.idx = idx

Indices == 1 .. Len(lib.names)

Astray == ~IsInjective(lib.names) \/ dl.skew \/ ul.skew

\* A file is "partial" while an upload writes it, and "closed" otherwise.  A
\* closed file need not be whole: a reset may have cut it short, or the card may
\* have refused to remove it; neither the code nor the model can tell.
LeftBehind(files) == [n \in DOMAIN files |-> "closed"]

\* Listed names without a file, and files that are not listed.
Ghosts(l)   == ToSet(l.names) \ DOMAIN l.files
Unlisted(l) == DOMAIN l.files \ (ToSet(l.names) \cup {Temp})

Init ==
  LET card == [files |-> [n \in InitFiles |-> "closed"], names |-> <<>>,
               bin |-> "bad", txt |-> "bad", open |-> Closed]
  IN  /\ \E fault \in ManifestFaults : lib \in begin(card, fault)
      /\ off = TRUE
      /\ dl = NoDownload /\ ul = NoUpload /\ ar = NoArchive

-----------------------------------------------------------------------------
(***************************************************************************)
(* Commands on the library.  A rename and a purge are refused during any   *)
(* transfer, so it does not matter which source they come from.            *)
(***************************************************************************)
SetPatternFilename(idx) ==
  /\ ~Transferring
  /\ idx \in Indices \cup {0}
  /\ \E n \in UNION {candidates(lib, new) : new \in Names}, renamed \in BOOLEAN :
      \E fault \in Faults(renamed) :
        lib' = renamePattern(lib, idx, n, renamed, fault)
  /\ UNCHANGED <<off, dl, ul, ar>>

\* Mutant: a delete leaves the latched indices alone.
ShiftedNever(t, idx, deleted, reported) == t

\* The latched index of a transfer follows a delete below it, but only when
\* deletePattern() reported success.
Shifted(t, idx, deleted, reported) ==
  IF t.active /\ idx >= 1 /\ t.idx > idx /\ deleted
  THEN IF reported THEN [t EXCEPT !.idx = @ - 1] ELSE [t EXCEPT !.skew = TRUE]
  ELSE t

\* A delete is not refused while the other source's archive is sent, and the
\* manifests it writes again may be the ones that archive has open.
DeletePatternFile(s, idx) ==
  /\ ~Owns(s) /\ ~patternBusy(idx)
  /\ idx \in Indices \cup {0}
  /\ \E removed \in BOOLEAN : \E fault \in Faults(removed) :
        LET deleted == removed /\ PathOf(lib, idx) \in DOMAIN lib.files
        IN  /\ lib' = deletePattern(lib, idx, removed, fault)
            /\ dl' = Shifted(dl, idx, deleted, Reported(fault))
            /\ ul' = Shifted(ul, idx, deleted, Reported(fault))
  /\ UNCHANGED <<off, ar>>

PurgeMemory ==
  /\ off /\ ~Transferring
  /\ \E formatted \in BOOLEAN : \E fault \in Faults(formatted) :
        lib' = purgeMemory(lib, formatted, fault)
  /\ UNCHANGED <<off, dl, ul, ar>>

\* The display comes on (which file it has open is the matter of PatternHandle).
ShowFrame(s) ==
  /\ ~Owns(s)
  /\ off' = FALSE
  /\ UNCHANGED <<lib, dl, ul, ar>>

AllOff ==
  /\ ~off /\ off' = TRUE
  /\ UNCHANGED <<lib, dl, ul, ar>>

-----------------------------------------------------------------------------
(***************************************************************************)
(* Download, of a file of any length.                                      *)
(***************************************************************************)
GetPatternFile(s, idx) ==
  /\ ~Owns(s) /\ off /\ ~dl.active
  /\ idx \in Indices /\ ~patternBusy(idx)
  /\ lib.names[idx] \in DOMAIN lib.files
  /\ \E size \in 0 .. Chunks :
       dl' = [active |-> TRUE, src |-> s, idx |-> idx, name |-> lib.names[idx],
              remaining |-> size, skew |-> Astray]
  /\ UNCHANGED <<lib, off, ul, ar>>

\* serviceDownload: a chunk is sent, or the download ends: nothing left, idle
\* deadline, read error or a host that stopped reading.
serviceDownload ==
  /\ dl.active
  /\ \/ dl' = NoDownload
     \/ dl.remaining > 1 /\ dl' = [dl EXCEPT !.remaining = @ - 1]
  /\ UNCHANGED <<lib, off, ul, ar>>

-----------------------------------------------------------------------------
(***************************************************************************)
(* Upload.  SD.remove() of the old file comes first and its result is      *)
(* ignored: if the card refuses, the old file stays when the open fails,   *)
(* and otherwise FILE_WRITE puts the upload at its end.                    *)
(***************************************************************************)
BeginUpload(s, idx) ==
  /\ lib' = [lib EXCEPT !.files = With(@, PathOf(lib, idx), "partial")]
  /\ ul' = [active |-> TRUE, src |-> s, idx |-> idx, name |-> PathOf(lib, idx),
            remaining |-> Chunks, skew |-> Astray, phase |-> "kWriting"]

\* Mutant: an upload does not look for readers.
SetPatternFileUnguarded(s, idx) ==
  /\ ~Owns(s) /\ off /\ ~ul.active /\ ~ar.active
  /\ idx \in Indices \cup {0}
  /\ BeginUpload(s, idx)
  /\ UNCHANGED <<off, dl, ar>>

SetPatternFile(s, idx) ==
  /\ ~Owns(s) /\ off /\ ~ul.active /\ ~ar.active
  /\ ~(dl.active /\ dl.idx = idx)
  /\ idx \in Indices \cup {0}
  /\ \/ BeginUpload(s, idx)
     \/ \* "SD open failed": the old file is gone, or the card kept it
        /\ \/ lib' = [lib EXCEPT !.files = Without(@, PathOf(lib, idx))]
           \/ UNCHANGED lib
        /\ UNCHANGED ul
  /\ UNCHANGED <<off, dl, ar>>

\* The partial file is closed and removed, or the card refuses that too.
DropPartial ==
  \/ lib' = [lib EXCEPT !.files = Without(@, ul.name)]
  \/ lib' = [lib EXCEPT !.files = LeftBehind(@)]

WriteChunk ==
  /\ ul.phase = "kWriting"
  /\ LET last == ul.remaining = 1
     IN  /\ lib' = IF last /\ ul.name \in DOMAIN lib.files
                   THEN [lib EXCEPT !.files[ul.name] = "closed"] ELSE lib
         /\ ul' = IF last THEN NoUpload ELSE [ul EXCEPT !.remaining = @ - 1]

\* A failed write counts the chunk as read from the wire; the response to a
\* last chunk follows at once.
WriteError ==
  /\ ul.phase = "kWriting"
  /\ DropPartial
  /\ ul' = IF ul.remaining = 1 THEN NoUpload
           ELSE [ul EXCEPT !.phase = "kDraining", !.remaining = @ - 1]

\* Mutant: a silent host is waited for.
WriteTimeoutKeeps ==
  /\ ul.phase = "kWriting"
  /\ UNCHANGED <<lib, ul>>

WriteTimeout ==
  /\ ul.phase = "kWriting"
  /\ DropPartial
  /\ ul' = [ul EXCEPT !.phase = "kDraining"]

DrainChunk ==
  /\ ul.phase = "kDraining"
  /\ ul' = IF ul.remaining = 1 THEN NoUpload ELSE [ul EXCEPT !.remaining = @ - 1]
  /\ UNCHANGED lib

DrainTimeout ==
  /\ ul.phase = "kDraining"
  /\ ul' = NoUpload
  /\ UNCHANGED lib

serviceUpload ==
  /\ ul.active
  /\ WriteChunk \/ WriteError \/ WriteTimeout \/ DrainChunk \/ DrainTimeout
  /\ UNCHANGED <<off, dl, ar>>

\* The part of serviceUpload that does not wait for the host.
UploadDeadline ==
  /\ ul.active
  /\ WriteTimeout \/ DrainTimeout
  /\ UNCHANGED <<off, dl, ar>>

-----------------------------------------------------------------------------
(***************************************************************************)
(* Archive.  Its stream is the module SdArchive; here it only occupies its *)
(* source and the library until it has been sent or aborted.               *)
(***************************************************************************)
GetSdArchive(s) ==
  /\ ~Owns(s) /\ off /\ ~ar.active /\ ~ul.active
  /\ ar' = [active |-> TRUE, src |-> s]
  /\ UNCHANGED <<lib, off, dl, ul>>

serviceArchive ==
  /\ ar.active /\ ar' = NoArchive
  /\ UNCHANGED <<lib, off, dl, ul>>

-----------------------------------------------------------------------------
(***************************************************************************)
(* A source that disconnected loses its transfers (serviceDisconnects).    *)
(***************************************************************************)
\* Mutant: the partial file of a lost client stays.
DisconnectKeepingPartial(s) ==
  /\ Owns(s)
  /\ dl' = IF dl.src = s THEN NoDownload ELSE dl
  /\ ar' = IF ar.src = s THEN NoArchive ELSE ar
  /\ ul' = IF ul.src = s THEN NoUpload ELSE ul
  /\ UNCHANGED <<lib, off>>

Disconnect(s) ==
  /\ Owns(s)
  /\ dl' = IF dl.src = s THEN NoDownload ELSE dl
  /\ ar' = IF ar.src = s THEN NoArchive ELSE ar
  /\ IF ul.src = s THEN ul' = NoUpload /\ DropPartial ELSE UNCHANGED <<lib, ul>>
  /\ UNCHANGED off

\* A reset: the card stays as it is, a half-written file included.
Boot ==
  /\ off' = TRUE
  /\ dl' = NoDownload /\ ul' = NoUpload /\ ar' = NoArchive
  /\ \E fault \in ManifestFaults :
        lib' \in begin([lib EXCEPT !.files = LeftBehind(@)], fault)

Next ==
  \/ \E s \in Sources :
       \/ \E idx \in Indices \cup {0} :
            \/ DeletePatternFile(s, idx)
            \/ GetPatternFile(s, idx)
            \/ SetPatternFile(s, idx)
       \/ GetSdArchive(s)
       \/ ShowFrame(s)
  \/ \E idx \in Indices \cup {0} : SetPatternFilename(idx)
  \/ PurgeMemory
  \/ AllOff
  \/ serviceDownload
  \/ serviceUpload
  \/ serviceArchive
  \/ \E s \in Dropping : Disconnect(s)
  \/ Boot

\* Each turn of loop() serves every transfer.  A download or an archive sends
\* or gives up; an upload whose host is silent still has its deadlines.
Fairness == /\ WF_vars(serviceDownload)
            /\ WF_vars(UploadDeadline)
            /\ WF_vars(serviceArchive)

Spec == Init /\ [][Next]_vars /\ Fairness

-----------------------------------------------------------------------------
(***************************************************************************)
(* Properties.                                                             *)
(***************************************************************************)

\* The type of every variable.
TypeOK ==
  /\ DOMAIN lib.files \subseteq Names \cup {Temp}
  /\ \A n \in DOMAIN lib.files : lib.files[n] \in {"closed", "partial"}
  /\ lib.names \in Seq(Names) /\ Len(lib.names) <= MaxCount
  /\ {lib.bin, lib.txt} \subseteq {"current", "stale", "bad"}
  /\ lib.open = Closed /\ off \in BOOLEAN
  /\ \A t \in {dl, ul} : t.active => /\ t.src \in Sources /\ t.idx \in 0 .. MaxCount
                                     /\ t.remaining \in 0 .. Chunks
  /\ ar.active => ar.src \in Sources

Latched(t) == IF t.idx = 0 THEN Temp
              ELSE IF t.idx \in Indices THEN lib.names[t.idx] ELSE -1

\* Unless a name is listed twice or a delete below a transfer could not write
\* its manifest, the index latched by a download or an upload names the file
\* the transfer has open, and that file is still on the card under that name:
\* the guards of the other source's commands (patternBusy, the shift after a
\* delete, the refusals of rename, purge and upload) protect the right file.
TransfersKeepTheirFile ==
  ~dl.skew /\ ~ul.skew =>
    /\ dl.active => /\ Latched(dl) = dl.name /\ dl.name \in DOMAIN lib.files
                    /\ lib.files[dl.name] # "partial"
    /\ ul.active => /\ Latched(ul) = ul.name
                    /\ ul.phase = "kWriting" => /\ ul.name \in DOMAIN lib.files
                                                /\ lib.files[ul.name] = "partial"

\* A reader's file is not rewritten under it: the file being downloaded stays
\* what it is, and while an archive is sent pattern files may go but none
\* changes.  The two manifests, which the archive sends too, are another
\* matter: a delete by the other source is not refused and rewrites them
\* (README, Divergences).  Nothing else touches them or the index.
ReadersUndisturbed ==
  [][/\ dl.active /\ dl'.active /\ ~dl.skew /\ ~ul.skew =>
          dl.name \in DOMAIN lib'.files /\ lib'.files[dl.name] = lib.files[dl.name]
     /\ ar.active /\ ar'.active =>
          /\ \A n \in DOMAIN lib'.files : n \in DOMAIN lib.files /\ lib'.files[n] = lib.files[n]
          /\ \/ UNCHANGED <<lib.names, lib.bin, lib.txt>>
             \/ \E s \in Sources \ {ar.src}, idx \in Indices \cup {0} :
                  DeletePatternFile(s, idx)]_vars

\* While no name is listed twice, a listed pattern loses its file only to an
\* upload that fails, and a file is unlisted only because the index was full or
\* a scan ignores its name: no other sequence of renames, deletes, purges and
\* resets makes the index and the card disagree.
IndexFollowsCard ==
  [][lib' # lib =>
       /\ \A n \in Ghosts(lib') \ Ghosts(lib) :
            \/ ~IsInjective(lib.names)
            \/ ul.active /\ ul.name = n
            \/ \E s \in Sources, idx \in Indices : lib.names[idx] = n /\ SetPatternFile(s, idx)
       /\ \A n \in Unlisted(lib') \ Unlisted(lib) :
            Len(lib'.names) = MaxCount \/ (n \notin Pat /\ Boot)]_vars

\* Whichever open or write of earlier commands failed, a MANIFEST.bin and a
\* MANIFEST.txt that are both on the card describe the index as it is, unless
\* the card refused to remove one of them: writeManifest does not look, and what
\* stays is "bad".
ManifestsAgree ==
  lib.bin # "bad" /\ lib.txt # "bad" => lib.bin = "current" /\ lib.txt = "current"

\* An upload does not walk away from its file: however it ends, by a write
\* error, a deadline in either phase, a disconnect or the last chunk, the file is
\* finished, or the controller has tried to remove it (which the card may refuse).
NoPartialLeft ==
  \A n \in DOMAIN lib.files :
    lib.files[n] = "partial" => ul.active /\ ul.phase = "kWriting" /\ ul.name = n

\* "the 1-based pattern ID is stable across reboots" (scanPatterns): a reset
\* renumbers nothing when each listed name is a pattern name, is listed once
\* and has a file, and each pattern file is listed.
RebootKeepsIndex ==
  [][lib'.names # lib.names /\ Boot =>
       \/ Ghosts(lib) # {} \/ Unlisted(lib) # {}
       \/ ~IsInjective(lib.names) \/ ~(ToSet(lib.names) \subseteq Pat)]_vars

\* A source that owns a transfer is served again, whatever its host does.
SourceServedAgain == \A s \in Sources : Owns(s) ~> ~Owns(s)

\* The card is sound after each step, whichever open, write or rename failed, as
\* far as it lets files be removed: no file an upload has forgotten, and no
\* manifest that contradicts the other.
CardSound == TypeOK /\ ManifestsAgree /\ NoPartialLeft

\* The numbers the host knows are stable: index and card part only where the
\* code accepts it, and a reset renumbers nothing without reason.
IndexStable == IndexFollowsCard /\ RebootKeepsIndex
=============================================================================
