---------------------------- MODULE PatternHandle ---------------------------
(***************************************************************************)
(* The file that the display holds open (file_, open_id_ of SdManager.cpp) *)
(* while commands rename, delete and replace patterns.  One command runs   *)
(* at a time; an upload is one step here, its end (FileTransfers has its   *)
(* course).                                                                *)
(***************************************************************************)
EXTENDS PatternLibrary

CONSTANT MaxFiles     \* bound: files ever created

VARIABLES
  lib,    \* SdManager and the card; a file is [id |-> its identity]
  made,   \* files created so far
  shown   \* history: the file that the last start asked for and the one it opened

vars == <<lib, made, shown>>

Indices == 1 .. Len(lib.names)

Init ==
  LET card == [files |-> [n \in Pat |-> [id |-> n]], names |-> <<>>,
               bin |-> "bad", txt |-> "bad", open |-> Closed]
  IN  /\ lib \in begin(card, NoFault)
      /\ made = Cardinality(Pat)
      /\ shown = [asked |-> 0, opened |-> 0]

\* TRIAL_PARAMS and SET_PATTERN_ID.
StartPattern(idx) ==
  /\ \E changed, headerOk \in BOOLEAN : lib' = openPattern(lib, idx, changed, headerOk)
  /\ shown' = [asked  |-> IF lib.names[idx] \in DOMAIN lib.files
                          THEN lib.files[lib.names[idx]].id ELSE 0,
               opened |-> lib'.open.file]
  /\ UNCHANGED made

SetPatternFilename(idx, new) ==
  /\ \E n \in candidates(lib, new) : lib' = renamePattern(lib, idx, n, TRUE, NoFault)
  /\ UNCHANGED <<made, shown>>

DeletePatternFile(idx) ==
  /\ lib' = deletePattern(lib, idx, TRUE, NoFault)
  /\ UNCHANGED <<made, shown>>

PurgeMemory ==
  /\ lib' = purgeMemory(lib, TRUE, NoFault)
  /\ UNCHANGED <<made, shown>>

\* SET_PATTERN_FILE replaces the file, or loses it, and leaves the handle alone.
SetPatternFile(idx) ==
  /\ \/ /\ made < MaxFiles /\ made' = made + 1
        /\ lib' = [lib EXCEPT !.files = With(@, PathOf(lib, idx), [id |-> made + 1])]
     \/ /\ lib' = [lib EXCEPT !.files = Without(@, PathOf(lib, idx))]
        /\ UNCHANGED made
     \/ UNCHANGED <<lib, made>>   \* the card refuses to remove the old file
  /\ UNCHANGED shown

Next ==
  \/ \E idx \in Indices : StartPattern(idx)
  \/ \E idx \in Indices \cup {0} : \/ \E new \in Names : SetPatternFilename(idx, new)
                                   \/ DeletePatternFile(idx)
                                   \/ SetPatternFile(idx)
  \/ PurgeMemory

Spec == Init /\ [][Next]_vars

\* "Open and validate the pattern with the given 1-based ID" (SdManager.h): a
\* pattern that opens is the file its number stands for.  openPattern() takes
\* a handle with the same number for the same pattern.
OpensItsPattern == shown.opened # 0 => shown.opened = shown.asked
=============================================================================
