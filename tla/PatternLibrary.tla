-------------------------- MODULE PatternLibrary --------------------------
(***************************************************************************)
(* The pattern library of SdManager.cpp: the sorted 1-based index, the one *)
(* file the display holds open, and the two manifest files.                *)
(*                                                                         *)
(* A library state l is a record                                           *)
(*   files : the card, from file names to files;                           *)
(*   names : names_[], the index;                                          *)
(*   open  : file_open_, open_id_ and the file that file_ refers to;       *)
(*   bin, txt : MANIFEST.bin and MANIFEST.txt: "current" or "stale" with   *)
(*           respect to the index, or "bad": not there or, because the     *)
(*           card refused to remove it, appended to, cut short or left as  *)
(*           it was.                                                       *)
(* A file is an identity (its clusters) or whether an upload is writing    *)
(* it.  Each method of SdManager is an operator from a library state to    *)
(* the next one; what the card does (a failing remove, rename, format or   *)
(* manifest write) is an argument.                                         *)
(***************************************************************************)
EXTENDS Integers, Sequences, FiniteSets, SequencesExt

CONSTANTS
  Names,      \* file names in strcmp order, as positive numbers
  Pat,        \* the names that hasPatExtension() accepts
  MaxCount    \* pattern_max_count

Temp == 0                        \* pattern.temp, the staging file

ASSUME LibraryAssumption ==
  /\ Names \subseteq Nat \ {Temp}
  /\ Pat \subseteq Names
  /\ MaxCount \in Nat

Closed == [on |-> FALSE, id |-> 0, file |-> 0]

CloseFile(l) == [l EXCEPT !.open = Closed]

Without(files, n) == [m \in DOMAIN files \ {n} |-> files[m]]

With(files, n, file) == [m \in DOMAIN files \cup {n} |->
                           IF m = n THEN file ELSE files[m]]

(***************************************************************************)
(* The index.                                                              *)
(***************************************************************************)
\* Mutant: the last name goes, not the one at pos.
removeAtShort(names, pos) == SubSeq(names, 1, Len(names) - 1)

removeAt(names, pos) == SubSeq(names, 1, pos - 1) \o SubSeq(names, pos + 1, Len(names))

\* insertSorted: a full index silently stays as it is.
insertSorted(names, n) ==
  IF Len(names) >= MaxCount THEN names
  ELSE LET before == Cardinality({i \in DOMAIN names : names[i] <= n})
       IN  SubSeq(names, 1, before) \o <<n>> \o SubSeq(names, before + 1, Len(names))

Increasing(q) == \A i, j \in DOMAIN q : i < j => q[i] < q[j]

\* scanPatterns: the .pat files in the order of their names, all of them unless
\* the index is full; which ones it then holds is up to the directory order.
scanPatterns(files) ==
  LET found == Pat \cap DOMAIN files
  IN  {q \in UNION {[1 .. k -> found] : k \in 0 .. MaxCount} :
         Increasing(q) /\ (ToSet(q) = found \/ Len(q) = MaxCount)}

(***************************************************************************)
(* writeManifest removes and rewrites MANIFEST.bin, then MANIFEST.txt, and *)
(* gives up at the first that cannot be written.  It does not look at what *)
(* SD.remove() returns.  The fate of a manifest:                           *)
(*   written  : as it should be;                                           *)
(*   appended : not removed, opened at its end (FILE_WRITE) and written    *)
(*              there, which counts as success;                            *)
(*   failed   : not opened or not written, whether a remove before or      *)
(*              after that took it off the card or not.                    *)
(***************************************************************************)
Fates == {"written", "appended", "failed"}

Succeeds(fate) == fate # "failed"

Rewritten(fate) == IF fate = "written" THEN "current" ELSE "bad"

\* What befalls the two manifests; MANIFEST.txt is tried when MANIFEST.bin succeeds.
ManifestFaults == {f \in [bin : Fates, txt : Fates] : Succeeds(f.bin) \/ f.txt = "failed"}

NoFault == [bin |-> "written", txt |-> "written"]

\* The same for a command that writes them only when something else succeeded.
Faults(tried) == IF tried THEN ManifestFaults ELSE {NoFault}

\* What writeManifest returns.
Reported(fault) == Succeeds(fault.bin) /\ Succeeds(fault.txt)

writeManifest(l, fault) ==
  [l EXCEPT !.bin = Rewritten(fault.bin),
            !.txt = IF Succeeds(fault.bin) THEN Rewritten(fault.txt) ELSE @]

\* A new index: what the manifests on the card say of it is out of date.
Reindexed(l, names) ==
  LET aged(m) == IF m = "current" /\ names # l.names THEN "stale" ELSE m
  IN  [l EXCEPT !.names = names, !.bin = aged(@), !.txt = aged(@)]

\* begin() after a reset: nothing is open, the index is what the scan finds.
begin(l, fault) ==
  {writeManifest(CloseFile(Reindexed(l, s)), fault) : s \in scanPatterns(l.files)}

(***************************************************************************)
(* openPattern: the handle is reused when its number is asked for again    *)
(* and the seek mode has not been changed since (seekModeChanged); a file  *)
(* that is missing, short or has a bad header leaves no file open.         *)
(***************************************************************************)
openPattern(l, id, seekModeChanged, headerOk) ==
  IF l.open.on /\ l.open.id = id /\ ~seekModeChanged THEN l
  ELSE IF l.names[id] \in DOMAIN l.files /\ headerOk
       THEN [l EXCEPT !.open = [on |-> TRUE, id |-> id, file |-> l.files[l.names[id]].id]]
       ELSE CloseFile(l)

CloseIfOpen(l, id) == IF l.open.on /\ l.open.id = id THEN CloseFile(l) ELSE l

\* The file an index stands for: 0 is the staging file.
PathOf(l, id) == IF id = 0 THEN Temp ELSE l.names[id]

(***************************************************************************)
(* deletePattern: SD.remove() may fail; after it the entry goes, and only  *)
(* then the manifest is written.                                           *)
(***************************************************************************)
deletePattern(l, id, removed, fault) ==
  LET closed == IF id = 0 THEN l ELSE CloseIfOpen(l, id)
      n      == PathOf(l, id)
  IN  IF ~removed \/ n \notin DOMAIN l.files THEN closed
      ELSE writeManifest(
             Reindexed([closed EXCEPT !.files = Without(@, n)],
                       IF id = 0 THEN l.names ELSE removeAt(l.names, id)),
             fault)

\* The name a rename ends up with: the one asked for when SD.exists() does not
\* find it, otherwise a prefixed one that is free ("X%03u_%s").
candidates(l, new) ==
  IF new \notin DOMAIN l.files THEN {new} ELSE Names \ DOMAIN l.files

(***************************************************************************)
(* renamePattern to the name n that candidates() offered.                  *)
(***************************************************************************)
renamePattern(l, id, n, renamed, fault) ==
  LET closed == IF id = 0 THEN l ELSE CloseIfOpen(l, id)
      old    == PathOf(l, id)
  IN  IF ~renamed \/ old \notin DOMAIN l.files THEN closed
      ELSE writeManifest(
             Reindexed([closed EXCEPT !.files = With(Without(@, old), n, @[old])],
                       insertSorted(IF id = 0 THEN l.names ELSE removeAt(l.names, id), n)),
             fault)

\* purgeMemory; a format that fails is taken to leave the card alone.
purgeMemory(l, formatted, fault) ==
  LET closed == CloseFile(l)
      empty  == [closed EXCEPT !.files = [m \in {} |-> 0], !.bin = "bad", !.txt = "bad"]
  IN  IF formatted THEN writeManifest(Reindexed(empty, <<>>), fault)
      ELSE closed
=============================================================================
