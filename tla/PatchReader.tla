----------------------------- MODULE PatchReader -----------------------------
(***************************************************************************)
(* Reading a git patch or a plain unified diff (symboldiff/patch_parse.go) *)
(* and pairing the sides of its files by path (symboldiff/patch.go).       *)
(*                                                                         *)
(* A patch is written as sections, each a sequence of lines; the parser    *)
(* takes one line at a time and knows none of the boundaries.  A line is   *)
(* [kind, ...]; first is the character a hunk body reads.  A deleted line  *)
(* "-- x" of a body is written "--- x" and an added "++ x" "+++ x", so the *)
(* two headers also occur inside hunks.                                    *)
(***************************************************************************)
EXTENDS Integers, Sequences, FiniteSets, SequencesExt

CONSTANTS
    Patches        \* patches: sequences of [lines, file, refused]

VARIABLES
    patch,         \* the patch being read
    next,          \* the number of its next line
    section,       \* the section being read, or NoSection
    parser,        \* [files, sections, old, new, failed, ended]
    asked          \* the sides a diff of the patch asks for, once it is read

patchVars == <<patch, next, section, parser, asked>>

NoPath == ""
NoSection == [open |-> FALSE]
Sections == [open |-> TRUE, git |-> FALSE, indexed |-> FALSE, moded |-> FALSE, added |-> FALSE, removed |-> FALSE,
             oldHeader |-> FALSE, newHeader |-> FALSE, hunked |-> FALSE,
             oldPath |-> NoPath, newPath |-> NoPath, oldBlob |-> NoPath, newBlob |-> NoPath]

PatchLines == FlattenSeq([i \in DOMAIN patch |-> patch[i].lines])

PatchInit ==
    /\ patch \in Patches
    /\ next = 1
    /\ section = NoSection
    /\ parser = [files |-> <<>>, sections |-> 0, old |-> 0, new |-> 0, failed |-> FALSE, ended |-> FALSE]
    /\ asked = {}

Fail == parser' = [parser EXCEPT !.failed = TRUE] /\ UNCHANGED section

\* The section's file: an absent side has no path; without an index line only
\* a change of mode is left out, and anything else is refused.
ModeOnly(s) == s.git /\ ~s.indexed /\ s.moded /\ ~s.oldHeader
Status(s) == IF s.added THEN "added" ELSE IF s.removed THEN "removed" ELSE "modified"
ResultOf(s) ==
    [status |-> Status(s),
     oldPath |-> IF s.added THEN NoPath ELSE s.oldPath,
     newPath |-> IF s.removed /\ ~s.added THEN NoPath ELSE s.newPath,
     oldBlob |-> s.oldBlob, newBlob |-> s.newBlob]
Refusable(s) == \/ s.git /\ ~s.indexed /\ ~ModeOnly(s)
                \/ ~ModeOnly(s) /\ ResultOf(s).oldPath = NoPath /\ ResultOf(s).newPath = NoPath

\* flush: what the open section adds to the files.
Flushed == IF section = NoSection \/ ModeOnly(section) THEN parser.files
           ELSE Append(parser.files, ResultOf(section))
FlushFails == section # NoSection /\ Refusable(section)

Start(opened) ==
    IF FlushFails THEN Fail
    ELSE /\ section' = opened
         /\ parser' = [parser EXCEPT !.files = Flushed, !.sections = @ + 1]

-----------------------------------------------------------------------------
(* Lines.                                                                  *)

InHunk == parser.old > 0 \/ parser.new > 0

Taken(line) == [old |-> IF line.first \in {" ", "-"} THEN 1 ELSE 0, new |-> IF line.first \in {" ", "+"} THEN 1 ELSE 0]

\* A body line is counted by its first character alone.
HunkLine(line) ==
    /\ InHunk
    /\ IF line.first \notin {" ", "-", "+", "\\"} \/ parser.old < Taken(line).old \/ parser.new < Taken(line).new
       THEN Fail
       ELSE /\ parser' = [parser EXCEPT !.old = @ - Taken(line).old, !.new = @ - Taken(line).new]
            /\ UNCHANGED section

\* "diff --git": the paths are read only from a header whose two are equal.
GitHeader(line) ==
    /\ ~InHunk /\ line.kind = "git"
    /\ Start([Sections EXCEPT !.git = TRUE, !.oldPath = line.path, !.newPath = line.path])

Combined(line) == ~InHunk /\ line.kind = "combined" /\ Fail

PathHeader(s, line, side) ==
    LET read == [s EXCEPT !.oldHeader = TRUE]
    IN  IF side = "old"
        THEN IF line.path = NoPath THEN [read EXCEPT !.added = TRUE] ELSE [read EXCEPT !.oldPath = line.path]
        ELSE IF line.path = NoPath THEN [read EXCEPT !.removed = TRUE] ELSE [read EXCEPT !.newPath = line.path]

\* "---" opens a plain section, or closes the headers of a git one.
OldHeader(line) ==
    /\ ~InHunk /\ line.kind = "old"
    /\ IF section = NoSection \/ (section # NoSection /\ (section.oldHeader \/ section.hunked))
       THEN IF FlushFails THEN Fail
            ELSE /\ section' = PathHeader(Sections, line, "old")
                 /\ parser' = [parser EXCEPT !.files = Flushed, !.sections = @ + 1]
       ELSE section' = PathHeader(section, line, "old") /\ UNCHANGED parser

NewHeader(line) ==
    /\ ~InHunk /\ line.kind = "new"
    /\ IF section = NoSection \/ (section # NoSection /\ (~section.oldHeader \/ section.newHeader)) THEN Fail
       ELSE section' = [PathHeader(section, line, "new") EXCEPT !.newHeader = TRUE] /\ UNCHANGED parser

HunkHeader(line) ==
    /\ ~InHunk /\ line.kind = "hunk"
    /\ IF section = NoSection \/ (section # NoSection /\ ~section.newHeader) THEN Fail
       ELSE /\ section' = [section EXCEPT !.hunked = TRUE]
            /\ parser' = [parser EXCEPT !.old = line.old, !.new = line.new]

\* A git header before "---"; a copy is refused.
ExtendedHeader(line) ==
    /\ ~InHunk /\ line.kind \in {"index", "newFile", "deletedFile", "mode", "copy", "renameFrom", "renameTo", "text"}
    /\ IF section = NoSection \/ (section # NoSection /\ (~section.git \/ section.oldHeader)) THEN UNCHANGED <<section, parser>>
       ELSE IF line.kind = "copy" THEN Fail
       ELSE /\ section' = CASE line.kind = "index" -> [section EXCEPT !.indexed = TRUE, !.oldBlob = line.old, !.newBlob = line.new]
                            [] line.kind = "newFile" -> [section EXCEPT !.added = TRUE]
                            [] line.kind = "deletedFile" -> [section EXCEPT !.removed = TRUE]
                            [] line.kind = "mode" -> [section EXCEPT !.moded = TRUE]
                            [] line.kind = "renameFrom" -> [section EXCEPT !.oldPath = line.path]
                            [] line.kind = "renameTo" -> [section EXCEPT !.newPath = line.path]
                            [] OTHER -> section
            /\ UNCHANGED parser

ReadLine ==
    /\ next <= Len(PatchLines) /\ ~parser.failed
    /\ LET line == PatchLines[next] IN
         \/ HunkLine(line) \/ GitHeader(line) \/ Combined(line) \/ OldHeader(line)
         \/ NewHeader(line) \/ HunkHeader(line) \/ ExtendedHeader(line)
         \/ ~InHunk /\ line.kind = "body" /\ UNCHANGED <<section, parser>>
    /\ next' = next + 1
    /\ UNCHANGED <<patch, asked>>

\* The end of the patch: not inside a hunk, and with at least one section.
Finish ==
    /\ next = Len(PatchLines) + 1 /\ ~parser.failed /\ ~parser.ended
    /\ IF InHunk \/ FlushFails \/ parser.sections = 0 THEN Fail
       ELSE section' = NoSection /\ parser' = [parser EXCEPT !.files = Flushed, !.ended = TRUE]
    /\ UNCHANGED <<patch, next, asked>>

-----------------------------------------------------------------------------
(* The sides a diff asks for: every path a file has, with the blob its     *)
(* index line names; a rename is a removal of one path and an addition of  *)
(* another.                                                                *)

PresentSides(file) ==
    {r \in {[path |-> file.oldPath, blob |-> file.oldBlob, new |-> FALSE],
            [path |-> file.newPath, blob |-> file.newBlob, new |-> TRUE]} : r.path # NoPath}

PatchRequests ==
    /\ parser.ended /\ ~parser.failed /\ asked = {}
    /\ parser.files # <<>>
    /\ IF \E i \in DOMAIN parser.files : \E r \in PresentSides(parser.files[i]) : r.blob = NoPath
       THEN Fail /\ UNCHANGED asked
       ELSE /\ asked' = UNION {PresentSides(parser.files[i]) : i \in DOMAIN parser.files}
            /\ UNCHANGED <<section, parser>>
    /\ UNCHANGED <<patch, next>>

\* patchedFiles: the sides of each path.
PatchedFiles ==
    [p \in {r.path : r \in asked} |->
        [before |-> \E r \in asked : r.path = p /\ ~r.new, after |-> \E r \in asked : r.path = p /\ r.new]]

PatchNext == ReadLine \/ Finish \/ PatchRequests

PatchSpec == PatchInit /\ [][PatchNext]_patchVars

-----------------------------------------------------------------------------
(* Correctness.                                                            *)

Written == SelectSeq(patch, LAMBDA s : s.file # <<>>)

\* A patch that is read to its end gives the files that were written, each
\* with its paths, blobs and status, whatever its hunks hold, and none is
\* refused but for a section the format does not support.
SectionsReadBack ==
    /\ parser.ended => parser.files = [i \in DOMAIN Written |-> Written[i].file[1]]
    /\ parser.failed => \E i \in DOMAIN patch : patch[i].refused
    /\ parser.ended /\ ~parser.failed => \A i \in DOMAIN patch : ~patch[i].refused

\* A path is diffed with an old side exactly when some section removes or
\* edits it, and with a new side exactly when one adds or edits it.
SidesFollowSections ==
    asked # {} =>
        /\ DOMAIN PatchedFiles = UNION {{Written[i].file[1].oldPath, Written[i].file[1].newPath} : i \in DOMAIN Written} \ {NoPath}
        /\ \A p \in DOMAIN PatchedFiles :
              /\ PatchedFiles[p].before <=> \E i \in DOMAIN Written : Written[i].file[1].oldPath = p
              /\ PatchedFiles[p].after <=> \E i \in DOMAIN Written : Written[i].file[1].newPath = p

PatchesReadBack == SectionsReadBack /\ SidesFollowSections

=============================================================================
