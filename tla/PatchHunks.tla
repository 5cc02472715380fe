----------------------------- MODULE PatchHunks -----------------------------
(***************************************************************************)
(* The apply_patch tool: a document is parsed into operations on files,    *)
(* which are carried out one after the other by calls to an executor, each *)
(* of which may fail, or be done and its answer be lost. A document is the *)
(* sequence of its lines, a line its mark and the text after it. The model *)
(* has written it part by part, by the grammar; it may have a blank line   *)
(* that the parser skips, or a line too many.                              *)
(***************************************************************************)
EXTENDS Naturals, Sequences, FiniteSets

CONSTANTS
    Lines,          \* lines of files
    Empty,          \* the empty line; the context of a hunk that has none
    Paths,          \* paths of files
    NoPath,         \* the new path of an operation that is not a move
    HerePath,       \* where there is a file before the call
    Operations,     \* what documents stand for: sequences of operations
    Sources         \* the lines of the file at HerePath

HunkLines == [mark : {" ", "+", "-"}, text : Lines]
PatchHunk == [context : Lines \cup {Empty}, lines : Seq(HunkLines)]
FileOp == [kind : {"add", "delete", "update", "move"}, path : Paths,
           to : Paths \cup {NoPath}, lines : Seq(Lines), hunks : Seq(PatchHunk)]

\* Operations as the grammar has them: a file that is added has a line, one that is
\* updated a hunk, and a hunk a line.
Grammatical(op) ==
    /\ op \in FileOp
    /\ op.kind = "move" <=> op.to # NoPath
    /\ op.kind = "add" <=> op.lines # <<>>
    /\ op.kind \in {"update", "move"} <=> op.hunks # <<>>
    /\ \A k \in 1..Len(op.hunks) : op.hunks[k].lines # <<>>

ASSUME PatchAssumption ==
    /\ Empty \notin Lines /\ NoPath \notin Paths /\ HerePath \in Paths
    /\ \A operations \in Operations :
          /\ operations \in Seq(FileOp)
          /\ \A n \in 1..Len(operations) : Grammatical(operations[n])
    /\ Sources \subseteq Seq(Lines)

VARIABLES
    meant,      \* the operations that the document stands for
    document,
    begins,     \* history: per operation, the lines where it and its hunks begin
    finish,     \* history: the line after the last operation
    cursor,     \* the line the parser is at
    ops,        \* operations parsed so far; the last may want its hunks
    step,       \* of the call
    opAt,       \* the operation that is carried out
    hunkAt,     \* the hunk that is applied
    source,     \* what readFile has returned
    patch,      \* how far the hunks have come in it, and what they have made
    tree,       \* per path: the file there
    reports,    \* per operation: ok or error
    started     \* history: the tree before the call

draftVars == <<meant, document, begins, finish>>
parseVars == <<cursor, ops>>
applyVars == <<opAt, hunkAt, source, patch, tree, reports>>
patchVars == <<draftVars, parseVars, applyVars, step, started>>

Missing == [there |-> FALSE, lines |-> <<>>]
File(lines) == [there |-> TRUE, lines |-> lines]
NoFiles == [p \in Paths |-> Missing]

PatchInit ==
    /\ meant \in Operations
    /\ document = <<[mark |-> "begin", text |-> Empty]>>
    /\ begins = <<>> /\ finish = 2
    /\ cursor = 2 /\ ops = <<>> /\ step = "draft"
    /\ opAt = 1 /\ hunkAt = 1 /\ source = <<>>
    /\ patch = [pos |-> 0, out |-> <<>>]
    /\ tree = NoFiles /\ started = NoFiles /\ reports = <<>>

-----------------------------------------------------------------------------
(* The document *)

L(mark, text) == [mark |-> mark, text |-> text]

Drafted(lines) ==
    /\ document' = document \o lines
    /\ finish' = Len(document) + Len(lines) + 1
    /\ UNCHANGED <<meant, parseVars, applyVars, step, started>>

\* A line before the first operation: one that is skipped, or that is none.
WriteExtra ==
    /\ step = "draft" /\ Len(document) = 1 /\ begins = <<>>
    /\ \E mark \in {"blank", "other"} : Drafted(<<L(mark, Empty)>>)
    /\ UNCHANGED begins

Header(op) ==
    CASE op.kind = "move" -> <<L("update", op.path), L("move to", op.to)>>
      [] op.kind = "add" ->
            <<L("add", op.path)>> \o [i \in 1..Len(op.lines) |-> L("+", op.lines[i])]
      [] OTHER -> <<L(op.kind, op.path)>>

HunkText(hunk) == <<L("@@", hunk.context)>> \o hunk.lines

\* The hunks of the operations so far are written.
HunksWritten == \A n \in 1..Len(begins) : Len(begins[n]) = Len(meant[n].hunks) + 1

WriteOperation ==
    /\ step = "draft" /\ HunksWritten /\ Len(begins) < Len(meant)
    /\ Drafted(Header(meant[Len(begins) + 1]))
    /\ begins' = Append(begins, <<finish>>)

WriteHunk ==
    /\ step = "draft" /\ ~HunksWritten
    /\ LET n == Len(begins) IN
          /\ Drafted(HunkText(meant[n].hunks[Len(begins[n])]))
          /\ begins' = [begins EXCEPT ![n] = Append(@, finish)]

\* The call, with the document, on the files that there are.
CallApplyPatch ==
    /\ step = "draft" /\ HunksWritten /\ Len(begins) = Len(meant)
    /\ \E mark \in {"none", "eof"} :
          document' = document \o (IF mark = "eof" THEN <<L("eof", Empty)>> ELSE <<>>)
                               \o <<L("end", Empty)>>
    /\ \E s \in Sources : tree' = [NoFiles EXCEPT ![HerePath] = File(s)]
    /\ started' = tree'
    /\ step' = "parse"
    /\ UNCHANGED <<meant, begins, finish, parseVars, opAt, hunkAt, source, patch, reports>>

-----------------------------------------------------------------------------
(* ParsePatch *)

Parsed == UNCHANGED <<draftVars, applyVars, started>>
Refused == step' = "refused" /\ UNCHANGED parseVars
Starred == {"add", "delete", "update", "move to", "eof", "end"}
Mark(i) == document[i].mark

Least(S) == CHOOSE i \in S : \A j \in S : i <= j
\* The first line from i on with none of the marks; the last one is the end's.
Past(i, marks) == Least({j \in i..Len(document) : Mark(j) \notin marks})

Op(kind, path, to, lines) ==
    [kind |-> kind, path |-> path, to |-> to, lines |-> lines, hunks |-> <<>>]

ParseAddFile(i) ==
    LET j == Past(i + 1, {"+"})
    IN  IF j = i + 1 THEN Refused
        ELSE /\ ops' = Append(ops, Op("add", document[i].text, NoPath,
                          [k \in 1..(j - i - 1) |-> document[i + k].text]))
             /\ cursor' = j /\ UNCHANGED step

\* The header, with the path to move to in the line after it.
ParseUpdateFile(i) ==
    LET moves == Mark(i + 1) = "move to" IN
    /\ ops' = Append(ops, IF moves THEN Op("move", document[i].text, document[i + 1].text, <<>>)
                                   ELSE Op("update", document[i].text, NoPath, <<>>))
    /\ cursor' = i + IF moves THEN 2 ELSE 1
    /\ step' = "chunks"

\* At the end: the operations are carried out, unless there are none or the
\* executor is not found.
EndParse ==
    /\ step' \in IF ops = <<>> THEN {"answered", "refused"} ELSE {"apply", "refused"}
    /\ UNCHANGED parseVars

ParsePatch ==
    /\ step = "parse"
    /\ CASE Mark(cursor) = "blank" -> cursor' = cursor + 1 /\ UNCHANGED <<ops, step>>
         [] Mark(cursor) = "add" -> ParseAddFile(cursor)
         [] Mark(cursor) = "delete" ->
              /\ ops' = Append(ops, Op("delete", document[cursor].text, NoPath, <<>>))
              /\ cursor' = cursor + 1 /\ UNCHANGED step
         [] Mark(cursor) = "update" -> ParseUpdateFile(cursor)
         [] Mark(cursor) = "end" -> EndParse
         [] OTHER -> Refused
    /\ Parsed

\* The lines of a hunk from b on, up to j; a blank one is an empty line of context.
ChunkLines(b, j) ==
    [k \in 1..(j - b) |-> IF Mark(b + k - 1) = "blank" THEN L(" ", Empty) ELSE document[b + k - 1]]

\* They go on to the next mark, a blank one that was meant to end the hunk among them.
ParseUpdateChunk(i) ==
    LET last == Len(ops)
        b == IF Mark(i) = "@@" THEN i + 1 ELSE i
        j == Past(b, {" ", "+", "-", "blank"})
        lines == ChunkLines(b, j)
        context == IF b > i THEN document[i].text ELSE Empty
    IN  IF (b = i /\ ops[last].hunks # <<>>) \/ lines = <<>> THEN Refused
        ELSE /\ ops' = [ops EXCEPT ![last].hunks =
                            Append(@, [context |-> context, lines |-> lines])]
             /\ cursor' = IF Mark(j) = "eof" THEN j + 1 ELSE j
             /\ UNCHANGED step

ParseChunks ==
    /\ step = "chunks"
    /\ CASE Mark(cursor) = "blank" -> cursor' = cursor + 1 /\ UNCHANGED <<ops, step>>
         [] Mark(cursor) \in Starred ->
              IF ops[Len(ops)].hunks = <<>> THEN Refused
              ELSE step' = "parse" /\ UNCHANGED parseVars
         [] OTHER -> ParseUpdateChunk(cursor)
    /\ Parsed

-----------------------------------------------------------------------------
(* Call: one operation after the other, whatever became of those before *)

Current == ops[opAt]
Report(result) ==
    /\ reports' = Append(reports, result)
    /\ opAt' = opAt + 1
    /\ step' = IF opAt = Len(ops) THEN "answered" ELSE "apply"
GoesTo(to) == step' = to /\ UNCHANGED <<opAt, reports>>
Carried == UNCHANGED <<draftVars, parseVars, started>>

\* A call to the executor that changes the tree: not done, done, or done and
\* not answered.
Remote(files, then) ==
    \/ Report("error") /\ UNCHANGED tree
    \/ tree' = files /\ (then \/ Report("error"))

WriteFile(path, lines) == Remote([tree EXCEPT ![path] = File(lines)], Report("ok"))

AddOrDelete ==
    /\ step = "apply"
    /\ \/ Current.kind = "add" /\ WriteFile(Current.path, Current.lines)
       \/ /\ Current.kind = "delete"
          /\ IF tree[Current.path].there
             THEN Remote([tree EXCEPT ![Current.path] = Missing], Report("ok"))
             ELSE Report("error") /\ UNCHANGED tree
    /\ UNCHANGED <<hunkAt, source, patch>> /\ Carried

ReadFile ==
    /\ step = "apply" /\ Current.kind = "update"
    /\ \/ /\ tree[Current.path].there /\ GoesTo("hunks")
          /\ source' = tree[Current.path].lines
          /\ patch' = [pos |-> 0, out |-> <<>>] /\ hunkAt' = 1
       \/ Report("error") /\ UNCHANGED <<hunkAt, source, patch>>
    /\ UNCHANGED tree /\ Carried

\* fs/copy and fs/remove; the hunks are not applied.
CopyOver ==
    /\ step = "apply" /\ Current.kind = "move"
    /\ IF tree[Current.path].there
       THEN Remote([tree EXCEPT ![Current.to] = tree[Current.path]], GoesTo("remove"))
       ELSE Report("error") /\ UNCHANGED tree
    /\ UNCHANGED <<hunkAt, source, patch>> /\ Carried

RemoveOld ==
    /\ step = "remove"
    /\ Remote([tree EXCEPT ![Current.path] = Missing], Report("ok"))
    /\ UNCHANGED <<hunkAt, source, patch>> /\ Carried

-----------------------------------------------------------------------------
(* ApplyHunks *)

\* The texts of the lines with one of the marks, gathered one by one.
Gathered(hunk, marks) ==
    LET texts[n \in 0..Len(hunk.lines)] ==
          CASE n = 0 -> <<>>
            [] n > 0 /\ hunk.lines[n].mark \in marks -> Append(texts[n - 1], hunk.lines[n].text)
            [] OTHER -> texts[n - 1]
    IN  texts
LinesOf(hunk, marks) == Gathered(hunk, marks)[Len(hunk.lines)]
OldLines(hunk) == LinesOf(hunk, {" ", "-"})
NewLines(hunk) == LinesOf(hunk, {" ", "+"})

MatchesAt(s, i, old) == i + Len(old) <= Len(s) /\ \A k \in 1..Len(old) : s[i + k] = old[k]
From(s, i) == SubSeq(s, i + 1, Len(s))

\* Where a hunk may go: after the first line that is its context, if it has one,
\* where its old lines are; without old lines its new ones come last.
Anchors(s, pos, hunk) == {i \in pos..(Len(s) - 1) : s[i + 1] = hunk.context}
HunkPlaces(s, pos, hunk) ==
    LET anchors == Anchors(s, pos, hunk)
        first == IF hunk.context = Empty THEN pos ELSE Least(anchors) + 1
    IN  IF hunk.context # Empty /\ anchors = {} THEN {}
        ELSE IF OldLines(hunk) = <<>> THEN {Len(s)}
        ELSE {i \in first..Len(s) : MatchesAt(s, i, OldLines(hunk))}

\* Mutant: the cursor stays where the hunk begins.
AppliedAgain(s, p, hunk) ==
    LET at == Least(HunkPlaces(s, p.pos, hunk))
    IN  [pos |-> at, out |-> p.out \o SubSeq(s, p.pos + 1, at) \o NewLines(hunk)]

\* The lines before the place stay, the new ones replace the old ones.
Applied(s, p, hunk) ==
    LET at == Least(HunkPlaces(s, p.pos, hunk))
    IN  [pos |-> at + Len(OldLines(hunk)),
         out |-> p.out \o SubSeq(s, p.pos + 1, at) \o NewLines(hunk)]

ApplyHunk ==
    /\ step = "hunks"
    /\ LET hunk == Current.hunks[hunkAt] IN
       IF HunkPlaces(source, patch.pos, hunk) = {}
       THEN Report("error") /\ UNCHANGED <<hunkAt, patch>>
       ELSE /\ patch' = Applied(source, patch, hunk)
            /\ hunkAt' = hunkAt + 1
            /\ GoesTo(IF hunkAt = Len(Current.hunks) THEN "write" ELSE "hunks")
    /\ UNCHANGED <<source, tree>> /\ Carried

\* The lines after the last hunk stay.
Patched == patch.out \o From(source, patch.pos)

WritePatched ==
    /\ step = "write"
    /\ WriteFile(Current.path, Patched)
    /\ UNCHANGED <<hunkAt, source, patch>> /\ Carried

PatchNext ==
    \/ WriteExtra \/ WriteOperation \/ WriteHunk \/ CallApplyPatch
    \/ ParsePatch \/ ParseChunks
    \/ AddOrDelete \/ ReadFile \/ ApplyHunk \/ WritePatched \/ CopyOver \/ RemoveOld

PatchSpec == PatchInit /\ [][PatchNext]_patchVars

-----------------------------------------------------------------------------

PatchTypeOK ==
    /\ step \in {"draft", "parse", "chunks", "apply", "hunks", "write", "remove", "refused",
                 "answered"}
    /\ step = "draft" \/ cursor \in 1..Len(document)
    /\ ops \in Seq(FileOp) /\ opAt \in 1..(Len(ops) + 1)
    /\ reports \in Seq({"ok", "error"})
    /\ tree \in [Paths -> [there : BOOLEAN, lines : Seq(Lines)]]

\* What the grammar means by a document is what is carried out, and a document
\* that is refused has changed nothing.
ParsedAsMeant ==
    /\ step \in {"apply", "hunks", "write", "remove", "answered"} => ops = meant
    /\ step \in {"draft", "parse", "chunks", "refused"} => tree = started

\* The lines of s after a up to n are those of out after b up to m.
SameLines(s, a, n, out, b, m) ==
    /\ a <= n /\ n + b = m + a
    /\ \A k \in 1..(n - a) : out[b + k] = s[a + k]

\* A hunk replaces its old lines by its new ones in one place, behind those of the
\* hunk before it, and the lines between stay as they are.
Replaces(hunk, s, a, at, out, b, to) ==
    /\ MatchesAt(s, at, OldLines(hunk)) /\ MatchesAt(out, to, NewLines(hunk))
    /\ SameLines(s, a, at, out, b, to)
    /\ hunk.context # Empty => \E k \in (a + 1)..at : s[k] = hunk.context

AfterOld(hunks, at, i) == IF i = 0 THEN 0 ELSE at[i] + Len(OldLines(hunks[i]))
AfterNew(hunks, to, i) == IF i = 0 THEN 0 ELSE to[i] + Len(NewLines(hunks[i]))

\* So do the first n hunks, hunk i behind line at[i] of the file, which comes
\* behind line to[i] of the new one.
InPlace(s, hunks, n, out, at, to) ==
    \A i \in 1..n : Replaces(hunks[i], s, AfterOld(hunks, at, i - 1), at[i],
                             out, AfterNew(hunks, to, i - 1), to[i])

Explains(s, hunks, out) ==
    LET n == Len(hunks) IN
    \E at \in [1..n -> 0..Len(s)], to \in [1..n -> 0..Len(out)] :
        /\ InPlace(s, hunks, n, out, at, to)
        /\ SameLines(s, AfterOld(hunks, at, n), Len(s), out, AfterNew(hunks, to, n), Len(out))

PatchedAsMeant == step = "write" => Explains(source, Current.hunks, Patched)

\* No operation but a delete, or a move onto itself, loses a file.
NothingLost ==
    step = "answered" /\ (\E p \in Paths : started[p].there) =>
        \/ \E p \in Paths : tree[p].there
        \/ \E i \in 1..Len(ops) : ops[i].kind = "delete" \/ ops[i].to = ops[i].path

PatchSound == ParsedAsMeant /\ PatchedAsMeant /\ NothingLost
=============================================================================
