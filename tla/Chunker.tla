------------------------------ MODULE Chunker -------------------------------
(***************************************************************************)
(* How a document is cut into chunks (internal/chunker, Chunk): blocks are *)
(* grouped under their headings, a section that is too large is packed     *)
(* into overlapping groups of whole blocks, a block the embedder cannot    *)
(* take is cut in pieces, and chunks that came out tiny are folded into a  *)
(* neighbour.                                                              *)
(*                                                                         *)
(* The text is the blocks the scanner finds in it: where each begins and   *)
(* ends, and under which headings it stands.  What the bytes say decides   *)
(* only where a piece may be cut, and that is left open.  The byte budgets *)
(* are parameters, so that a small instance has documents on both sides of *)
(* every one of them.                                                      *)
(***************************************************************************)
EXTENDS Naturals, Sequences, FiniteSets, SequencesExt

CONSTANTS
    Titles,      \* heading texts, each as the parts " > " separates it into
    Blank,       \* the part of a heading without text
    Levels,      \* heading levels
    Sizes,       \* sizes of an atomic block
    Gaps,        \* bytes of blank lines before one
    Lines,       \* sizes of a heading, with the blank lines before it
    Ceilings,    \* input ceilings of a model, in bytes; 0 is unlimited
    Target,      \* targetBytes
    MinBytes,    \* minBytes
    MaxBytes,    \* maxBytes
    Overlap,     \* overlapBytes
    Floor,       \* the least ceiling a heading path can leave
    PartBytes,   \* bytes of any other part
    SepBytes,    \* bytes of " > "
    MaxBlocks    \* bound: blocks in a document, headings included

Parts == UNION {{t[k] : k \in DOMAIN t} : t \in Titles}

ASSUME ChunkerAssumption ==
    /\ Levels \subseteq Nat /\ Sizes \subseteq Nat \ {0} /\ Ceilings \subseteq Nat
    /\ Gaps \subseteq Nat /\ Lines \subseteq Nat \ {0}
    /\ {Target, MinBytes, MaxBytes, Overlap, Floor} \subseteq Nat \ {0}
    /\ MinBytes <= Target /\ Target <= MaxBytes /\ Overlap < Target
    /\ {PartBytes, SepBytes, MaxBlocks} \subseteq Nat
    /\ Titles \subseteq Seq(Parts) \ {<<>>}

VARIABLES
    base,      \* baseCeiling, less what the prefix template needs
    length,    \* bytes of text so far
    scanned,   \* blocks of it so far, headings included
    stack,     \* open headings, each with the parts down to it
    blocks,    \* content blocks seen, with their heading path
    sections,  \* sections not yet chunked
    pc,        \* scan, next, pack, emit, split, merge or done
    sec,       \* the section being read, later the one being chunked
    at,        \* the block of it to be packed
    cur,       \* the first block of the open group, which ends before at
    groups,    \* its groups not yet emitted
    from,      \* where the next piece of a split group begins
    cands,     \* chunks so far
    i          \* mergeTiny's index

scanVars == <<length, scanned, stack, blocks>>
packVars == <<at, cur, groups, from>>
vars == <<base, scanVars, sections, pc, sec, packVars, cands, i>>

\* A section, like a group, is a run of consecutive blocks.
Run(first, last) == [first |-> first, last |-> last]
Section(path, preamble, first, last) ==
    [path |-> path, preamble |-> preamble, first |-> first, last |-> last]
Cand(s, e, path, preamble, warn) ==
    [start |-> s, end |-> e, path |-> path, preamble |-> preamble, warn |-> warn]

Init ==
    /\ base \in Ceilings
    /\ length = 0 /\ scanned = 0
    /\ stack = <<>>
    /\ blocks = <<>>
    /\ sections = <<>>
    /\ pc = "scan"
    /\ sec = Section(<<>>, TRUE, 1, 0)
    /\ at = 1 /\ cur = 1 /\ groups = <<>> /\ from = 0
    /\ cands = <<>>
    /\ i = 1

-----------------------------------------------------------------------------
(* sections, over the blocks scanBlocks finds one after the other.         *)

\* A path is kept as one string, joined with and split at " > ": its parts are
\* not the headings when a heading contains the separator, and the path of a
\* heading without text is the empty string, which has no parts.
Joined(parts) == IF parts = <<Blank>> THEN <<>> ELSE parts
PathBytes(path) ==
    PartBytes * Cardinality({k \in DOMAIN path : path[k] # Blank})
      + (IF path = <<>> THEN 0 ELSE SepBytes * (Len(path) - 1))

\* flush: a heading with no content makes no section.
Flush == IF sec.first <= sec.last THEN Append(sections, sec) ELSE sections

\* A heading closes those at its level or deeper, down to the last it leaves
\* open, and begins a section.  It is a line of the text but not content.
Heading(level, title, open, line) ==
    /\ pc = "scan"
    /\ scanned < MaxBlocks
    /\ open > 0 => stack[open].level < level
    /\ \A k \in (open + 1)..Len(stack) : stack[k].level >= level
    /\ LET parts == IF open = 0 THEN title ELSE stack[open].parts \o title
       IN /\ stack' = Append(SubSeq(stack, 1, open), [level |-> level, parts |-> parts])
          /\ sec' = Section(Joined(parts), FALSE, Len(blocks) + 1, Len(blocks))
    /\ sections' = Flush
    /\ length' = length + line
    /\ scanned' = scanned + 1
    /\ UNCHANGED <<base, blocks, pc, packVars, cands, i>>

\* A paragraph, fence or table.  It may follow the one before at once.
Content(gap, size) ==
    /\ pc = "scan"
    /\ scanned < MaxBlocks
    /\ blocks' = Append(blocks, [start |-> length + gap, end |-> length + gap + size,
                                 path |-> sec.path])
    /\ sec' = [sec EXCEPT !.last = Len(blocks) + 1]
    /\ length' = length + gap + size
    /\ scanned' = scanned + 1
    /\ UNCHANGED <<base, stack, sections, pc, packVars, cands, i>>

EndOfText ==
    /\ pc = "scan"
    /\ sections' = Flush
    /\ stack' = <<>>
    /\ scanned' = 0
    /\ pc' = "next"
    /\ UNCHANGED <<base, length, blocks, sec, packVars, cands, i>>

-----------------------------------------------------------------------------
(* chunkSection.                                                           *)

Least(a, b) == IF a < b THEN a ELSE b
Most(a, b)  == IF a > b THEN a ELSE b
Span(r) == blocks[r.last].end - blocks[r.first].start

\* The ceiling with the breadcrumb left out of account.
CeilingWithoutPath(path) == base

\* sectionCeiling: what the breadcrumb leaves of the input; 0 is unlimited.
SectionCeiling(path) ==
    IF base = 0 THEN 0
    ELSE IF base >= Floor + PathBytes(path)
    THEN base - PathBytes(path) ELSE Floor

CapOf(path) == LET c == SectionCeiling(path)
               IN IF c > 0 /\ c < MaxBytes THEN c ELSE MaxBytes
TargetOf(path) == Least(Target, CapOf(path))

\* The whole group may be carried over.
WholeSuffix(g) ==
    LET fits == {k \in g.first..g.last : Span(Run(k, g.last)) <= Overlap}
    IN IF fits = {} THEN g.last + 1 ELSE Min(fits)

\* overlapSuffix: where the trailing blocks begin that fit the overlap, never
\* at the first; past the group when the last block is too big.
OverlapSuffix(g) ==
    LET fits == {k \in (g.first + 1)..g.last : Span(Run(k, g.last)) <= Overlap}
    IN IF fits = {} THEN g.last + 1 ELSE Min(fits)

\* A section that fits the cap is one group.
TakeSection ==
    /\ pc = "next"
    /\ sections # <<>>
    /\ sec' = Head(sections)
    /\ sections' = Tail(sections)
    /\ at' = sec'.first /\ cur' = sec'.first
    /\ IF Span(sec') <= CapOf(sec'.path)
       THEN groups' = <<Run(sec'.first, sec'.last)>> /\ pc' = "emit"
       ELSE groups' = <<>> /\ pc' = "pack"
    /\ UNCHANGED <<base, scanVars, from, cands, i>>

\* A block joins the open group, or closes it and opens the next, with the
\* overlap if that leaves both within the cap.
PackBlock ==
    /\ pc = "pack"
    /\ at <= sec.last
    /\ LET seed == OverlapSuffix(Run(cur, at - 1))
       IN IF cur < at /\ Span(Run(cur, at)) > TargetOf(sec.path)
          THEN /\ groups' = Append(groups, Run(cur, at - 1))
               /\ cur' = IF seed < at /\ Span(Run(seed, at)) > CapOf(sec.path)
                         THEN at ELSE seed
          ELSE UNCHANGED <<groups, cur>>
    /\ at' = at + 1
    /\ UNCHANGED <<base, scanVars, sections, pc, sec, from, cands, i>>

\* The last group is left open.
ClosedGroups == groups

\* The last group is closed.
AllGroups == IF cur < at THEN Append(groups, Run(cur, at - 1)) ELSE groups

EndPacking ==
    /\ pc = "pack"
    /\ at > sec.last
    /\ groups' = AllGroups
    /\ pc' = "emit"
    /\ UNCHANGED <<base, scanVars, sections, sec, at, cur, from, cands, i>>

TooLarge(g) == SectionCeiling(sec.path) > 0 /\ Span(g) > SectionCeiling(sec.path)

EmitGroup ==
    /\ pc = "emit"
    /\ groups # <<>>
    /\ ~TooLarge(Head(groups))
    /\ LET g == Head(groups)
       IN cands' = Append(cands, Cand(blocks[g.first].start, blocks[g.last].end,
                                      sec.path, sec.preamble, FALSE))
    /\ groups' = Tail(groups)
    /\ UNCHANGED <<base, scanVars, sections, pc, sec, at, cur, from, i>>

\* A group over the ceiling is cut, each piece with a warning.
BeginSplit ==
    /\ pc = "emit"
    /\ groups # <<>>
    /\ TooLarge(Head(groups))
    /\ from' = blocks[Head(groups).first].start
    /\ pc' = "split"
    /\ UNCHANGED <<base, scanVars, sections, sec, at, cur, groups, cands, i>>

\* hardSplit: the rest if it fits, else up to the last blank line, line break,
\* space or character within the limit, wherever that is.
SplitPiece(cut) ==
    /\ pc = "split"
    /\ LET end  == blocks[Head(groups).last].end
           room == SectionCeiling(sec.path)
       IN /\ cut \in 1..Least(room, end - from)
          /\ end - from <= room => cut = end - from
          /\ cands' = Append(cands, Cand(from, from + cut, sec.path,
                                         sec.preamble, TRUE))
          /\ IF from + cut = end
             THEN pc' = "emit" /\ groups' = Tail(groups) /\ from' = 0
             ELSE from' = from + cut /\ UNCHANGED <<pc, groups>>
    /\ UNCHANGED <<base, scanVars, sections, sec, at, cur, i>>

SectionDone ==
    /\ pc = "emit"
    /\ groups = <<>>
    /\ pc' = "next"
    /\ UNCHANGED <<base, scanVars, sections, sec, packVars, cands, i>>

AllPacked ==
    /\ pc = "next"
    /\ sections = <<>>
    /\ pc' = "merge"
    /\ UNCHANGED <<base, scanVars, sections, sec, packVars, cands, i>>

-----------------------------------------------------------------------------
(* mergeTiny.                                                              *)

SharedComponents(p, q) ==
    LET shorter == Least(Len(p), Len(q))
        differ  == {k \in 1..shorter : p[k] # q[k]}
    IN IF differ = {} THEN shorter ELSE Min(differ) - 1
CommonPath(p, q) == Joined(SubSeq(p, 1, SharedComponents(p, q)))

Mergeable(c) == ~c.preamble /\ ~c.warn
Size(c) == c.end - c.start
MergedSize(n, c) == Most(n.end, c.end) - Least(n.start, c.start)

\* A neighbour large enough to absorb c, and a union that stays in bounds.
Absorbs(n, c) ==
    /\ Mergeable(n)
    /\ Size(n) >= MinBytes
    /\ MergedSize(n, c) <= MaxBytes
    /\ LET ceiling == SectionCeiling(CommonPath(n.path, c.path))
       IN ceiling = 0 \/ MergedSize(n, c) <= ceiling

\* The merged chunk keeps the path of the larger one.
MergedUnderFirst(n, c) ==
    Cand(Least(n.start, c.start), Most(n.end, c.end), n.path, FALSE, FALSE)

Merged(n, c) ==
    Cand(Least(n.start, c.start), Most(n.end, c.end),
         CommonPath(n.path, c.path), FALSE, FALSE)

\* Where the tiny chunk at i goes: to the neighbour that shares more of its
\* path, the previous one if both share as much; 0 if it stays.
Into ==
    LET c == cands[i]
        tiny == Size(c) < MinBytes /\ Mergeable(c)
        prev == tiny /\ i > 1 /\ Absorbs(cands[i - 1], c)
        next == tiny /\ i < Len(cands) /\ Absorbs(cands[i + 1], c)
        closer == /\ prev /\ next
                  /\ SharedComponents(c.path, cands[i + 1].path)
                       > SharedComponents(c.path, cands[i - 1].path)
    IN CASE next /\ (closer \/ ~prev) -> i + 1
         [] prev /\ ~closer           -> i - 1
         [] OTHER                      -> 0

StepOver ==
    /\ pc = "merge"
    /\ i <= Len(cands)
    /\ Into = 0
    /\ i' = i + 1
    /\ UNCHANGED <<base, scanVars, sections, pc, sec, packVars, cands>>

\* The index stays: it now names the merged chunk or the one after.
MergeTiny ==
    /\ pc = "merge"
    /\ i <= Len(cands)
    /\ Into # 0
    /\ cands' = RemoveAt([cands EXCEPT ![Into] = Merged(@, cands[i])], i)
    /\ UNCHANGED <<base, scanVars, sections, pc, sec, packVars, i>>

Finish ==
    /\ pc = "merge"
    /\ i > Len(cands)
    /\ pc' = "done"
    /\ UNCHANGED <<base, scanVars, sections, sec, packVars, cands, i>>

\* The result is returned.
Done == pc = "done" /\ UNCHANGED vars

Next ==
    \/ \E level \in Levels, title \in Titles, open \in 0..Len(stack), line \in Lines :
         Heading(level, title, open, line)
    \/ \E gap \in Gaps, size \in Sizes : Content(gap, size)
    \/ EndOfText \/ TakeSection \/ PackBlock \/ EndPacking \/ EmitGroup \/ BeginSplit
    \/ \E cut \in 1..length : SplitPiece(cut)
    \/ SectionDone \/ AllPacked \/ StepOver \/ MergeTiny \/ Finish \/ Done

Spec == Init /\ [][Next]_vars

-----------------------------------------------------------------------------
(* What the chunks of a document promise.                                  *)

\* Nothing is truncated: every byte of every block is in some chunk.
NothingIsTruncated ==
    pc = "done" =>
      \A n \in DOMAIN blocks : \A byte \in blocks[n].start..(blocks[n].end - 1) :
        \E k \in DOMAIN cands : cands[k].start <= byte /\ byte < cands[k].end

\* A chunk and its breadcrumb fit the embedder's input, whether it was packed,
\* cut or merged; only a path so deep that it would leave less than the floor
\* may go beyond.
FitsTheEmbedder ==
    pc = "done" /\ base > 0 =>
      \A k \in DOMAIN cands :
        \/ Size(cands[k]) + PathBytes(cands[k].path) <= base
        \/ Size(cands[k]) <= Floor

\* Chunks are in document order and none lies within another, overlap and
\* merging notwithstanding: each begins and ends after its predecessor.
NoChunkWithinAnother ==
    pc = "done" =>
      \A k \in 2..Len(cands) : /\ cands[k - 1].start < cands[k].start
                               /\ cands[k - 1].end < cands[k].end

\* The breadcrumb of a chunk is true of everything in it: every block the
\* chunk contains stands under all the headings the chunk names.
BreadcrumbIsTrue ==
    pc = "done" =>
      \A k \in DOMAIN cands, n \in DOMAIN blocks :
        cands[k].start < blocks[n].end /\ blocks[n].start < cands[k].end
          => IsPrefix(cands[k].path, blocks[n].path)
=============================================================================
