------------------------------ MODULE Chunking ------------------------------
(* The chunker semantic_markdown_v1: a Markdown text is read into blocks,     *)
(* blocks that are too long are cut between words, and blocks are packed into *)
(* chunks that may overlap.  One action is one turn of one of its loops.      *)
(*                                                                            *)
(* A line is its kind and what the tokeniser counts in its words; the text is *)
(* the sequence of those counts, with 0 for white space, and a span of the    *)
(* text is [start, end).  The tokens of a span are the sum of those of its    *)
(* words, which a tokeniser that merges words only approximates.              *)
EXTENDS Integers, SequencesExt

CONSTANTS
    LineTypes,      \* lines a text is made of
    MaxLines,       \* bound: lines of a text
    Configs         \* configurations: target, max and overlap

Kinds == {"blank", "heading", "text", "item", "backticks", "tildes", "row", "rule"}

ASSUME ChunkingAssumption ==
    /\ \A l \in LineTypes :
           /\ l.kind \in Kinds /\ l.level \in Nat /\ l.indented \in BOOLEAN
           /\ l.tokens \in Seq(Nat) /\ l.tokens # <<>>
           /\ (l.kind = "heading") = (l.level > 0)
    /\ \A c \in Configs :
           /\ {c.target, c.max, c.overlap} \subseteq Nat
           /\ 0 < c.target /\ c.target <= c.max /\ c.overlap < c.target

VARIABLES
    lines,      \* the lines of the text
    config,     \* the configuration
    phase,      \* the loop that runs
    index,      \* the next line to parse
    path,       \* the headings the next line stands under, by their lines
    blocks,     \* the blocks parsed and not split yet, or split and not packed
    cut,        \* of the block being cut, the part being filled
    parts,      \* the blocks that have been split
    current,    \* the blocks of the chunk being filled
    chunks      \* the chunks planned

chunkingVars ==
    <<lines, config, phase, index, path, blocks, cut, parts, current, chunks>>

TextOf(someLines) == FlattenSeq([i \in DOMAIN someLines |-> someLines[i].tokens])

Text == TextOf(lines)

\* The offset a line starts at; that of the line after the last is the end.
Offset(i) == 1 + Len(TextOf(SubSeq(lines, 1, i - 1)))

TextEnd == Len(Text) + 1

\* What is counted of a text up to each of its places.
Counted(text) ==
    LET count[n \in 0..Len(text)] == IF n = 0 THEN 0 ELSE count[n - 1] + text[n]
    IN  count

Tokens(start, end) == Counted(Text)[end - 1] - Counted(Text)[start - 1]

WordsFrom(start, end) == {p \in start..(end - 1) : Text[p] > 0}

Least(S) == CHOOSE x \in S : \A y \in S : x <= y
Greatest(S) == CHOOSE x \in S : \A y \in S : y <= x

NoCut == [start |-> 0, end |-> 0]

Blocks ==
    {b \in [start : 1..TextEnd, end : 1..TextEnd, kind : {"blank", "heading", "content"},
            path : Seq(DOMAIN lines)] : b.start < b.end}

ChunkPlans ==
    [start : 1..TextEnd, base : 1..TextEnd, end : 1..TextEnd, path : Seq(DOMAIN lines)]

ChunkingTypeOK ==
    /\ lines \in Seq(LineTypes) /\ config \in Configs
    /\ phase \in {"parse", "split", "cut", "pack", "done"}
    /\ index \in 1..(Len(lines) + 1)
    /\ path \in Seq(DOMAIN lines)
    /\ {blocks, parts, current} \subseteq Seq(Blocks)
    /\ cut \in [start : 0..TextEnd, end : 0..TextEnd]
    /\ chunks \in Seq(ChunkPlans)

ChunkingInit ==
    /\ lines \in UNION {[1..n -> LineTypes] : n \in 1..MaxLines}
    /\ config \in Configs
    /\ phase = "parse" /\ index = 1 /\ path = <<>>
    /\ blocks = <<>> /\ cut = NoCut /\ parts = <<>> /\ current = <<>> /\ chunks = <<>>

----------------------------------------------------------------------------
(* The lines of a block.                                                     *)

IsFence(line) == line.kind \in {"backticks", "tildes"}
HasPipe(line) == line.kind \in {"row", "rule"}

\* The first line from i on that meets a condition, or the line after the last.
FirstLine(i, Meets(_)) ==
    Least({k \in i..Len(lines) : Meets(k)} \cup {Len(lines) + 1})

AfterBlanks(i) == FirstLine(i, LAMBDA k : lines[k].kind # "blank")

StartsTable(i) == i < Len(lines) /\ HasPipe(lines[i]) /\ lines[i + 1].kind = "rule"

\* A fence is closed by one of its own kind, or by the end of the text.
AfterFence(i) ==
    LET close == FirstLine(i + 1, LAMBDA k : lines[k].kind = lines[i].kind) IN
    IF close > Len(lines) THEN close ELSE close + 1

AfterTable(i) == FirstLine(i + 1, LAMBDA k : ~HasPipe(lines[k]))

AfterList(i) ==
    FirstLine(i, LAMBDA k : \/ lines[k].kind = "blank"
                            \/ lines[k].kind # "item" /\ ~lines[k].indented)

AfterParagraph(i) ==
    FirstLine(i, LAMBDA k : \/ lines[k].kind \in {"blank", "heading", "item"}
                            \/ IsFence(lines[k]) \/ StartsTable(k))

AfterContent(i) ==
    CASE IsFence(lines[i]) -> AfterFence(i)
      [] StartsTable(i) -> AfterTable(i)
      [] lines[i].kind = "item" -> AfterList(i)
      [] OTHER -> AfterParagraph(i)

----------------------------------------------------------------------------
(* The three loops.                                                          *)

\* The path above a heading: as many of the headings before it as its level has
\* above it.
Above(level) == SubSeq(path, 1, IF level - 1 < Len(path) THEN level - 1 ELSE Len(path))

\* One block: blank lines, a heading, or content, the last two with the blank
\* lines after them.
ParseBlock ==
    /\ phase = "parse" /\ index <= Len(lines)
    /\ LET kind == IF lines[index].kind \in {"blank", "heading"}
                   THEN lines[index].kind ELSE "content"
           last == CASE kind = "blank" -> index
                     [] kind = "heading" -> index + 1
                     [] OTHER -> AfterContent(index)
           under == IF kind = "heading" THEN Above(lines[index].level) \o <<index>>
                    ELSE path
       IN  /\ index' = AfterBlanks(last)
           /\ path' = under
           /\ blocks' = Append(blocks, [start |-> Offset(index), end |-> Offset(index'),
                                        kind |-> kind, path |-> under])
    /\ UNCHANGED <<lines, config, phase, cut, parts, current, chunks>>

EndOfText ==
    /\ phase = "parse" /\ index > Len(lines)
    /\ phase' = "split"
    /\ UNCHANGED <<lines, config, index, path, blocks, cut, parts, current, chunks>>

\* A block that is not too long, or has no words to cut it between.
Whole(block) ==
    \/ Tokens(block.start, block.end) <= config.max
    \/ WordsFrom(block.start, block.end) = {}

KeepBlock ==
    /\ phase = "split" /\ blocks # <<>> /\ Whole(Head(blocks))
    /\ blocks' = Tail(blocks) /\ parts' = Append(parts, Head(blocks))
    /\ UNCHANGED <<lines, config, phase, index, path, cut, current, chunks>>

StartCut ==
    /\ phase = "split" /\ blocks # <<>> /\ ~Whole(Head(blocks))
    /\ phase' = "cut"
    /\ cut' = [start |-> Head(blocks).start, end |-> Head(blocks).start]
    /\ UNCHANGED <<lines, config, index, path, blocks, parts, current, chunks>>

\* The end of the next word of a span, with the white space after it.
WordEnd(start, end) ==
    LET words == WordsFrom(start, end)
        later == words \ {Least(words)}
    IN  IF later = {} THEN end ELSE Least(later)

CutPart == [Head(blocks) EXCEPT !.start = cut.start, !.end = cut.end]

\* A block is cut before the word that would take a part over the target.
CutWord ==
    /\ phase = "cut" /\ cut.end < Head(blocks).end
    /\ LET wordEnd == WordEnd(cut.end, Head(blocks).end)
           full == cut.end > cut.start /\ Tokens(cut.start, wordEnd) > config.target
       IN  /\ parts' = IF full THEN Append(parts, CutPart) ELSE parts
           /\ cut' = [start |-> IF full THEN cut.end ELSE cut.start, end |-> wordEnd]
    /\ UNCHANGED <<lines, config, phase, index, path, blocks, current, chunks>>

\* What is left of the block is its last part; it is never empty, as the block has
\* words.
LastCut ==
    /\ phase = "cut" /\ cut.end = Head(blocks).end
    /\ phase' = "split"
    /\ blocks' = Tail(blocks) /\ parts' = Append(parts, CutPart)
    /\ cut' = NoCut
    /\ UNCHANGED <<lines, config, index, path, current, chunks>>

AllSplit ==
    /\ phase = "split" /\ blocks = <<>>
    /\ phase' = "pack"
    /\ blocks' = parts /\ parts' = <<>>
    /\ UNCHANGED <<lines, config, index, path, cut, current, chunks>>

\* The words an overlap may start with.
Enough(base) ==
    {p \in WordsFrom(Last(chunks).start, base) : Tokens(p, base) >= config.overlap}

\* As many words back into the chunk before it as make up the overlap, or all.
Candidate(base) ==
    IF Enough(base) # {} THEN Greatest(Enough(base))
    ELSE Least(WordsFrom(Last(chunks).start, base))

\* A definition whose name ends in Fault is the definition after it with a
\* plausible bug. No specification uses it: the properties must notice it.
OverlapStartFault(base, end) ==
    IF \/ chunks = <<>> \/ config.overlap = 0
       \/ WordsFrom(Last(chunks).start, base) = {}
    THEN base ELSE Candidate(base)

\* A chunk has no overlap if that would take it over the maximum.
OverlapStart(base, end) ==
    IF \/ chunks = <<>> \/ config.overlap = 0
       \/ WordsFrom(Last(chunks).start, base) = {}
       \/ Tokens(Candidate(base), end) > config.max
    THEN base ELSE Candidate(base)

FirstNonBlank(filled) ==
    LET marked == {i \in DOMAIN filled : filled[i].kind # "blank"} IN
    IF marked = {} THEN filled[1] ELSE filled[Least(marked)]

Planned(filled) ==
    Append(chunks, [start |-> OverlapStart(filled[1].start, Last(filled).end),
                    base |-> filled[1].start,
                    end |-> Last(filled).end,
                    path |-> FirstNonBlank(filled).path])

\* A chunk is closed before a heading and before a block that would take it
\* over the target.
PackBlock ==
    /\ phase = "pack" /\ blocks # <<>>
    /\ LET block == Head(blocks)
           full == /\ current # <<>>
                   /\ \/ block.kind = "heading"
                      \/ Tokens(current[1].start, block.end) > config.target
       IN  /\ chunks' = IF full THEN Planned(current) ELSE chunks
           /\ current' = IF full THEN <<block>> ELSE Append(current, block)
    /\ blocks' = Tail(blocks)
    /\ UNCHANGED <<lines, config, phase, index, path, cut, parts>>

LastBlock ==
    /\ phase = "pack" /\ blocks = <<>>
    /\ phase' = "done"
    /\ chunks' = Planned(current) /\ current' = <<>>
    /\ UNCHANGED <<lines, config, index, path, blocks, cut, parts>>

ChunkingNext ==
    \/ ParseBlock \/ EndOfText
    \/ KeepBlock \/ StartCut \/ CutWord \/ LastCut \/ AllSplit
    \/ PackBlock \/ LastBlock

ChunkingSpec == ChunkingInit /\ [][ChunkingNext]_chunkingVars

----------------------------------------------------------------------------
(* Properties.                                                               *)

\* Reading the chunks in order and leaving out of each what the one before it
\* ended with gives the text again: no word is lost, repeated or moved.
Reconstructible ==
    phase = "done" =>
        LET Fresh(i) ==
                IF i = 1 THEN SubSeq(Text, chunks[1].start, chunks[1].end - 1)
                ELSE SubSeq(Text, chunks[i - 1].end, chunks[i].end - 1)
        IN  /\ FlattenSeq([i \in DOMAIN chunks |-> Fresh(i)]) = Text
            /\ \A i \in 2..Len(chunks) :
                   chunks[i - 1].start <= chunks[i].start /\ chunks[i].start <= chunks[i - 1].end

\* No chunk is longer than the maximum, the overlap included, unless it is one
\* word that is longer by itself.
FitsMaximum ==
    \A i \in DOMAIN chunks :
        \/ Tokens(chunks[i].start, chunks[i].end) <= config.max
        \/ \E p \in chunks[i].start..chunks[i].end :
               WordsFrom(chunks[i].start, chunks[i].end) = {p}

\* What a chunk repeats is the shortest run of words that makes up the overlap,
\* or the whole chunk before it.
OverlapIsLeast ==
    \A i \in 2..Len(chunks) :
        LET back == chunks[i].start..(chunks[i - 1].end - 1) IN
        back # {} =>
            /\ Tokens(chunks[i].start + 1, chunks[i - 1].end) < config.overlap
            /\ \/ Tokens(chunks[i].start, chunks[i - 1].end) >= config.overlap
               \/ WordsFrom(chunks[i - 1].start, chunks[i].start) = {}

\* The headings a chunk is filed under are those that enclose its first words:
\* of the headings up to there, each that no later one of its level or above
\* has closed. What looks like a heading inside a fence is none. It holds of texts
\* whose headings go down one level at a time: a text that starts at the second
\* level files each section under the first one.
SectionsEnclose ==
    phase = "done" =>
        LET headings == {i \in DOMAIN lines : \E c \in DOMAIN chunks : i \in ToSet(chunks[c].path)}
            Open(i) == {h \in headings :
                           /\ Offset(h) <= i
                           /\ \A k \in headings :
                                  h < k /\ Offset(k) <= i => lines[k].level > lines[h].level}
            stepwise ==
                \A h \in headings :
                    lines[h].level = 1 \/ \E k \in headings :
                        /\ k < h /\ lines[k].level = lines[h].level - 1
                        /\ \A j \in headings :
                               k < j /\ j < h => lines[j].level >= lines[h].level - 1
        IN  stepwise =>
            \A c \in DOMAIN chunks :
                LET words == WordsFrom(chunks[c].base, chunks[c].end) IN
                words # {} => ToSet(chunks[c].path) = Open(Least(words))

\* The chunks of a text give it back, fit, overlap by no more than they must, and
\* stand under their headings.
ChunksCover ==
    /\ Reconstructible
    /\ FitsMaximum
    /\ OverlapIsLeast
    /\ SectionsEnclose

=============================================================================
