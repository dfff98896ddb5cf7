--------------------------- MODULE MarkdownChunks ---------------------------
(***************************************************************************)
(* How a Markdown document is cut into chunks: build_markdown_chunk_drafts *)
(* of app/db/services/knowledge_library.py and the helpers it calls.       *)
(*                                                                         *)
(* A document is a sequence of blocks, the pieces of text between blank    *)
(* lines: [level, word, size, fence], where level is 1 to 6 for a heading  *)
(* and 0 for other text, word stands for what it says, size is its length  *)
(* in characters and fence says that it begins with a code fence.          *)
(***************************************************************************)
EXTENDS Integers, Sequences, SequencesExt

IsDocument(document) ==
    /\ document \in Seq(Range(document))
    /\ \A i \in DOMAIN document :
          document[i].level \in Nat /\ document[i].size \in Nat /\ document[i].fence \in BOOLEAN

\* The heading path: the words of the headings a block is under.
Words(blocks) == [i \in DOMAIN blocks |-> blocks[i].word]

-----------------------------------------------------------------------------
(* Sections                                                                *)

\* The section that is being read, if it has a line, ends.
Closed(reader) ==
    IF reader.current = <<>> THEN reader.sections
    ELSE Append(reader.sections, [path |-> Words(reader.stack), blocks |-> reader.current])

\* The headings of lower levels.
Below(stack, level) ==
    FoldLeft(LAMBDA kept, heading :
                 IF heading.level < level THEN Append(kept, heading) ELSE kept,
             <<>>, stack)

\* A heading ends the section before it, and takes the place of the headings
\* of its own level and below.
ReadBlock(reader, block) ==
    IF block.level = 0
    THEN [reader EXCEPT !.current = Append(@, block)]
    ELSE [sections |-> Closed(reader),
          stack |-> Append(Below(reader.stack, block.level), block),
          current |-> <<block>>]

\* _split_markdown_sections
Sections(document) ==
    Closed(FoldLeft(ReadBlock, [sections |-> <<>>, stack |-> <<>>, current |-> <<>>],
                    document))

-----------------------------------------------------------------------------
(* Long sections: parts are cut when they would be longer than max, the    *)
(* max_characters of the call.                                             *)

\* The length of blocks joined by blank lines.
Length(blocks) ==
    FoldLeft(LAMBDA n, block : n + block.size + 2, 0, blocks) - 2

\* The length in front of the first block counts a separator, and in front of
\* the blocks after a cut it does not.
AddBlock(part, block, max) ==
    LET fenced == part.fenced # block.fence
        projected == part.length + block.size + 2
    IN
    IF part.current # <<>> /\ projected > max /\ ~fenced
    THEN [done |-> Append(part.done, part.current), current |-> <<block>>,
          length |-> block.size, fenced |-> fenced]
    ELSE [part EXCEPT !.current = Append(@, block), !.length = projected, !.fenced = fenced]

NoPart == [done |-> <<>>, current |-> <<>>, length |-> 0, fenced |-> FALSE]

AddBlocks(blocks, max) ==
    FoldLeft(LAMBDA part, block : AddBlock(part, block, max), NoPart, blocks)

\* _split_long_section
Parts(blocks, max) ==
    IF Length(blocks) <= max THEN <<blocks>>
    ELSE LET last == AddBlocks(blocks, max) IN Append(last.done, last.current)

-----------------------------------------------------------------------------
\* build_markdown_chunk_drafts: the chunk at index i has position i - 1.
ChunkDrafts(document, max) ==
    FoldLeft(LAMBDA drafts, section :
                 drafts \o [i \in DOMAIN Parts(section.blocks, max) |->
                               [path |-> section.path, blocks |-> Parts(section.blocks, max)[i]]],
             <<>>, Sections(document))

-----------------------------------------------------------------------------
(* Properties                                                              *)

\* The headings block k of a document is under: those no later heading of the
\* same level or above has ended.
OpenHeadings(document, k) ==
    {i \in 1..k : /\ document[i].level > 0
                  /\ \A j \in i + 1 .. k :
                        document[j].level > document[i].level \/ document[j].level = 0}

\* A path names the headings that block k is under, in the order of the document.
IsOutline(path, document, k) ==
    \E opens \in [DOMAIN path -> 1..k] :
        /\ \A i, j \in DOMAIN path : i < j => opens[i] < opens[j]
        /\ Range(opens) = OpenHeadings(document, k)
        /\ \A i \in DOMAIN path : path[i] = document[opens[i]].word

\* The blocks of the first n of some chunks.
BlocksOf(chunks, n) == FlattenSeq([i \in 1..n |-> chunks[i].blocks])

\* No block is lost, repeated or moved, whatever the headings and fences
\* (knowledge_library.py:532-553, :948-1000).
Partitions(drafts, document) == BlocksOf(drafts, Len(drafts)) = document

\* A chunk's blocks are of one section: only its first can be a heading, and its
\* path is the outline of the document there.
KeepsOutline(drafts, document) ==
    \A i \in DOMAIN drafts :
        /\ \A k \in DOMAIN drafts[i].blocks \ {1} : drafts[i].blocks[k].level = 0
        /\ IsOutline(drafts[i].path, document, Len(BlocksOf(drafts, i - 1)) + 1)

\* A chunk is longer than it may be only if it is a single block, or has a block
\* that begins a code fence: after one, nothing is cut until another follows.
Fenced(blocks) == \E k \in DOMAIN blocks : blocks[k].fence

HasReason(blocks, max) == Length(blocks) > max => Len(blocks) = 1 \/ Fenced(blocks)

LongHasReason(drafts, max) == \A i \in DOMAIN drafts : HasReason(drafts[i].blocks, max)
=============================================================================
