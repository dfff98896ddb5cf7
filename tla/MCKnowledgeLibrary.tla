------------------------- MODULE MCKnowledgeLibrary -------------------------
(* Small instances of KnowledgeLibrary and of the chunker.                   *)
EXTENDS KnowledgeLibrary

CONSTANTS s1, s2, g1, u1, u2

Heading(level, word) == [level |-> level, word |-> word, size |-> 2, fence |-> FALSE]

Paragraph(word, size) == [level |-> 0, word |-> word, size |-> size, fence |-> FALSE]

Fence(word, size) == [level |-> 0, word |-> word, size |-> size, fence |-> TRUE]

MCTitle == Heading(1, "title")

\* Nothing, which converted as text becomes a title; and headings that end
\* headings, with two sections too long: one kept whole by its fence, one cut.
MCContents ==
    {<<>>,
     <<Heading(1, "h"), Fence("a", 6), Heading(2, "i"), Heading(2, "j"), Paragraph("b", 6)>>}

\* The drafts of every document, computed once.
MCDrafts == [d \in Documents, max \in Limits |-> ChunkDrafts(d, max)]
MCChunked(d, max) == MCDrafts[d, max]

MCSymmetry == Permutations(Sources) \cup Permutations(Sessions)

MCQueries == {<<"a", "j">>}

\* The documents of up to four blocks, for the chunker alone.
Blocks ==
    {Heading(1, "h"), Heading(2, "i"), Paragraph("a", 2), Paragraph("b", 6), Fence("c", 2)}

SmallDocuments == BoundedSeq(Blocks, 4)

ASSUME ChunksPartition ==
    \A d \in SmallDocuments, max \in Limits : Partitions(ChunkDrafts(d, max), d)
ASSUME ChunksKeepOutline ==
    \A d \in SmallDocuments, max \in Limits : KeepsOutline(ChunkDrafts(d, max), d)
ASSUME LongChunkHasReason ==
    \A d \in SmallDocuments, max \in Limits : LongHasReason(ChunkDrafts(d, max), max)
=============================================================================
