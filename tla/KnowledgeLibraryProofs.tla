----------------------- MODULE KnowledgeLibraryProofs -----------------------
(***************************************************************************)
(* Proofs about KnowledgeLibrary, for any sources, texts, suggestions and  *)
(* sessions and any way of cutting a text: the rows are well formed,       *)
(* cited chunks stay, active sources are converted, and a replacement      *)
(* never replaces anything.                                                *)
(***************************************************************************)
EXTENDS KnowledgeLibrary, MarkdownChunksProofs

Conversions == {"pending", "converted", "unsupported", "failed"}

RowFields == [version : Nat, previous : Sources \cup {None}, format : Formats \cup {None},
              scope : Scopes, conversion : Conversions, status : {"draft", "active"},
              markdown : Documents \cup {None}]

\* A source row at time now.
RowOK(row, now) ==
    /\ row \in RowFields
    /\ 0 < row.version /\ row.version <= now
    /\ row.conversion = "converted" => row.markdown # None
    /\ row.conversion = "pending" => row.markdown = None

\* The row is offered exactly when its last conversion succeeded.
Offered(row) ==
    row.status = "active" <=> row.conversion = "converted" /\ row.markdown # None

ChunkFields == {"source", "position", "path", "blocks", "status", "made"}

\* A chunk row, of the sources src, at time now.
ChunkOK(c, src, now) ==
    /\ DOMAIN c = ChunkFields
    /\ c.source \in Sources
    /\ src[c.source] # None
    /\ src[c.source].markdown # None
    /\ c.position \in Nat
    /\ c.status \in {"active", "superseded"}
    /\ c.made \in Nat /\ 0 < c.made /\ c.made <= now

\* The ids of the chunks in chs, and of those of source s.
Ids(chs) == {IdOf(c) : c \in chs}
IdsOf(chs, s) == {IdOf(c) : c \in {d \in chs : d.source = s}}

\* The chunks of a source were inserted together and share a status.
OneBatch(chs, s) ==
    /\ \A c \in chs : c.source = s => \E d \in chs : d.source = s /\ d.position = 0
    /\ \A c, d \in chs : c.source = s /\ d.source = s => c.status = d.status

\* What an open session knows of the sources src, the chunks chs, the
\* citations cits and the sources over that were held twice, at time now.
ConvertOK(t, src, over, now) ==
    /\ t.target \in Sources /\ t.held = {t.target}
    /\ src[t.target] # None
    /\ RowOK(t.loaded, now)
    /\ \E f \in Formats, text \in Contents \cup {None} : t.row = Conversion(t.loaded, f, text)
    /\ t.loaded.conversion # "pending" => src[t.target].conversion # "pending"
    /\ t.target \notin over => t.loaded = src[t.target]

ChunkingOK(t, src, chs, cits, over, now) ==
    /\ t.target \in Sources /\ t.held = {t.target}
    /\ src[t.target] # None
    /\ src[t.target].markdown # None
    /\ t.drafts \in Drafts
    /\ t.began \in Nat /\ 0 < t.began /\ t.began <= now
    /\ t.doomed = {} \/ t.doomed = IdsOf(chs, t.target)
    /\ t.target \notin over =>
          \A g \in Suggestions : cits[g] # None => t.doomed \cap cits[g] = {}

CiteOK(t, chs, over) ==
    /\ t.cited # {}
    /\ t.cited \subseteq Ids(chs)
    /\ \A c \in chs : IdOf(c) \in t.cited =>
          /\ c.source \in t.held
          /\ c.source \notin over => c.status = "active"

SessionOK(t, src, chs, cits, over, now) ==
    /\ t.op \in {"idle", "convert", "chunk", "cite"}
    /\ t.op = "convert" => ConvertOK(t, src, over, now)
    /\ t.op = "chunk" => ChunkingOK(t, src, chs, cits, over, now)
    /\ t.op = "cite" => CiteOK(t, chs, over)

RowsOK == DOMAIN source = Sources /\ \A s \in Sources : source[s] # None => RowOK(source[s], clock)

ChunksOK == \A c \in chunks : ChunkOK(c, source, clock)

BatchesOK == \A s \in Sources : OneBatch(chunks, s)

CitationsOK ==
    /\ DOMAIN citations = Suggestions
    /\ \A g \in Suggestions : citations[g] # None =>
          citations[g] # {} /\ citations[g] \subseteq Ids(chunks)

SessionsOK ==
    /\ DOMAIN tx = Sessions
    /\ \A u \in Sessions : SessionOK(tx[u], source, chunks, citations, overlap, clock)

\* A source that two sessions hold is in overlap.
OverlapSeen ==
    \A u, v \in Sessions : u # v => tx[u].held \cap tx[v].held \subseteq overlap

ClockOK == clock \in Nat /\ clock <= MaxTransactions

KnowledgeInv ==
    /\ ClockOK /\ RowsOK /\ ChunksOK /\ BatchesOK /\ CitationsOK /\ SessionsOK /\ OverlapSeen
    /\ CitedChunkStays /\ ActiveMeansConverted

-----------------------------------------------------------------------------
(* Rows                                                                    *)

LEMMA RowIsSomething ==
    ASSUME NEW row, NEW now \in Nat, now <= MaxTransactions, RowOK(row, now)
    PROVE  row \in Rows /\ row # None
<1>1. row \in Rows
  BY BoundsAssumption DEF RowOK, RowFields, Rows, Conversions
<1> QED
  BY <1>1, NoneAssumption

LEMMA RegisteredOK ==
    ASSUME NEW now \in Nat, NEW n \in Nat, 0 < n, n <= now,
           NEW p \in Sources \cup {None}, NEW f \in Formats,
           NEW format \in Formats \cup {None}, NEW a \in Scopes
    PROVE  /\ RowOK(Registered(n, p, f, format, a), now)
           /\ Offered(Registered(n, p, f, format, a))
BY DEF RowOK, RowFields, Registered, Conversions, Offered

\* The Markdown of a text is a document.
LEMMA MarkdownIsDocument ==
    ASSUME NEW f, NEW text \in Contents
    PROVE  Markdown(f, text) \in Documents /\ Markdown(f, text) # None
BY NoneAssumption DEF Markdown, Documents

\* What a conversion makes of a row.
ConvertsTo(row, new) ==
    /\ Offered(new)
    /\ new.conversion # "pending"
    /\ new.conversion = "converted" => new.markdown \in Documents
    /\ new.conversion # "converted" => new.markdown = row.markdown

LEMMA ConversionOK ==
    ASSUME NEW row, NEW now \in Nat, RowOK(row, now), NEW f \in Formats,
           NEW text \in Contents \cup {None}
    PROVE  LET new == Conversion(row, f, text) IN
           /\ RowOK(new, now)
           /\ ConvertsTo(row, new)
           /\ new.conversion = "converted" => text \in Contents
<1>1. ASSUME NEW conversion \in {"unsupported", "failed"}
      PROVE  LET new == Unconverted(row, conversion) IN
             RowOK(new, now) /\ ConvertsTo(row, new) /\ new.conversion # "converted"
  BY DEF RowOK, RowFields, Unconverted, Conversions, Offered, ConvertsTo
<1>2. ASSUME NEW markdown \in Documents
      PROVE  LET new == Converted(row, markdown) IN RowOK(new, now) /\ ConvertsTo(row, new)
  <2>1. markdown # None
    BY NoneAssumption
  <2> QED
    BY <2>1 DEF RowOK, RowFields, Converted, Conversions, Offered, ConvertsTo
<1>3. CASE FormatOf(row, f) = "other"
  <2>1. Conversion(row, f, text) = Unconverted(row, "unsupported")
    BY <1>3 DEF Conversion
  <2> QED
    BY <1>1, <2>1
<1>4. CASE FormatOf(row, f) # "other" /\ text = None
  <2>1. Conversion(row, f, text) = Unconverted(row, "failed")
    BY <1>4 DEF Conversion
  <2> QED
    BY <1>1, <2>1
<1>5. CASE FormatOf(row, f) # "other" /\ text # None
  <2>1. Conversion(row, f, text) = Converted(row, Markdown(FormatOf(row, f), text))
    BY <1>5 DEF Conversion
  <2>2. text \in Contents /\ Markdown(FormatOf(row, f), text) \in Documents
    BY <1>5, MarkdownIsDocument
  <2> QED
    BY <1>2, <2>1, <2>2
<1> QED
  BY <1>3, <1>4, <1>5

-----------------------------------------------------------------------------
(* Chunks                                                                  *)

\* What is chunked is a document, and its chunks are those of MarkdownChunks.
LEMMA DocumentsAreCut ==
    ASSUME NEW document \in Documents, NEW max \in Limits
    PROVE  /\ IsDocument(document)
           /\ Chunked(document, max) = ChunkDrafts(document, max)
           /\ Chunked(document, max) \in Seq(ChunkSet(Range(document)))
<1>1. IsDocument(document)
  <2>1. \A c \in Contents : IsDocument(c) /\ IsDocument(<<Title>> \o c)
    BY ContentsAssumption, JoinedDocuments
  <2>2. \A c \in Contents : IsDocument(c) /\ IsDocument(Normalized(c))
    BY <2>1 DEF Normalized
  <2> QED
    BY <2>2 DEF Documents
<1>2. Chunked(document, max) = ChunkDrafts(document, max)
  BY ChunkedAssumption
<1>3. max \in Nat
  BY BoundsAssumption
<1> QED
  BY <1>1, <1>2, <1>3, DraftsAreChunks

\* Drafts are numbered.
LEMMA DraftsAreNumbered ==
    ASSUME NEW drafts \in Drafts
    PROVE  Len(drafts) \in Nat /\ DOMAIN drafts = 1..Len(drafts)
<1>1. PICK document \in Documents, max \in Limits : drafts = Chunked(document, max)
  BY DEF Drafts
<1>2. drafts \in Seq(ChunkSet(Range(document)))
  BY <1>1, DocumentsAreCut
<1> QED
  BY <1>2

\* The rows that are added for some drafts are active, and begin at position 0.
LEMMA NewChunksOK ==
    ASSUME NEW s, NEW drafts \in Drafts, NEW made
    PROVE  /\ \A c \in NewChunks(s, drafts, made) :
                  /\ DOMAIN c = ChunkFields
                  /\ c.source = s /\ c.made = made
                  /\ c.position \in Nat
                  /\ c.status = "active"
           /\ NewChunks(s, drafts, made) # {} =>
                  \E c \in NewChunks(s, drafts, made) : c.position = 0
<1> DEFINE n == Len(drafts)
           row(i) == [source |-> s, position |-> i - 1, path |-> drafts[i].path,
                      blocks |-> drafts[i].blocks, status |-> "active", made |-> made]
<1>1. n \in Nat /\ DOMAIN drafts = 1..n
  BY DraftsAreNumbered
<1>2. NewChunks(s, drafts, made) = {row(i) : i \in 1..n}
  BY <1>1 DEF NewChunks
<1>3. \A i \in 1..n : /\ DOMAIN row(i) = ChunkFields
                      /\ row(i).source = s /\ row(i).made = made
                      /\ row(i).position = i - 1
                      /\ row(i).status = "active"
  BY DEF ChunkFields
<1> HIDE DEF row, n
<1>4. \A i \in 1..n : row(i).position \in Nat
  BY <1>1, <1>3
<1>5. ASSUME NewChunks(s, drafts, made) # {}
      PROVE  \E c \in NewChunks(s, drafts, made) : c.position = 0
  <2>1. 1 \in 1..n
    BY <1>1, <1>2, <1>5
  <2>2. row(1) \in NewChunks(s, drafts, made)
    BY <2>1, <1>2
  <2>3. row(1).position = 0
    BY <2>1, <1>3
  <2> QED
    BY <2>2, <2>3
<1> QED
  BY <1>2, <1>3, <1>4, <1>5

\* A chunk before it is superseded, and after.
LEMMA RetiredRow ==
    ASSUME NEW c, DOMAIN c = ChunkFields
    PROVE  LET d == [c EXCEPT !.status = "superseded"] IN
           /\ DOMAIN d = ChunkFields
           /\ d.source = c.source /\ d.position = c.position /\ d.made = c.made
           /\ d.status = "superseded"
           /\ IdOf(d) = IdOf(c)
BY DEF ChunkFields, IdOf

\* Each retired row comes from a row with the same id, and each row has one.
LEMMA RetiredRows ==
    ASSUME ChunksOK, NEW doomed
    PROVE  /\ \A d \in Retired(doomed) : \E c \in chunks :
                  /\ DOMAIN d = ChunkFields
                  /\ d.source = c.source /\ d.position = c.position /\ d.made = c.made
                  /\ IdOf(d) = IdOf(c)
                  /\ IdOf(c) \in doomed => d.status = "superseded"
                  /\ IdOf(c) \notin doomed => d = c
           /\ \A c \in chunks : \E d \in Retired(doomed) :
                  /\ d.source = c.source /\ d.position = c.position
                  /\ IdOf(d) = IdOf(c)
<1> DEFINE R(c) == IF IdOf(c) \in doomed THEN [c EXCEPT !.status = "superseded"] ELSE c
<1>1. Retired(doomed) = {R(c) : c \in chunks}
  BY DEF Retired
<1>2. ASSUME NEW c \in chunks
      PROVE  /\ DOMAIN R(c) = ChunkFields
             /\ R(c).source = c.source /\ R(c).position = c.position /\ R(c).made = c.made
             /\ IdOf(R(c)) = IdOf(c)
             /\ IdOf(c) \in doomed => R(c).status = "superseded"
             /\ IdOf(c) \notin doomed => R(c) = c
  <2>1. DOMAIN c = ChunkFields
    BY DEF ChunksOK, ChunkOK
  <2>2. CASE IdOf(c) \in doomed
    <3>1. R(c) = [c EXCEPT !.status = "superseded"]
      BY <2>2
    <3> HIDE DEF R
    <3> QED
      BY <2>1, <2>2, <3>1, RetiredRow
  <2>3. CASE IdOf(c) \notin doomed
    <3>1. R(c) = c
      BY <2>3
    <3> HIDE DEF R
    <3> QED
      BY <2>1, <2>3, <3>1
  <2> QED
    BY <2>2, <2>3
<1> HIDE DEF R
<1> QED
  BY <1>1, <1>2

\* An id names its source.
LEMMA IdNamesSource ==
    ASSUME NEW c, NEW d, IdOf(c) = IdOf(d)
    PROVE  c.source = d.source /\ c.position = d.position /\ c.made = d.made
BY DEF IdOf

-----------------------------------------------------------------------------
(* Sessions                                                                *)

LEMMA RowOKLater ==
    ASSUME NEW row, NEW now \in Nat, NEW now2 \in Nat, now <= now2, RowOK(row, now)
    PROVE  RowOK(row, now2)
BY DEF RowOK, RowFields

\* The tables have changed by other hands than those of session t: sources are
\* added or converted, and chunks are added to new sources.
Elsewhere(t, src, src2, chs, chs2, over, over2, now, now2) ==
    /\ now \in Nat /\ now2 \in Nat /\ now <= now2
    /\ over \subseteq over2
    /\ \A s \in Sources : src[s] # None =>
          /\ src2[s] # None
          /\ src[s].markdown # None => src2[s].markdown # None
          /\ src[s].conversion # "pending" => src2[s].conversion # "pending"
          /\ IdsOf(chs2, s) = IdsOf(chs, s)
    /\ t.op = "convert" /\ t.target \notin over2 => src2[t.target] = src[t.target]
    /\ Ids(chs) \subseteq Ids(chs2)
    /\ \A c \in chs2 : IdOf(c) \in Ids(chs) => c \in chs

LEMMA SessionStays ==
    ASSUME NEW t, NEW src, NEW src2, NEW chs, NEW chs2, NEW cits, NEW over, NEW over2,
           NEW now, NEW now2,
           SessionOK(t, src, chs, cits, over, now),
           Elsewhere(t, src, src2, chs, chs2, over, over2, now, now2)
    PROVE  SessionOK(t, src2, chs2, cits, over2, now2)
<1> USE DEF Elsewhere
<1>1. CASE t.op = "idle"
  BY <1>1 DEF SessionOK
<1>2. CASE t.op = "convert"
  <2>1. ConvertOK(t, src, over, now)
    BY <1>2 DEF SessionOK
  <2>2. RowOK(t.loaded, now2)
    BY <2>1, RowOKLater DEF ConvertOK
  <2>3. ConvertOK(t, src2, over2, now2)
    BY <1>2, <2>1, <2>2 DEF ConvertOK
  <2> QED
    BY <1>2, <2>3 DEF SessionOK
<1>3. CASE t.op = "chunk"
  <2>1. ChunkingOK(t, src, chs, cits, over, now)
    BY <1>3 DEF SessionOK
  <2>2. ChunkingOK(t, src2, chs2, cits, over2, now2)
    BY <2>1 DEF ChunkingOK
  <2> QED
    BY <1>3, <2>2 DEF SessionOK
<1>4. CASE t.op = "cite"
  <2>1. CiteOK(t, chs, over)
    BY <1>4 DEF SessionOK
  <2>2. CiteOK(t, chs2, over2)
    BY <2>1 DEF CiteOK
  <2> QED
    BY <1>4, <2>2 DEF SessionOK
<1> QED
  BY <1>1, <1>2, <1>3, <1>4 DEF SessionOK

LEMMA IdleOK ==
    ASSUME NEW src, NEW chs, NEW cits, NEW over, NEW now
    PROVE  SessionOK(Idle, src, chs, cits, over, now) /\ Idle.held = {}
BY DEF SessionOK, Idle

\* One session gets the record t, and the others keep theirs.
LEMMA SessionsStep ==
    ASSUME SessionsOK, OverlapSeen, NEW u \in Sessions, NEW t,
           tx' = [tx EXCEPT ![u] = t],
           SessionOK(t, source', chunks', citations', overlap', clock'),
           \A v \in Sessions \ {u} :
               SessionOK(tx[v], source', chunks', citations', overlap', clock'),
           overlap \subseteq overlap',
           \A v \in Sessions \ {u} : t.held \cap tx[v].held \subseteq overlap'
    PROVE  SessionsOK' /\ OverlapSeen'
<1>1. DOMAIN tx' = Sessions /\ tx'[u] = t /\ \A v \in Sessions \ {u} : tx'[v] = tx[v]
  BY DEF SessionsOK
<1>2. SessionsOK'
  <2>1. ASSUME NEW v \in Sessions
        PROVE  SessionOK(tx'[v], source', chunks', citations', overlap', clock')
    <3>1. CASE v = u
      BY <1>1, <3>1
    <3>2. CASE v # u
      BY <1>1, <3>2
    <3> QED
      BY <3>1, <3>2
  <2> QED
    BY <1>1, <2>1 DEF SessionsOK
<1>3. OverlapSeen'
  <2>1. ASSUME NEW v \in Sessions, NEW w \in Sessions, v # w
        PROVE  tx'[v].held \cap tx'[w].held \subseteq overlap'
    <3>1. CASE v = u
      BY <1>1, <2>1, <3>1
    <3>2. CASE w = u
      BY <1>1, <2>1, <3>2
    <3>3. CASE v # u /\ w # u
      BY <1>1, <2>1, <3>3 DEF OverlapSeen
    <3> QED
      BY <3>1, <3>2, <3>3
  <2> QED
    BY <2>1 DEF OverlapSeen
<1> QED
  BY <1>2, <1>3

-----------------------------------------------------------------------------
LEMMA InitInv == Init => KnowledgeInv
<1> SUFFICES ASSUME Init PROVE KnowledgeInv
  OBVIOUS
<1>1. ClockOK /\ RowsOK /\ ChunksOK /\ BatchesOK
  BY BoundsAssumption DEF Init, ClockOK, RowsOK, ChunksOK, BatchesOK, OneBatch
<1>2. CitationsOK /\ CitedChunkStays /\ ActiveMeansConverted
  BY DEF Init, CitationsOK, CitedChunkStays, ActiveMeansConverted
<1>3. SessionsOK /\ OverlapSeen
  BY IdleOK DEF Init, SessionsOK, OverlapSeen
<1> QED
  BY <1>1, <1>2, <1>3 DEF KnowledgeInv

-----------------------------------------------------------------------------
(* Sources are added                                                       *)

\* Source s gets a row, with the chunks new.
LEMMA AddSource ==
    ASSUME KnowledgeInv, NEW s \in Sources, NEW row, NEW new,
           source[s] = None,
           source' = [source EXCEPT ![s] = row],
           chunks' = chunks \cup new,
           Tick, UNCHANGED <<citations, tx, overlap>>,
           RowOK(row, clock'), Offered(row),
           \A c \in new : /\ DOMAIN c = ChunkFields
                          /\ c.source = s /\ c.made = clock'
                          /\ c.position \in Nat /\ c.status = "active",
           new # {} => row.markdown # None /\ \E c \in new : c.position = 0
    PROVE  KnowledgeInv'
<1>1. ClockOK' /\ clock' = clock + 1 /\ clock \in Nat /\ clock' \in Nat
  BY BoundsAssumption DEF KnowledgeInv, ClockOK, Tick
<1>2. /\ source'[s] = row /\ row # None
      /\ \A r \in Sources \ {s} : source'[r] = source[r]
      /\ \A r \in Sources : source[r] # None => r # s /\ source'[r] = source[r]
  BY <1>1, RowIsSomething DEF KnowledgeInv, RowsOK, ClockOK
<1>3. RowsOK'
  <2>1. ASSUME NEW r \in Sources, source'[r] # None
        PROVE  RowOK(source'[r], clock')
    <3>1. CASE r = s
      BY <1>2, <3>1
    <3>2. CASE r # s
      BY <1>1, <1>2, <2>1, <3>2, RowOKLater DEF KnowledgeInv, RowsOK
    <3> QED
      BY <3>1, <3>2
  <2> QED
    BY <2>1 DEF KnowledgeInv, RowsOK
<1>4. \A c \in chunks : c.source # s /\ c.source \in Sources /\ source[c.source] # None
  BY DEF KnowledgeInv, ChunksOK, ChunkOK
<1>5. ChunksOK'
  <2>1. ASSUME NEW c \in chunks
        PROVE  ChunkOK(c, source', clock')
    BY <1>1, <1>2, <1>4 DEF KnowledgeInv, ChunksOK, ChunkOK
  <2>2. ASSUME NEW c \in new
        PROVE  ChunkOK(c, source', clock')
    BY <1>1, <1>2 DEF ChunkOK
  <2> QED
    BY <2>1, <2>2 DEF ChunksOK
<1>6. BatchesOK'
  <2>1. ASSUME NEW r \in Sources
        PROVE  OneBatch(chunks', r)
    <3>1. CASE r = s
      BY <1>4, <3>1 DEF OneBatch
    <3>2. CASE r # s
      <4>1. OneBatch(chunks, r)
        BY DEF KnowledgeInv, BatchesOK
      <4> QED
        BY <3>2, <4>1 DEF OneBatch
    <3> QED
      BY <3>1, <3>2
  <2> QED
    BY <2>1 DEF BatchesOK
<1>7. CitationsOK'
  BY DEF KnowledgeInv, CitationsOK, Ids
<1>8. /\ \A r \in Sources : source[r] # None => IdsOf(chunks', r) = IdsOf(chunks, r)
      /\ Ids(chunks) \subseteq Ids(chunks')
  BY <1>2 DEF IdsOf, Ids
<1>9. ASSUME NEW c \in chunks', IdOf(c) \in Ids(chunks)
      PROVE  c \in chunks
  <2>1. PICK d \in chunks : IdOf(d) = IdOf(c)
    BY <1>9 DEF Ids
  <2>2. c.source # s
    BY <1>4, <2>1, IdNamesSource
  <2> QED
    BY <2>2
<1>10. SessionsOK'
  <2>1. ASSUME NEW v \in Sessions
        PROVE  SessionOK(tx[v], source', chunks', citations, overlap, clock')
    <3>1. SessionOK(tx[v], source, chunks, citations, overlap, clock)
      BY DEF KnowledgeInv, SessionsOK
    <3>2. tx[v].op = "convert" /\ tx[v].target \notin overlap =>
              source'[tx[v].target] = source[tx[v].target]
      BY <3>1, <1>2 DEF SessionOK, ConvertOK
    <3>3. Elsewhere(tx[v], source, source', chunks, chunks', overlap, overlap, clock, clock')
      <4>1. clock <= clock' /\ overlap \subseteq overlap
        BY <1>1
      <4>2. \A r \in Sources : source[r] # None =>
                /\ source'[r] # None
                /\ source[r].markdown # None => source'[r].markdown # None
                /\ source[r].conversion # "pending" => source'[r].conversion # "pending"
                /\ IdsOf(chunks', r) = IdsOf(chunks, r)
        BY <1>2, <1>8
      <4>3. \A c \in chunks' : IdOf(c) \in Ids(chunks) => c \in chunks
        BY <1>9
      <4> QED
        BY <1>1, <1>8, <3>2, <4>1, <4>2, <4>3, Zenon DEF Elsewhere
    <3> QED
      BY <3>1, <3>3, SessionStays
  <2> QED
    BY <2>1 DEF KnowledgeInv, SessionsOK
<1>11. OverlapSeen'
  BY DEF KnowledgeInv, OverlapSeen
<1>12. CitedChunkStays'
  BY DEF KnowledgeInv, CitedChunkStays, Cited
<1>13. ActiveMeansConverted'
  <2>1. ASSUME NEW r \in Sources \ overlap, source'[r] # None
        PROVE  Offered(source'[r])
    <3>1. CASE r = s
      BY <1>2, <3>1
    <3>2. CASE r # s
      BY <1>2, <2>1, <3>2 DEF KnowledgeInv, ActiveMeansConverted, Offered
    <3> QED
      BY <3>1, <3>2
  <2> QED
    BY <2>1 DEF ActiveMeansConverted, Offered
<1> QED
  BY <1>1, <1>3, <1>5, <1>6, <1>7, <1>10, <1>11, <1>12, <1>13 DEF KnowledgeInv

LEMMA TickNat ==
    ASSUME ClockOK, Tick
    PROVE  clock \in Nat /\ clock' \in Nat /\ clock' = clock + 1 /\ clock' <= MaxTransactions
BY BoundsAssumption DEF ClockOK, Tick

LEMMA AddRow ==
    ASSUME KnowledgeInv, NEW s \in Sources, NEW row,
           source[s] = None,
           source' = [source EXCEPT ![s] = row],
           UNCHANGED chunks,
           Tick, UNCHANGED <<citations, tx, overlap>>,
           RowOK(row, clock'), Offered(row)
    PROVE  KnowledgeInv'
<1> DEFINE new == {}
<1>1. /\ chunks' = chunks \cup new
      /\ \A c \in new : /\ DOMAIN c = ChunkFields
                         /\ c.source = s /\ c.made = clock'
                         /\ c.position \in Nat /\ c.status = "active"
      /\ new # {} => row.markdown # None /\ \E c \in new : c.position = 0
  OBVIOUS
<1> HIDE DEF new
<1> QED
  BY <1>1, AddSource

\* The formats a caller's metadata may give are formats, or none.
LEMMA FormatIsFormat ==
    ASSUME NEW f \in Formats \cup {None}, NEW format \in {f} \cup Named
    PROVE  format \in Formats \cup {None}
BY NamedAssumption

LEMMA NextVersionOK ==
    ASSUME KnowledgeInv, NEW p \in Sources, NEW f \in Formats,
           NEW format \in Formats \cup {None}, NEW a \in Scopes, source[p] # None, Tick
    PROVE  /\ RowOK(NextVersion(p, f, format, a), clock')
           /\ Offered(NextVersion(p, f, format, a))
<1>1. RowOK(source[p], clock)
  BY DEF KnowledgeInv, RowsOK
<1>2. source[p].version + 1 \in Nat /\ source[p].version + 1 <= clock'
      /\ 0 < source[p].version + 1 /\ clock' \in Nat
  BY <1>1, TickNat DEF KnowledgeInv, RowOK, RowFields
<1> QED
  BY <1>2, RegisteredOK DEF NextVersion

\* What a revision makes: a row, and the chunks of its text if it is converted.
LEMMA RevisionOK ==
    ASSUME KnowledgeInv, NEW s \in Sources, NEW p \in Sources, NEW f \in Formats,
           NEW format \in Formats \cup {None}, NEW a \in Scopes,
           NEW c \in Contents \cup {None}, NEW max \in Limits, Revise(s, p, f, format, a, c, max)
    PROVE  \E row :
              /\ source' = [source EXCEPT ![s] = row]
              /\ RowOK(row, clock') /\ Offered(row)
              /\ \/ chunks' = chunks
                 \/ /\ row.conversion = "converted"
                    /\ \E drafts \in Drafts : chunks' = chunks \cup NewChunks(s, drafts, clock')
<1> DEFINE old == NextVersion(p, f, format, a)
           row == Conversion(old, f, c)
<1>1. /\ source' = [source EXCEPT ![s] = row] /\ source[p] # None /\ Tick
      /\ chunks' = IF row.conversion = "converted"
                   THEN chunks \cup NewChunks(s, Chunked(Markdown(f, c), max), clock + 1)
                   ELSE chunks
  BY DEF Revise
<1>2. clock' \in Nat /\ clock' = clock + 1 /\ RowOK(old, clock')
  BY <1>1, NextVersionOK, TickNat DEF KnowledgeInv
<1> HIDE DEF old
<1>3. /\ RowOK(row, clock') /\ Offered(row)
      /\ row.conversion = "converted" => c \in Contents
  BY <1>2, ConversionOK DEF ConvertsTo
<1> HIDE DEF row
<1>4. CASE row.conversion = "converted"
  <2> DEFINE drafts == Chunked(Markdown(f, c), max)
  <2>1. drafts \in Drafts
    BY <1>3, <1>4, MarkdownIsDocument DEF Drafts
  <2>2. chunks' = chunks \cup NewChunks(s, drafts, clock')
    BY <1>1, <1>2, <1>4
  <2> HIDE DEF drafts
  <2> QED
    BY <1>1, <1>3, <1>4, <2>1, <2>2
<1>5. CASE row.conversion # "converted"
  BY <1>1, <1>3, <1>5
<1> QED
  BY <1>4, <1>5

LEMMA CreatesStep ==
    ASSUME KnowledgeInv, Creates
    PROVE  KnowledgeInv'
<1>1. ASSUME NEW s \in Sources, NEW a \in Scopes, NEW c \in Contents,
             NEW format \in Formats \cup {None}, RegisterMarkdown(s, format, c, a)
      PROVE  KnowledgeInv'
  <2> DEFINE row == [version |-> 1, previous |-> None, format |-> format, scope |-> a,
                     conversion |-> "converted", status |-> "active", markdown |-> c]
  <2>1. /\ source[s] = None /\ source' = [source EXCEPT ![s] = row]
        /\ UNCHANGED chunks
        /\ Tick /\ UNCHANGED <<citations, tx, overlap>>
    BY <1>1 DEF RegisterMarkdown
  <2>2. clock' \in Nat /\ 1 <= clock'
    BY <2>1, TickNat DEF KnowledgeInv
  <2>3. c \in Documents /\ c # None
    BY NoneAssumption DEF Documents
  <2>4. RowOK(row, clock') /\ Offered(row)
    BY <2>2, <2>3 DEF RowOK, RowFields, Conversions, Offered
  <2> HIDE DEF row
  <2> QED
    BY <2>1, <2>4, AddRow
<1>2. ASSUME NEW s \in Sources, NEW a \in Scopes, NEW f \in Formats,
             NEW format \in Formats \cup {None}, Register(s, f, format, a)
      PROVE  KnowledgeInv'
  <2> DEFINE row == Registered(1, None, f, format, a)
  <2>1. /\ source[s] = None /\ source' = [source EXCEPT ![s] = row]
        /\ UNCHANGED chunks
        /\ Tick /\ UNCHANGED <<citations, tx, overlap>>
    BY <1>2 DEF Register
  <2>2. clock' \in Nat /\ 1 <= clock'
    BY <2>1, TickNat DEF KnowledgeInv
  <2>3. RowOK(row, clock') /\ Offered(row)
    BY <2>2, RegisteredOK
  <2> HIDE DEF row
  <2> QED
    BY <2>1, <2>3, AddRow
<1>3. ASSUME NEW s \in Sources, NEW a \in Scopes, NEW f \in Formats, NEW p \in Sources,
             NEW format \in Formats \cup {None}, CreateVersion(s, p, f, format, a)
      PROVE  KnowledgeInv'
  <2> DEFINE row == NextVersion(p, f, format, a)
  <2>1. /\ source[s] = None /\ source[p] # None /\ source' = [source EXCEPT ![s] = row]
        /\ UNCHANGED chunks
        /\ Tick /\ UNCHANGED <<citations, tx, overlap>>
    BY <1>3 DEF CreateVersion
  <2>2. RowOK(row, clock') /\ Offered(row)
    BY <2>1, NextVersionOK
  <2> HIDE DEF row
  <2> QED
    BY <2>1, <2>2, AddRow
<1>4. ASSUME NEW s \in Sources, NEW a \in Scopes, NEW f \in Formats, NEW p \in Sources,
             NEW format \in Formats \cup {None}, NEW c \in Contents \cup {None},
             NEW max \in Limits, Revise(s, p, f, format, a, c, max)
      PROVE  KnowledgeInv'
  <2>1. /\ source[s] = None /\ Tick /\ UNCHANGED <<citations, tx, overlap>>
    BY <1>4 DEF Revise
  <2>2. PICK row :
              /\ source' = [source EXCEPT ![s] = row]
              /\ RowOK(row, clock') /\ Offered(row)
              /\ \/ chunks' = chunks
                 \/ /\ row.conversion = "converted"
                    /\ \E drafts \in Drafts : chunks' = chunks \cup NewChunks(s, drafts, clock')
    BY <1>4, RevisionOK
  <2>3. CASE chunks' = chunks
    BY <2>1, <2>2, <2>3, AddRow
  <2>4. CASE /\ row.conversion = "converted"
             /\ \E drafts \in Drafts : chunks' = chunks \cup NewChunks(s, drafts, clock')
    <3>1. PICK drafts \in Drafts : chunks' = chunks \cup NewChunks(s, drafts, clock')
      BY <2>4
    <3> DEFINE new == NewChunks(s, drafts, clock')
    <3>2. /\ \A d \in new : /\ DOMAIN d = ChunkFields
                            /\ d.source = s /\ d.made = clock'
                            /\ d.position \in Nat /\ d.status = "active"
          /\ new # {} => \E d \in new : d.position = 0
      BY NewChunksOK
    <3>3. row.markdown # None
      BY <2>2, <2>4 DEF RowOK
    <3> HIDE DEF new
    <3>4. chunks' = chunks \cup new
      BY <3>1 DEF new
    <3> QED
      BY <2>1, <2>2, <3>2, <3>3, <3>4, AddSource
  <2> QED
    BY <2>2, <2>3, <2>4
<1>5. \A f \in Formats \cup {None} : \A format \in {f} \cup Named : format \in Formats \cup {None}
  BY FormatIsFormat
<1> QED
  BY <1>1, <1>2, <1>3, <1>4, <1>5 DEF Creates

-----------------------------------------------------------------------------
(* Sessions begin                                                          *)

\* Session u gets the record t, and no row changes.
LEMMA RowsKept ==
    ASSUME KnowledgeInv, NEW u \in Sessions, NEW t,
           tx' = [tx EXCEPT ![u] = t],
           UNCHANGED rows, ClockOK', clock <= clock',
           overlap \subseteq overlap',
           SessionOK(t, source, chunks, citations, overlap', clock'),
           \A v \in Sessions \ {u} : t.held \cap tx[v].held \subseteq overlap'
    PROVE  KnowledgeInv'
<1>1. source' = source /\ chunks' = chunks /\ citations' = citations
  BY DEF rows
<1>2. clock \in Nat /\ clock' \in Nat
  BY DEF KnowledgeInv, ClockOK
<1>3. ASSUME NEW v \in Sessions
      PROVE  SessionOK(tx[v], source', chunks', citations', overlap', clock')
  <2>1. SessionOK(tx[v], source, chunks, citations, overlap, clock)
    BY DEF KnowledgeInv, SessionsOK
  <2>2. Elsewhere(tx[v], source, source, chunks, chunks, overlap, overlap', clock, clock')
    BY <1>2 DEF Elsewhere
  <2>3. SessionOK(tx[v], source, chunks, citations, overlap', clock')
    BY <2>1, <2>2, SessionStays
  <2> QED
    BY <1>1, <2>3
<1>4. SessionsOK' /\ OverlapSeen'
  BY <1>1, <1>3, SessionsStep DEF KnowledgeInv
<1>5. RowsOK'
  BY <1>1, <1>2, RowOKLater DEF KnowledgeInv, RowsOK
<1>6. ChunksOK'
  BY <1>1, <1>2 DEF KnowledgeInv, ChunksOK, ChunkOK
<1>7. BatchesOK' /\ CitationsOK'
  BY <1>1 DEF KnowledgeInv, BatchesOK, CitationsOK
<1>8. CitedChunkStays' /\ ActiveMeansConverted'
  BY <1>1 DEF KnowledgeInv, CitedChunkStays, ActiveMeansConverted, Cited
<1> QED
  BY <1>4, <1>5, <1>6, <1>7, <1>8 DEF KnowledgeInv

LEMMA BeginStep ==
    ASSUME KnowledgeInv, NEW u \in Sessions, NEW t, NEW t2, Begin(u, t),
           t2 = [t EXCEPT !.began = clock + 1], t2.held = t.held,
           SessionOK(t2, source, chunks, citations, overlap', clock')
    PROVE  KnowledgeInv'
<1>1. Tick /\ ClockOK' /\ clock <= clock'
  BY TickNat DEF Begin, KnowledgeInv, ClockOK
<1>2. /\ tx' = [tx EXCEPT ![u] = t2]
      /\ UNCHANGED rows
      /\ overlap' = overlap \cup (t.held \cap UNION {tx[v].held : v \in Sessions})
  BY DEF Begin
<1>3. \A v \in Sessions \ {u} : t2.held \cap tx[v].held \subseteq overlap'
  BY <1>2
<1> QED
  BY <1>1, <1>2, <1>3, RowsKept, ZenonT(30)

LEMMA BeginsStep ==
    ASSUME KnowledgeInv, NEW u \in Sessions, Begins(u)
    PROVE  KnowledgeInv'
<1>1. ASSUME NEW s \in Sources, NEW f \in Formats, NEW c \in Contents \cup {None},
             BeginConvert(u, s, f, c)
      PROVE  KnowledgeInv'
  <2> DEFINE t == [Idle EXCEPT !.op = "convert", !.target = s, !.held = {s},
                               !.loaded = source[s], !.row = Conversion(source[s], f, c)]
             t2 == [t EXCEPT !.began = clock + 1]
  <2>1. Begin(u, t) /\ source[s] # None
    BY <1>1 DEF BeginConvert
  <2>2. /\ t2.op = "convert" /\ t2.target = s /\ t2.held = {s} /\ t2.held = t.held
        /\ t2.loaded = source[s] /\ t2.row = Conversion(source[s], f, c)
    BY DEF Idle
  <2> HIDE DEF t
  <2>3. Tick /\ clock \in Nat /\ clock' \in Nat /\ clock <= clock'
    BY <2>1, TickNat DEF Begin, KnowledgeInv
  <2>4. RowOK(source[s], clock')
    BY <2>1, <2>3, RowOKLater DEF KnowledgeInv, RowsOK
  <2>5. SessionOK(t2, source, chunks, citations, overlap', clock')
    <3> HIDE DEF t2
    <3> QED
      BY <2>1, <2>2, <2>4 DEF SessionOK, ConvertOK
  <2> QED
    BY <2>1, <2>2, <2>5, BeginStep
<1>2. ASSUME NEW s \in Sources, NEW d \in Drafts, NEW replace \in BOOLEAN,
             BeginChunk(u, s, d, replace)
      PROVE  KnowledgeInv'
  <2> DEFINE doomed == {IdOf(c) : c \in ActiveChunks(s)}
             t == [Idle EXCEPT !.op = "chunk", !.target = s, !.held = {s},
                               !.loaded = source[s], !.drafts = d, !.doomed = doomed]
             t2 == [t EXCEPT !.began = clock + 1]
  <2>1. /\ Begin(u, t) /\ source[s] # None
        /\ source[s].markdown # None
        /\ ActiveChunks(s) # {} => MayReplace(s, replace)
    BY <1>2 DEF BeginChunk
  <2>2. /\ t2.op = "chunk" /\ t2.target = s /\ t2.held = {s} /\ t2.held = t.held
        /\ t2.drafts = d /\ t2.doomed = doomed /\ t2.began = clock + 1
    BY DEF Idle
  <2> HIDE DEF t
  <2>3. Tick /\ clock \in Nat /\ clock' = clock + 1
    BY <2>1, TickNat DEF Begin, KnowledgeInv
  <2>4. source[s].markdown # None
    BY <2>1
  <2>5. doomed = {} \/ doomed = IdsOf(chunks, s)
    <3>1. OneBatch(chunks, s)
      BY DEF KnowledgeInv, BatchesOK
    <3>2. CASE ActiveChunks(s) = {}
      BY <3>2
    <3>3. CASE ActiveChunks(s) # {}
      <4>1. ActiveChunks(s) = {c \in chunks : c.source = s}
        BY <3>1, <3>3 DEF OneBatch, ActiveChunks, RowsOf
      <4> QED
        BY <4>1 DEF IdsOf
    <3> QED
      BY <3>2, <3>3
  <2>6. \A g \in Suggestions : citations[g] # None => doomed \cap citations[g] = {}
    BY <2>1 DEF MayReplace, Cited
  <2>7. SessionOK(t2, source, chunks, citations, overlap', clock')
    <3> HIDE DEF t2, doomed
    <3> QED
      BY <2>1, <2>2, <2>3, <2>4, <2>5, <2>6 DEF SessionOK, ChunkingOK
  <2> QED
    BY <2>1, <2>2, <2>7, BeginStep
<1>3. ASSUME NEW chosen \in SUBSET Sources, NEW a \in SUBSET Scopes, NEW q \in Queries,
             BeginCite(u, chosen, a, q)
      PROVE  KnowledgeInv'
  <2>1. PICK pick \in Picks(chosen, a, q) :
            Begin(u, [Idle EXCEPT !.op = "cite", !.held = {c.source : c \in pick},
                                  !.cited = {IdOf(c) : c \in pick}])
    BY <1>3 DEF BeginCite
  <2> DEFINE held == {c.source : c \in pick}
             cited == {IdOf(c) : c \in pick}
             t == [Idle EXCEPT !.op = "cite", !.held = held, !.cited = cited]
             t2 == [t EXCEPT !.began = clock + 1]
  <2>2. Begin(u, t)
    BY <2>1
  <2>3. pick # {} /\ \A c \in pick : c \in chunks /\ c.status = "active"
    <3>1. PICK n \in 1..Limit :
              pick \in kSubset(n, {c \in Retrievable(chosen, a) : Score(c, q) > 0})
      BY DEF Picks
    <3>2. pick \subseteq {c \in Retrievable(chosen, a) : Score(c, q) > 0} /\ Cardinality(pick) = n
      BY <3>1 DEF kSubset
    <3>3. pick # {}
      BY <3>2, FS_EmptySet, BoundsAssumption
    <3> QED
      BY <3>2, <3>3 DEF Retrievable
  <2>4. /\ t2.op = "cite" /\ t2.held = held /\ t2.held = t.held /\ t2.cited = cited
    BY DEF Idle
  <2> HIDE DEF t
  <2>5. CiteOK(t2, chunks, overlap')
    <3> HIDE DEF t2
    <3>1. cited # {} /\ cited \subseteq Ids(chunks)
      BY <2>3 DEF Ids
    <3>2. ASSUME NEW c \in chunks, IdOf(c) \in cited
          PROVE  c.source \in held /\ c.status = "active"
      <4>1. PICK d \in pick : IdOf(d) = IdOf(c)
        BY <3>2
      <4>2. d.source = c.source
        BY <4>1, IdNamesSource
      <4>3. OneBatch(chunks, c.source)
        BY DEF KnowledgeInv, BatchesOK, ChunksOK, ChunkOK
      <4> QED
        BY <2>3, <4>2, <4>3 DEF OneBatch
    <3> QED
      BY <2>4, <3>1, <3>2 DEF CiteOK
  <2>6. SessionOK(t2, source, chunks, citations, overlap', clock')
    <3> HIDE DEF t2
    <3> QED
      BY <2>4, <2>5 DEF SessionOK
  <2> QED
    BY <2>2, <2>4, <2>6, BeginStep
<1> QED
  BY <1>1, <1>2, <1>3 DEF Begins

-----------------------------------------------------------------------------
(* Sessions commit                                                         *)

\* A session that ends without a write.
LEMMA CloseStep ==
    ASSUME KnowledgeInv, NEW u \in Sessions, Close(u), UNCHANGED rows
    PROVE  KnowledgeInv'
<1>1. /\ tx' = [tx EXCEPT ![u] = Idle]
      /\ ClockOK' /\ clock <= clock' /\ overlap' = overlap
  BY DEF Close, KnowledgeInv, ClockOK
<1>2. /\ SessionOK(Idle, source, chunks, citations, overlap', clock')
      /\ \A v \in Sessions \ {u} : Idle.held \cap tx[v].held \subseteq overlap'
  BY IdleOK
<1> QED
  BY <1>1, <1>2, RowsKept

\* What the row of a source is after a conversion.
LEMMA StoredOK ==
    ASSUME NEW now \in Nat, NEW current, NEW loaded, NEW row,
           RowOK(current, now), RowOK(loaded, now), RowOK(row, now), ConvertsTo(loaded, row),
           loaded.conversion # "pending" => current.conversion # "pending"
    PROVE  LET new == Stored(current, loaded, row) IN
           /\ RowOK(new, now)
           /\ current.markdown # None => new.markdown # None
           /\ new.conversion # "pending"
           /\ loaded = current => Offered(new)
<1> DEFINE new == Stored(current, loaded, row)
<1>0. /\ row \in RowFields /\ row.conversion # "pending"
      /\ row.conversion = "converted" => row.markdown \in Documents /\ row.markdown # None
  BY NoneAssumption DEF RowOK, ConvertsTo
<1>1. /\ Offered(row)
      /\ row.conversion # "converted" => row.markdown = loaded.markdown
  BY DEF ConvertsTo
<1>2. /\ new \in RowFields
      /\ new.version = current.version
      /\ new.conversion = Written(current.conversion, loaded.conversion, row.conversion)
      /\ new.status = Written(current.status, loaded.status, row.status)
      /\ new.markdown = IF row.conversion = "converted" THEN row.markdown ELSE current.markdown
  <2>1. /\ current \in RowFields
        /\ Written(current.conversion, loaded.conversion, row.conversion) \in Conversions
        /\ Written(current.status, loaded.status, row.status) \in {"draft", "active"}
        /\ (IF row.conversion = "converted" THEN row.markdown ELSE current.markdown)
              \in Documents \cup {None}
    BY <1>0 DEF RowOK, RowFields, Written
  <2> QED
    BY <2>1 DEF Stored, RowFields
<1> HIDE DEF new
<1>3. new.conversion # "pending"
  BY <1>0, <1>2 DEF Written
<1>4. current.markdown # None => new.markdown # None
  BY <1>0, <1>2
<1>5. new.conversion = "converted" => new.markdown # None
  BY <1>0, <1>2, <1>4 DEF Written, RowOK
<1>6. RowOK(new, now)
  BY <1>2, <1>3, <1>5 DEF RowOK
<1>7. ASSUME loaded = current
      PROVE  Offered(new)
  <2>1. new.conversion = row.conversion /\ new.status = row.status
    BY <1>2, <1>7 DEF Written
  <2>2. row.conversion = "converted" => new.markdown = row.markdown
    BY <1>2
  <2> QED
    BY <1>1, <2>1, <2>2 DEF Offered
<1> QED
  BY <1>3, <1>4, <1>6, <1>7 DEF new

LEMMA ConvertStep ==
    ASSUME KnowledgeInv, NEW u \in Sessions, CommitConvert(u)
    PROVE  KnowledgeInv'
<1> DEFINE t == tx[u]
           s == t.target
           new == Stored(source[s], t.loaded, t.row)
<1>1. /\ t.op = "convert"
      /\ source' = [source EXCEPT ![s] = new]
      /\ tx' = [tx EXCEPT ![u] = Idle]
      /\ UNCHANGED <<chunks, citations, clock, overlap>>
  BY DEF CommitConvert, Close
<1>2. ConvertOK(t, source, overlap, clock)
  BY <1>1 DEF KnowledgeInv, SessionsOK, SessionOK
<1>3. /\ s \in Sources /\ source[s] # None /\ t.held = {s}
      /\ RowOK(t.loaded, clock) /\ RowOK(source[s], clock)
      /\ \E f \in Formats, text \in Contents \cup {None} : t.row = Conversion(t.loaded, f, text)
      /\ t.loaded.conversion # "pending" => source[s].conversion # "pending"
      /\ s \notin overlap => t.loaded = source[s]
  BY <1>2 DEF ConvertOK, KnowledgeInv, RowsOK
<1>4. clock \in Nat /\ clock <= MaxTransactions
  BY DEF KnowledgeInv, ClockOK
<1>5. /\ RowOK(new, clock) /\ new.conversion # "pending"
      /\ source[s].markdown # None => new.markdown # None
      /\ s \notin overlap => Offered(new)
  <2>1. RowOK(t.row, clock) /\ ConvertsTo(t.loaded, t.row)
    BY <1>3, <1>4, ConversionOK
  <2> QED
    BY <1>3, <1>4, <2>1, StoredOK
<1> HIDE DEF new, s, t
<1>6. new # None
  BY <1>4, <1>5, RowIsSomething
<1>7. source'[s] = new /\ \A r \in Sources \ {s} : source'[r] = source[r]
  BY <1>1, <1>3 DEF KnowledgeInv, RowsOK
<1>8. RowsOK'
  <2>1. ASSUME NEW r \in Sources, source'[r] # None
        PROVE  RowOK(source'[r], clock)
    BY <1>5, <1>7, <2>1 DEF KnowledgeInv, RowsOK
  <2> QED
    BY <1>1, <2>1 DEF KnowledgeInv, RowsOK
<1>9. \A r \in Sources : source[r] # None =>
          /\ source'[r] # None
          /\ source[r].markdown # None => source'[r].markdown # None
          /\ source[r].conversion # "pending" => source'[r].conversion # "pending"
  BY <1>5, <1>6, <1>7
<1>10. ChunksOK'
  BY <1>1, <1>9 DEF KnowledgeInv, ChunksOK, ChunkOK
<1>11. BatchesOK' /\ CitationsOK' /\ ClockOK' /\ CitedChunkStays'
  BY <1>1 DEF KnowledgeInv, BatchesOK, CitationsOK, ClockOK, CitedChunkStays, Cited
<1>12. ASSUME NEW v \in Sessions \ {u}
       PROVE  SessionOK(tx[v], source', chunks', citations', overlap', clock')
  <2>1. SessionOK(tx[v], source, chunks, citations, overlap, clock)
    BY DEF KnowledgeInv, SessionsOK
  <2>2. tx[v].op = "convert" /\ tx[v].target \notin overlap =>
            source'[tx[v].target] = source[tx[v].target]
    <3>1. ASSUME tx[v].op = "convert", tx[v].target \notin overlap
          PROVE  tx[v].target # s /\ tx[v].target \in Sources
      <4>1. tx[v].held = {tx[v].target} /\ tx[v].target \in Sources
        BY <2>1, <3>1 DEF SessionOK, ConvertOK
      <4>2. tx[v].held \cap tx[u].held \subseteq overlap
        BY DEF KnowledgeInv, OverlapSeen
      <4> QED
        BY <1>3, <3>1, <4>1, <4>2 DEF t
    <3> QED
      BY <1>7, <3>1
  <2>3. Elsewhere(tx[v], source, source', chunks, chunks, overlap, overlap, clock, clock)
    BY <1>4, <1>9, <2>2 DEF Elsewhere
  <2>4. SessionOK(tx[v], source', chunks, citations, overlap, clock)
    BY <2>1, <2>3, SessionStays
  <2> QED
    BY <1>1, <2>4
<1>13. SessionsOK' /\ OverlapSeen'
  <2>1. SessionOK(Idle, source', chunks', citations', overlap', clock') /\ Idle.held = {}
    BY IdleOK
  <2> QED
    BY <1>1, <1>12, <2>1, SessionsStep DEF KnowledgeInv
<1>14. ActiveMeansConverted'
  <2>1. ASSUME NEW r \in Sources \ overlap, source'[r] # None
        PROVE  Offered(source'[r])
    <3>1. CASE r = s
      BY <1>5, <1>7, <3>1
    <3>2. CASE r # s
      BY <1>7, <2>1, <3>2 DEF KnowledgeInv, ActiveMeansConverted, Offered
    <3> QED
      BY <3>1, <3>2
  <2> QED
    BY <1>1, <2>1 DEF ActiveMeansConverted, Offered
<1> QED
  BY <1>8, <1>10, <1>11, <1>13, <1>14 DEF KnowledgeInv

\* The chunks of the session's source are replaced by no other: either it had
\* none, or the document has none.
LEMMA ChunkStep ==
    ASSUME KnowledgeInv, NEW u \in Sessions, CommitChunk(u)
    PROVE  KnowledgeInv'
<1> DEFINE t == tx[u]
           s == t.target
           doomed == t.doomed
           new == NewChunks(s, t.drafts, t.began)
           old == Retired(doomed)
<1>1. /\ t.op = "chunk" /\ PositionsFree(s, new)
      /\ chunks' = old \cup new
      /\ tx' = [tx EXCEPT ![u] = Idle]
      /\ UNCHANGED <<source, citations, clock, overlap>>
  BY DEF CommitChunk, Close
<1>2. ChunkingOK(t, source, chunks, citations, overlap, clock)
  BY <1>1 DEF KnowledgeInv, SessionsOK, SessionOK
<1>3. /\ s \in Sources /\ t.held = {s} /\ source[s] # None /\ source[s].markdown # None
      /\ t.drafts \in Drafts
      /\ t.began \in Nat /\ 0 < t.began /\ t.began <= clock
      /\ doomed = {} \/ doomed = IdsOf(chunks, s)
      /\ s \notin overlap =>
            \A g \in Suggestions : citations[g] # None => doomed \cap citations[g] = {}
  BY <1>2 DEF ChunkingOK
<1>4. /\ \A c \in new : /\ DOMAIN c = ChunkFields
                        /\ c.source = s /\ c.made = t.began
                        /\ c.position \in Nat /\ c.status = "active"
      /\ new # {} => \E c \in new : c.position = 0
  BY <1>3, NewChunksOK
<1>5. /\ \A d \in old : \E c \in chunks :
            /\ DOMAIN d = ChunkFields
            /\ d.source = c.source /\ d.position = c.position /\ d.made = c.made
            /\ IdOf(d) = IdOf(c)
            /\ IdOf(c) \in doomed => d.status = "superseded"
            /\ IdOf(c) \notin doomed => d = c
      /\ \A c \in chunks : \E d \in old :
            /\ d.source = c.source /\ d.position = c.position /\ IdOf(d) = IdOf(c)
  BY RetiredRows DEF KnowledgeInv
<1>6. t.held = tx[u].held
  OBVIOUS
<1> HIDE DEF t, s, doomed, new, old
<1>7. \A c \in chunks : IdOf(c) \in doomed => c.source = s
  BY <1>3, IdNamesSource DEF IdsOf
<1>8. new # {} => \A c \in chunks : c.source # s
  <2>1. ASSUME NEW c \in chunks, c.source = s, new # {}
        PROVE  FALSE
    <3>1. PICK d \in new : d.position = 0
      BY <1>4, <2>1
    <3>2. OneBatch(chunks, s)
      BY <1>3 DEF KnowledgeInv, BatchesOK
    <3>3. PICK e \in chunks : e.source = s /\ e.position = 0
      BY <2>1, <3>2 DEF OneBatch
    <3> QED
      BY <1>1, <3>1, <3>3 DEF PositionsFree, RowsOf
  <2> QED
    BY <2>1
<1>9. ChunksOK'
  <2>1. ASSUME NEW d \in new
        PROVE  ChunkOK(d, source, clock)
    BY <1>3, <1>4 DEF ChunkOK
  <2>2. ASSUME NEW d \in old
        PROVE  ChunkOK(d, source, clock)
    <3>1. PICK c \in chunks :
            /\ DOMAIN d = ChunkFields
            /\ d.source = c.source /\ d.position = c.position /\ d.made = c.made
            /\ IdOf(c) \in doomed => d.status = "superseded"
            /\ IdOf(c) \notin doomed => d = c
      BY <1>5
    <3>2. ChunkOK(c, source, clock)
      BY DEF KnowledgeInv, ChunksOK
    <3> QED
      BY <3>1, <3>2 DEF ChunkOK
  <2> QED
    BY <1>1, <2>1, <2>2 DEF ChunksOK
<1>10. BatchesOK'
  <2>1. ASSUME NEW r \in Sources
        PROVE  OneBatch(chunks', r)
    <3>1. OneBatch(chunks, r)
      BY DEF KnowledgeInv, BatchesOK
    <3>2. CASE r # s
      <4>1. \A d \in chunks' : d.source = r => d \in chunks
        BY <1>1, <1>4, <1>5, <1>7, <3>2
      <4>2. \A c \in chunks : c.source = r => c \in chunks'
        <5>1. ASSUME NEW c \in chunks, c.source = r
              PROVE  c \in old
          <6>1. IdOf(c) \notin doomed
            BY <1>7, <3>2, <5>1
          <6> QED
            BY <5>1, <6>1 DEF old, Retired
        <5> QED
          BY <1>1, <5>1
      <4> QED
        BY <3>1, <4>1, <4>2 DEF OneBatch
    <3>3. CASE r = s /\ new # {}
      <4>1. \A d \in chunks' : d.source = r => d \in new
        BY <1>1, <1>5, <1>8, <3>3
      <4> QED
        BY <1>1, <1>4, <3>3, <4>1 DEF OneBatch
    <3>4. CASE r = s /\ new = {}
      <4>1. chunks' = old
        BY <1>1, <3>4
      <4>2. \A d \in old : d.source = s => \E e \in old : e.source = s /\ e.position = 0
        BY <1>5, <3>1, <3>4 DEF OneBatch
      <4>3. ASSUME NEW d \in old, NEW e \in old, d.source = s, e.source = s
            PROVE  d.status = e.status
        <5>1. PICK c \in chunks : /\ d.source = c.source
                                  /\ IdOf(c) \in doomed => d.status = "superseded"
                                  /\ IdOf(c) \notin doomed => d = c
          BY <1>5
        <5>2. PICK b \in chunks : /\ e.source = b.source
                                  /\ IdOf(b) \in doomed => e.status = "superseded"
                                  /\ IdOf(b) \notin doomed => e = b
          BY <1>5
        <5>3. CASE doomed = {}
          BY <3>1, <3>4, <4>3, <5>1, <5>2, <5>3 DEF OneBatch
        <5>4. CASE doomed = IdsOf(chunks, s)
          <6>1. IdOf(c) \in doomed /\ IdOf(b) \in doomed
            BY <4>3, <5>1, <5>2, <5>4 DEF IdsOf
          <6> QED
            BY <5>1, <5>2, <6>1
        <5> QED
          BY <1>3, <5>3, <5>4
      <4> QED
        BY <3>4, <4>1, <4>2, <4>3 DEF OneBatch
    <3> QED
      BY <3>2, <3>3, <3>4
  <2> QED
    BY <2>1 DEF BatchesOK
<1>11. Ids(chunks) \subseteq Ids(chunks')
  BY <1>1, <1>5 DEF Ids
<1>12. CitationsOK' /\ RowsOK' /\ ClockOK' /\ ActiveMeansConverted'
  BY <1>1, <1>11 DEF KnowledgeInv, CitationsOK, RowsOK, ClockOK, ActiveMeansConverted
<1>13. CitedChunkStays'
  <2>1. ASSUME NEW d \in chunks', Cited(IdOf(d)), d.source \notin overlap
        PROVE  d.status = "active"
    <3>1. CASE d \in new
      BY <1>4, <3>1
    <3>2. CASE d \in old
      <4>1. PICK c \in chunks : /\ d.source = c.source /\ IdOf(d) = IdOf(c)
                                /\ IdOf(c) \notin doomed => d = c
        BY <1>5, <3>2
      <4>2. IdOf(c) \notin doomed
        BY <1>3, <1>7, <2>1, <4>1 DEF Cited
      <4> QED
        BY <2>1, <4>1, <4>2 DEF KnowledgeInv, CitedChunkStays
    <3> QED
      BY <1>1, <3>1, <3>2
  <2> QED
    BY <1>1, <2>1 DEF CitedChunkStays, Cited
<1>14. \A r \in Sources : (r # s \/ new = {}) => IdsOf(chunks', r) = IdsOf(chunks, r)
  BY <1>1, <1>4, <1>5 DEF IdsOf
<1>15. ASSUME NEW v \in Sessions \ {u}
       PROVE  SessionOK(tx[v], source', chunks', citations', overlap', clock')
  <2>1. SessionOK(tx[v], source, chunks, citations, overlap, clock)
    BY DEF KnowledgeInv, SessionsOK
  <2>2. CASE tx[v].op \in {"idle", "convert"}
    BY <1>1, <2>1, <2>2 DEF SessionOK
  <2>3. CASE tx[v].op = "chunk"
    <3>1. ChunkingOK(tx[v], source, chunks, citations, overlap, clock)
      BY <2>1, <2>3 DEF SessionOK
    <3>2. tx[v].doomed = {} \/ tx[v].doomed = IdsOf(chunks', tx[v].target)
      <4>1. CASE tx[v].target # s \/ new = {}
        BY <1>14, <3>1, <4>1 DEF ChunkingOK
      <4>2. CASE tx[v].target = s /\ new # {}
        BY <1>8, <3>1, <4>2 DEF ChunkingOK, IdsOf
      <4> QED
        BY <4>1, <4>2
    <3>3. ChunkingOK(tx[v], source, chunks', citations, overlap, clock)
      BY <3>1, <3>2 DEF ChunkingOK
    <3> QED
      BY <1>1, <2>3, <3>3 DEF SessionOK
  <2>4. CASE tx[v].op = "cite"
    <3>1. CiteOK(tx[v], chunks, overlap)
      BY <2>1, <2>4 DEF SessionOK
    <3>2. tx[v].held \cap t.held \subseteq overlap
      BY <1>6 DEF KnowledgeInv, OverlapSeen
    <3>3. ASSUME NEW d \in chunks', IdOf(d) \in tx[v].cited
          PROVE  /\ d.source \in tx[v].held
                 /\ d.source \notin overlap => d.status = "active"
      <4>1. PICK b \in chunks : IdOf(b) = IdOf(d)
        BY <3>1, <3>3 DEF CiteOK, Ids
      <4>2. d.source = b.source /\ b.source \in tx[v].held
        BY <3>1, <3>3, <4>1, IdNamesSource DEF CiteOK
      <4>3. CASE d \in new
        BY <1>4, <4>2, <4>3
      <4>4. CASE d \in old
        <5>1. PICK c \in chunks : /\ d.source = c.source /\ IdOf(d) = IdOf(c)
                                  /\ IdOf(c) \notin doomed => d = c
          BY <1>5, <4>4
        <5>2. CASE IdOf(c) \in doomed
          BY <1>3, <1>7, <3>2, <4>2, <5>1, <5>2
        <5>3. CASE IdOf(c) \notin doomed
          BY <3>1, <3>3, <4>2, <5>1, <5>3 DEF CiteOK
        <5> QED
          BY <5>2, <5>3
      <4> QED
        BY <1>1, <4>3, <4>4
    <3>4. CiteOK(tx[v], chunks', overlap)
      BY <1>11, <3>1, <3>3 DEF CiteOK
    <3> QED
      BY <1>1, <2>4, <3>4 DEF SessionOK
  <2> QED
    BY <2>1, <2>2, <2>3, <2>4 DEF SessionOK
<1>16. SessionsOK' /\ OverlapSeen'
  <2>1. SessionOK(Idle, source', chunks', citations', overlap', clock') /\ Idle.held = {}
    BY IdleOK
  <2> QED
    BY <1>1, <1>15, <2>1, SessionsStep DEF KnowledgeInv
<1> QED
  BY <1>9, <1>10, <1>12, <1>13, <1>16 DEF KnowledgeInv

LEMMA CiteStep ==
    ASSUME KnowledgeInv, NEW u \in Sessions, NEW g \in Suggestions, CommitCite(u, g)
    PROVE  KnowledgeInv'
<1> DEFINE t == tx[u]
<1>1. /\ t.op = "cite"
      /\ citations' = [citations EXCEPT ![g] = t.cited]
      /\ tx' = [tx EXCEPT ![u] = Idle]
      /\ UNCHANGED <<source, chunks, clock, overlap>>
  BY DEF CommitCite, Close
<1>2. CiteOK(t, chunks, overlap)
  BY <1>1 DEF KnowledgeInv, SessionsOK, SessionOK
<1>3. t.held = tx[u].held
  OBVIOUS
<1> HIDE DEF t
<1>4. citations'[g] = t.cited /\ \A h \in Suggestions \ {g} : citations'[h] = citations[h]
  BY <1>1 DEF KnowledgeInv, CitationsOK
<1>5. CitationsOK'
  <2>1. ASSUME NEW h \in Suggestions, citations'[h] # None
        PROVE  citations'[h] # {} /\ citations'[h] \subseteq Ids(chunks)
    <3>1. CASE h = g
      BY <1>2, <1>4, <3>1 DEF CiteOK
    <3>2. CASE h # g
      BY <1>4, <2>1, <3>2 DEF KnowledgeInv, CitationsOK
    <3> QED
      BY <3>1, <3>2
  <2> QED
    BY <1>1, <2>1 DEF KnowledgeInv, CitationsOK
<1>6. CitedChunkStays'
  <2>1. ASSUME NEW c \in chunks, NEW h \in Suggestions,
               citations'[h] # None, IdOf(c) \in citations'[h], c.source \notin overlap
        PROVE  c.status = "active"
    <3>1. CASE h = g
      BY <1>2, <1>4, <2>1, <3>1 DEF CiteOK
    <3>2. CASE h # g
      BY <1>4, <2>1, <3>2 DEF KnowledgeInv, CitedChunkStays, Cited
    <3> QED
      BY <3>1, <3>2
  <2> QED
    BY <1>1, <2>1 DEF CitedChunkStays, Cited
<1>7. RowsOK' /\ ChunksOK' /\ BatchesOK' /\ ClockOK' /\ ActiveMeansConverted'
  BY <1>1 DEF KnowledgeInv, RowsOK, ChunksOK, BatchesOK, ClockOK, ActiveMeansConverted
<1>8. ASSUME NEW v \in Sessions \ {u}
      PROVE  SessionOK(tx[v], source', chunks', citations', overlap', clock')
  <2>1. SessionOK(tx[v], source, chunks, citations, overlap, clock)
    BY DEF KnowledgeInv, SessionsOK
  <2>2. CASE tx[v].op # "chunk"
    BY <1>1, <2>1, <2>2 DEF SessionOK
  <2>3. CASE tx[v].op = "chunk"
    <3>1. ChunkingOK(tx[v], source, chunks, citations, overlap, clock)
      BY <2>1, <2>3 DEF SessionOK
    <3>2. tx[v].held \cap t.held \subseteq overlap
      BY <1>3 DEF KnowledgeInv, OverlapSeen
    <3>3. ASSUME tx[v].target \notin overlap, NEW id \in tx[v].doomed, id \in t.cited
          PROVE  FALSE
      <4>1. PICK c \in chunks : IdOf(c) = id /\ c.source = tx[v].target
        BY <3>1, <3>3 DEF ChunkingOK, IdsOf
      <4>2. c.source \in t.held
        BY <1>2, <3>3, <4>1 DEF CiteOK
      <4> QED
        BY <3>1, <3>2, <3>3, <4>1, <4>2 DEF ChunkingOK
    <3>4. ASSUME tx[v].target \notin overlap, NEW h \in Suggestions, citations'[h] # None
          PROVE  tx[v].doomed \cap citations'[h] = {}
      <4>1. CASE h = g
        BY <1>4, <3>3, <3>4, <4>1
      <4>2. CASE h # g
        BY <1>4, <3>1, <3>4, <4>2 DEF ChunkingOK
      <4> QED
        BY <4>1, <4>2
    <3>5. ChunkingOK(tx[v], source, chunks, citations', overlap, clock)
      BY <3>1, <3>4 DEF ChunkingOK
    <3> QED
      BY <1>1, <2>3, <3>5 DEF SessionOK
  <2> QED
    BY <2>2, <2>3
<1>9. SessionsOK' /\ OverlapSeen'
  <2>1. SessionOK(Idle, source', chunks', citations', overlap', clock') /\ Idle.held = {}
    BY IdleOK
  <2> QED
    BY <1>1, <1>8, <2>1, SessionsStep DEF KnowledgeInv
<1> QED
  BY <1>5, <1>6, <1>7, <1>9 DEF KnowledgeInv

-----------------------------------------------------------------------------
LEMMA NextInv == KnowledgeInv /\ [Next]_vars => KnowledgeInv'
<1> SUFFICES ASSUME KnowledgeInv, [Next]_vars PROVE KnowledgeInv'
  OBVIOUS
<1>1. CASE Creates
  BY <1>1, CreatesStep
<1>2. ASSUME NEW u \in Sessions, Begins(u) PROVE KnowledgeInv'
  BY <1>2, BeginsStep
<1>3. ASSUME NEW u \in Sessions, CommitConvert(u) PROVE KnowledgeInv'
  BY <1>3, ConvertStep
<1>4. ASSUME NEW u \in Sessions, CommitChunk(u) PROVE KnowledgeInv'
  BY <1>4, ChunkStep
<1>5. ASSUME NEW u \in Sessions, Rollback(u) PROVE KnowledgeInv'
  BY <1>5, CloseStep DEF Rollback
<1>6. ASSUME NEW u \in Sessions, NEW g \in Suggestions, CommitCite(u, g)
      PROVE  KnowledgeInv'
  BY <1>6, CiteStep
<1>7. CASE UNCHANGED vars
  <2>1. /\ source' = source /\ chunks' = chunks /\ citations' = citations
        /\ clock' = clock /\ tx' = tx /\ overlap' = overlap
    BY <1>7 DEF vars
  <2> QED
    BY <2>1 DEF KnowledgeInv, ClockOK, RowsOK, ChunksOK, BatchesOK, CitationsOK, SessionsOK,
                OverlapSeen, CitedChunkStays, ActiveMeansConverted, Cited
<1> QED
  BY <1>1, <1>2, <1>3, <1>4, <1>5, <1>6, <1>7 DEF Next, Commits

LEMMA InvType == KnowledgeInv => TypeOK
<1> SUFFICES ASSUME KnowledgeInv PROVE TypeOK
  OBVIOUS
<1>1. clock \in Nat /\ clock <= MaxTransactions
  BY DEF KnowledgeInv, ClockOK
<1>2. ASSUME NEW s \in Sources, source[s] # None
      PROVE  /\ source[s] \in Rows
             /\ source[s].conversion = "converted" => source[s].markdown # None
             /\ source[s].conversion = "pending" => source[s].markdown = None
  <2>1. RowOK(source[s], clock)
    BY <1>2 DEF KnowledgeInv, RowsOK
  <2> QED
    BY <1>1, <2>1, RowIsSomething DEF RowOK
<1>3. ASSUME NEW c \in chunks
      PROVE  /\ source[c.source] # None /\ source[c.source].markdown # None
             /\ c.position \in Nat
             /\ c.status \in {"active", "superseded"}
             /\ c.made \in 1..MaxTransactions
  BY <1>1, BoundsAssumption DEF KnowledgeInv, ChunksOK, ChunkOK
<1> QED
  BY <1>1, <1>2, <1>3, BoundsAssumption DEF TypeOK, KnowledgeInv, CitationsOK, Ids

-----------------------------------------------------------------------------
(* What is read back                                                       *)

\* The active chunks of a source are the rows of one document, added at once.
ActiveOf(chs, s) == {c \in chs : c.source = s /\ c.status = "active"}

WholeOf(s, active) ==
    \E drafts \in Drafts, made \in Nat : active = NewChunks(s, drafts, made)

WholeOK == \A s \in Sources : ActiveOf(chunks, s) # {} => WholeOf(s, ActiveOf(chunks, s))

LEMMA WholeAdded ==
    ASSUME KnowledgeInv, WholeOK, NEW s \in Sources, source[s] = None, NEW new,
           chunks' = chunks \cup new,
           \A c \in new : c.source = s /\ c.status = "active",
           new # {} => WholeOf(s, new)
    PROVE  WholeOK'
<1>1. \A c \in chunks : c.source # s
  BY DEF KnowledgeInv, ChunksOK, ChunkOK
<1>2. ASSUME NEW r \in Sources, ActiveOf(chunks', r) # {}
      PROVE  WholeOf(r, ActiveOf(chunks', r))
  <2>1. CASE r = s
    <3>1. ActiveOf(chunks', s) = new
      BY <1>1 DEF ActiveOf
    <3> QED
      BY <1>2, <2>1, <3>1
  <2>2. CASE r # s
    <3>1. ActiveOf(chunks', r) = ActiveOf(chunks, r)
      BY <2>2 DEF ActiveOf
    <3> QED
      BY <1>2, <3>1 DEF WholeOK
  <2> QED
    BY <2>1, <2>2
<1> QED
  BY <1>2 DEF WholeOK

LEMMA WholeCreates ==
    ASSUME KnowledgeInv, WholeOK, Creates
    PROVE  WholeOK'
<1>1. CASE UNCHANGED chunks
  BY <1>1 DEF WholeOK
<1>2. ASSUME NEW s \in Sources, NEW a \in Scopes, NEW f \in Formats, NEW p \in Sources,
             NEW format \in Formats \cup {None}, NEW c \in Contents \cup {None},
             NEW max \in Limits, Revise(s, p, f, format, a, c, max)
      PROVE  WholeOK'
  <2>1. source[s] = None /\ clock' \in Nat
    BY <1>2, TickNat DEF Revise, KnowledgeInv
  <2>2. \/ chunks' = chunks
        \/ \E drafts \in Drafts : chunks' = chunks \cup NewChunks(s, drafts, clock')
    BY <1>2, RevisionOK
  <2>3. ASSUME NEW drafts \in Drafts, chunks' = chunks \cup NewChunks(s, drafts, clock')
        PROVE  WholeOK'
    <3> DEFINE new == NewChunks(s, drafts, clock')
    <3>1. \A d \in new : d.source = s /\ d.status = "active"
      BY NewChunksOK
    <3>2. WholeOf(s, new)
      BY <2>1 DEF WholeOf
    <3>3. chunks' = chunks \cup new
      BY <2>3
    <3> HIDE DEF new
    <3> QED
      BY <2>1, <3>1, <3>2, <3>3, WholeAdded
  <2> QED
    BY <1>1, <2>2, <2>3
<1>3. \A f \in Formats : \A format \in {f} \cup Named : format \in Formats \cup {None}
  BY FormatIsFormat
<1>4. ASSUME NEW s \in Sources, NEW a \in Scopes, NEW f \in Formats, NEW format \in {f} \cup Named,
             NEW p \in Sources, NEW c \in Contents \cup {None}, NEW max \in Limits,
             Revise(s, p, f, format, a, c, max)
      PROVE  WholeOK'
  BY <1>2, <1>3, <1>4
<1>5. \A s, p, f, format, a, c :
          \/ Register(s, f, format, a) \/ RegisterMarkdown(s, format, c, a)
          \/ CreateVersion(s, p, f, format, a)
          => WholeOK'
  BY <1>1 DEF Register, RegisterMarkdown, CreateVersion
<1> QED
  BY <1>4, <1>5 DEF Creates

\* The chunks of other sources stay; those of the session's source are the new
\* ones, or they are as they were, or none of them is active.
LEMMA WholeChunk ==
    ASSUME KnowledgeInv, WholeOK, NEW u \in Sessions, CommitChunk(u)
    PROVE  WholeOK'
<1> DEFINE t == tx[u]
           s == t.target
           doomed == t.doomed
           new == NewChunks(s, t.drafts, t.began)
           old == Retired(doomed)
<1>1. t.op = "chunk" /\ PositionsFree(s, new) /\ chunks' = old \cup new
  BY DEF CommitChunk
<1>2. ChunkingOK(t, source, chunks, citations, overlap, clock)
  BY <1>1 DEF KnowledgeInv, SessionsOK, SessionOK
<1>3. /\ s \in Sources /\ t.drafts \in Drafts /\ t.began \in Nat
      /\ doomed = {} \/ doomed = IdsOf(chunks, s)
  BY <1>2 DEF ChunkingOK
<1>4. /\ \A c \in new : c.source = s /\ c.status = "active"
      /\ new # {} => \E c \in new : c.position = 0
      /\ WholeOf(s, new)
  BY <1>3, NewChunksOK DEF WholeOf
<1>5. \A d \in old : \E c \in chunks :
            /\ d.source = c.source
            /\ IdOf(c) \in doomed => d.status = "superseded"
            /\ IdOf(c) \notin doomed => d = c
  BY RetiredRows DEF KnowledgeInv
<1>6. \A c \in chunks : IdOf(c) \notin doomed => c \in old
  BY DEF Retired
<1> HIDE DEF t, s, doomed, new, old
<1>7. \A c \in chunks : IdOf(c) \in doomed => c.source = s
  BY <1>3, IdNamesSource DEF IdsOf
<1>8. ASSUME NEW r \in Sources, ActiveOf(chunks', r) # {}
      PROVE  WholeOf(r, ActiveOf(chunks', r))
  <2>1. CASE r # s
    <3>1. ActiveOf(chunks', r) = ActiveOf(chunks, r)
      BY <1>1, <1>4, <1>5, <1>6, <1>7, <2>1 DEF ActiveOf
    <3> QED
      BY <1>8, <3>1 DEF WholeOK
  <2>2. CASE r = s /\ new # {}
    <3>1. \A c \in chunks : c.source # s
      <4>1. ASSUME NEW c \in chunks, c.source = s PROVE FALSE
        <5>1. PICK d \in new : d.position = 0
          BY <1>4, <2>2
        <5>2. OneBatch(chunks, s)
          BY <1>3 DEF KnowledgeInv, BatchesOK
        <5>3. PICK e \in chunks : e.source = s /\ e.position = 0
          BY <4>1, <5>2 DEF OneBatch
        <5> QED
          BY <1>1, <5>1, <5>3 DEF PositionsFree, RowsOf
      <4> QED
        BY <4>1
    <3>2. ActiveOf(chunks', s) = new
      BY <1>1, <1>4, <1>5, <3>1 DEF ActiveOf
    <3> QED
      BY <1>4, <2>2, <3>2
  <2>3. CASE r = s /\ new = {} /\ doomed = {}
    <3>1. ActiveOf(chunks', s) = ActiveOf(chunks, s)
      BY <1>1, <1>5, <1>6, <2>3 DEF ActiveOf
    <3> QED
      BY <1>8, <2>3, <3>1 DEF WholeOK
  <2>4. CASE r = s /\ new = {} /\ doomed = IdsOf(chunks, s)
    <3>1. \A d \in old : d.source = s => d.status = "superseded"
      BY <1>5, <2>4 DEF IdsOf
    <3>2. ActiveOf(chunks', s) = {}
      BY <1>1, <2>4, <3>1 DEF ActiveOf
    <3> QED
      BY <1>8, <2>4, <3>2
  <2> QED
    BY <1>3, <2>1, <2>2, <2>3, <2>4
<1> QED
  BY <1>8 DEF WholeOK

LEMMA WholeNext == KnowledgeInv /\ WholeOK /\ [Next]_vars => WholeOK'
<1> SUFFICES ASSUME KnowledgeInv, WholeOK, [Next]_vars PROVE WholeOK'
  OBVIOUS
<1>1. CASE UNCHANGED chunks
  BY <1>1 DEF WholeOK
<1>2. CASE Creates
  BY <1>2, WholeCreates
<1>3. ASSUME NEW u \in Sessions, Begins(u) PROVE WholeOK'
  BY <1>1, <1>3 DEF Begins, BeginConvert, BeginChunk, BeginCite, Begin, rows
<1>4. ASSUME NEW u \in Sessions, Commits(u) PROVE WholeOK'
  <2>1. CASE CommitChunk(u)
    BY <2>1, WholeChunk
  <2>2. CASE ~CommitChunk(u)
    BY <1>1, <1>4, <2>2 DEF Commits, CommitConvert, Rollback, CommitCite, rows
  <2> QED
    BY <2>1, <2>2
<1> QED
  BY <1>1, <1>2, <1>3, <1>4 DEF Next, vars

\* Chunk rows, ordered by position, are drafts.
ReadsBack(active, drafts) ==
    LET n == Len(drafts)
        found == [i \in 1..n |-> CHOOSE c \in active : c.position = i - 1]
    IN
    /\ n \in Nat /\ Cardinality(active) = n
    /\ {c.position : c \in active} = 0..n - 1
    /\ \A i \in 1..n : found[i].path = drafts[i].path /\ found[i].blocks = drafts[i].blocks

\* The rows of a document are its chunks.
LEMMA RowsReadBack ==
    ASSUME NEW s, NEW document \in Documents, NEW max \in Limits, NEW made, NEW active,
           active = NewChunks(s, Chunked(document, max), made)
    PROVE  ReadsBack(active, ChunkDrafts(document, max))
<1> DEFINE drafts == ChunkDrafts(document, max)
           n == Len(drafts)
           found == [i \in 1..n |-> CHOOSE c \in active : c.position = i - 1]
           row == [i \in 1..n |-> [source |-> s, position |-> i - 1, path |-> drafts[i].path,
                                   blocks |-> drafts[i].blocks, status |-> "active",
                                   made |-> made]]
<1>1. drafts \in Seq(ChunkSet(Range(document))) /\ Chunked(document, max) = drafts
  BY DocumentsAreCut
<1> HIDE DEF drafts
<1>2. n \in Nat /\ DOMAIN drafts = 1..n
  BY <1>1
<1>3. active = {row[i] : i \in 1..n}
  BY <1>1, <1>2 DEF NewChunks
<1>4. /\ DOMAIN row = 1..n
      /\ \A i \in 1..n : /\ row[i].position = i - 1
                         /\ row[i].path = drafts[i].path /\ row[i].blocks = drafts[i].blocks
  OBVIOUS
<1> HIDE DEF row, n
<1>5. \A i, j \in 1..n : row[i].position = j - 1 => i = j
  BY <1>2, <1>4
<1>6. Cardinality(active) = n
  <2> DEFINE at == [i \in 1..n |-> row[i]]
  <2>1. at \in Bijection(1..n, active)
    <3>1. at \in [1..n -> active] /\ \A i \in 1..n : at[i] = row[i]
      BY <1>3
    <3>2. \A i, j \in 1..n : at[i] = at[j] => i = j
      BY <1>4, <1>5, <3>1
    <3>3. \A c \in active : \E i \in 1..n : at[i] = c
      BY <1>3, <3>1
    <3> HIDE DEF at
    <3> QED
      BY <3>1, <3>2, <3>3 DEF Bijection, Injection, Surjection, IsInjective
  <2>2. ExistsBijection(1..n, active)
    BY <2>1 DEF ExistsBijection
  <2> QED
    BY <1>2, <2>2, FS_CountingElements
<1>7. {c.position : c \in active} = 0..n - 1
  <2>1. \A i \in 1..n : i - 1 \in 0..n - 1
    BY <1>2
  <2>2. \A p \in 0..n - 1 : p + 1 \in 1..n /\ (p + 1) - 1 = p
    BY <1>2
  <2> QED
    BY <1>3, <1>4, <2>1, <2>2
<1>8. ASSUME NEW i \in 1..n
      PROVE  found[i].path = drafts[i].path /\ found[i].blocks = drafts[i].blocks
  <2>1. row[i] \in active /\ row[i].position = i - 1
    BY <1>3, <1>4
  <2>2. \A c \in active : c.position = i - 1 => c = row[i]
    BY <1>3, <1>5
  <2>3. found[i] = row[i]
    BY <2>1, <2>2
  <2> QED
    BY <1>4, <2>3
<1> QED
  BY <1>2, <1>6, <1>7, <1>8 DEF n, drafts, ReadsBack

LEMMA WholeReadBack == WholeOK => ChunksReadBack
<1> SUFFICES ASSUME WholeOK, NEW s \in Sources, ActiveChunks(s) # {}
             PROVE  LET n == Cardinality(ActiveChunks(s))
                        found == [i \in 1..n |-> CHOOSE c \in ActiveChunks(s) : c.position = i - 1]
                        text == BlocksOf(found, n)
                    IN
                    /\ {c.position : c \in ActiveChunks(s)} = 0..n - 1
                    /\ text \in Documents
                    /\ KeepsOutline(found, text)
                    /\ \E max \in Limits : /\ Pieces(found) = Pieces(Chunked(text, max))
                                          /\ LongHasReason(found, max)
  BY DEF ChunksReadBack
<1> DEFINE active == ActiveChunks(s)
           n == Cardinality(active)
           found == [i \in 1..n |-> CHOOSE c \in active : c.position = i - 1]
<1>1. PICK document \in Documents, max \in Limits, made \in Nat :
            active = NewChunks(s, Chunked(document, max), made)
  <2>1. active = ActiveOf(chunks, s)
    BY DEF ActiveOf, ActiveChunks, RowsOf
  <2> QED
    BY <2>1 DEF WholeOK, WholeOf, Drafts
<1> DEFINE drafts == ChunkDrafts(document, max)
<1>2. /\ n \in Nat /\ Len(drafts) = n
      /\ {c.position : c \in active} = 0..n - 1
      /\ \A i \in 1..n : found[i].path = drafts[i].path /\ found[i].blocks = drafts[i].blocks
  <2> HIDE DEF active
  <2> DEFINE k == Len(drafts)
             back == [i \in 1..k |-> CHOOSE c \in active : c.position = i - 1]
  <2>1. /\ k \in Nat /\ Cardinality(active) = k
        /\ {c.position : c \in active} = 0..k - 1
        /\ \A i \in 1..k : back[i].path = drafts[i].path /\ back[i].blocks = drafts[i].blocks
    <3>1. ReadsBack(active, drafts)
      BY <1>1, RowsReadBack
    <3> HIDE DEF drafts
    <3> QED
      BY <3>1 DEF ReadsBack
  <2>2. n = k
    BY <2>1
  <2>3. found = back
    BY <2>2
  <2> HIDE DEF found, n, back, k, drafts
  <2>4. Len(drafts) = k
    BY DEF k
  <2> QED
    BY <2>1, <2>2, <2>3, <2>4
<1>3. DOMAIN found = 1..n /\ DOMAIN drafts = 1..n
  <2>1. drafts \in Seq(ChunkSet(Range(document)))
    BY DocumentsAreCut
  <2> HIDE DEF drafts
  <2> QED
    BY <1>2, <2>1
<1>4. IsDocument(document) /\ max \in Nat /\ Chunked(document, max) = drafts
  BY DocumentsAreCut, BoundsAssumption
<1>5. /\ Partitions(drafts, document) /\ KeepsOutline(drafts, document)
      /\ LongHasReason(drafts, max)
  BY <1>4, ChunksPartitionDocument, ChunksKeepOutline, LongChunkHasReason
<1> HIDE DEF active, n, found, drafts
<1>6. \A m \in 0..n : BlocksOf(found, m) = BlocksOf(drafts, m)
  <2>1. ASSUME NEW m \in 0..n PROVE BlocksOf(found, m) = BlocksOf(drafts, m)
    <3>1. \A i \in 1..m : i \in 1..n
      BY <1>2
    <3>2. [i \in 1..m |-> found[i].blocks] = [i \in 1..m |-> drafts[i].blocks]
      BY <1>2, <3>1
    <3> QED
      BY <3>2 DEF BlocksOf
  <2> QED
    BY <2>1
<1>7. BlocksOf(found, n) = document
  <2>1. n \in 0..n
    BY <1>2
  <2> QED
    BY <1>2, <1>5, <1>6, <2>1 DEF Partitions
<1>8. KeepsOutline(found, document)
  <2>1. ASSUME NEW i \in 1..n
        PROVE  /\ \A k \in DOMAIN found[i].blocks \ {1} : found[i].blocks[k].level = 0
               /\ IsOutline(found[i].path, document, Len(BlocksOf(found, i - 1)) + 1)
    <3>1. i - 1 \in 0..n
      BY <1>2
    <3>2. /\ \A k \in DOMAIN drafts[i].blocks \ {1} : drafts[i].blocks[k].level = 0
          /\ IsOutline(drafts[i].path, document, Len(BlocksOf(drafts, i - 1)) + 1)
      BY <1>3, <1>5 DEF KeepsOutline
    <3>3. BlocksOf(found, i - 1) = BlocksOf(drafts, i - 1)
      BY <1>6, <3>1
    <3> QED
      BY <1>2, <3>2, <3>3
  <2> QED
    BY <1>3, <2>1 DEF KeepsOutline
<1>9. LongHasReason(found, max)
  BY <1>2, <1>3, <1>5 DEF LongHasReason
<1>10. Pieces(found) = Pieces(Chunked(document, max))
  BY <1>2, <1>3, <1>4 DEF Pieces
<1>11. \E m \in Limits : /\ Pieces(found) = Pieces(Chunked(document, m))
                        /\ LongHasReason(found, m)
  BY <1>9, <1>10
<1> QED
  BY <1>2, <1>7, <1>8, <1>11 DEF n, found, active

LEMMA InvBatches == KnowledgeInv => NothingReplacesChunks
BY DEF KnowledgeInv, BatchesOK, OneBatch, NothingReplacesChunks, RowsOf, ActiveChunks

LEMMA Invariance == Spec => []KnowledgeInv
BY InitInv, NextInv, PTL DEF Spec

\* Whatever format a filename or a caller's metadata gives a source, one that is
\* converted has Markdown, a pending one has none, one with chunks never loses its
\* Markdown to a later conversion, and what a suggestion cites exists
\* (knowledge_library.py:399-401, :497, :568, :877-894).
THEOREM KnowledgeTypeCorrect == Spec => []TypeOK
BY Invariance, InvType, PTL

\* However sessions interleave, and however a text is cut, superseded chunks are
\* followed by no active ones (knowledge_library.py:598, models/knowledge.py:66).
THEOREM ReplacementNeverReplaces == Spec => []NothingReplacesChunks
BY Invariance, InvBatches, PTL

\* Unless two sessions held its source at once, a cited chunk stays active, and
\* a source is offered exactly when its last conversion succeeded
\* (knowledge_library.py:588-596, :497-499, :894).
THEOREM KnowledgeSafe == Spec => [](CitedChunkStays /\ ActiveMeansConverted)
<1>1. KnowledgeInv => CitedChunkStays /\ ActiveMeansConverted
  BY DEF KnowledgeInv
<1> QED
  BY <1>1, Invariance, PTL

\* However sessions interleave, the active chunks of a source are those of one
\* document cut in one way, whole and in order, each under its headings and none
\* longer than it may be without a reason (knowledge_library.py:532, :569-620,
\* :932-1011).
THEOREM ChunksAreReadBack == Spec => []ChunksReadBack
<1>1. Init => WholeOK
  BY DEF Init, WholeOK, ActiveOf
<1> QED
  BY <1>1, Invariance, WholeNext, WholeReadBack, PTL DEF Spec
=============================================================================
