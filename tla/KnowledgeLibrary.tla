-------------------------- MODULE KnowledgeLibrary --------------------------
(***************************************************************************)
(* Knowledge sources, their conversion to Markdown, their chunks, and the  *)
(* rubric suggestions that cite chunks, in one organization:               *)
(* app/db/services/knowledge_library.py, and create_rubric_suggestion of   *)
(* rubric_suggestions.py.                                                  *)
(*                                                                         *)
(* As in Authoring, an operation reads in one step and commits in another, *)
(* writes the columns that differ from what it loaded, and is refused by   *)
(* an error or, at its commit, by a unique constraint.                     *)
(***************************************************************************)
EXTENDS MarkdownChunks, FiniteSets

CONSTANTS
    None,
    Sources,          \* rows of knowledge_sources: a revision is a row of its own
    Suggestions,
    Sessions,         \* database sessions that may be open at the same time
    Contents,         \* the texts a caller may send, as sequences of blocks
    Title,            \* the block a title becomes
    Scopes,           \* access scopes in use
    Queries,          \* sequences of query terms
    Limit,            \* limit of retrieve_candidate_chunks
    Named,            \* the source_format a caller's metadata may give, None for an empty one
    Limits,           \* the max_characters callers cut with
    Chunked(_, _),    \* build_markdown_chunk_drafts of a document: [path, blocks]
    MaxTransactions   \* bound: transactions begun

\* "other" stands for the formats without a local converter.
Formats == {"markdown", "text", "other"}

AccessScopes == {"private", "course", "organization", "subject_pack", "public_safe"}

\* convert_plain_text_to_markdown: a title unless the text begins with one.  (Text
\* that begins with # and is no heading goes without; no content here does.)
Normalized(text) ==
    IF text # <<>> /\ Head(text).level > 0 THEN text ELSE <<Title>> \o text

\* The Markdown of a text in some format.
Markdown(format, text) == IF format = "markdown" THEN text ELSE Normalized(text)

Documents == Contents \cup {Normalized(c) : c \in Contents}

\* The rows of knowledge_sources; previous names the source a revision was made of,
\* format is the source_format of its metadata_payload, None without one.
Rows == [version : 1..MaxTransactions, previous : Sources \cup {None},
         format : Formats \cup {None}, scope : Scopes,
         conversion : {"pending", "converted", "unsupported", "failed"},
         status : {"draft", "active"}, markdown : Documents \cup {None}]

ASSUME NoneAssumption ==
    /\ None \notin Formats
    /\ None \notin Sources \cup Suggestions \cup Contents \cup Documents \cup Rows
ASSUME NamedAssumption == Named \subseteq Formats \cup {None}
ASSUME ScopesAssumption == Scopes \subseteq AccessScopes
ASSUME ContentsAssumption == IsDocument(<<Title>>) /\ \A c \in Contents : IsDocument(c)
\* A constant, for an instance to compute it once.
ASSUME ChunkedAssumption ==
    \A d \in Documents, max \in Limits : Chunked(d, max) = ChunkDrafts(d, max)
ASSUME BoundsAssumption == Limits \subseteq Nat /\ Limit \in Nat /\ MaxTransactions \in Nat

VARIABLES
    source,     \* knowledge_sources rows, None before the row exists
    chunks,     \* knowledge_chunks rows
    citations,  \* the chunk ids a suggestion cites, None before its row exists
    clock,      \* transactions begun
    tx,         \* what each session has loaded and is about to write
    overlap     \* history: the sources two sessions held at the same time, ever

rows == <<source, chunks, citations>>
vars == <<source, chunks, citations, clock, tx, overlap>>

\* A row as it is registered: the conversion is decided by the format f of the
\* filename, which a source_format in the caller's metadata replaces in the row.
Registered(version, previous, f, format, scope) ==
    [version |-> version, previous |-> previous, format |-> format, scope |-> scope,
     conversion |-> IF f = "other" THEN "unsupported" ELSE "pending",
     status |-> "draft", markdown |-> None]

\* A session: target is the source it works on, loaded its row, held the
\* sources it decided on, row what its conversion makes of the row, drafts the
\* chunks it is to add, doomed the ids of those it is to supersede, cited the
\* ids it is to cite.
Idle == [op |-> "idle", target |-> None, loaded |-> None, held |-> {}, row |-> None,
         drafts |-> <<>>, doomed |-> {}, cited |-> {}, began |-> 0]

Init ==
    /\ source = [s \in Sources |-> None]
    /\ chunks = {}
    /\ citations = [g \in Suggestions |-> None]
    /\ clock = 0
    /\ tx = [u \in Sessions |-> Idle]
    /\ overlap = {}

-----------------------------------------------------------------------------
(* Sessions and rows                                                       *)

Tick == clock < MaxTransactions /\ clock' = clock + 1

Begin(u, t) ==
    /\ tx[u].op = "idle"
    /\ Tick
    /\ tx' = [tx EXCEPT ![u] = [t EXCEPT !.began = clock + 1]]
    /\ overlap' = overlap \cup (t.held \cap UNION {tx[v].held : v \in Sessions})
    /\ UNCHANGED rows

Close(u) ==
    /\ tx' = [tx EXCEPT ![u] = Idle]
    /\ UNCHANGED <<clock, overlap>>

\* Any error rolls a session back (app/db/session.py:15-20).
Rollback(u) ==
    /\ tx[u].op # "idle"
    /\ Close(u)
    /\ UNCHANGED rows

\* A column is written if it differs from the value that was loaded.
Written(current, loaded, value) == IF value = loaded THEN current ELSE value

IdOf(chunk) == <<chunk.source, chunk.position, chunk.made>>

RowsOf(s) == {c \in chunks : c.source = s}

ActiveChunks(s) == {c \in RowsOf(s) : c.status = "active"}

\* The rows create_knowledge_chunks adds for some drafts.
NewChunks(s, drafts, made) ==
    {[source |-> s, position |-> i - 1, path |-> drafts[i].path, blocks |-> drafts[i].blocks,
      status |-> "active", made |-> made] : i \in DOMAIN drafts}

-----------------------------------------------------------------------------
(* Sources and versions                                                    *)

\* register_knowledge_source, of a file whose name is of format f.
Register(s, f, format, scope) ==
    /\ source[s] = None
    /\ source' = [source EXCEPT ![s] = Registered(1, None, f, format, scope)]
    /\ Tick
    /\ UNCHANGED <<chunks, citations, tx, overlap>>

\* register_markdown_knowledge_source: the source comes with its Markdown, and its
\* row says nothing of the filename.
RegisterMarkdown(s, format, text, scope) ==
    /\ source[s] = None
    /\ source' = [source EXCEPT ![s] =
                      [version |-> 1, previous |-> None, format |-> format, scope |-> scope,
                       conversion |-> "converted", status |-> "active", markdown |-> text]]
    /\ Tick
    /\ UNCHANGED <<chunks, citations, tx, overlap>>

\* create_knowledge_source_version: the row it is made of keeps its version for good.
NextVersion(p, f, format, scope) == Registered(source[p].version + 1, p, f, format, scope)

CreateVersion(s, p, f, format, scope) ==
    /\ source[s] = None /\ source[p] # None
    /\ source' = [source EXCEPT ![s] = NextVersion(p, f, format, scope)]
    /\ Tick
    /\ UNCHANGED <<chunks, citations, tx, overlap>>

\* A converted row: the artifact is new, whatever the text.
Converted(row, markdown) ==
    [row EXCEPT !.conversion = "converted", !.status = "active", !.markdown = markdown]

\* Mutant: a conversion without output leaves the source as active as it was.
KeepStatus(row, conversion) == [row EXCEPT !.conversion = conversion]

\* _record_conversion_without_output: Markdown there is stays.
Unconverted(row, conversion) == [row EXCEPT !.conversion = conversion, !.status = "draft"]

\* The format a conversion goes by: that of the filename it is given only if the
\* row has none.
FormatOf(row, f) == IF row.format = None THEN f ELSE row.format

\* What convert_knowledge_source_to_markdown makes of a row.
Conversion(row, f, text) ==
    IF FormatOf(row, f) = "other" THEN Unconverted(row, "unsupported")
    ELSE IF text = None THEN Unconverted(row, "failed")
    ELSE Converted(row, Markdown(FormatOf(row, f), text))

\* revise_knowledge_source: a version, its conversion and its chunks at once.  The
\* chunks are of the text in the format of the filename, whatever the row says.
Revise(s, p, f, format, scope, text, max) ==
    LET row == Conversion(NextVersion(p, f, format, scope), f, text) IN
    /\ source[s] = None /\ source[p] # None
    /\ source' = [source EXCEPT ![s] = row]
    /\ chunks' = IF row.conversion = "converted"
                 THEN chunks \cup NewChunks(s, Chunked(Markdown(f, text), max), clock + 1)
                 ELSE chunks
    /\ Tick
    /\ UNCHANGED <<citations, tx, overlap>>

BeginConvert(u, s, f, text) ==
    /\ source[s] # None
    /\ Begin(u, [Idle EXCEPT !.op = "convert", !.target = s, !.held = {s},
                             !.loaded = source[s], !.row = Conversion(source[s], f, text)])

\* Mutant: the row is written whole, as the session has it.
StoredWhole(current, loaded, row) == row

\* The columns of a stored row that a conversion of the loaded row writes.
Stored(current, loaded, row) ==
    [current EXCEPT
        !.conversion = Written(@, loaded.conversion, row.conversion),
        !.status = Written(@, loaded.status, row.status),
        !.markdown = IF row.conversion = "converted" THEN row.markdown ELSE @]

CommitConvert(u) ==
    LET t == tx[u] IN
    /\ t.op = "convert"
    /\ source' = [source EXCEPT ![t.target] = Stored(@, t.loaded, t.row)]
    /\ Close(u)
    /\ UNCHANGED <<chunks, citations>>

-----------------------------------------------------------------------------
(* Chunks                                                                  *)

\* _chunk_is_cited_by_suggestion: a suggestion in any status counts.
Cited(id) == \E g \in Suggestions : citations[g] # None /\ id \in citations[g]

\* The content hashes of chunks, by position.
Texts(rowset) == {<<c.position, c.blocks>> : c \in rowset}

\* Mutant: chunks are replaced whether they are cited or not.
MayReplaceAny(s, replace) == replace

\* The active chunks a caller may supersede.
MayReplace(s, replace) == replace /\ \A c \in ActiveChunks(s) : ~Cited(IdOf(c))

\* create_knowledge_chunks, up to its writes.  Equal content returns the chunks
\* there are; different content is refused unless it may replace them.
BeginChunk(u, s, drafts, replace) ==
    /\ source[s] # None
    /\ source[s].conversion = "converted" /\ source[s].markdown # None
    /\ ActiveChunks(s) # {} =>
          /\ Texts(ActiveChunks(s)) # Texts(NewChunks(s, drafts, 0))
          /\ MayReplace(s, replace)
    /\ Begin(u, [Idle EXCEPT !.op = "chunk", !.target = s, !.held = {s},
                             !.loaded = source[s], !.drafts = drafts,
                             !.doomed = {IdOf(c) : c \in ActiveChunks(s)}])

\* Mutant: the constraints reject a position that an active chunk has.
FreeOfActive(s, new) ==
    \A c \in ActiveChunks(s), d \in new :
        c.position # d.position \/ IdOf(c) \in UNION {tx[u].doomed : u \in Sessions}

\* Mutant: the constraints are on a position and the content there.
ContentsFree(s, new) == Texts(RowsOf(s)) \cap Texts(new) = {}

\* The unique constraints on (knowledge_source_id, position) and
\* (knowledge_source_id, chunk_key): superseded rows count.
PositionsFree(s, new) == \A c \in RowsOf(s), d \in new : c.position # d.position

\* The chunks a session is to supersede are superseded.
Retired(doomed) ==
    {IF IdOf(c) \in doomed THEN [c EXCEPT !.status = "superseded"] ELSE c : c \in chunks}

\* An insertion that violates a constraint is rolled back.
CommitChunk(u) ==
    LET t == tx[u]
        new == NewChunks(t.target, t.drafts, t.began)
    IN
    /\ t.op = "chunk"
    /\ PositionsFree(t.target, new)
    /\ chunks' = Retired(t.doomed) \cup new
    /\ Close(u)
    /\ UNCHANGED <<source, citations>>

-----------------------------------------------------------------------------
(* Retrieval and citation                                                  *)

\* The terms of a query that a chunk contains, by their place in the query, and
\* those its heading path contains.
InText(chunk, query) ==
    {i \in DOMAIN query : \E j \in DOMAIN chunk.blocks : chunk.blocks[j].word = query[i]}

InPath(chunk, query) ==
    {i \in DOMAIN query : \E j \in DOMAIN chunk.path : chunk.path[j] = query[i]}

Score(chunk, query) ==
    Cardinality(InText(chunk, query) \cup InPath(chunk, query))
        + Cardinality(InPath(chunk, query))

\* The chunks the query of retrieve_candidate_chunks selects.
Retrievable(chosen, scopes) ==
    {c \in chunks : /\ c.status = "active"
                    /\ source[c.source].status = "active"
                    /\ source[c.source].scope \in scopes
                    /\ c.source \in chosen}

\* By score, then by position; equals in any order.
Precedes(c, d, query) ==
    \/ Score(c, query) > Score(d, query)
    \/ Score(c, query) = Score(d, query) /\ c.position < d.position

\* retrieve_candidate_chunks: what a caller can pick from its result, matching
\* chunks that come, with all that precede them, within the limit.
Picks(chosen, scopes, query) ==
    LET found == {c \in Retrievable(chosen, scopes) : Score(c, query) > 0} IN
    {pick \in UNION {kSubset(n, found) : n \in 1..Limit} :
        LET ahead == {c \in found : \E d \in pick : Precedes(c, d, query)} IN
        Cardinality(pick \cup ahead) <= Limit}

\* A caller retrieves chunks and sets out to suggest something that cites some.
BeginCite(u, chosen, scopes, query) ==
    \E pick \in Picks(chosen, scopes, query) :
        Begin(u, [Idle EXCEPT !.op = "cite", !.held = {c.source : c \in pick},
                              !.cited = {IdOf(c) : c \in pick}])

\* create_rubric_suggestion copies the citations; it does not look them up.
CommitCite(u, g) ==
    /\ tx[u].op = "cite"
    /\ citations[g] = None
    /\ citations' = [citations EXCEPT ![g] = tx[u].cited]
    /\ Close(u)
    /\ UNCHANGED <<source, chunks>>

-----------------------------------------------------------------------------
\* The drafts that callers can have made of what they send.
Drafts == {Chunked(d, max) : d \in Documents, max \in Limits}

Creates ==
    \E s \in Sources, a \in Scopes :
        \/ \E c \in Contents, format \in {None} \cup Named : RegisterMarkdown(s, format, c, a)
        \/ \E f \in Formats : \E format \in {f} \cup Named :
              \/ Register(s, f, format, a)
              \/ \E p \in Sources : CreateVersion(s, p, f, format, a)
              \/ \E p \in Sources, c \in Contents \cup {None}, max \in Limits :
                    Revise(s, p, f, format, a, c, max)

Begins(u) ==
    \/ \E s \in Sources, f \in Formats, c \in Contents \cup {None} : BeginConvert(u, s, f, c)
    \/ \E s \in Sources, drafts \in Drafts, replace \in BOOLEAN :
          BeginChunk(u, s, drafts, replace)
    \/ \E chosen \in SUBSET Sources, a \in SUBSET Scopes, q \in Queries :
          BeginCite(u, chosen, a, q)

Commits(u) ==
    \/ CommitConvert(u) \/ CommitChunk(u)
    \/ \E g \in Suggestions : CommitCite(u, g)
    \/ Rollback(u)

Next == Creates \/ \E u \in Sessions : Begins(u) \/ Commits(u)

Spec == Init /\ [][Next]_vars

-----------------------------------------------------------------------------
(* Properties                                                              *)

\* Every row is one the tables allow.  A source that is converted has Markdown, one
\* that is pending has none, and one with chunks keeps its Markdown, though a later
\* conversion may leave it failed or unsupported; what a suggestion cites exists
\* (knowledge_library.py:497, :568, :877-894).
TypeOK ==
    /\ \A s \in Sources : source[s] # None =>
          /\ source[s] \in Rows
          /\ source[s].conversion = "converted" => source[s].markdown # None
          /\ source[s].conversion = "pending" => source[s].markdown = None
    /\ \A c \in chunks :
          /\ source[c.source] # None /\ source[c.source].markdown # None
          /\ c.position \in Nat
          /\ c.status \in {"active", "superseded"}
          /\ c.made \in 1..MaxTransactions
    /\ \A g \in Suggestions : citations[g] # None =>
          citations[g] # {} /\ citations[g] \subseteq {IdOf(c) : c \in chunks}
    /\ clock \in 0..MaxTransactions

Pieces(drafts) == [i \in DOMAIN drafts |-> drafts[i].blocks]

\* The active chunks of a source are positions 0 and on of one document
\* somebody sent, whole, in reading order and cut in one way, each under its
\* headings and none longer than it may be without a reason: whatever the
\* interleaving, they are never a mixture of two texts or of two ways to cut one
\* (knowledge_library.py:532, :569-620, models/knowledge.py:66).
ChunksReadBack ==
    \A s \in Sources : ActiveChunks(s) # {} =>
        LET n == Cardinality(ActiveChunks(s))
            found == [i \in 1..n |-> CHOOSE c \in ActiveChunks(s) : c.position = i - 1]
            text == BlocksOf(found, n)
        IN
        /\ {c.position : c \in ActiveChunks(s)} = 0..n - 1
        /\ text \in Documents
        /\ KeepsOutline(found, text)
        /\ \E max \in Limits :
              Pieces(found) = Pieces(Chunked(text, max)) /\ LongHasReason(found, max)

\* A chunk that a suggestion cites stays active, unless two sessions held its
\* source at once: what a teacher follows from a suggestion is what retrieval
\* still offers (knowledge_library.py:588-596, :713).
CitedChunkStays ==
    \A c \in chunks : Cited(IdOf(c)) /\ c.source \notin overlap => c.status = "active"

\* Chunks that are superseded are replaced by nothing: their positions stay
\* taken, so a source with a superseded chunk has no active chunk, now or later
\* (knowledge_library.py:598-625, models/knowledge.py:66).
NothingReplacesChunks ==
    \A s \in Sources :
        (\E c \in RowsOf(s) : c.status = "superseded") => ActiveChunks(s) = {}

\* Unless two sessions held the source at once, what retrieval can offer is of
\* a source whose last conversion succeeded, and that source is offered: it is
\* active exactly when it is converted and has Markdown
\* (knowledge_library.py:497-499, :894, :669).
ActiveMeansConverted ==
    \A s \in Sources \ overlap : source[s] # None =>
        (source[s].status = "active" <=>
            source[s].conversion = "converted" /\ source[s].markdown # None)
=============================================================================
