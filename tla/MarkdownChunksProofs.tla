------------------------ MODULE MarkdownChunksProofs ------------------------
(***************************************************************************)
(* Proofs about MarkdownChunks, for every document: its chunks are the     *)
(* document, each under the headings it stands under, and none is longer   *)
(* than it may be without a reason.                                        *)
(***************************************************************************)
EXTENDS MarkdownChunks, FoldLemmas, SequenceTheorems

-----------------------------------------------------------------------------
(* The folds                                                               *)

\* What the folds do with one element.
KeepBelow(kept, heading, level) ==
    IF heading.level < level THEN Append(kept, heading) ELSE kept

Lengthened(n, block) == n + block.size + 2

DraftsOf(section, max) ==
    [i \in DOMAIN Parts(section.blocks, max) |->
        [path |-> section.path, blocks |-> Parts(section.blocks, max)[i]]]

AddSection(drafts, section, max) == drafts \o DraftsOf(section, max)

AllDrafts(sections, max) ==
    FoldLeft(LAMBDA drafts, section : drafts \o DraftsOf(section, max), <<>>, sections)

\* In what follows, run[i] is what a fold over d makes of its first i elements.
NoReader == [sections |-> <<>>, stack |-> <<>>, current |-> <<>>]

ReadsIn(A, B) == \A r \in A, b \in B : ReadBlock(r, b) \in A

\* A run of the reader, block by block, ends where its fold does.
LEMMA ReaderRun ==
    ASSUME NEW B, NEW d \in Seq(B), NEW A, NoReader \in A, ReadsIn(A, B)
    PROVE  \E run \in [0..Len(d) -> A] :
              /\ run[0] = NoReader
              /\ \A i \in 1..Len(d) : run[i] = ReadBlock(run[i - 1], d[i])
              /\ FoldLeft(ReadBlock, NoReader, d) = run[Len(d)]
<1> DEFINE n == Len(d)
<1>0. n \in Nat /\ DOMAIN d = 1..n /\ \A r \in A, i \in 1..n : ReadBlock(r, d[i]) \in A
  BY DEF ReadsIn
<1> HIDE DEF n
<1> DEFINE step == [i \in 1..n |-> [r \in A |-> ReadBlock(r, d[i])]]
           Rec(h) == [T \in SUBSET (1..n) |->
               IF T = {} THEN NoReader
               ELSE ReadBlock(h[T \ {Greatest(T)}], d[Greatest(T)])]
<1>1. \A i \in 1..n, r \in A : step[i][r] = ReadBlock(r, d[i])
  OBVIOUS
<1>2. LeftFoldArguments(n, A, NoReader, step)
  BY <1>0, <1>1 DEF LeftFoldArguments
<1> HIDE DEF step
<1>3. PICK g \in [SUBSET (1..n) -> A] : IsLeftFold(g, n, NoReader, step)
  BY <1>2, LeftFoldExists
<1>4. \A T \in SUBSET (1..n) :
         T # {} => g[T] = ReadBlock(g[T \ {Greatest(T)}], d[Greatest(T)])
  BY <1>0, <1>1, <1>3, GreatestIn DEF IsLeftFold
<1>5. g = Rec(g)
  BY <1>3, <1>4 DEF IsLeftFold
<1> DEFINE iter == CHOOSE h : h = Rec(h)
<1>6. iter = Rec(iter)
  <2> HIDE DEF Rec
  <2> QED
    BY <1>5
<1>7. FoldLeft(ReadBlock, NoReader, d) = iter[1..n]
  BY <1>0 DEF FoldLeft, MapThenFoldSet, Max, Greatest
<1> HIDE DEF iter
<1>8. iter[{}] = NoReader
  <2>1. {} \in SUBSET (1..n)
    OBVIOUS
  <2> QED
    BY <1>6, <2>1
<1>9. ASSUME NEW i \in 1..n PROVE iter[1..i] = ReadBlock(iter[1..i - 1], d[i])
  <2>1. iter[1..i] = ReadBlock(iter[(1..i) \ {Greatest(1..i)}], d[Greatest(1..i)])
    <3>1. 1..i \in SUBSET (1..n) /\ 1..i # {}
      BY <1>0, GreatestOfFirst
    <3> QED
      BY <1>6, <3>1
  <2> QED
    BY <1>0, <2>1, GreatestOfFirst
<1> DEFINE run == [i \in 0..n |-> iter[1..i]]
<1>10. run[0] = NoReader /\ run[n] = iter[1..n]
  BY <1>0, <1>8, RunOf
<1>11. \A i \in 1..n : run[i] = ReadBlock(run[i - 1], d[i])
  BY <1>0, <1>9, RunOf
<1>12. run = [i \in 0..n |-> run[i]]
  OBVIOUS
<1> HIDE DEF run
<1>13. run \in [0..n -> A]
  <2>1. \A i \in 1..n : run[i - 1] \in A => run[i] \in A
    BY <1>0, <1>11
  <2>2. run[0] \in A
    BY <1>10
  <2> QED
    BY <1>0, <1>12, <2>1, <2>2, RunStays
<1> QED
  BY <1>7, <1>10, <1>11, <1>13 DEF n

KeepsIn(A, B, level) == <<>> \in A /\ \A r \in A, b \in B : KeepBelow(r, b, level) \in A

\* A run that keeps headings, one by one, ends with those Below keeps.
LEMMA BelowRun ==
    ASSUME NEW B, NEW d \in Seq(B), NEW level, NEW A, KeepsIn(A, B, level)
    PROVE  \E run \in [0..Len(d) -> A] :
              /\ run[0] = <<>>
              /\ \A i \in 1..Len(d) : run[i] = KeepBelow(run[i - 1], d[i], level)
              /\ Below(d, level) = run[Len(d)]
<1> DEFINE n == Len(d)
<1>0. /\ n \in Nat /\ DOMAIN d = 1..n /\ <<>> \in A
      /\ \A r \in A, i \in 1..n : KeepBelow(r, d[i], level) \in A
  BY DEF KeepsIn
<1> HIDE DEF n
<1> DEFINE step == [i \in 1..n |-> [r \in A |-> KeepBelow(r, d[i], level)]]
           Rec(h) == [T \in SUBSET (1..n) |->
               IF T = {} THEN <<>>
               ELSE KeepBelow(h[T \ {Greatest(T)}], d[Greatest(T)], level)]
<1>1. \A i \in 1..n, r \in A : step[i][r] = KeepBelow(r, d[i], level)
  OBVIOUS
<1>2. LeftFoldArguments(n, A, <<>>, step)
  BY <1>0, <1>1 DEF LeftFoldArguments
<1> HIDE DEF step
<1>3. PICK g \in [SUBSET (1..n) -> A] : IsLeftFold(g, n, <<>>, step)
  BY <1>2, LeftFoldExists
<1>4. \A T \in SUBSET (1..n) :
         T # {} => g[T] = KeepBelow(g[T \ {Greatest(T)}], d[Greatest(T)], level)
  BY <1>0, <1>1, <1>3, GreatestIn DEF IsLeftFold
<1>5. g = Rec(g)
  BY <1>3, <1>4 DEF IsLeftFold
<1> DEFINE iter == CHOOSE h : h = Rec(h)
<1>6. iter = Rec(iter)
  <2> HIDE DEF Rec
  <2> QED
    BY <1>5
<1>7. Below(d, level) = iter[1..n]
  BY <1>0 DEF Below, KeepBelow,
         FoldLeft, MapThenFoldSet, Max, Greatest
<1> HIDE DEF iter
<1>8. iter[{}] = <<>>
  <2>1. {} \in SUBSET (1..n)
    OBVIOUS
  <2> QED
    BY <1>6, <2>1
<1>9. ASSUME NEW i \in 1..n PROVE iter[1..i] = KeepBelow(iter[1..i - 1], d[i], level)
  <2>1. iter[1..i] = KeepBelow(iter[(1..i) \ {Greatest(1..i)}], d[Greatest(1..i)], level)
    <3>1. 1..i \in SUBSET (1..n) /\ 1..i # {}
      BY <1>0, GreatestOfFirst
    <3> QED
      BY <1>6, <3>1
  <2> QED
    BY <1>0, <2>1, GreatestOfFirst
<1> DEFINE run == [i \in 0..n |-> iter[1..i]]
<1>10. run[0] = <<>> /\ run[n] = iter[1..n]
  BY <1>0, <1>8, RunOf
<1>11. \A i \in 1..n : run[i] = KeepBelow(run[i - 1], d[i], level)
  BY <1>0, <1>9, RunOf
<1>12. run = [i \in 0..n |-> run[i]]
  OBVIOUS
<1> HIDE DEF run
<1>13. run \in [0..n -> A]
  <2>1. \A i \in 1..n : run[i - 1] \in A => run[i] \in A
    BY <1>0, <1>11
  <2>2. run[0] \in A
    BY <1>0, <1>10
  <2> QED
    BY <1>0, <1>12, <2>1, <2>2, RunStays
<1> QED
  BY <1>7, <1>10, <1>11, <1>13 DEF n

\* A run that adds up lengths.
LEMMA LengthRun ==
    ASSUME NEW B, NEW d \in Seq(B), NEW A, 0 \in A,
           \A r \in A, b \in B : Lengthened(r, b) \in A
    PROVE  \E run \in [0..Len(d) -> A] :
              /\ run[0] = 0
              /\ \A i \in 1..Len(d) : run[i] = Lengthened(run[i - 1], d[i])
              /\ Length(d) = run[Len(d)] - 2
<1> DEFINE n == Len(d)
<1>0. n \in Nat /\ DOMAIN d = 1..n /\ \A r \in A, i \in 1..n : Lengthened(r, d[i]) \in A
  OBVIOUS
<1> HIDE DEF n
<1> DEFINE step == [i \in 1..n |-> [r \in A |-> Lengthened(r, d[i])]]
           Rec(h) == [T \in SUBSET (1..n) |->
               IF T = {} THEN 0
               ELSE Lengthened(h[T \ {Greatest(T)}], d[Greatest(T)])]
<1>1. \A i \in 1..n, r \in A : step[i][r] = Lengthened(r, d[i])
  OBVIOUS
<1>2. LeftFoldArguments(n, A, 0, step)
  BY <1>0, <1>1 DEF LeftFoldArguments
<1> HIDE DEF step
<1>3. PICK g \in [SUBSET (1..n) -> A] : IsLeftFold(g, n, 0, step)
  BY <1>2, LeftFoldExists
<1>4. \A T \in SUBSET (1..n) :
         T # {} => g[T] = Lengthened(g[T \ {Greatest(T)}], d[Greatest(T)])
  BY <1>0, <1>1, <1>3, GreatestIn DEF IsLeftFold
<1>5. g = Rec(g)
  BY <1>3, <1>4 DEF IsLeftFold
<1> DEFINE iter == CHOOSE h : h = Rec(h)
<1>6. iter = Rec(iter)
  <2> HIDE DEF Rec
  <2> QED
    BY <1>5
<1>7. Length(d) = iter[1..n] - 2
  BY <1>0 DEF Length, Lengthened,
         FoldLeft, MapThenFoldSet, Max, Greatest
<1> HIDE DEF iter
<1>8. iter[{}] = 0
  <2>1. {} \in SUBSET (1..n)
    OBVIOUS
  <2> QED
    BY <1>6, <2>1
<1>9. ASSUME NEW i \in 1..n PROVE iter[1..i] = Lengthened(iter[1..i - 1], d[i])
  <2>1. iter[1..i] = Lengthened(iter[(1..i) \ {Greatest(1..i)}], d[Greatest(1..i)])
    <3>1. 1..i \in SUBSET (1..n) /\ 1..i # {}
      BY <1>0, GreatestOfFirst
    <3> QED
      BY <1>6, <3>1
  <2> QED
    BY <1>0, <2>1, GreatestOfFirst
<1> DEFINE run == [i \in 0..n |-> iter[1..i]]
<1>10. run[0] = 0 /\ run[n] = iter[1..n]
  BY <1>0, <1>8, RunOf
<1>11. \A i \in 1..n : run[i] = Lengthened(run[i - 1], d[i])
  BY <1>0, <1>9, RunOf
<1>12. run = [i \in 0..n |-> run[i]]
  OBVIOUS
<1> HIDE DEF run
<1>13. run \in [0..n -> A]
  <2>1. \A i \in 1..n : run[i - 1] \in A => run[i] \in A
    BY <1>0, <1>11
  <2>2. run[0] \in A
    BY <1>10
  <2> QED
    BY <1>0, <1>12, <2>1, <2>2, RunStays
<1> QED
  BY <1>7, <1>10, <1>11, <1>13 DEF n

\* A run that cuts a section, block by block.
LEMMA PartRun ==
    ASSUME NEW max, NEW B, NEW d \in Seq(B), NEW A, NoPart \in A,
           \A r \in A, b \in B : AddBlock(r, b, max) \in A
    PROVE  \E run \in [0..Len(d) -> A] :
              /\ run[0] = NoPart
              /\ \A i \in 1..Len(d) : run[i] = AddBlock(run[i - 1], d[i], max)
              /\ AddBlocks(d, max) = run[Len(d)]
<1> DEFINE n == Len(d)
<1>0. n \in Nat /\ DOMAIN d = 1..n /\ \A r \in A, i \in 1..n : AddBlock(r, d[i], max) \in A
  OBVIOUS
<1> HIDE DEF n
<1> DEFINE step == [i \in 1..n |-> [r \in A |-> AddBlock(r, d[i], max)]]
           Rec(h) == [T \in SUBSET (1..n) |->
               IF T = {} THEN NoPart
               ELSE AddBlock(h[T \ {Greatest(T)}], d[Greatest(T)], max)]
<1>1. \A i \in 1..n, r \in A : step[i][r] = AddBlock(r, d[i], max)
  OBVIOUS
<1>2. LeftFoldArguments(n, A, NoPart, step)
  BY <1>0, <1>1 DEF LeftFoldArguments
<1> HIDE DEF step
<1>3. PICK g \in [SUBSET (1..n) -> A] : IsLeftFold(g, n, NoPart, step)
  BY <1>2, LeftFoldExists
<1>4. \A T \in SUBSET (1..n) :
         T # {} => g[T] = AddBlock(g[T \ {Greatest(T)}], d[Greatest(T)], max)
  BY <1>0, <1>1, <1>3, GreatestIn DEF IsLeftFold
<1>5. g = Rec(g)
  BY <1>3, <1>4 DEF IsLeftFold
<1> DEFINE iter == CHOOSE h : h = Rec(h)
<1>6. iter = Rec(iter)
  <2> HIDE DEF Rec
  <2> QED
    BY <1>5
<1>7. AddBlocks(d, max) = iter[1..n]
  BY <1>0 DEF AddBlocks, FoldLeft, MapThenFoldSet, Max, Greatest
<1> HIDE DEF iter
<1>8. iter[{}] = NoPart
  <2>1. {} \in SUBSET (1..n)
    OBVIOUS
  <2> QED
    BY <1>6, <2>1
<1>9. ASSUME NEW i \in 1..n PROVE iter[1..i] = AddBlock(iter[1..i - 1], d[i], max)
  <2>1. iter[1..i] = AddBlock(iter[(1..i) \ {Greatest(1..i)}], d[Greatest(1..i)], max)
    <3>1. 1..i \in SUBSET (1..n) /\ 1..i # {}
      BY <1>0, GreatestOfFirst
    <3> QED
      BY <1>6, <3>1
  <2> QED
    BY <1>0, <2>1, GreatestOfFirst
<1> DEFINE run == [i \in 0..n |-> iter[1..i]]
<1>10. run[0] = NoPart /\ run[n] = iter[1..n]
  BY <1>0, <1>8, RunOf
<1>11. \A i \in 1..n : run[i] = AddBlock(run[i - 1], d[i], max)
  BY <1>0, <1>9, RunOf
<1>12. run = [i \in 0..n |-> run[i]]
  OBVIOUS
<1> HIDE DEF run
<1>13. run \in [0..n -> A]
  <2>1. \A i \in 1..n : run[i - 1] \in A => run[i] \in A
    BY <1>0, <1>11
  <2>2. run[0] \in A
    BY <1>10
  <2> QED
    BY <1>0, <1>12, <2>1, <2>2, RunStays
<1> QED
  BY <1>7, <1>10, <1>11, <1>13 DEF n

AddsIn(A, B, max) == <<>> \in A /\ \A r \in A, b \in B : AddSection(r, b, max) \in A

\* A run that collects the chunks of sections.
LEMMA DraftsRun ==
    ASSUME NEW max, NEW B, NEW d \in Seq(B), NEW A, AddsIn(A, B, max)
    PROVE  \E run \in [0..Len(d) -> A] :
              /\ run[0] = <<>>
              /\ \A i \in 1..Len(d) : run[i] = AddSection(run[i - 1], d[i], max)
              /\ AllDrafts(d, max) = run[Len(d)]
<1> DEFINE n == Len(d)
<1>0. /\ n \in Nat /\ DOMAIN d = 1..n /\ <<>> \in A
      /\ \A r \in A, i \in 1..n : AddSection(r, d[i], max) \in A
  BY DEF AddsIn
<1> HIDE DEF n
<1> DEFINE step == [i \in 1..n |-> [r \in A |-> AddSection(r, d[i], max)]]
           Rec(h) == [T \in SUBSET (1..n) |->
               IF T = {} THEN <<>>
               ELSE AddSection(h[T \ {Greatest(T)}], d[Greatest(T)], max)]
<1>1. \A i \in 1..n, r \in A : step[i][r] = AddSection(r, d[i], max)
  OBVIOUS
<1>2. LeftFoldArguments(n, A, <<>>, step)
  BY <1>0, <1>1 DEF LeftFoldArguments
<1> HIDE DEF step
<1>3. PICK g \in [SUBSET (1..n) -> A] : IsLeftFold(g, n, <<>>, step)
  BY <1>2, LeftFoldExists
<1>4. \A T \in SUBSET (1..n) :
         T # {} => g[T] = AddSection(g[T \ {Greatest(T)}], d[Greatest(T)], max)
  BY <1>0, <1>1, <1>3, GreatestIn DEF IsLeftFold
<1>5. g = Rec(g)
  BY <1>3, <1>4 DEF IsLeftFold
<1> DEFINE iter == CHOOSE h : h = Rec(h)
<1>6. iter = Rec(iter)
  <2> HIDE DEF Rec
  <2> QED
    BY <1>5
<1>7. AllDrafts(d, max) = iter[1..n]
  BY <1>0 DEF AllDrafts, AddSection,
         FoldLeft, MapThenFoldSet, Max, Greatest
<1> HIDE DEF iter
<1>8. iter[{}] = <<>>
  <2>1. {} \in SUBSET (1..n)
    OBVIOUS
  <2> QED
    BY <1>6, <2>1
<1>9. ASSUME NEW i \in 1..n PROVE iter[1..i] = AddSection(iter[1..i - 1], d[i], max)
  <2>1. iter[1..i] = AddSection(iter[(1..i) \ {Greatest(1..i)}], d[Greatest(1..i)], max)
    <3>1. 1..i \in SUBSET (1..n) /\ 1..i # {}
      BY <1>0, GreatestOfFirst
    <3> QED
      BY <1>6, <3>1
  <2> QED
    BY <1>0, <2>1, GreatestOfFirst
<1> DEFINE run == [i \in 0..n |-> iter[1..i]]
<1>10. run[0] = <<>> /\ run[n] = iter[1..n]
  BY <1>0, <1>8, RunOf
<1>11. \A i \in 1..n : run[i] = AddSection(run[i - 1], d[i], max)
  BY <1>0, <1>9, RunOf
<1>12. run = [i \in 0..n |-> run[i]]
  OBVIOUS
<1> HIDE DEF run
<1>13. run \in [0..n -> A]
  <2>1. \A i \in 1..n : run[i - 1] \in A => run[i] \in A
    BY <1>0, <1>11
  <2>2. run[0] \in A
    BY <1>0, <1>10
  <2> QED
    BY <1>0, <1>12, <2>1, <2>2, RunStays
<1> QED
  BY <1>7, <1>10, <1>11, <1>13 DEF n

-----------------------------------------------------------------------------
(* Slices                                                                  *)

\* Blocks from + 1 to to of d.
Slice(d, from, to) == [j \in 1..to - from |-> d[from + j]]

\* A slice of a sequence is one of the same elements.
LEMMA SliceIsSeq ==
    ASSUME NEW B, NEW d \in Seq(B), NEW from \in Nat, NEW to \in Nat, from <= to, to <= Len(d)
    PROVE  /\ Slice(d, from, to) \in Seq(B)
           /\ Len(Slice(d, from, to)) = to - from
           /\ \A j \in 1..to - from : Slice(d, from, to)[j] = d[from + j]
<1>1. to - from \in Nat
  OBVIOUS
<1>2. \A j \in 1..to - from : d[from + j] \in B
  <2> SUFFICES ASSUME NEW j \in 1..to - from PROVE d[from + j] \in B
    OBVIOUS
  <2>1. from + j \in 1..Len(d)
    OBVIOUS
  <2> QED
    BY <2>1
<1> QED
  BY <1>1, <1>2 DEF Slice

\* A slice from a place to itself is empty.
LEMMA SliceEmpty == ASSUME NEW d, NEW k \in Nat PROVE Slice(d, k, k) = <<>>
<1>1. 1..k - k = {}
  OBVIOUS
<1> QED
  BY <1>1 DEF Slice

\* The slice from end to end is the sequence.
LEMMA SliceAll == ASSUME NEW B, NEW d \in Seq(B) PROVE Slice(d, 0, Len(d)) = d
<1>1. Len(d) \in Nat /\ d = [j \in 1..Len(d) |-> d[j]]
  OBVIOUS
<1>2. Len(d) - 0 = Len(d) /\ \A j \in 1..Len(d) : 0 + j = j
  BY <1>1
<1> QED
  BY <1>1, <1>2 DEF Slice

\* The element after a slice makes it a longer slice.
LEMMA SliceAppend ==
    ASSUME NEW B, NEW d \in Seq(B), NEW from \in Nat, NEW to \in Nat, from <= to, to < Len(d)
    PROVE  Append(Slice(d, from, to), d[to + 1]) = Slice(d, from, to + 1)
<1>1. /\ Slice(d, from, to) \in Seq(B) /\ Len(Slice(d, from, to)) = to - from
      /\ \A j \in 1..to - from : Slice(d, from, to)[j] = d[from + j]
  BY SliceIsSeq
<1>2. /\ Slice(d, from, to + 1) \in Seq(B) /\ Len(Slice(d, from, to + 1)) = (to + 1) - from
      /\ \A j \in 1..(to + 1) - from : Slice(d, from, to + 1)[j] = d[from + j]
  BY SliceIsSeq
<1>3. d[to + 1] \in B
  OBVIOUS
<1>4. from + ((to + 1) - from) = to + 1
  OBVIOUS
<1> QED
  BY <1>1, <1>2, <1>3, <1>4

\* Adjacent slices make a slice.
LEMMA SliceConcat ==
    ASSUME NEW B, NEW d \in Seq(B), NEW i \in Nat, NEW j \in Nat, NEW k \in Nat,
           i <= j, j <= k, k <= Len(d)
    PROVE  Slice(d, i, j) \o Slice(d, j, k) = Slice(d, i, k)
<1>0. i <= k /\ j <= Len(d)
  OBVIOUS
<1>1. /\ Slice(d, i, j) \in Seq(B) /\ Len(Slice(d, i, j)) = j - i
      /\ \A x \in 1..j - i : Slice(d, i, j)[x] = d[i + x]
  BY <1>0, SliceIsSeq
<1>2. /\ Slice(d, j, k) \in Seq(B) /\ Len(Slice(d, j, k)) = k - j
      /\ \A x \in 1..k - j : Slice(d, j, k)[x] = d[j + x]
  BY SliceIsSeq
<1>3. /\ Slice(d, i, k) \in Seq(B) /\ Len(Slice(d, i, k)) = k - i
      /\ \A x \in 1..k - i : Slice(d, i, k)[x] = d[i + x]
  BY <1>0, SliceIsSeq
<1>4. SUFFICES ASSUME NEW s \in Seq(B), NEW t \in Seq(B), NEW u \in Seq(B),
                      Len(s) = j - i, Len(t) = k - j, Len(u) = k - i,
                      \A x \in 1..j - i : s[x] = d[i + x],
                      \A x \in 1..k - j : t[x] = d[j + x],
                      \A x \in 1..k - i : u[x] = d[i + x]
               PROVE  s \o t = u
  BY <1>1, <1>2, <1>3
<1>5. s \o t \in Seq(B) /\ Len(s \o t) = k - i
  <2>1. s \o t \in Seq(B) /\ Len(s \o t) = Len(s) + Len(t)
    BY ConcatProperties
  <2>2. Len(s) + Len(t) = k - i
    BY <1>4
  <2> QED
    BY <2>1, <2>2
<1>6. \A x \in 1..Len(s) + Len(t) : (s \o t)[x] = IF x <= Len(s) THEN s[x] ELSE t[x - Len(s)]
  BY ConcatProperties
<1>7. ASSUME NEW x \in 1..k - i PROVE (s \o t)[x] = u[x]
  <2>0. x \in 1..Len(s) + Len(t) /\ (x \in 1..j - i \/ ~(x <= Len(s)))
    BY <1>4
  <2>1. u[x] = d[i + x]
    BY <1>4
  <2>2. CASE x \in 1..j - i
    <3>1. (s \o t)[x] = s[x]
      BY <1>4, <1>6, <2>0, <2>2
    <3>2. s[x] = d[i + x]
      BY <1>4, <2>2
    <3> QED
      BY <2>1, <3>1, <3>2
  <2>3. CASE ~(x <= Len(s))
    <3>1. x - Len(s) \in 1..k - j /\ j + (x - Len(s)) = i + x
      BY <1>4, <2>3
    <3>2. (s \o t)[x] = t[x - Len(s)]
      BY <1>6, <2>0, <2>3
    <3>3. t[x - Len(s)] = d[j + (x - Len(s))]
      BY <1>4, <3>1
    <3> QED
      BY <2>1, <3>1, <3>2, <3>3
  <2> QED
    BY <2>0, <2>2, <2>3
<1>8. \A v, w \in Seq(B) : Len(v) = Len(w) /\ (\A x \in 1..Len(v) : v[x] = w[x]) => v = w
  BY SeqEqual
<1>9. Len(u) = k - i
  BY <1>4
<1> QED
  BY <1>5, <1>7, <1>8, <1>9

\* A slice of a slice is a slice.
LEMMA SliceSlice ==
    ASSUME NEW B, NEW d \in Seq(B), NEW from \in Nat, NEW to \in Nat, from <= to, to <= Len(d),
           NEW i \in Nat, NEW j \in Nat, i <= j, j <= to - from
    PROVE  Slice(Slice(d, from, to), i, j) = Slice(d, from + i, from + j)
<1>1. \A x \in 1..to - from : Slice(d, from, to)[x] = d[from + x]
  BY SliceIsSeq
<1>2. \A x \in 1..j - i : i + x \in 1..to - from /\ from + (i + x) = (from + i) + x
  OBVIOUS
<1>3. (from + j) - (from + i) = j - i
  OBVIOUS
<1> QED
  BY <1>1, <1>2, <1>3 DEF Slice

-----------------------------------------------------------------------------
(* Cuttings                                                                *)

\* at says where the n pieces bs of blocks from + 1 to to of d end.
Cutting(bs, n, d, from, to, at) ==
    /\ at \in [0..n -> from..to] /\ at[0] = from /\ at[n] = to
    /\ \A i \in 1..n : at[i - 1] < at[i] /\ bs[i] = Slice(d, at[i - 1], at[i])

\* The first pieces of a cutting from the start, put together.
LEMMA FlattenCutting ==
    ASSUME NEW B, NEW d \in Seq(B), NEW n \in Nat, NEW to \in Nat, to <= Len(d), NEW bs, NEW at,
           Cutting(bs, n, d, 0, to, at), NEW m \in 0..n
    PROVE  FlattenSeq([i \in 1..m |-> bs[i]]) = Slice(d, 0, at[m])
<1> DEFINE seqs == [i \in 1..m |-> bs[i]]
           Rec(h) == [i \in 1..m |-> IF i = 1 THEN seqs[i] ELSE h[i - 1] \o seqs[i]]
           g == [i \in 1..m |-> Slice(d, 0, at[i])]
<1>0. m \in Nat /\ m <= n /\ Len(seqs) = m
  <2>1. m \in Nat /\ m <= n
    OBVIOUS
  <2>2. DOMAIN seqs = 1..m
    OBVIOUS
  <2>3. Len(seqs) = m
    BY <2>1
  <2> QED
    BY <2>1, <2>3
<1>1. /\ \A i \in 0..n : at[i] \in Nat /\ at[i] <= Len(d)
      /\ at[0] = 0
      /\ \A i \in 1..n : at[i - 1] < at[i] /\ bs[i] = Slice(d, at[i - 1], at[i])
  BY DEF Cutting
<1>2. CASE m = 0
  <2>1. seqs = <<>>
    BY <1>2
  <2>2. FlattenSeq(seqs) = seqs
    BY <2>1 DEF FlattenSeq
  <2> QED
    BY <1>1, <1>2, <2>1, <2>2, SliceEmpty
<1>3. CASE m # 0
  <2>1. ASSUME NEW i \in 1..m PROVE Slice(d, 0, at[i]) = IF i = 1 THEN seqs[i]
                                       ELSE Slice(d, 0, at[i - 1]) \o seqs[i]
    <3>1. i \in 1..n /\ i - 1 \in 0..n /\ i \in 0..n
      BY <1>0
    <3>2. seqs[i] = Slice(d, at[i - 1], at[i]) /\ at[i - 1] <= at[i] /\ at[i] <= Len(d)
          /\ at[i - 1] \in Nat /\ at[i] \in Nat
      BY <1>1, <3>1
    <3>3. CASE i = 1
      BY <1>1, <3>2, <3>3
    <3>4. CASE i # 1
      <4>1. Slice(d, 0, at[i - 1]) \o Slice(d, at[i - 1], at[i]) = Slice(d, 0, at[i])
        <5>1. \A x, y \in Nat : x <= y /\ y <= Len(d) =>
                 Slice(d, 0, x) \o Slice(d, x, y) = Slice(d, 0, y)
          BY SliceConcat
        <5> QED
          BY <3>2, <5>1
      <4> QED
        BY <3>2, <3>4, <4>1
    <3> QED
      BY <3>3, <3>4
  <2>2. g = Rec(g)
    <3>1. ASSUME NEW i \in 1..m
          PROVE  g[i] = IF i = 1 THEN seqs[i] ELSE g[i - 1] \o seqs[i]
      <4>1. i # 1 => i - 1 \in 1..m
        OBVIOUS
      <4> QED
        BY <2>1, <4>1
    <3> QED
      BY <3>1
  <2> DEFINE flat == CHOOSE h : h = Rec(h)
  <2>3. flat = Rec(flat)
    <3> HIDE DEF Rec, g
    <3> QED
      BY <2>2
  <2>4. FlattenSeq(seqs) = flat[m]
    <3>1. Len(seqs) = m /\ m # 0
      BY <1>0, <1>3
    <3> HIDE DEF seqs
    <3> QED
      BY <3>1 DEF FlattenSeq
  <2> HIDE DEF flat, seqs
  <2> DEFINE N == {i \in Nat : i \in 1..m => flat[i] = Slice(d, 0, at[i])}
  <2>5. 0 \in N
    OBVIOUS
  <2>6. ASSUME NEW i \in Nat, i \in N PROVE i + 1 \in N
    <3> SUFFICES ASSUME i + 1 \in 1..m PROVE flat[i + 1] = Slice(d, 0, at[i + 1])
      OBVIOUS
    <3>1. (i + 1) - 1 = i
      OBVIOUS
    <3>2. flat[i + 1] = IF i + 1 = 1 THEN seqs[i + 1] ELSE flat[i] \o seqs[i + 1]
      BY <2>3, <3>1
    <3>3. Slice(d, 0, at[i + 1]) = IF i + 1 = 1 THEN seqs[i + 1]
                                   ELSE Slice(d, 0, at[i]) \o seqs[i + 1]
      BY <2>1, <3>1
    <3>4. i + 1 # 1 => i \in 1..m
      OBVIOUS
    <3> QED
      BY <2>6, <3>2, <3>3, <3>4
  <2>7. Nat \subseteq N
    <3> HIDE DEF N
    <3> QED
      BY <2>5, <2>6, NatSetInduction
  <2>8. m \in N /\ m \in 1..m
    BY <1>0, <1>3, <2>7
  <2> QED
    BY <2>4, <2>8 DEF seqs
<1> QED
  BY <1>2, <1>3

\* The places of n pieces: where they were, but for the last one, which ends at to.
Extended(at, n, to) == [i \in 0..n |-> IF i = n THEN to ELSE at[i]]

\* A cutting goes on with one more block: as a piece of its own, or in the last piece.
LEMMA CuttingAdds ==
    ASSUME NEW B, NEW d \in Seq(B), NEW bs \in Seq(Seq(B)), NEW k \in Nat, k < Len(d), NEW at,
           Cutting(bs, Len(bs), d, 0, k, at)
    PROVE  Cutting(Append(bs, <<d[k + 1]>>), Len(bs) + 1, d, 0, k + 1,
                   Extended(at, Len(bs) + 1, k + 1))
<1> DEFINE n == Len(bs)
           at2 == [i \in 0..n + 1 |-> IF i = n + 1 THEN k + 1 ELSE at[i]]
           bs2 == Append(bs, <<d[k + 1]>>)
<1>0. n \in Nat /\ d[k + 1] \in B
  OBVIOUS
<1>1. /\ at2 \in [0..n + 1 -> 0..k + 1] /\ at2[0] = 0 /\ at2[n + 1] = k + 1
      /\ \A i \in 0..n : at2[i] = at[i]
      /\ \A i \in 1..n : bs2[i] = bs[i]
      /\ bs2[n + 1] = <<d[k + 1]>>
  BY <1>0 DEF Cutting
<1> HIDE DEF n, at2, bs2
<1>2. at[n] = k /\ \A i \in 1..n : at[i - 1] < at[i] /\ bs[i] = Slice(d, at[i - 1], at[i])
  BY DEF Cutting, n
<1>3. ASSUME NEW i \in 1..n + 1
      PROVE  at2[i - 1] < at2[i] /\ bs2[i] = Slice(d, at2[i - 1], at2[i])
  <2>1. CASE i = n + 1
    <3>1. at2[i - 1] = k /\ at2[i] = k + 1 /\ bs2[i] = <<d[k + 1]>>
      BY <1>0, <1>1, <1>2, <2>1
    <3>2. Slice(d, k, k + 1) = <<d[k + 1]>>
      <4>1. k <= k /\ Append(<<>>, d[k + 1]) = <<d[k + 1]>>
        OBVIOUS
      <4>2. Append(Slice(d, k, k), d[k + 1]) = Slice(d, k, k + 1)
        BY <4>1, SliceAppend
      <4> QED
        BY <4>1, <4>2, SliceEmpty
    <3> QED
      BY <3>1, <3>2
  <2>2. CASE i # n + 1
    <3>1. i \in 1..n /\ i - 1 \in 0..n /\ i \in 0..n
      BY <1>0, <2>2
    <3> QED
      BY <1>1, <1>2, <3>1
  <2> QED
    BY <2>1, <2>2
<1>4. Cutting(bs2, n + 1, d, 0, k + 1, at2)
  BY <1>1, <1>3 DEF Cutting
<1> QED
  BY <1>4 DEF n, at2, bs2, Extended

\* The last piece of a cutting takes one more block.
LEMMA CuttingGrows ==
    ASSUME NEW B, NEW d \in Seq(B), NEW bs \in Seq(Seq(B)), NEW last \in Seq(B),
           NEW k \in Nat, k < Len(d), NEW at,
           Cutting(Append(bs, last), Len(bs) + 1, d, 0, k, at)
    PROVE  Cutting(Append(bs, Append(last, d[k + 1])), Len(bs) + 1, d, 0, k + 1,
                   Extended(at, Len(bs) + 1, k + 1))
<1> DEFINE n == Len(bs) + 1
           at2 == [i \in 0..n |-> IF i = n THEN k + 1 ELSE at[i]]
           bs1 == Append(bs, last)
           bs2 == Append(bs, Append(last, d[k + 1]))
<1>0. n \in Nat /\ n # 0 /\ d[k + 1] \in B
  OBVIOUS
<1>1. /\ at2 \in [0..n -> 0..k + 1] /\ at2[0] = 0 /\ at2[n] = k + 1
      /\ \A i \in 0..n - 1 : at2[i] = at[i]
      /\ \A i \in 1..n - 1 : bs2[i] = bs1[i]
      /\ bs1[n] = last /\ bs2[n] = Append(last, d[k + 1])
  BY <1>0 DEF Cutting
<1>2. /\ at[n] = k /\ at \in [0..n -> 0..k]
      /\ \A i \in 1..n : at[i - 1] < at[i] /\ bs1[i] = Slice(d, at[i - 1], at[i])
  BY DEF Cutting
<1> HIDE DEF n, at2, bs1, bs2
<1>3. ASSUME NEW i \in 1..n
      PROVE  at2[i - 1] < at2[i] /\ bs2[i] = Slice(d, at2[i - 1], at2[i])
  <2>1. CASE i = n
    <3>1. PICK x \in Nat : x = at[n - 1] /\ x < k /\ last = Slice(d, x, k)
      <4>1. n - 1 \in 0..n /\ n \in 1..n
        BY <1>0
      <4>2. at[n - 1] \in 0..k /\ at[n - 1] < at[n] /\ bs1[n] = Slice(d, at[n - 1], at[n])
        BY <1>2, <4>1
      <4> QED
        BY <1>1, <1>2, <4>2
    <3>2. Append(last, d[k + 1]) = Slice(d, x, k + 1)
      BY <3>1, SliceAppend
    <3>3. at2[i - 1] = x /\ at2[i] = k + 1 /\ bs2[i] = Append(last, d[k + 1])
      <4>1. n - 1 \in 0..n - 1
        BY <1>0
      <4> QED
        BY <1>1, <2>1, <3>1, <4>1
    <3> QED
      BY <3>1, <3>2, <3>3
  <2>2. CASE i # n
    <3>1. i \in 1..n - 1 /\ i - 1 \in 0..n - 1 /\ i \in 0..n - 1
      BY <1>0, <2>2
    <3> QED
      BY <1>1, <1>2, <3>1
  <2> QED
    BY <2>1, <2>2
<1>4. Cutting(bs2, n, d, 0, k + 1, at2)
  BY <1>1, <1>3 DEF Cutting
<1> QED
  BY <1>4 DEF n, at2, bs2, Extended

-----------------------------------------------------------------------------
(* The length of a chunk                                                   *)

IsBlocks(B) ==
    \A b \in B : b.level \in Nat /\ b.size \in Nat /\ b.fence \in BOOLEAN

\* Lengths are added up in naturals.
LEMMA LengthSum ==
    ASSUME NEW B, IsBlocks(B), NEW s \in Seq(B)
    PROVE  \E run \in [0..Len(s) -> Nat] :
              /\ run[0] = 0
              /\ \A i \in 1..Len(s) : run[i] = Lengthened(run[i - 1], s[i])
              /\ Length(s) = run[Len(s)] - 2
<1>1. 0 \in Nat /\ \A r \in Nat, b \in B : Lengthened(r, b) \in Nat
  BY DEF IsBlocks, Lengthened
<1> QED
  BY <1>1, LengthRun

\* The length of one block has no separator.
LEMMA LengthOfOne ==
    ASSUME NEW B, IsBlocks(B), NEW b \in B
    PROVE  Length(<<b>>) = b.size
<1> DEFINE s == <<b>>
<1>0. s \in Seq(B) /\ Len(s) = 1 /\ s[1] = b
  OBVIOUS
<1> HIDE DEF s
<1>2. PICK run \in [0..1 -> Nat] :
          run[0] = 0 /\ (\A i \in 1..1 : run[i] = Lengthened(run[i - 1], s[i]))
          /\ Length(s) = run[1] - 2
  BY <1>0, LengthSum
<1>3. run[1] = Lengthened(run[1 - 1], s[1]) /\ 1 - 1 = 0
  BY <1>2
<1>4. b.size \in Nat
  BY DEF IsBlocks
<1>5. Length(s) = (0 + b.size + 2) - 2
  BY <1>0, <1>2, <1>3 DEF Lengthened
<1>6. Length(s) = b.size
  BY <1>4, <1>5
<1> QED
  BY <1>6 DEF s

\* One more block adds its size and a separator.
LEMMA LengthOfMore ==
    ASSUME NEW B, IsBlocks(B), NEW s \in Seq(B), NEW b \in B
    PROVE  Length(s) \in Int /\ Length(Append(s, b)) = Length(s) + b.size + 2
<1> DEFINE n == Len(s)
           t == Append(s, b)
<1>0. /\ n \in Nat /\ DOMAIN s = 1..n /\ \A i \in 1..n : s[i] \in B
      /\ n + 1 \in Nat /\ t \in Seq(B) /\ Len(t) = n + 1 /\ DOMAIN t = 1..n + 1
      /\ \A i \in 1..n : t[i] = s[i]
      /\ t[n + 1] = b /\ \A i \in 1..n + 1 : t[i] \in B
  OBVIOUS
<1> HIDE DEF n, t
<1>2. PICK run \in [0..n -> Nat] :
          run[0] = 0 /\ (\A i \in 1..n : run[i] = Lengthened(run[i - 1], s[i]))
          /\ Length(s) = run[n] - 2
  BY <1>0, LengthSum DEF n
<1>3. PICK more \in [0..n + 1 -> Nat] :
          more[0] = 0 /\ (\A i \in 1..n + 1 : more[i] = Lengthened(more[i - 1], t[i]))
          /\ Length(t) = more[n + 1] - 2
  BY <1>0, LengthSum DEF n
<1> DEFINE N == {i \in Nat : i <= n => more[i] = run[i]}
<1>4. 0 \in N
  BY <1>2, <1>3
<1>5. ASSUME NEW i \in Nat, i \in N PROVE i + 1 \in N
  <2> SUFFICES ASSUME i + 1 <= n PROVE more[i + 1] = run[i + 1]
    OBVIOUS
  <2>1. i + 1 \in 1..n /\ i + 1 \in 1..n + 1 /\ (i + 1) - 1 = i /\ i <= n
    BY <1>0
  <2>2. more[i + 1] = Lengthened(more[i], t[i + 1]) /\ run[i + 1] = Lengthened(run[i], s[i + 1])
    BY <1>2, <1>3, <2>1
  <2> QED
    BY <1>0, <1>5, <2>1, <2>2
<1>6. n \in N
  <2>1. Nat \subseteq N
    <3> HIDE DEF N
    <3> QED
      BY <1>4, <1>5, NatSetInduction
  <2> QED
    BY <1>0, <2>1
<1>7. more[n] = run[n]
  BY <1>0, <1>6
<1>8. more[n + 1] = more[n] + b.size + 2
  <2>1. n + 1 \in 1..n + 1 /\ (n + 1) - 1 = n
    BY <1>0
  <2> QED
    BY <1>0, <1>3, <2>1 DEF Lengthened
<1>9. run[n] \in Nat /\ b.size \in Nat
  BY <1>0, <1>2 DEF IsBlocks
<1>10. Length(s) \in Int /\ Length(t) = Length(s) + b.size + 2
  BY <1>2, <1>3, <1>7, <1>8, <1>9
<1> QED
  BY <1>10 DEF t

\* What an appended sequence is made of.
LEMMA AppendIs ==
    ASSUME NEW B, NEW s \in Seq(B), NEW b \in B
    PROVE  /\ Append(s, b) \in Seq(B) /\ Len(Append(s, b)) = Len(s) + 1 /\ Append(s, b) # <<>>
           /\ DOMAIN Append(s, b) = (DOMAIN s) \cup {Len(s) + 1}
           /\ \A i \in DOMAIN s : Append(s, b)[i] = s[i]
           /\ Append(s, b)[Len(s) + 1] = b
<1>1. /\ Append(s, b) \in Seq(B) /\ Len(Append(s, b)) = Len(s) + 1 /\ Append(s, b) # <<>>
      /\ DOMAIN Append(s, b) = 1..Len(s) + 1 /\ DOMAIN s = 1..Len(s) /\ Len(s) \in Nat
      /\ \A i \in 1..Len(s) : Append(s, b)[i] = s[i]
      /\ Append(s, b)[Len(s) + 1] = b
  OBVIOUS
<1>2. 1..Len(s) + 1 = (1..Len(s)) \cup {Len(s) + 1}
  BY <1>1
<1> QED
  BY <1>1, <1>2

\* A sequence has a fence if one of its blocks is one.
LEMMA FencedGrows ==
    ASSUME NEW B, NEW s \in Seq(B), NEW b \in B
    PROVE  /\ Fenced(Append(s, b)) <=> Fenced(s) \/ b.fence
           /\ Fenced(<<b>>) <=> b.fence
<1>1. /\ DOMAIN Append(s, b) = 1..Len(s) + 1 /\ DOMAIN s = 1..Len(s) /\ Len(s) \in Nat
      /\ \A i \in 1..Len(s) : Append(s, b)[i] = s[i]
      /\ Append(s, b)[Len(s) + 1] = b
  OBVIOUS
<1>2. 1..Len(s) + 1 = (1..Len(s)) \cup {Len(s) + 1}
  BY <1>1
<1>3. DOMAIN <<b>> = {1} /\ <<b>>[1] = b
  OBVIOUS
<1> QED
  BY <1>1, <1>2, <1>3 DEF Fenced

-----------------------------------------------------------------------------
(* Long sections                                                           *)

PartSet(B) == [done : Seq(Seq(B)), current : Seq(B), length : Nat, fenced : BOOLEAN]

\* What has become of the first k blocks of a section: every part that is done
\* has a reason for its length, and so has the part that is being read.
PartOK(part, d, k, max) ==
    /\ part.current # <<>>
    /\ \E at : Cutting(Append(part.done, part.current), Len(part.done) + 1, d, 0, k, at)
    /\ \A i \in DOMAIN part.done : HasReason(part.done[i], max)
    /\ Length(part.current) <= part.length
    /\ Len(part.current) = 1 \/ Fenced(part.current) \/ part.length <= max
    /\ part.fenced => Fenced(part.current)

\* PartOK holds after a cut: the finished part is short, or cutting was off in
\* it.
LEMMA PartIsCut ==
    ASSUME NEW max \in Nat, NEW B, IsBlocks(B), NEW d \in Seq(B), NEW k \in Nat, k < Len(d),
           NEW part \in PartSet(B), PartOK(part, d, k, max), part.current # <<>>,
           part.length + d[k + 1].size + 2 > max, part.fenced = d[k + 1].fence
    PROVE  PartOK(AddBlock(part, d[k + 1], max), d, k + 1, max)
<1> DEFINE b == d[k + 1]
           next == AddBlock(part, b, max)
<1>0. /\ b \in B /\ part.done \in Seq(Seq(B)) /\ part.current \in Seq(B) /\ part.length \in Nat
      /\ part.fenced \in BOOLEAN /\ b.fence \in BOOLEAN /\ b.size \in Nat
  BY DEF PartSet, IsBlocks
<1>1. next = [done |-> Append(part.done, part.current), current |-> <<b>>,
              length |-> b.size, fenced |-> FALSE]
  BY <1>0 DEF AddBlock
<1> HIDE DEF next, b
<1>2. HasReason(part.current, max)
  <2>1. Length(part.current) \in Int
    BY <1>0, LengthOfMore
  <2>2. max \in Nat
    OBVIOUS
  <2> QED
    BY <1>0, <2>1, <2>2 DEF PartOK, HasReason
<1>3. \A i \in DOMAIN next.done : HasReason(next.done[i], max)
  <2>1. next.done = Append(part.done, part.current)
    BY <1>1
  <2>2. /\ DOMAIN next.done = (DOMAIN part.done) \cup {Len(part.done) + 1}
        /\ \A i \in DOMAIN part.done : next.done[i] = part.done[i]
        /\ next.done[Len(part.done) + 1] = part.current
    BY <1>0, <2>1, AppendIs
  <2>3. \A i \in DOMAIN part.done : HasReason(part.done[i], max)
    BY DEF PartOK
  <2> QED
    BY <1>2, <2>2, <2>3
<1>4. \E at : Cutting(Append(next.done, next.current), Len(next.done) + 1, d, 0, k + 1, at)
  <2> DEFINE bs == Append(part.done, part.current)
  <2>1. bs \in Seq(Seq(B)) /\ Len(bs) = Len(part.done) + 1
    BY <1>0
  <2>2. PICK at : Cutting(bs, Len(bs), d, 0, k, at)
    BY <2>1 DEF PartOK
  <2> HIDE DEF bs
  <2>3. \E at2 : Cutting(Append(bs, <<b>>), Len(bs) + 1, d, 0, k + 1, at2)
    BY <2>1, <2>2, CuttingAdds DEF b
  <2> QED
    BY <1>1, <2>3 DEF bs
<1>5. next.current = <<b>> /\ next.length = b.size /\ ~next.fenced
  BY <1>1
<1>6. <<b>> # <<>> /\ Len(<<b>>) = 1
  OBVIOUS
<1>7. Length(<<b>>) <= b.size
  BY <1>0, LengthOfOne
<1>8. PartOK(next, d, k + 1, max)
  BY <1>3, <1>4, <1>5, <1>6, <1>7 DEF PartOK
<1> QED
  BY <1>8 DEF next, b

\* PartOK holds after a block that is not cut off.
LEMMA PartGrows ==
    ASSUME NEW max \in Nat, NEW B, IsBlocks(B), NEW d \in Seq(B), NEW k \in Nat, k < Len(d),
           NEW part \in PartSet(B), PartOK(part, d, k, max),
           \/ part.length + d[k + 1].size + 2 <= max
           \/ part.fenced # d[k + 1].fence
    PROVE  PartOK(AddBlock(part, d[k + 1], max), d, k + 1, max)
<1> DEFINE b == d[k + 1]
           next == AddBlock(part, b, max)
<1>0. /\ b \in B /\ part.done \in Seq(Seq(B)) /\ part.current \in Seq(B) /\ part.length \in Nat
      /\ part.fenced \in BOOLEAN /\ b.fence \in BOOLEAN /\ b.size \in Nat
  BY DEF PartSet, IsBlocks
<1>01. max \in Nat
  OBVIOUS
<1>1. next = [part EXCEPT !.current = Append(@, b), !.length = part.length + b.size + 2,
                          !.fenced = part.fenced # b.fence]
  BY <1>0, <1>01 DEF AddBlock
<1>2. /\ next.done = part.done /\ next.current = Append(part.current, b)
      /\ next.length = part.length + b.size + 2 /\ next.fenced = (part.fenced # b.fence)
  BY <1>1 DEF PartSet
<1> HIDE DEF next
<1>3. next.current # <<>>
  <2>1. Append(part.current, b) # <<>>
    BY <1>0, AppendIs
  <2> QED
    BY <1>2, <2>1
<1>4. \E at : Cutting(Append(next.done, next.current), Len(next.done) + 1, d, 0, k + 1, at)
  <2>1. PICK at : Cutting(Append(part.done, part.current), Len(part.done) + 1, d, 0, k, at)
    BY DEF PartOK
  <2>2. \E at2 : Cutting(Append(part.done, Append(part.current, b)), Len(part.done) + 1,
                         d, 0, k + 1, at2)
    BY <1>0, <2>1, CuttingGrows
  <2> QED
    BY <1>2, <2>2
<1> HIDE DEF b
<1>5. Length(next.current) <= next.length
  <2>1. Length(part.current) \in Int
        /\ Length(Append(part.current, b)) = Length(part.current) + b.size + 2
    BY <1>0, LengthOfMore
  <2> QED
    BY <1>0, <1>2, <2>1 DEF PartOK
<1>6. Fenced(next.current) <=> Fenced(part.current) \/ b.fence
  <2>1. Fenced(Append(part.current, b)) <=> Fenced(part.current) \/ b.fence
    BY <1>0, FencedGrows
  <2> QED
    BY <1>2, <2>1
<1>7. next.fenced => Fenced(next.current)
  BY <1>0, <1>2, <1>6 DEF PartOK
<1>8. Fenced(next.current) \/ next.length <= max
  BY <1>0, <1>2, <1>6 DEF PartOK, b
<1>9. \A i \in DOMAIN next.done : HasReason(next.done[i], max)
  BY <1>2 DEF PartOK
<1>10. PartOK(next, d, k + 1, max)
  BY <1>3, <1>4, <1>5, <1>7, <1>8, <1>9 DEF PartOK
<1> QED
  BY <1>10 DEF next, b

\* PartOK holds after the first block.
LEMMA PartStarts ==
    ASSUME NEW max \in Nat, NEW B, IsBlocks(B), NEW d \in Seq(B), 0 < Len(d)
    PROVE  PartOK(AddBlock(NoPart, d[1], max), d, 1, max)
<1> DEFINE b == d[1]
           next == AddBlock(NoPart, b, max)
<1>0. b \in B /\ b.fence \in BOOLEAN /\ b.size \in Nat
  BY DEF IsBlocks
<1>1. next = [done |-> <<>>, current |-> <<b>>, length |-> b.size + 2,
              fenced |-> FALSE # b.fence]
  <2>1. next = [NoPart EXCEPT !.current = Append(@, b), !.length = NoPart.length + b.size + 2,
                              !.fenced = NoPart.fenced # b.fence]
    BY DEF AddBlock, NoPart
  <2>2. Append(<<>>, b) = <<b>> /\ 0 + b.size + 2 = b.size + 2
    BY <1>0
  <2> QED
    BY <2>1, <2>2 DEF NoPart
<1> HIDE DEF next, b
<1>2. \E at : Cutting(<< <<b>> >>, 1, d, 0, 1, at)
  <2> DEFINE at == [i \in 0..1 |-> i]
             none == <<>>
  <2>1. none \in Seq(Seq(B)) /\ Len(none) = 0 /\ Append(none, <<b>>) = << <<b>> >>
    OBVIOUS
  <2>2. Cutting(none, 0, d, 0, 0, [i \in 0..0 |-> 0])
    BY DEF Cutting
  <2>3. \E at2 : Cutting(Append(none, <<d[0 + 1]>>), 0 + 1, d, 0, 0 + 1, at2)
    <3> HIDE DEF none
    <3>1. Cutting(none, Len(none), d, 0, 0, [i \in 0..0 |-> 0]) /\ 0 \in Nat
      BY <2>1, <2>2
    <3>2. \E at2 : Cutting(Append(none, <<d[0 + 1]>>), Len(none) + 1, d, 0, 0 + 1, at2)
      BY <2>1, <3>1, CuttingAdds
    <3> QED
      BY <2>1, <3>2
  <2> QED
    BY <2>1, <2>3 DEF b
<1>3. Length(<<b>>) <= b.size + 2
  BY <1>0, LengthOfOne
<1>4. Fenced(<<b>>) <=> b.fence
  <2>1. <<>> \in Seq(B)
    OBVIOUS
  <2> QED
    BY <1>0, <2>1, FencedGrows
<1>5. /\ next.done = <<>> /\ next.current = <<b>> /\ next.length = b.size + 2
      /\ (next.fenced => b.fence) /\ Append(<<>>, <<b>>) = << <<b>> >> /\ Len(<<>>) + 1 = 1
      /\ <<b>> # <<>> /\ Len(<<b>>) = 1 /\ DOMAIN next.done = {}
  <2>1. next.done = <<>> /\ next.current = <<b>> /\ next.length = b.size + 2
    BY <1>1
  <2>2. next.fenced = (FALSE # b.fence)
    BY <1>1
  <2>3. next.fenced => b.fence
    BY <1>0, <2>2
  <2>4. Append(<<>>, <<b>>) = << <<b>> >> /\ Len(<<>>) + 1 = 1 /\ <<b>> # <<>> /\ Len(<<b>>) = 1
        /\ DOMAIN <<>> = {}
    OBVIOUS
  <2> QED
    BY <2>1, <2>3, <2>4
<1>6. PartOK(next, d, 1, max)
  BY <1>2, <1>3, <1>4, <1>5 DEF PartOK
<1> QED
  BY <1>6 DEF next, b

\* Parts are built of the blocks read.
LEMMA PartSetStays ==
    ASSUME NEW max \in Nat, NEW B, IsBlocks(B), NEW part \in PartSet(B), NEW b \in B
    PROVE  NoPart \in PartSet(B) /\ AddBlock(part, b, max) \in PartSet(B)
<1>0. /\ part.done \in Seq(Seq(B)) /\ part.current \in Seq(B) /\ part.length \in Nat
      /\ part.fenced \in BOOLEAN /\ b.fence \in BOOLEAN /\ b.size \in Nat
  BY DEF PartSet, IsBlocks
<1>1. NoPart \in PartSet(B)
  BY DEF NoPart, PartSet
<1>2. Append(part.done, part.current) \in Seq(Seq(B)) /\ Append(part.current, b) \in Seq(B)
      /\ <<b>> \in Seq(B) /\ part.length + b.size + 2 \in Nat
  BY <1>0
<1>3. AddBlock(part, b, max) \in PartSet(B)
  BY <1>0, <1>2 DEF AddBlock, PartSet
<1> QED
  BY <1>1, <1>3

\* The parts of a section are its blocks in order, and each has a reason for its
\* length.
LEMMA PartsCut ==
    ASSUME NEW max \in Nat, NEW B, IsBlocks(B), NEW d \in Seq(B), d # <<>>
    PROVE  /\ Parts(d, max) \in Seq(Seq(B))
           /\ \E at : Cutting(Parts(d, max), Len(Parts(d, max)), d, 0, Len(d), at)
           /\ \A i \in DOMAIN Parts(d, max) : HasReason(Parts(d, max)[i], max)
<1>0. Len(d) \in Nat /\ Len(d) > 0
  OBVIOUS
<1>1. CASE Length(d) <= max
  <2> DEFINE at == [i \in 0..1 |-> IF i = 0 THEN 0 ELSE Len(d)]
  <2>1. Parts(d, max) = <<d>> /\ <<d>>[1] = d /\ DOMAIN <<d>> = {1} /\ Len(<<d>>) = 1
    BY <1>1 DEF Parts
  <2>2. at \in [0..1 -> 0..Len(d)] /\ at[0] = 0 /\ at[1] = Len(d) /\ 1..1 = {1} /\ 1 - 1 = 0
    BY <1>0
  <2> HIDE DEF at
  <2>3. Cutting(<<d>>, 1, d, 0, Len(d), at)
    BY <1>0, <2>1, <2>2, SliceAll DEF Cutting
  <2>4. HasReason(d, max)
    <3>1. Length(d) \in Int
      <4>1. \A b \in B : Length(d) \in Int
        BY LengthOfMore
      <4>2. d[1] \in B
        BY <1>0
      <4> QED
        BY <4>1, <4>2
    <3> QED
      BY <1>1, <3>1 DEF HasReason
  <2>5. <<d>> \in Seq(Seq(B))
    OBVIOUS
  <2> QED
    BY <2>1, <2>3, <2>4, <2>5
<1>2. CASE ~(Length(d) <= max)
  <2>1. NoPart \in PartSet(B) /\ \A r \in PartSet(B), b \in B : AddBlock(r, b, max) \in PartSet(B)
    <3>1. NoPart \in PartSet(B)
      BY DEF NoPart, PartSet
    <3> QED
      BY <3>1, PartSetStays
  <2>2. PICK run \in [0..Len(d) -> PartSet(B)] :
           /\ run[0] = NoPart
           /\ \A i \in 1..Len(d) : run[i] = AddBlock(run[i - 1], d[i], max)
           /\ AddBlocks(d, max) = run[Len(d)]
    BY <2>1, PartRun
  <2> DEFINE N == {i \in Nat : i + 1 <= Len(d) => PartOK(run[i + 1], d, i + 1, max)}
  <2>3. 0 \in N
    <3>1. run[1] = AddBlock(NoPart, d[1], max)
      <4>1. 1 \in 1..Len(d) /\ 1 - 1 = 0
        BY <1>0
      <4> QED
        BY <2>2, <4>1
    <3>2. PartOK(AddBlock(NoPart, d[1], max), d, 1, max)
      BY <1>0, PartStarts
    <3> QED
      BY <3>1, <3>2
  <2>4. ASSUME NEW i \in Nat, i \in N PROVE i + 1 \in N
    <3> SUFFICES ASSUME (i + 1) + 1 <= Len(d) PROVE PartOK(run[(i + 1) + 1], d, (i + 1) + 1, max)
      OBVIOUS
    <3> DEFINE k == i + 1
    <3>1. k \in Nat /\ k < Len(d) /\ k \in 0..Len(d) /\ k + 1 \in 1..Len(d) /\ (k + 1) - 1 = k
          /\ k <= Len(d)
      OBVIOUS
    <3>2. PartOK(run[k], d, k, max)
      BY <2>4, <3>1
    <3> HIDE DEF k
    <3>3. run[k + 1] = AddBlock(run[k], d[k + 1], max) /\ run[k] \in PartSet(B) /\ d[k + 1] \in B
      BY <2>2, <3>1
    <3> DEFINE part == run[k]
    <3> HIDE DEF part
    <3>4. /\ part \in PartSet(B) /\ PartOK(part, d, k, max) /\ part.current # <<>>
          /\ part.length \in Nat /\ part.fenced \in BOOLEAN
          /\ d[k + 1].size \in Nat /\ d[k + 1].fence \in BOOLEAN
      BY <3>2, <3>3 DEF part, PartSet, PartOK, IsBlocks
    <3>5. \/ part.length + d[k + 1].size + 2 <= max
          \/ part.fenced # d[k + 1].fence
          \/ part.length + d[k + 1].size + 2 > max /\ part.fenced = d[k + 1].fence
      BY <3>4
    <3>6. PartOK(AddBlock(part, d[k + 1], max), d, k + 1, max)
      BY <3>1, <3>4, <3>5, PartIsCut, PartGrows
    <3> QED
      BY <3>3, <3>6 DEF part, k
  <2>5. Nat \subseteq N
    <3> HIDE DEF N
    <3> QED
      BY <2>3, <2>4, NatSetInduction
  <2> DEFINE part == run[Len(d)]
  <2>6. PartOK(part, d, Len(d), max) /\ part \in PartSet(B)
    <3>1. Len(d) - 1 \in N /\ (Len(d) - 1) + 1 = Len(d)
      BY <1>0, <2>5
    <3> QED
      BY <1>0, <2>2, <3>1
  <2>7. Parts(d, max) = Append(part.done, part.current)
    BY <1>2, <2>2 DEF Parts
  <2> HIDE DEF part
  <2>8. /\ part.done \in Seq(Seq(B)) /\ part.current \in Seq(B) /\ part.length \in Nat
        /\ Parts(d, max) \in Seq(Seq(B)) /\ Len(Parts(d, max)) = Len(part.done) + 1
    BY <2>6, <2>7 DEF PartSet
  <2>9. \E at : Cutting(Parts(d, max), Len(Parts(d, max)), d, 0, Len(d), at)
    BY <2>6, <2>7, <2>8 DEF PartOK
  <2>10. HasReason(part.current, max)
    <3>1. Length(part.current) \in Int
      <4>1. d[1] \in B
        BY <1>0
      <4> QED
        BY <2>8, <4>1, LengthOfMore
    <3>2. max \in Nat
      OBVIOUS
    <3> QED
      BY <2>6, <2>8, <3>1, <3>2 DEF PartOK, HasReason
  <2>11. /\ DOMAIN Parts(d, max) = (DOMAIN part.done) \cup {Len(part.done) + 1}
         /\ \A i \in DOMAIN part.done : Parts(d, max)[i] = part.done[i]
         /\ Parts(d, max)[Len(part.done) + 1] = part.current
    BY <2>7, <2>8
  <2>12. \A i \in DOMAIN Parts(d, max) : HasReason(Parts(d, max)[i], max)
    BY <2>6, <2>10, <2>11 DEF PartOK
  <2> QED
    BY <2>8, <2>9, <2>12
<1> QED
  BY <1>1, <1>2

-----------------------------------------------------------------------------
(* The heading stack                                                       *)

\* t has the elements of s at the positions S, all among the first k, in their order.
Selects(t, s, k, S) ==
    \E at \in [1..Len(t) -> 1..k] :
        /\ \A i, j \in 1..Len(t) : i < j => at[i] < at[j]
        /\ S = {at[i] : i \in 1..Len(t)}
        /\ \A i \in 1..Len(t) : t[i] = s[at[i]]

Lower(S, s, level) == {i \in S : s[i].level < level}

\* The empty sequence selects nothing.
LEMMA SelectsNothing == ASSUME NEW s, NEW k \in Nat PROVE Selects(<<>>, s, k, {})
<1> DEFINE at == [i \in 1..0 |-> i]
<1>1. 1..0 = {} /\ Len(<<>>) = 0
  OBVIOUS
<1>2. at \in [1..Len(<<>>) -> 1..k]
  BY <1>1
<1> QED
  BY <1>1, <1>2 DEF Selects

\* A selection among k elements is one among k + 1.
LEMMA SelectsAmongMore ==
    ASSUME NEW t, NEW s, NEW k \in Nat, NEW S, Selects(t, s, k, S)
    PROVE  Selects(t, s, k + 1, S)
<1>1. PICK at \in [1..Len(t) -> 1..k] :
        /\ \A i, j \in 1..Len(t) : i < j => at[i] < at[j]
        /\ S = {at[i] : i \in 1..Len(t)}
        /\ \A i \in 1..Len(t) : t[i] = s[at[i]]
  BY DEF Selects
<1>2. at \in [1..Len(t) -> 1..k + 1]
  OBVIOUS
<1> QED
  BY <1>1, <1>2 DEF Selects

\* A selection takes the next element.
LEMMA SelectsTheNext ==
    ASSUME NEW B, NEW t \in Seq(B), NEW s \in Seq(B), NEW k \in Nat, k < Len(s), NEW S,
           Selects(t, s, k, S)
    PROVE  Selects(Append(t, s[k + 1]), s, k + 1, S \cup {k + 1})
<1> DEFINE n == Len(t)
           u == Append(t, s[k + 1])
<1>1. PICK at \in [1..n -> 1..k] :
        /\ \A i, j \in 1..n : i < j => at[i] < at[j]
        /\ S = {at[i] : i \in 1..n}
        /\ \A i \in 1..n : t[i] = s[at[i]]
  BY DEF Selects
<1>2. n \in Nat /\ Len(u) = n + 1 /\ u[n + 1] = s[k + 1] /\ \A i \in 1..n : u[i] = t[i]
  <2>1. s[k + 1] \in B
    OBVIOUS
  <2> QED
    BY <2>1
<1> HIDE DEF n, u
<1> DEFINE at2 == [i \in 1..n + 1 |-> IF i = n + 1 THEN k + 1 ELSE at[i]]
<1>3. /\ at2 \in [1..n + 1 -> 1..k + 1] /\ at2[n + 1] = k + 1
      /\ \A i \in 1..n : at2[i] = at[i] /\ at[i] \in 1..k
      /\ 1..n + 1 = (1..n) \cup {n + 1}
  BY <1>1, <1>2
<1> HIDE DEF at2
<1>4. \A i, j \in 1..n + 1 : i < j => at2[i] < at2[j]
  <2> SUFFICES ASSUME NEW i \in 1..n + 1, NEW j \in 1..n + 1, i < j PROVE at2[i] < at2[j]
    OBVIOUS
  <2>1. i \in 1..n
    BY <1>2
  <2>2. CASE j \in 1..n
    BY <1>1, <1>3, <2>1, <2>2
  <2>3. CASE j = n + 1
    BY <1>3, <2>1, <2>3
  <2> QED
    BY <1>3, <2>2, <2>3
<1>5. S \cup {k + 1} = {at2[i] : i \in 1..n + 1}
  <2>1. {at2[i] : i \in 1..n + 1} = {at2[i] : i \in 1..n} \cup {at2[n + 1]}
    BY <1>3
  <2>2. {at2[i] : i \in 1..n} = {at[i] : i \in 1..n}
    BY <1>3
  <2> QED
    BY <1>1, <1>3, <2>1, <2>2
<1>6. \A i \in 1..n + 1 : u[i] = s[at2[i]]
  BY <1>1, <1>2, <1>3
<1>7. Selects(u, s, k + 1, S \cup {k + 1})
  BY <1>2, <1>3, <1>4, <1>5, <1>6, ZenonT(30) DEF Selects
<1> QED
  BY <1>7 DEF u

\* Below keeps the headings of lower levels, in their order.
LEMMA BelowSelects ==
    ASSUME NEW B, NEW s \in Seq(B), NEW level
    PROVE  /\ Below(s, level) \in Seq(B)
           /\ Selects(Below(s, level), s, Len(s), Lower(1..Len(s), s, level))
<1>0. Len(s) \in Nat /\ \A i \in 1..Len(s) : s[i] \in B
  OBVIOUS
<1>1. <<>> \in Seq(B) /\ \A r \in Seq(B), b \in B : KeepBelow(r, b, level) \in Seq(B)
  BY DEF KeepBelow
<1>2. PICK run \in [0..Len(s) -> Seq(B)] :
         /\ run[0] = <<>>
         /\ \A i \in 1..Len(s) : run[i] = KeepBelow(run[i - 1], s[i], level)
         /\ Below(s, level) = run[Len(s)]
  <2> DEFINE A == Seq(B)
  <2>1. KeepsIn(A, B, level)
    BY <1>1 DEF KeepsIn
  <2>2. s \in Seq(B)
    OBVIOUS
  <2> HIDE DEF A
  <2>3. \E run \in [0..Len(s) -> A] :
           /\ run[0] = <<>>
           /\ \A i \in 1..Len(s) : run[i] = KeepBelow(run[i - 1], s[i], level)
           /\ Below(s, level) = run[Len(s)]
    BY <2>1, <2>2, BelowRun
  <2> QED
    BY <2>3 DEF A
<1> DEFINE Low(k) == {i \in 1..k : s[i].level < level}
           N == {k \in Nat : k <= Len(s) => Selects(run[k], s, k, Low(k))}
<1>3. 0 \in N
  <2>1. Low(0) = {}
    OBVIOUS
  <2> QED
    BY <1>2, <2>1, SelectsNothing
<1>4. ASSUME NEW k \in Nat, k \in N PROVE k + 1 \in N
  <2> SUFFICES ASSUME k + 1 <= Len(s) PROVE Selects(run[k + 1], s, k + 1, Low(k + 1))
    OBVIOUS
  <2>1. k < Len(s) /\ k \in 0..Len(s) /\ k + 1 \in 1..Len(s) /\ (k + 1) - 1 = k
    BY <1>0
  <2>2. run[k] \in Seq(B) /\ run[k + 1] = KeepBelow(run[k], s[k + 1], level)
    BY <1>2, <2>1
  <2>3. Selects(run[k], s, k, Low(k))
    BY <1>4, <2>1
  <2>4. CASE s[k + 1].level < level
    <3>1. Low(k + 1) = Low(k) \cup {k + 1}
      BY <2>4
    <3> HIDE DEF Low
    <3>2. Selects(Append(run[k], s[k + 1]), s, k + 1, Low(k) \cup {k + 1})
      BY <2>1, <2>2, <2>3, SelectsTheNext
    <3> QED
      BY <2>2, <2>4, <3>1, <3>2 DEF KeepBelow
  <2>5. CASE ~(s[k + 1].level < level)
    <3>1. Low(k + 1) = Low(k)
      BY <2>5
    <3> HIDE DEF Low
    <3> QED
      BY <2>2, <2>3, <2>5, <3>1, SelectsAmongMore DEF KeepBelow
  <2> QED
    BY <2>4, <2>5
<1>5. Nat \subseteq N
  <2> HIDE DEF N
  <2> QED
    BY <1>3, <1>4, NatSetInduction
<1>6. Selects(run[Len(s)], s, Len(s), Lower(1..Len(s), s, level))
  BY <1>0, <1>5 DEF Lower
<1>7. run[Len(s)] \in Seq(B)
  BY <1>0
<1> QED
  BY <1>2, <1>6, <1>7

\* The lower levels of a selection select the lower levels.
LEMMA SelectsOfSelects ==
    ASSUME NEW B, NEW s \in Seq(B), NEW t \in Seq(B), NEW d, NEW k \in Nat, NEW S, NEW level,
           Selects(s, d, k, S),
           Selects(t, s, Len(s), Lower(1..Len(s), s, level))
    PROVE  Selects(t, d, k, Lower(S, d, level))
<1> DEFINE n == Len(s)
           m == Len(t)
           Low == Lower(1..n, s, level)
<1>0. n \in Nat /\ m \in Nat
  OBVIOUS
<1>1. PICK at \in [1..n -> 1..k] :
        /\ \A i, j \in 1..n : i < j => at[i] < at[j]
        /\ S = {at[i] : i \in 1..n}
        /\ \A i \in 1..n : s[i] = d[at[i]]
  BY DEF Selects
<1>2. PICK sel \in [1..m -> 1..n] :
        /\ \A i, j \in 1..m : i < j => sel[i] < sel[j]
        /\ Low = {sel[i] : i \in 1..m}
        /\ \A i \in 1..m : t[i] = s[sel[i]]
  BY DEF Selects
<1> DEFINE at2 == [i \in 1..m |-> at[sel[i]]]
<1>3. Lower(S, d, level) = {at[i] : i \in Low}
  <2>1. \A i \in 1..n : i \in Low <=> d[at[i]].level < level
    BY <1>1 DEF Lower
  <2>2. Low \subseteq 1..n
    BY DEF Lower
  <2> HIDE DEF Low
  <2>3. Lower(S, d, level) = {at[i] : i \in {x \in 1..n : d[at[x]].level < level}}
    BY <1>1 DEF Lower
  <2>4. Low = {x \in 1..n : d[at[x]].level < level}
    BY <2>1, <2>2
  <2> QED
    BY <2>3, <2>4
<1>4. {at[i] : i \in Low} = {at2[i] : i \in 1..m}
  <2> HIDE DEF Low
  <2> QED
    BY <1>2
<1>5. at2 \in [1..m -> 1..k]
  BY <1>1, <1>2
<1>6. \A i, j \in 1..m : i < j => at2[i] < at2[j]
  BY <1>1, <1>2
<1>7. \A i \in 1..m : t[i] = d[at2[i]]
  BY <1>1, <1>2
<1> HIDE DEF at2, Low, n
<1>8. Lower(S, d, level) = {at2[i] : i \in 1..m}
  BY <1>3, <1>4
<1> QED
  BY <1>5, <1>6, <1>7, <1>8 DEF Selects

\* Text leaves the open headings as they are.
LEMMA OpenHeadingsText ==
    ASSUME NEW B, IsBlocks(B), NEW d \in Seq(B), NEW k \in Nat, k < Len(d), d[k + 1].level = 0
    PROVE  OpenHeadings(d, k + 1) = OpenHeadings(d, k)
<1>1. 1..k + 1 = (1..k) \cup {k + 1} /\ \A i \in 1..k : i + 1 .. k + 1 = (i + 1 .. k) \cup {k + 1}
  OBVIOUS
<1>2. ~(d[k + 1].level > 0)
  OBVIOUS
<1> QED
  BY <1>1, <1>2 DEF OpenHeadings

\* A heading ends those of its level and below, and is open.
LEMMA OpenHeadingsHeading ==
    ASSUME NEW B, IsBlocks(B), NEW d \in Seq(B), NEW k \in Nat, k < Len(d), d[k + 1].level # 0
    PROVE  OpenHeadings(d, k + 1) =
               Lower(OpenHeadings(d, k), d, d[k + 1].level) \cup {k + 1}
<1>1. 1..k + 1 = (1..k) \cup {k + 1} /\ \A i \in 1..k : i + 1 .. k + 1 = (i + 1 .. k) \cup {k + 1}
      /\ (k + 1) + 1 .. k + 1 = {}
  OBVIOUS
<1>2. \A i \in 1..k + 1 : d[i].level \in Nat
  <2> SUFFICES ASSUME NEW i \in 1..k + 1 PROVE d[i].level \in Nat
    OBVIOUS
  <2>1. d[i] \in B
    OBVIOUS
  <2> QED
    BY <2>1 DEF IsBlocks
<1>3. k + 1 \in 1..k + 1 /\ d[k + 1].level > 0
  <2>1. k + 1 \in 1..k + 1
    OBVIOUS
  <2> QED
    BY <1>2, <2>1
<1>4. \A i \in 1..k : d[k + 1].level > d[i].level <=> d[i].level < d[k + 1].level
  <2>1. \A i \in 1..k : i \in 1..k + 1
    OBVIOUS
  <2> QED
    BY <1>2, <1>3, <2>1
<1> QED
  BY <1>1, <1>3, <1>4, SMTT(20) DEF OpenHeadings, Lower

\* The words of the open headings are the outline.
LEMMA SelectsOutline ==
    ASSUME NEW B, NEW s \in Seq(B), NEW d, NEW k \in Nat, Selects(s, d, k, OpenHeadings(d, k))
    PROVE  IsOutline(Words(s), d, k)
<1> DEFINE n == Len(s)
<1>0. n \in Nat /\ DOMAIN s = 1..n /\ DOMAIN Words(s) = 1..n
      /\ \A i \in 1..n : Words(s)[i] = s[i].word
  BY DEF Words
<1>1. PICK at \in [1..n -> 1..k] :
        /\ \A i, j \in 1..n : i < j => at[i] < at[j]
        /\ OpenHeadings(d, k) = {at[i] : i \in 1..n}
        /\ \A i \in 1..n : s[i] = d[at[i]]
  BY DEF Selects
<1>2. Range(at) = OpenHeadings(d, k)
  BY <1>1 DEF Range
<1> HIDE DEF n
<1> QED
  BY <1>0, <1>1, <1>2 DEF IsOutline

\* Blocks of text are under the same headings as the one before them.
LEMMA SameOutline ==
    ASSUME NEW B, IsBlocks(B), NEW d \in Seq(B), NEW from \in Nat, NEW to \in Nat,
           from < to, to <= Len(d), \A j \in from + 2 .. to : d[j].level = 0,
           NEW path, IsOutline(path, d, from + 1)
    PROVE  IsOutline(path, d, to)
<1> DEFINE N == {i \in Nat : from + 1 + i <= to =>
                    OpenHeadings(d, from + 1 + i) = OpenHeadings(d, from + 1)}
<1>1. 0 \in N
  OBVIOUS
<1>2. ASSUME NEW i \in Nat, i \in N PROVE i + 1 \in N
  <2> SUFFICES ASSUME from + 1 + (i + 1) <= to
               PROVE  OpenHeadings(d, from + 1 + (i + 1)) = OpenHeadings(d, from + 1)
    OBVIOUS
  <2> DEFINE k == from + 1 + i
  <2>1. k \in Nat /\ k < Len(d) /\ k + 1 = from + 1 + (i + 1) /\ k + 1 \in from + 2 .. to /\ k <= to
    OBVIOUS
  <2>2. OpenHeadings(d, k) = OpenHeadings(d, from + 1)
    BY <1>2, <2>1
  <2> HIDE DEF k
  <2>3. OpenHeadings(d, k + 1) = OpenHeadings(d, k)
    BY <2>1, OpenHeadingsText
  <2> QED
    BY <2>1, <2>2, <2>3
<1>3. Nat \subseteq N
  <2> HIDE DEF N
  <2> QED
    BY <1>1, <1>2, NatSetInduction
<1>4. OpenHeadings(d, to) = OpenHeadings(d, from + 1)
  <2>1. to - (from + 1) \in N /\ from + 1 + (to - (from + 1)) = to /\ to <= to
    <3>1. to - (from + 1) \in Nat /\ from + 1 + (to - (from + 1)) = to /\ to <= to
      OBVIOUS
    <3> HIDE DEF N
    <3> QED
      BY <1>3, <3>1
  <2> QED
    BY <2>1
<1>5. PICK opens \in [DOMAIN path -> 1..from + 1] :
        /\ \A i, j \in DOMAIN path : i < j => opens[i] < opens[j]
        /\ Range(opens) = OpenHeadings(d, from + 1)
        /\ \A i \in DOMAIN path : path[i] = d[opens[i]].word
  BY DEF IsOutline
<1>6. opens \in [DOMAIN path -> 1..to]
  OBVIOUS
<1> QED
  BY <1>4, <1>5, <1>6 DEF IsOutline

-----------------------------------------------------------------------------
(* Sections                                                                *)

BlocksIn(chunks) == [i \in 1..Len(chunks) |-> chunks[i].blocks]

\* Only the first of blocks from + 1 to to can be a heading.
OneSection(d, from, to) == \A j \in from + 2 .. to : d[j].level = 0

\* Sections or chunks that are the first k blocks of d, each under its headings.
InPlace(chunks, d, k, at) ==
    /\ Cutting(BlocksIn(chunks), Len(chunks), d, 0, k, at)
    /\ \A i \in 1..Len(chunks) :
          OneSection(d, at[i - 1], at[i]) /\ IsOutline(chunks[i].path, d, at[i - 1] + 1)

ChunkSet(B) == [path : Seq({b.word : b \in B}), blocks : Seq(B)]

\* The blocks of one more chunk.
LEMMA BlocksInAppend ==
    ASSUME NEW B, NEW cs \in Seq(ChunkSet(B)), NEW c \in ChunkSet(B)
    PROVE  /\ BlocksIn(cs) \in Seq(Seq(B)) /\ Len(BlocksIn(cs)) = Len(cs)
           /\ BlocksIn(Append(cs, c)) = Append(BlocksIn(cs), c.blocks)
<1> DEFINE n == Len(cs)
<1>1. n \in Nat /\ \A i \in 1..n : cs[i].blocks \in Seq(B)
  <2>1. n \in Nat /\ \A i \in 1..n : cs[i] \in ChunkSet(B)
    OBVIOUS
  <2> QED
    BY <2>1 DEF ChunkSet
<1>2. /\ Append(cs, c) \in Seq(ChunkSet(B)) /\ Len(Append(cs, c)) = n + 1
      /\ Append(cs, c)[n + 1] = c /\ \A i \in 1..n : Append(cs, c)[i] = cs[i]
  OBVIOUS
<1>3. c.blocks \in Seq(B)
  BY DEF ChunkSet
<1>4. BlocksIn(cs) = [i \in 1..n |-> cs[i].blocks]
  BY DEF BlocksIn
<1>5. BlocksIn(Append(cs, c)) = [i \in 1..n + 1 |-> Append(cs, c)[i].blocks]
  BY <1>2 DEF BlocksIn
<1> DEFINE bs == [i \in 1..n |-> cs[i].blocks]
<1>6. bs \in Seq(Seq(B)) /\ Len(bs) = n /\ \A i \in 1..n : bs[i] = cs[i].blocks
  BY <1>1
<1> DEFINE bs2 == [i \in 1..n + 1 |-> Append(cs, c)[i].blocks]
<1>7. /\ bs2 \in Seq(Seq(B)) /\ Len(bs2) = n + 1 /\ bs2[n + 1] = c.blocks
      /\ \A i \in 1..n : bs2[i] = cs[i].blocks
  <2>1. n + 1 \in Nat /\ n + 1 \in 1..n + 1 /\ \A i \in 1..n : i \in 1..n + 1
    BY <1>1
  <2>2. \A i \in 1..n + 1 : bs2[i] \in Seq(B)
    BY <1>1, <1>2, <1>3
  <2> QED
    BY <1>2, <2>1, <2>2
<1> HIDE DEF bs, bs2, n
<1>8. /\ Append(bs, c.blocks) \in Seq(Seq(B)) /\ Len(Append(bs, c.blocks)) = n + 1
      /\ Append(bs, c.blocks)[n + 1] = c.blocks
      /\ \A i \in 1..n : Append(bs, c.blocks)[i] = bs[i]
  BY <1>3, <1>6
<1>9. bs2 = Append(bs, c.blocks)
  <2>1. \A v, w \in Seq(Seq(B)) : Len(v) = Len(w) /\ (\A x \in 1..Len(v) : v[x] = w[x]) => v = w
    BY SeqEqual
  <2>2. \A x \in 1..n + 1 : bs2[x] = Append(bs, c.blocks)[x]
    <3>1. \A x \in 1..n + 1 : x \in 1..n \/ x = n + 1
      BY <1>1 DEF n
    <3> QED
      BY <1>6, <1>7, <1>8, <3>1
  <2> QED
    BY <1>7, <1>8, <2>1, <2>2
<1> QED
  BY <1>4, <1>5, <1>6, <1>9 DEF bs, bs2, n

\* A section begins.
LEMMA ChunksAdd ==
    ASSUME NEW B, NEW d \in Seq(B), NEW k \in Nat, k < Len(d), NEW cs \in Seq(ChunkSet(B)),
           NEW at, InPlace(cs, d, k, at), NEW path \in Seq({b.word : b \in B}),
           IsOutline(path, d, k + 1)
    PROVE  \E at2 : InPlace(Append(cs, [path |-> path, blocks |-> <<d[k + 1]>>]), d, k + 1, at2)
<1> DEFINE c == [path |-> path, blocks |-> <<d[k + 1]>>]
           n == Len(cs)
           more == Append(cs, c)
           at2 == [i \in 0..n + 1 |-> IF i = n + 1 THEN k + 1 ELSE at[i]]
<1>1. c \in ChunkSet(B) /\ c.path = path /\ c.blocks = <<d[k + 1]>>
  <2>1. <<d[k + 1]>> \in Seq(B)
    OBVIOUS
  <2> QED
    BY <2>1 DEF ChunkSet
<1>2. BlocksIn(cs) \in Seq(Seq(B)) /\ Len(BlocksIn(cs)) = n
      /\ BlocksIn(more) = Append(BlocksIn(cs), <<d[k + 1]>>)
  BY <1>1, BlocksInAppend
<1>3. Cutting(BlocksIn(more), n + 1, d, 0, k + 1, at2)
  <2> DEFINE bs == BlocksIn(cs)
  <2>1. bs \in Seq(Seq(B)) /\ Cutting(bs, Len(bs), d, 0, k, at)
    BY <1>2 DEF InPlace
  <2> HIDE DEF bs
  <2>2. Cutting(Append(bs, <<d[k + 1]>>), Len(bs) + 1, d, 0, k + 1,
                Extended(at, Len(bs) + 1, k + 1))
    BY <2>1, CuttingAdds
  <2>3. Len(bs) = n /\ BlocksIn(more) = Append(bs, <<d[k + 1]>>)
    BY <1>2 DEF bs
  <2>4. at2 = Extended(at, n + 1, k + 1)
    BY DEF Extended
  <2> QED
    BY <2>2, <2>3, <2>4
<1>4. n \in Nat /\ Len(more) = n + 1 /\ more[n + 1] = c /\ \A i \in 1..n : more[i] = cs[i]
  BY <1>1
<1>5. at[n] = k /\ at2[n] = k /\ at2[n + 1] = k + 1 /\ \A i \in 0..n : at2[i] = at[i]
  BY <1>4 DEF InPlace, Cutting
<1> HIDE DEF c, n, more, at2
<1>6. ASSUME NEW i \in 1..n + 1
      PROVE  OneSection(d, at2[i - 1], at2[i]) /\ IsOutline(more[i].path, d, at2[i - 1] + 1)
  <2>1. CASE i = n + 1
    <3>1. i - 1 = n
      BY <1>4, <2>1
    <3>2. OneSection(d, k, k + 1)
      BY DEF OneSection
    <3> QED
      BY <1>1, <1>4, <1>5, <2>1, <3>1, <3>2
  <2>2. CASE i # n + 1
    <3>1. i \in 1..n /\ i - 1 \in 0..n /\ i \in 0..n
      BY <1>4, <2>2
    <3>2. OneSection(d, at[i - 1], at[i]) /\ IsOutline(cs[i].path, d, at[i - 1] + 1)
      BY <3>1 DEF InPlace, n
    <3> QED
      BY <1>4, <1>5, <3>1, <3>2
  <2> QED
    BY <2>1, <2>2
<1>7. InPlace(more, d, k + 1, at2)
  BY <1>3, <1>4, <1>6 DEF InPlace
<1> QED
  BY <1>7 DEF more, c

\* A section goes on.
LEMMA ChunksGrow ==
    ASSUME NEW B, NEW d \in Seq(B), NEW k \in Nat, k < Len(d), NEW cs \in Seq(ChunkSet(B)),
           NEW path \in Seq({b.word : b \in B}), NEW blocks \in Seq(B), NEW at,
           InPlace(Append(cs, [path |-> path, blocks |-> blocks]), d, k, at),
           d[k + 1].level = 0
    PROVE  \E at2 : InPlace(Append(cs, [path |-> path, blocks |-> Append(blocks, d[k + 1])]),
                             d, k + 1, at2)
<1> DEFINE c == [path |-> path, blocks |-> blocks]
           c2 == [path |-> path, blocks |-> Append(blocks, d[k + 1])]
           n == Len(cs) + 1
           old == Append(cs, c)
           new == Append(cs, c2)
           at2 == [i \in 0..n |-> IF i = n THEN k + 1 ELSE at[i]]
<1>1. /\ c \in ChunkSet(B) /\ c.path = path /\ c.blocks = blocks
      /\ c2 \in ChunkSet(B) /\ c2.path = path /\ c2.blocks = Append(blocks, d[k + 1])
  <2>1. Append(blocks, d[k + 1]) \in Seq(B)
    OBVIOUS
  <2> QED
    BY <2>1 DEF ChunkSet
<1>2. /\ BlocksIn(cs) \in Seq(Seq(B)) /\ Len(BlocksIn(cs)) = Len(cs)
      /\ BlocksIn(old) = Append(BlocksIn(cs), blocks)
      /\ BlocksIn(new) = Append(BlocksIn(cs), Append(blocks, d[k + 1]))
  BY <1>1, BlocksInAppend
<1>3. /\ n \in Nat /\ n # 0 /\ Len(old) = n /\ Len(new) = n /\ old[n] = c /\ new[n] = c2
      /\ \A i \in 1..n - 1 : old[i] = cs[i] /\ new[i] = cs[i]
  BY <1>1
<1>4. Cutting(BlocksIn(new), n, d, 0, k + 1, at2)
  <2> DEFINE bs == BlocksIn(cs)
  <2>1. bs \in Seq(Seq(B)) /\ Cutting(Append(bs, blocks), Len(bs) + 1, d, 0, k, at)
    BY <1>2, <1>3 DEF InPlace
  <2> HIDE DEF bs
  <2>2. Cutting(Append(bs, Append(blocks, d[k + 1])), Len(bs) + 1, d, 0, k + 1,
                Extended(at, Len(bs) + 1, k + 1))
    BY <2>1, CuttingGrows
  <2>3. Len(bs) + 1 = n /\ BlocksIn(new) = Append(bs, Append(blocks, d[k + 1]))
    BY <1>2 DEF bs
  <2>4. at2 = Extended(at, n, k + 1)
    BY DEF Extended
  <2> QED
    BY <2>2, <2>3, <2>4
<1>5. /\ at[n] = k /\ at2[n] = k + 1 /\ at[n - 1] < k /\ at[n - 1] \in Nat /\ at2[n - 1] = at[n - 1]
      /\ \A i \in 0..n - 1 : at2[i] = at[i]
  <2>1. n \in 1..n /\ n - 1 \in 0..n /\ n - 1 \in 0..n - 1
    BY <1>3
  <2>2. at[n] = k /\ at[n - 1] < at[n] /\ at[n - 1] \in 0..k
    BY <1>3, <2>1 DEF InPlace, Cutting
  <2> QED
    BY <1>3, <2>1, <2>2
<1> HIDE DEF c, c2, n, old, new, at2
<1>6. ASSUME NEW i \in 1..n
      PROVE  OneSection(d, at2[i - 1], at2[i]) /\ IsOutline(new[i].path, d, at2[i - 1] + 1)
  <2>0. OneSection(d, at[i - 1], at[i]) /\ IsOutline(old[i].path, d, at[i - 1] + 1)
    BY <1>3 DEF InPlace, old, c
  <2>1. CASE i = n
    <3>1. OneSection(d, at[n - 1], k + 1)
      <4>1. OneSection(d, at[n - 1], k)
        BY <1>5, <2>0, <2>1
      <4>2. \A j \in at[n - 1] + 2 .. k + 1 : j \in at[n - 1] + 2 .. k \/ j = k + 1
        BY <1>5
      <4> QED
        BY <4>1, <4>2 DEF OneSection
    <3> QED
      BY <1>1, <1>3, <1>5, <2>0, <2>1, <3>1
  <2>2. CASE i # n
    <3>1. i \in 1..n - 1 /\ i - 1 \in 0..n - 1 /\ i \in 0..n - 1
      BY <1>3, <2>2
    <3> QED
      BY <1>3, <1>5, <2>0, <3>1
  <2> QED
    BY <2>1, <2>2
<1>7. InPlace(new, d, k + 1, at2)
  BY <1>3, <1>4, <1>6 DEF InPlace
<1> QED
  BY <1>7 DEF new, c2

\* The reader
ReaderSet(B) == [sections : Seq(ChunkSet(B)), stack : Seq(B), current : Seq(B)]

\* What has become of the first k blocks of a document: the section that is being
\* read counts as one, and the stack holds the headings that are still open.
ReaderOK(reader, d, k) ==
    /\ Selects(reader.stack, d, k, OpenHeadings(d, k))
    /\ \E at : InPlace(Closed(reader), d, k, at)
    /\ reader.current = <<>> => reader.sections = <<>> /\ reader.stack = <<>>

\* A path is made of the words of blocks.
LEMMA WordsIsSeq ==
    ASSUME NEW B, NEW s \in Seq(B)
    PROVE  Words(s) \in Seq({b.word : b \in B})
<1>1. Len(s) \in Nat /\ DOMAIN s = 1..Len(s) /\ \A i \in 1..Len(s) : s[i] \in B
  OBVIOUS
<1>2. \A i \in 1..Len(s) : s[i].word \in {b.word : b \in B}
  BY <1>1
<1> QED
  BY <1>1, <1>2 DEF Words

\* What a reader holds is made of the blocks read.
LEMMA ReaderSetStays ==
    ASSUME NEW B, NEW r \in ReaderSet(B), NEW b \in B
    PROVE  Closed(r) \in Seq(ChunkSet(B)) /\ ReadBlock(r, b) \in ReaderSet(B)
<1>0. r.sections \in Seq(ChunkSet(B)) /\ r.stack \in Seq(B) /\ r.current \in Seq(B)
  BY DEF ReaderSet
<1>1. Closed(r) \in Seq(ChunkSet(B))
  <2> DEFINE c == [path |-> Words(r.stack), blocks |-> r.current]
             C == ChunkSet(B)
  <2>1. c \in C
    BY <1>0, WordsIsSeq DEF ChunkSet
  <2> HIDE DEF c, C
  <2>2. r.sections \in Seq(C)
    BY <1>0 DEF C
  <2>3. Append(r.sections, c) \in Seq(C)
    BY <2>1, <2>2
  <2> QED
    BY <2>2, <2>3 DEF Closed, c, C
<1>2. ReadBlock(r, b) \in ReaderSet(B)
  <2>1. Append(r.current, b) \in Seq(B) /\ <<b>> \in Seq(B)
    BY <1>0
  <2>2. Append(Below(r.stack, b.level), b) \in Seq(B)
    <3>1. Below(r.stack, b.level) \in Seq(B)
      BY <1>0, BelowSelects
    <3> QED
      BY <3>1
  <2>3. CASE b.level = 0
    <3>1. ReadBlock(r, b) = [sections |-> r.sections, stack |-> r.stack,
                             current |-> Append(r.current, b)]
      BY <2>3 DEF ReadBlock, ReaderSet
    <3> QED
      BY <1>0, <2>1, <3>1 DEF ReaderSet
  <2>4. CASE b.level # 0
    BY <1>1, <2>1, <2>2, <2>4 DEF ReadBlock, ReaderSet
  <2> QED
    BY <2>3, <2>4
<1> QED
  BY <1>1, <1>2

\* A reader that read nothing is consistent.
LEMMA ReaderStarts ==
    ASSUME NEW B, NEW d \in Seq(B)
    PROVE  NoReader \in ReaderSet(B) /\ ReaderOK(NoReader, d, 0)
<1>1. NoReader \in ReaderSet(B)
  BY DEF NoReader, ReaderSet
<1>2. OpenHeadings(d, 0) = {}
  BY DEF OpenHeadings
<1>3. Selects(<<>>, d, 0, {})
  BY SelectsNothing
<1>4. InPlace(<<>>, d, 0, [i \in 0..0 |-> 0])
  <2>1. Len(<<>>) = 0 /\ 1..0 = {}
    OBVIOUS
  <2> QED
    BY <2>1 DEF InPlace, Cutting
<1>5. Closed(NoReader) = <<>>
  BY DEF Closed, NoReader
<1> QED
  BY <1>1, <1>2, <1>3, <1>4, <1>5 DEF ReaderOK, NoReader

\* ReaderOK holds after a heading.
LEMMA ReaderTakesHeading ==
    ASSUME NEW B, IsBlocks(B), NEW d \in Seq(B), NEW k \in Nat, k < Len(d),
           NEW r \in ReaderSet(B), ReaderOK(r, d, k), d[k + 1].level # 0
    PROVE  ReaderOK(ReadBlock(r, d[k + 1]), d, k + 1)
<1> DEFINE b == d[k + 1]
           below == Below(r.stack, b.level)
           stack == Append(below, b)
           next == ReadBlock(r, b)
<1>0. b \in B /\ r.stack \in Seq(B) /\ Closed(r) \in Seq(ChunkSet(B))
  <2>1. b \in B
    OBVIOUS
  <2> QED
    BY <2>1, ReaderSetStays DEF ReaderSet
<1>1. next = [sections |-> Closed(r), stack |-> stack, current |-> <<b>>]
  BY DEF ReadBlock
<1>2. next.sections = Closed(r) /\ next.stack = stack /\ next.current = <<b>>
  BY <1>1
<1>3. /\ below \in Seq(B)
      /\ Selects(below, r.stack, Len(r.stack), Lower(1..Len(r.stack), r.stack, b.level))
  BY <1>0, BelowSelects
<1> HIDE DEF below, next
<1>4. Selects(below, d, k, Lower(OpenHeadings(d, k), d, b.level))
  <2>1. Selects(r.stack, d, k, OpenHeadings(d, k))
    BY DEF ReaderOK
  <2> HIDE DEF b
  <2> QED
    BY <1>0, <1>3, <2>1, SelectsOfSelects
<1>5. stack \in Seq(B) /\ Selects(stack, d, k + 1, OpenHeadings(d, k + 1))
  <2>1. OpenHeadings(d, k + 1) = Lower(OpenHeadings(d, k), d, b.level) \cup {k + 1}
    BY OpenHeadingsHeading
  <2> DEFINE S == Lower(OpenHeadings(d, k), d, b.level)
  <2>2. Selects(below, d, k, S)
    BY <1>4
  <2> HIDE DEF S
  <2>3. Selects(Append(below, d[k + 1]), d, k + 1, S \cup {k + 1})
    BY <1>3, <2>2, SelectsTheNext
  <2>4. Append(below, b) \in Seq(B)
    BY <1>0, <1>3, AppendIs
  <2> QED
    BY <2>1, <2>3, <2>4 DEF S
<1> HIDE DEF stack
<1>6. Words(stack) \in Seq({x.word : x \in B}) /\ IsOutline(Words(stack), d, k + 1)
  BY <1>5, WordsIsSeq, SelectsOutline
<1>7. Closed(next) = Append(Closed(r), [path |-> Words(stack), blocks |-> <<b>>])
  <2>1. <<b>> # <<>>
    OBVIOUS
  <2> QED
    BY <1>2, <2>1 DEF Closed
<1>8. \E at : InPlace(Closed(next), d, k + 1, at)
  <2> DEFINE cs == Closed(r)
  <2>1. PICK at : InPlace(cs, d, k, at)
    BY DEF ReaderOK
  <2> HIDE DEF cs
  <2>2. cs \in Seq(ChunkSet(B))
    BY <1>0 DEF cs
  <2>3. \E at2 : InPlace(Append(cs, [path |-> Words(stack), blocks |-> <<d[k + 1]>>]), d, k + 1, at2)
    BY <1>6, <2>1, <2>2, ChunksAdd
  <2> QED
    BY <1>7, <2>3 DEF cs
<1>9. next.current # <<>>
  BY <1>2
<1> QED
  BY <1>2, <1>5, <1>8, <1>9 DEF ReaderOK, next

\* ReaderOK holds after a block that is no heading.
LEMMA ReaderTakesText ==
    ASSUME NEW B, IsBlocks(B), NEW d \in Seq(B), NEW k \in Nat, k < Len(d),
           NEW r \in ReaderSet(B), ReaderOK(r, d, k), d[k + 1].level = 0
    PROVE  ReaderOK(ReadBlock(r, d[k + 1]), d, k + 1)
<1> DEFINE b == d[k + 1]
           next == ReadBlock(r, b)
           path == Words(r.stack)
<1>0. /\ b \in B /\ r.sections \in Seq(ChunkSet(B)) /\ r.stack \in Seq(B) /\ r.current \in Seq(B)
      /\ path \in Seq({x.word : x \in B})
  <2>1. b \in B
    OBVIOUS
  <2> QED
    BY <2>1, WordsIsSeq DEF ReaderSet
<1>1. next = [r EXCEPT !.current = Append(@, b)]
  BY DEF ReadBlock
<1>2. next.sections = r.sections /\ next.stack = r.stack /\ next.current = Append(r.current, b)
  BY <1>1 DEF ReaderSet
<1> HIDE DEF next
<1>3. Selects(r.stack, d, k + 1, OpenHeadings(d, k + 1))
  <2>1. Selects(r.stack, d, k, OpenHeadings(d, k)) /\ OpenHeadings(d, k + 1) = OpenHeadings(d, k)
    BY OpenHeadingsText DEF ReaderOK
  <2> QED
    BY <2>1, SelectsAmongMore
<1>4. next.current # <<>>
  <2> HIDE DEF b
  <2>1. Append(r.current, b) # <<>>
    BY <1>0, AppendIs, SMTT(20)
  <2> QED
    BY <1>2, <2>1
<1>5. Closed(next) = Append(r.sections, [path |-> path, blocks |-> Append(r.current, b)])
  BY <1>2, <1>4 DEF Closed
<1>6. IsOutline(path, d, k + 1)
  BY <1>0, <1>3, SelectsOutline
<1> HIDE DEF path
<1>7. \E at : InPlace(Closed(next), d, k + 1, at)
  <2>1. PICK at : InPlace(Closed(r), d, k, at)
    BY DEF ReaderOK
  <2>2. CASE r.current = <<>>
    <3>1. Closed(r) = r.sections /\ Append(<<>>, b) = <<b>>
      BY <2>2 DEF Closed
    <3> DEFINE cs == r.sections
    <3>2. cs \in Seq(ChunkSet(B)) /\ InPlace(cs, d, k, at)
      BY <1>0, <2>1, <3>1
    <3> HIDE DEF cs
    <3>3. \E at2 : InPlace(Append(cs, [path |-> path, blocks |-> <<d[k + 1]>>]), d, k + 1, at2)
      BY <1>0, <1>6, <3>2, ChunksAdd
    <3> QED
      BY <1>5, <2>2, <3>1, <3>3 DEF cs
  <2>3. CASE r.current # <<>>
    <3> DEFINE cs == r.sections
               blocks == r.current
    <3>1. Closed(r) = Append(cs, [path |-> path, blocks |-> blocks])
      BY <2>3 DEF Closed, path
    <3>2. cs \in Seq(ChunkSet(B)) /\ blocks \in Seq(B)
          /\ InPlace(Append(cs, [path |-> path, blocks |-> blocks]), d, k, at)
      BY <1>0, <2>1, <3>1
    <3> HIDE DEF cs, blocks
    <3>3. \E at2 : InPlace(Append(cs, [path |-> path, blocks |-> Append(blocks, d[k + 1])]),
                            d, k + 1, at2)
      BY <1>0, <3>2, ChunksGrow
    <3> QED
      BY <1>5, <3>3 DEF cs, blocks
  <2> QED
    BY <2>2, <2>3
<1> QED
  BY <1>2, <1>3, <1>4, <1>7 DEF ReaderOK, next

\* The sections of a document are its blocks in order, each under its headings.
LEMMA SectionsOK ==
    ASSUME NEW B, IsBlocks(B), NEW d \in Seq(B)
    PROVE  /\ Sections(d) \in Seq(ChunkSet(B))
           /\ \E at : InPlace(Sections(d), d, Len(d), at)
<1>0. Len(d) \in Nat /\ \A i \in 1..Len(d) : d[i] \in B
  OBVIOUS
<1>1. NoReader \in ReaderSet(B) /\ ReadsIn(ReaderSet(B), B)
  BY ReaderStarts, ReaderSetStays DEF ReadsIn
<1>2. PICK run \in [0..Len(d) -> ReaderSet(B)] :
         /\ run[0] = NoReader
         /\ \A i \in 1..Len(d) : run[i] = ReadBlock(run[i - 1], d[i])
         /\ FoldLeft(ReadBlock, NoReader, d) = run[Len(d)]
  BY <1>1, ReaderRun
<1> DEFINE N == {i \in Nat : i <= Len(d) => ReaderOK(run[i], d, i)}
<1>3. 0 \in N
  BY <1>2, ReaderStarts
<1>4. ASSUME NEW k \in Nat, k \in N PROVE k + 1 \in N
  <2> SUFFICES ASSUME k + 1 <= Len(d) PROVE ReaderOK(run[k + 1], d, k + 1)
    OBVIOUS
  <2>1. k < Len(d) /\ k \in 0..Len(d) /\ k + 1 \in 1..Len(d) /\ (k + 1) - 1 = k
    BY <1>0
  <2> DEFINE r == run[k]
  <2>2. r \in ReaderSet(B) /\ run[k + 1] = ReadBlock(r, d[k + 1]) /\ ReaderOK(r, d, k)
    BY <1>2, <1>4, <2>1
  <2> HIDE DEF r
  <2>3. ReaderOK(ReadBlock(r, d[k + 1]), d, k + 1)
    <3>1. CASE d[k + 1].level = 0
      BY <2>1, <2>2, <3>1, ReaderTakesText
    <3>2. CASE d[k + 1].level # 0
      BY <2>1, <2>2, <3>2, ReaderTakesHeading
    <3> QED
      BY <3>1, <3>2
  <2> QED
    BY <2>2, <2>3
<1>5. Nat \subseteq N
  <2> HIDE DEF N
  <2> QED
    BY <1>3, <1>4, NatSetInduction
<1> DEFINE r == run[Len(d)]
<1>6. r \in ReaderSet(B) /\ ReaderOK(r, d, Len(d))
  BY <1>0, <1>5
<1>7. Sections(d) = Closed(r)
  BY <1>2 DEF Sections, NoReader
<1> HIDE DEF r
<1>8. Closed(r) \in Seq(ChunkSet(B))
  <2>1. CASE Len(d) = 0
    <3>1. r = NoReader
      BY <1>2, <2>1 DEF r
    <3> QED
      BY <3>1 DEF NoReader, Closed
  <2>2. CASE Len(d) # 0
    <3>1. d[1] \in B
      BY <1>0, <2>2
    <3> QED
      BY <1>6, <3>1, ReaderSetStays
  <2> QED
    BY <2>1, <2>2
<1> QED
  BY <1>6, <1>7, <1>8 DEF ReaderOK

-----------------------------------------------------------------------------
(* Chunks                                                                  *)

\* Parts are sequences of blocks.
LEMMA PartsIsSeq ==
    ASSUME NEW max \in Nat, NEW B, IsBlocks(B), NEW s \in Seq(B)
    PROVE  Parts(s, max) \in Seq(Seq(B))
<1>1. CASE s = <<>>
  <2>1. Length(s) = -2
    <3>1. Len(s) = 0
      BY <1>1
    <3>2. PICK run \in [0..0 -> Nat] : run[0] = 0 /\ Length(s) = run[0] - 2
      BY <3>1, LengthSum
    <3> QED
      BY <3>2
  <2>2. Length(s) <= max
    BY <2>1
  <2> QED
    BY <2>2 DEF Parts
<1>2. CASE s # <<>>
  BY <1>2, PartsCut
<1> QED
  BY <1>1, <1>2

\* The drafts of a section have its path, and its parts.
LEMMA DraftsOfIs ==
    ASSUME NEW B, IsBlocks(B), NEW max \in Nat, NEW section \in ChunkSet(B)
    PROVE  /\ DraftsOf(section, max) \in Seq(ChunkSet(B))
           /\ Len(DraftsOf(section, max)) = Len(Parts(section.blocks, max))
           /\ \A i \in 1..Len(Parts(section.blocks, max)) :
                 /\ DraftsOf(section, max)[i].path = section.path
                 /\ DraftsOf(section, max)[i].blocks = Parts(section.blocks, max)[i]
<1> DEFINE P == Parts(section.blocks, max)
           n == Len(P)
<1>1. P \in Seq(Seq(B)) /\ section.path \in Seq({b.word : b \in B})
  BY PartsIsSeq DEF ChunkSet
<1>2. DraftsOf(section, max) = [i \in DOMAIN P |-> [path |-> section.path, blocks |-> P[i]]]
  BY DEF DraftsOf
<1> HIDE DEF P
<1>3. n \in Nat /\ DOMAIN P = 1..n /\ \A i \in 1..n : P[i] \in Seq(B)
  BY <1>1
<1>4. \A i \in 1..n : [path |-> section.path, blocks |-> P[i]] \in ChunkSet(B)
  BY <1>1, <1>3 DEF ChunkSet
<1> HIDE DEF n
<1>5. /\ DraftsOf(section, max) \in Seq(ChunkSet(B)) /\ Len(DraftsOf(section, max)) = n
      /\ \A i \in 1..n : DraftsOf(section, max)[i] = [path |-> section.path, blocks |-> P[i]]
  BY <1>2, <1>3, <1>4
<1>6. \A i \in 1..n : DraftsOf(section, max)[i].path = section.path /\ DraftsOf(section, max)[i].blocks = P[i]
  BY <1>5
<1> QED
  BY <1>5, <1>6 DEF n, P

\* What is put after a sequence comes after it.
LEMMA ConcatStays ==
    ASSUME NEW C, NEW drafts \in Seq(C), NEW t \in Seq(C)
    PROVE  /\ drafts \o t \in Seq(C)
           /\ Len(drafts \o t) = Len(drafts) + Len(t)
           /\ \A i \in 1..Len(drafts) : (drafts \o t)[i] = drafts[i]
           /\ \A i \in 1..Len(t) : (drafts \o t)[Len(drafts) + i] = t[i]
<1>1. drafts \o t \in Seq(C) /\ Len(drafts \o t) = Len(drafts) + Len(t)
  OBVIOUS
<1>2. \A i \in 1..Len(drafts) : (drafts \o t)[i] = drafts[i]
  OBVIOUS
<1>3. \A i \in 1..Len(t) : (drafts \o t)[Len(drafts) + i] = t[i]
  <2> SUFFICES ASSUME NEW i \in 1..Len(t) PROVE (drafts \o t)[Len(drafts) + i] = t[i]
    OBVIOUS
  <2> DEFINE j == Len(drafts) + i
  <2>1. j > Len(drafts) /\ j <= Len(drafts) + Len(t) /\ j - Len(drafts) = i /\ j \in Nat
    OBVIOUS
  <2> HIDE DEF j
  <2>2. (drafts \o t)[j] = t[j - Len(drafts)]
    BY <2>1, ConcatProperties
  <2> QED
    BY <2>1, <2>2 DEF j
<1> QED
  BY <1>1, <1>2, <1>3

\* The drafts of a section come after those there are.
LEMMA AddSectionStays ==
    ASSUME NEW B, IsBlocks(B), NEW max \in Nat, NEW drafts \in Seq(ChunkSet(B)),
           NEW section \in ChunkSet(B)
    PROVE  AddSection(drafts, section, max) \in Seq(ChunkSet(B))
  BY DraftsOfIs, ConcatStays DEF AddSection

\* The chunks of one more section.
LEMMA ChunksTakeSection ==
    ASSUME NEW max \in Nat, NEW B, IsBlocks(B), NEW d \in Seq(B), NEW drafts \in Seq(ChunkSet(B)),
           NEW from \in Nat, NEW to \in Nat, from < to, to <= Len(d), NEW at,
           InPlace(drafts, d, from, at), LongHasReason(drafts, max),
           NEW section \in ChunkSet(B), section.blocks = Slice(d, from, to),
           OneSection(d, from, to), IsOutline(section.path, d, from + 1)
    PROVE  /\ \E at2 : InPlace(AddSection(drafts, section, max), d, to, at2)
           /\ LongHasReason(AddSection(drafts, section, max), max)
<1> DEFINE s == Slice(d, from, to)
           P == Parts(s, max)
           n == Len(drafts)
           m == Len(P)
           new == AddSection(drafts, section, max)
<1>1. s \in Seq(B) /\ Len(s) = to - from /\ s # <<>>
  <2>1. s \in Seq(B) /\ Len(s) = to - from
    BY SliceIsSeq
  <2> HIDE DEF s
  <2> QED
    BY <2>1
<1>01. \A x, y \in Nat :
          x <= y /\ y <= to - from => Slice(s, x, y) = Slice(d, from + x, from + y)
  BY SliceSlice
<1> HIDE DEF s
<1>2. PICK pt : Cutting(P, m, s, 0, to - from, pt)
  BY <1>1, PartsCut
<1>3. m \in Nat /\ n \in Nat /\ \A i \in 1..m : HasReason(P[i], max)
  <2>1. P \in Seq(Seq(B)) /\ \A i \in DOMAIN P : HasReason(P[i], max)
    BY <1>1, PartsCut
  <2> HIDE DEF P
  <2>2. m \in Nat /\ DOMAIN P = 1..m
    BY <2>1
  <2>3. n \in Nat
    OBVIOUS
  <2> HIDE DEF n, m
  <2> QED
    BY <2>1, <2>2, <2>3
<1>4. /\ new \in Seq(ChunkSet(B)) /\ Len(new) = n + m
      /\ \A i \in 1..n : new[i] = drafts[i]
      /\ \A i \in 1..m : new[n + i].path = section.path /\ new[n + i].blocks = P[i]
  <2>1. /\ Len(DraftsOf(section, max)) = m
        /\ \A i \in 1..m : DraftsOf(section, max)[i].path = section.path /\ DraftsOf(section, max)[i].blocks = P[i]
    <3>1. P = Parts(section.blocks, max)
      BY DEF s
    <3> HIDE DEF P
    <3> QED
      BY <3>1, DraftsOfIs
  <2>2. /\ new \in Seq(ChunkSet(B)) /\ Len(new) = n + Len(DraftsOf(section, max))
        /\ \A i \in 1..n : new[i] = drafts[i]
        /\ \A i \in 1..Len(DraftsOf(section, max)) : new[n + i] = DraftsOf(section, max)[i]
    <3>1. DraftsOf(section, max) \in Seq(ChunkSet(B))
      BY DraftsOfIs
    <3>2. new = drafts \o DraftsOf(section, max)
      BY DEF AddSection
    <3> HIDE DEF new
    <3> QED
      BY <3>1, <3>2, ConcatStays
  <2> HIDE DEF n, m, new, P
  <2> QED
    BY <2>1, <2>2
<1> HIDE DEF P, n, m, new
<1> DEFINE at2 == [x \in 0..n + m |-> IF x <= n THEN at[x] ELSE from + pt[x - n]]
<1>5. /\ at \in [0..n -> 0..from] /\ at[0] = 0 /\ at[n] = from
      /\ \A i \in 1..n : at[i - 1] < at[i] /\ BlocksIn(drafts)[i] = Slice(d, at[i - 1], at[i])
  BY DEF InPlace, Cutting, n
<1>6. /\ pt \in [0..m -> 0..to - from] /\ pt[0] = 0 /\ pt[m] = to - from
      /\ \A i \in 1..m : pt[i - 1] < pt[i] /\ P[i] = Slice(s, pt[i - 1], pt[i])
  BY <1>2 DEF Cutting
<1>7. /\ at2 \in [0..n + m -> 0..to] /\ at2[0] = 0 /\ at2[n + m] = to
      /\ \A i \in 0..n : at2[i] = at[i]
      /\ \A i \in 0..m : at2[n + i] = from + pt[i]
  <2>1. \A i \in 0..n : i \in 0..n + m /\ at2[i] = at[i] /\ at[i] \in 0..to
    BY <1>3, <1>5
  <2>2. \A i \in 0..m : n + i \in 0..n + m /\ at2[n + i] = from + pt[i] /\ from + pt[i] \in 0..to
    <3> SUFFICES ASSUME NEW i \in 0..m
                 PROVE  n + i \in 0..n + m /\ at2[n + i] = from + pt[i] /\ from + pt[i] \in 0..to
      OBVIOUS
    <3>1. n + i \in 0..n + m /\ (n + i) - n = i /\ (n + i <= n <=> i = 0) /\ n + 0 = n /\ from + 0 = from
      BY <1>3
    <3>2. pt[i] \in 0..to - from
      BY <1>6
    <3>3. from + pt[i] \in 0..to
      BY <3>2
    <3> QED
      BY <1>5, <1>6, <3>1, <3>3
  <2>3. \A x \in 0..n + m : x \in 0..n \/ (x - n \in 0..m /\ n + (x - n) = x)
    BY <1>3
  <2>31. DOMAIN at2 = 0..n + m /\ at2 = [x \in 0..n + m |-> at2[x]]
    OBVIOUS
  <2> HIDE DEF at2
  <2>4. ASSUME NEW x \in 0..n + m PROVE at2[x] \in 0..to
    <3>1. CASE x \in 0..n
      BY <2>1, <3>1
    <3>2. CASE x - n \in 0..m /\ n + (x - n) = x
      <4>1. at2[n + (x - n)] = from + pt[x - n] /\ from + pt[x - n] \in 0..to
        BY <2>2, <3>2
      <4> QED
        BY <3>2, <4>1
    <3> QED
      BY <2>3, <3>1, <3>2
  <2>5. 0 \in 0..n /\ m \in 0..m /\ from + (to - from) = to
    BY <1>3
  <2> QED
    BY <1>5, <1>6, <2>1, <2>2, <2>31, <2>4, <2>5
<1> HIDE DEF at2
<1>8. BlocksIn(new) = [i \in 1..n + m |-> new[i].blocks] /\ \A i \in 1..n : BlocksIn(drafts)[i] = drafts[i].blocks
  BY <1>4 DEF BlocksIn, n
<1>9. ASSUME NEW i \in 1..n + m
      PROVE  /\ at2[i - 1] < at2[i] /\ new[i].blocks = Slice(d, at2[i - 1], at2[i])
             /\ OneSection(d, at2[i - 1], at2[i]) /\ IsOutline(new[i].path, d, at2[i - 1] + 1)
             /\ HasReason(new[i].blocks, max)
  <2>1. CASE i \in 1..n
    <3>1. i \in 0..n /\ i - 1 \in 0..n
      BY <1>3, <2>1
    <3>2. OneSection(d, at[i - 1], at[i]) /\ IsOutline(drafts[i].path, d, at[i - 1] + 1)
      BY <2>1 DEF InPlace, n
    <3>3. HasReason(drafts[i].blocks, max)
      <4>1. DOMAIN drafts = 1..n
        BY DEF n
      <4> QED
        BY <2>1, <4>1 DEF LongHasReason
    <3> QED
      BY <1>4, <1>5, <1>7, <1>8, <2>1, <3>1, <3>2, <3>3
  <2>2. CASE i \notin 1..n
    <3>1. PICK q \in 1..m : i = n + q
      <4>1. i - n \in 1..m /\ i = n + (i - n)
        BY <1>3, <2>2
      <4> QED
        BY <4>1
    <3>2. q - 1 \in 0..m /\ q \in 0..m /\ n + (q - 1) = i - 1
      BY <1>3, <3>1
    <3>3. PICK x \in Nat, y \in Nat : x = pt[q - 1] /\ y = pt[q] /\ x < y /\ y <= to - from
                                      /\ P[q] = Slice(s, x, y)
      <4>1. pt[q - 1] \in 0..to - from /\ pt[q] \in 0..to - from
        BY <1>6, <3>2
      <4>2. pt[q - 1] < pt[q] /\ P[q] = Slice(s, pt[q - 1], pt[q])
        BY <1>6, <3>1
      <4> QED
        BY <4>1, <4>2
    <3>4. at2[i - 1] = from + x /\ at2[i] = from + y
      BY <1>7, <3>1, <3>2, <3>3
    <3>5. new[i].path = section.path /\ new[i].blocks = P[q] /\ HasReason(P[q], max)
      BY <1>3, <1>4, <3>1
    <3>6. Slice(s, x, y) = Slice(d, from + x, from + y)
      <4>1. from <= to /\ x <= y
        BY <3>3
      <4> QED
        BY <1>01, <3>3, <4>1
    <3>7. from + x < from + y /\ from + y <= to /\ from + x + 1 <= to /\ from < from + x + 1
          /\ from + x \in Nat /\ from + x + 1 \in Nat
      <4> SUFFICES ASSUME x < y, y <= to - from
                   PROVE  /\ from + x < from + y /\ from + y <= to /\ from + x + 1 <= to
                          /\ from < from + x + 1 /\ from + x \in Nat /\ from + x + 1 \in Nat
        BY <3>3
      <4> QED
        OBVIOUS
    <3>8. OneSection(d, from + x, from + y)
      <4>1. \A j \in from + x + 2 .. from + y : j \in from + 2 .. to
        BY <3>7
      <4> QED
        BY <4>1 DEF OneSection
    <3>9. IsOutline(section.path, d, from + x + 1)
      <4>1. \A j \in from + 2 .. from + x + 1 : d[j].level = 0
        BY <3>7 DEF OneSection
      <4>2. from + x + 1 <= Len(d)
        BY <3>7
      <4> QED
        BY <3>7, <4>1, <4>2, SameOutline
    <3> QED
      BY <3>3, <3>4, <3>5, <3>6, <3>7, <3>8, <3>9
  <2> QED
    BY <2>1, <2>2
<1>10. Cutting(BlocksIn(new), n + m, d, 0, to, at2)
  BY <1>7, <1>8, <1>9 DEF Cutting
<1>11. InPlace(new, d, to, at2)
  BY <1>4, <1>9, <1>10 DEF InPlace
<1>12. LongHasReason(new, max)
  <2>1. DOMAIN new = 1..n + m
    BY <1>4
  <2> QED
    BY <1>9, <2>1 DEF LongHasReason
<1> QED
  BY <1>11, <1>12 DEF new

\* The drafts of a document are its blocks in order, in place and with a reason
\* for their length.
LEMMA DraftsOK ==
    ASSUME NEW max \in Nat, NEW B, IsBlocks(B), NEW d \in Seq(B)
    PROVE  /\ ChunkDrafts(d, max) \in Seq(ChunkSet(B))
           /\ \E at : InPlace(ChunkDrafts(d, max), d, Len(d), at)
           /\ LongHasReason(ChunkDrafts(d, max), max)
<1> DEFINE ss == Sections(d)
           n == Len(ss)
           A == Seq(ChunkSet(B))
<1>1. ss \in Seq(ChunkSet(B))
  BY SectionsOK
<1>2. PICK at : InPlace(ss, d, Len(d), at)
  BY SectionsOK
<1> HIDE DEF ss
<1>3. n \in Nat /\ \A i \in 1..n : ss[i] \in ChunkSet(B)
  BY <1>1
<1>4. AddsIn(A, ChunkSet(B), max)
  BY AddSectionStays DEF AddsIn
<1>5. PICK run \in [0..n -> A] :
         /\ run[0] = <<>>
         /\ \A i \in 1..n : run[i] = AddSection(run[i - 1], ss[i], max)
         /\ AllDrafts(ss, max) = run[n]
  <2> HIDE DEF A
  <2> QED
    BY <1>1, <1>4, DraftsRun
<1>6. ChunkDrafts(d, max) = run[n]
  BY <1>5 DEF ChunkDrafts, AllDrafts, DraftsOf, ss
<1>7. /\ at \in [0..n -> 0..Len(d)] /\ at[0] = 0 /\ at[n] = Len(d)
      /\ \A i \in 1..n : /\ at[i - 1] < at[i] /\ ss[i].blocks = Slice(d, at[i - 1], at[i])
                         /\ OneSection(d, at[i - 1], at[i]) /\ IsOutline(ss[i].path, d, at[i - 1] + 1)
  BY <1>2 DEF InPlace, Cutting, BlocksIn
<1> HIDE DEF n
<1> DEFINE Good(i) == (\E to : InPlace(run[i], d, at[i], to)) /\ LongHasReason(run[i], max)
           N == {i \in Nat : i <= n => Good(i)}
<1>8. 0 \in N
  <2>1. InPlace(<<>>, d, 0, [i \in 0..0 |-> 0])
    <3>1. Len(<<>>) = 0 /\ 1..0 = {}
      OBVIOUS
    <3> QED
      BY <3>1 DEF InPlace, Cutting
  <2>2. LongHasReason(<<>>, max)
    BY DEF LongHasReason
  <2> QED
    BY <1>5, <1>7, <2>1, <2>2
<1>9. ASSUME NEW k \in Nat, k \in N PROVE k + 1 \in N
  <2> SUFFICES ASSUME k + 1 <= n PROVE Good(k + 1)
    OBVIOUS
  <2>1. k \in 0..n /\ k + 1 \in 0..n /\ k + 1 \in 1..n /\ (k + 1) - 1 = k /\ k <= n
    BY <1>3
  <2> DEFINE drafts == run[k]
             section == ss[k + 1]
             from == at[k]
             to == at[k + 1]
  <2>2. /\ drafts \in Seq(ChunkSet(B)) /\ section \in ChunkSet(B) /\ from \in Nat /\ to \in Nat
        /\ to <= Len(d)
    <3>1. run[k] \in A
      <4> HIDE DEF A
      <4> QED
        BY <1>5, <2>1
    <3>2. at[k] \in 0..Len(d) /\ at[k + 1] \in 0..Len(d)
      BY <1>7, <2>1
    <3>3. ss[k + 1] \in ChunkSet(B)
      BY <1>3, <2>1
    <3> QED
      BY <3>1, <3>2, <3>3
  <2>3. /\ from < to /\ section.blocks = Slice(d, from, to) /\ OneSection(d, from, to)
        /\ IsOutline(section.path, d, from + 1)
    BY <1>7, <2>1
  <2>4. PICK at1 : InPlace(drafts, d, from, at1)
    BY <1>9, <2>1
  <2>5. LongHasReason(drafts, max)
    BY <1>9, <2>1
  <2>6. run[k + 1] = AddSection(drafts, section, max)
    BY <1>5, <2>1
  <2> HIDE DEF drafts, section, from, to
  <2>7. /\ \E at2 : InPlace(AddSection(drafts, section, max), d, to, at2)
        /\ LongHasReason(AddSection(drafts, section, max), max)
    BY <2>2, <2>3, <2>4, <2>5, ChunksTakeSection
  <2> QED
    BY <2>6, <2>7 DEF to
<1>10. Nat \subseteq N
  <2> HIDE DEF N
  <2> QED
    BY <1>8, <1>9, NatSetInduction
<1>11. Good(n)
  BY <1>3, <1>10
<1>12. run[n] \in A
  <2> HIDE DEF A
  <2>1. n \in 0..n
    BY <1>3
  <2> QED
    BY <1>5, <2>1
<1> QED
  BY <1>6, <1>7, <1>11, <1>12

-----------------------------------------------------------------------------
(* The chunks of a document                                                *)

\* The blocks of a document have a level, a size and a fence or none.
LEMMA DocumentBlocks ==
    ASSUME NEW document, IsDocument(document)
    PROVE  document \in Seq(Range(document)) /\ IsBlocks(Range(document))
BY DEF IsDocument, IsBlocks, Range

\* A sequence of such blocks is a document.
LEMMA BlocksAreDocument ==
    ASSUME NEW B, IsBlocks(B), NEW s \in Seq(B)
    PROVE  IsDocument(s)
<1>1. Len(s) \in Nat /\ DOMAIN s = 1..Len(s) /\ s = [i \in 1..Len(s) |-> s[i]]
      /\ \A i \in 1..Len(s) : s[i] \in B
  OBVIOUS
<1>2. s \in Seq(Range(s))
  <2>1. \A i \in 1..Len(s) : s[i] \in Range(s)
    BY <1>1 DEF Range
  <2> QED
    BY <1>1, <2>1
<1> QED
  BY <1>1, <1>2 DEF IsDocument, IsBlocks

\* A title in front of a document makes a document.
LEMMA JoinedDocuments ==
    ASSUME NEW s, NEW t, IsDocument(s), IsDocument(t)
    PROVE  IsDocument(s \o t)
<1> DEFINE B == Range(s) \cup Range(t)
<1>1. s \in Seq(Range(s)) /\ t \in Seq(Range(t)) /\ IsBlocks(Range(s)) /\ IsBlocks(Range(t))
  BY DocumentBlocks
<1>2. s \in Seq(B) /\ t \in Seq(B)
  <2> DEFINE S == Range(s)
             T == Range(t)
  <2>1. s \in Seq(S) /\ t \in Seq(T)
    BY <1>1
  <2> HIDE DEF S, T
  <2>2. s \in Seq(S \cup T) /\ t \in Seq(S \cup T)
    BY <2>1
  <2> QED
    BY <2>2 DEF S, T
<1>3. IsBlocks(B)
  BY <1>1 DEF IsBlocks
<1> HIDE DEF B
<1>4. s \o t \in Seq(B)
  BY <1>2
<1> QED
  BY <1>3, <1>4, BlocksAreDocument

\* The chunks of a document are a sequence of a path and blocks each.
LEMMA DraftsAreChunks ==
    ASSUME NEW max \in Nat, NEW document, IsDocument(document)
    PROVE  ChunkDrafts(document, max) \in Seq(ChunkSet(Range(document)))
BY DocumentBlocks, DraftsOK

\* The blocks of the first chunks in place are the start of the document.
LEMMA BlocksOfIs ==
    ASSUME NEW B, NEW d \in Seq(B), NEW drafts \in Seq(ChunkSet(B)), NEW at,
           InPlace(drafts, d, Len(d), at), NEW m \in 0..Len(drafts)
    PROVE  BlocksOf(drafts, m) = Slice(d, 0, at[m])
<1> DEFINE n == Len(drafts)
           bs == BlocksIn(drafts)
<1>1. n \in Nat /\ Len(d) \in Nat /\ Cutting(bs, n, d, 0, Len(d), at)
  BY DEF InPlace
<1>2. \A i \in 1..m : bs[i] = drafts[i].blocks
  BY <1>1 DEF BlocksIn
<1>3. [i \in 1..m |-> bs[i]] = [i \in 1..m |-> drafts[i].blocks]
  BY <1>2
<1> HIDE DEF bs
<1>4. FlattenSeq([i \in 1..m |-> bs[i]]) = Slice(d, 0, at[m])
  BY <1>1, FlattenCutting
<1> QED
  BY <1>3, <1>4 DEF BlocksOf

\* The chunks of a document, put together, are the document: whatever its
\* headings and fences, no block is lost, repeated or moved
\* (knowledge_library.py:532-553, :948-1000).
THEOREM ChunksPartitionDocument ==
    ASSUME NEW max \in Nat, NEW document, IsDocument(document)
    PROVE  Partitions(ChunkDrafts(document, max), document)
<1> DEFINE B == Range(document)
           drafts == ChunkDrafts(document, max)
<1>1. document \in Seq(B) /\ IsBlocks(B)
  BY DocumentBlocks
<1> HIDE DEF B
<1>2. drafts \in Seq(ChunkSet(B))
  BY <1>1, DraftsOK
<1>3. PICK at : InPlace(drafts, document, Len(document), at)
  BY <1>1, DraftsOK
<1> HIDE DEF drafts
<1>4. Len(drafts) \in 0..Len(drafts) /\ at[Len(drafts)] = Len(document)
  BY <1>2, <1>3 DEF InPlace, Cutting
<1>5. BlocksOf(drafts, Len(drafts)) = Slice(document, 0, Len(document))
  BY <1>1, <1>2, <1>3, <1>4, BlocksOfIs
<1>6. Slice(document, 0, Len(document)) = document
  BY <1>1, SliceAll
<1> QED
  BY <1>5, <1>6 DEF Partitions, drafts

\* A chunk never crosses a heading, and its path is the outline of the document
\* at the place its blocks have there (knowledge_library.py:948-974).
THEOREM ChunksKeepOutline ==
    ASSUME NEW max \in Nat, NEW document, IsDocument(document)
    PROVE  KeepsOutline(ChunkDrafts(document, max), document)
<1> DEFINE B == Range(document)
           drafts == ChunkDrafts(document, max)
           n == Len(drafts)
<1>1. document \in Seq(B) /\ IsBlocks(B)
  BY DocumentBlocks
<1> HIDE DEF B
<1>2. drafts \in Seq(ChunkSet(B))
  BY <1>1, DraftsOK
<1>3. PICK at : InPlace(drafts, document, Len(document), at)
  BY <1>1, DraftsOK
<1> HIDE DEF drafts
<1>4. n \in Nat /\ DOMAIN drafts = 1..n
  BY <1>2
<1>5. ASSUME NEW i \in 1..n
      PROVE  /\ \A k \in DOMAIN drafts[i].blocks \ {1} : drafts[i].blocks[k].level = 0
             /\ IsOutline(drafts[i].path, document, Len(BlocksOf(drafts, i - 1)) + 1)
  <2>1. i - 1 \in 0..n /\ i \in 0..n
    BY <1>4
  <2>2. PICK from \in Nat, to \in Nat :
           /\ from = at[i - 1] /\ to = at[i] /\ from < to /\ to <= Len(document)
           /\ BlocksIn(drafts)[i] = Slice(document, from, to)
    <3>1. /\ at \in [0..n -> 0..Len(document)]
          /\ at[i - 1] < at[i] /\ BlocksIn(drafts)[i] = Slice(document, at[i - 1], at[i])
      BY <1>3 DEF InPlace, Cutting
    <3>2. at[i - 1] \in 0..Len(document) /\ at[i] \in 0..Len(document)
      BY <2>1, <3>1
    <3> QED
      BY <3>1, <3>2
  <2>3. drafts[i].blocks = Slice(document, from, to)
    BY <1>4, <2>2 DEF BlocksIn
  <2>4. OneSection(document, from, to) /\ IsOutline(drafts[i].path, document, from + 1)
    BY <1>3, <2>2 DEF InPlace
  <2>5. /\ Slice(document, from, to) \in Seq(B) /\ Len(Slice(document, from, to)) = to - from
        /\ \A j \in 1..to - from : Slice(document, from, to)[j] = document[from + j]
    <3>1. from <= to /\ to <= Len(document)
      BY <2>2
    <3> QED
      BY <1>1, <3>1, SliceIsSeq
  <2>6. ASSUME NEW k \in DOMAIN drafts[i].blocks \ {1} PROVE drafts[i].blocks[k].level = 0
    <3>1. k \in 1..to - from /\ k # 1
      BY <2>3, <2>5
    <3>2. from + k \in from + 2 .. to
      BY <2>2, <3>1
    <3> QED
      BY <2>3, <2>4, <2>5, <3>1, <3>2 DEF OneSection
  <2>7. Len(BlocksOf(drafts, i - 1)) = from
    <3>1. BlocksOf(drafts, i - 1) = Slice(document, 0, from)
      <4>1. BlocksOf(drafts, i - 1) = Slice(document, 0, at[i - 1])
        BY <1>1, <1>2, <1>3, <2>1, BlocksOfIs
      <4> QED
        BY <2>2, <4>1
    <3>2. 0 <= from /\ from <= Len(document) /\ from - 0 = from
      BY <1>1, <2>2
    <3>3. Len(Slice(document, 0, from)) = from - 0
      BY <1>1, <3>2, SliceIsSeq
    <3> QED
      BY <3>1, <3>2, <3>3
  <2> QED
    BY <2>4, <2>6, <2>7
<1> QED
  BY <1>4, <1>5 DEF KeepsOutline, drafts

\* A chunk that is longer than it may be is a single block, or has a block that
\* begins a code fence (knowledge_library.py:977-1000).
THEOREM LongChunkHasReason ==
    ASSUME NEW max \in Nat, NEW document, IsDocument(document)
    PROVE  LongHasReason(ChunkDrafts(document, max), max)
BY DocumentBlocks, DraftsOK
=============================================================================
