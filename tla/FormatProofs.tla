----------------------------- MODULE FormatProofs -----------------------------
(***************************************************************************)
(* What the fixed root keeps and reads back, for every value of the        *)
(* constants: the seals of its records and images, and the canonical wire  *)
(* formats they and its commands travel in.                                *)
(***************************************************************************)
EXTENDS WireFormats, Sealing, SequenceTheorems, Induction, TLAPS

-----------------------------------------------------------------------------
(***************************************************************************)
(* Seals.                                                                  *)
(***************************************************************************)
LEMMA SealingStart == SealingInit => SealingInv
  BY DEF SealingInit, SealingInv, TailsPublished, SequencesAscend, Labelled

\* The number of a chain's head is the chain's length.
LEMMA HeadNumber ==
  ASSUME SealingInv, NEW r \in Roots
  PROVE  HeadOf(chain[r]).sequence = Len(chain[r]) /\ Len(chain[r]) \in Nat
  <1>1. chain[r] \in Seq(seals) /\ \A i \in DOMAIN chain[r] : chain[r][i].content.sequence = i
    BY DEF SealingInv, SequencesAscend
  <1> DEFINE c == chain[r]
  <1>2. CASE c = <<>>
    BY <1>2 DEF HeadOf, Genesis
  <1>3. CASE c # <<>>
    <2>1. Len(c) \in DOMAIN c
      BY <1>1, <1>3
    <2>2. QED BY <1>1, <1>3, <2>1 DEF HeadOf, HeadAfter
  <1>4. QED BY <1>2, <1>3

LEMMA SealRecordKeeps ==
  ASSUME SealingInv, NEW r \in Roots, SealRecord(r)
  PROVE  SealingInv'
  <1>1. PICK kind \in Kinds, body \in Bodies :
          /\ seals' = seals \cup {Frame(r, kind, body, HeadOf(chain[r]))}
          /\ chain' = [chain EXCEPT ![r] = Append(@, Frame(r, kind, body, HeadOf(chain[r])))]
    BY DEF SealRecord
  <1> DEFINE f == Frame(r, kind, body, HeadOf(chain[r]))
             n == Len(chain[r])
  <1>2. n \in Nat /\ HeadOf(chain[r]).sequence = n /\ n < MaxSequence /\ MaxSequence \in Nat
    BY HeadNumber, SealingConstants DEF SealRecord, sequence_available
  <1>3. f.label = "record" /\ f.content.sequence = n + 1
    <2>1. (n + 1) % (MaxSequence + 1) = n + 1
      <3> HIDE DEF n
      <3>1. QED BY <1>2
    <2>2. QED BY <1>2, <2>1 DEF Frame, Piece
  <1> HIDE DEF f
  <1>4. chain \in [Roots -> Seq(seals)]
    BY DEF SealingInv
  <1>5. chain' \in [Roots -> Seq(seals')]
    <2>1. \A q \in Roots : chain[q] \in Seq(seals')
      BY <1>1, <1>4
    <2>2. Append(chain[r], f) \in Seq(seals')
      BY <1>1, <2>1 DEF f
    <2>3. QED BY <1>1, <1>4, <2>1, <2>2 DEF f
  <1>6. TailsPublished'
    <2>1. Labelled("tail")' = Labelled("tail")
      BY <1>1, <1>3 DEF Labelled, f
    <2>2. images' = images
      BY DEF SealRecord
    <2>3. QED BY <2>1, <2>2 DEF SealingInv, TailsPublished
  <1>7. SequencesAscend'
    <2>1. SUFFICES ASSUME NEW q \in Roots, NEW i \in DOMAIN chain'[q]
                   PROVE  chain'[q][i].content.sequence = i
      BY DEF SequencesAscend
    <2>2. \A j \in DOMAIN chain[q] : chain[q][j].content.sequence = j
      BY DEF SealingInv, SequencesAscend
    <2>3. CASE q # r
      BY <1>1, <1>4, <2>1, <2>2, <2>3
    <2>4. CASE q = r
      <3>1. chain'[q] = Append(chain[r], f)
        BY <1>1, <1>4, <2>4 DEF f
      <3>2. chain[r] \in Seq(seals)
        BY <1>4
      <3>3. i \in 1..(n + 1)
        BY <1>2, <2>1, <3>1, <3>2
      <3>4. CASE i = n + 1
        BY <1>3, <3>1, <3>2, <3>4
      <3>5. CASE i # n + 1
        <4>1. i \in DOMAIN chain[r] /\ chain'[q][i] = chain[r][i]
          BY <1>2, <3>1, <3>2, <3>3, <3>5
        <4>2. QED BY <2>2, <2>4, <4>1
      <3>6. QED BY <3>4, <3>5
    <2>5. QED BY <2>3, <2>4
  <1>8. QED BY <1>5, <1>6, <1>7 DEF SealingInv

LEMMA ForgetKeeps ==
  ASSUME SealingInv, NEW r \in Roots, Forget(r)
  PROVE  SealingInv'
  <1>1. PICK n \in 0..(Len(chain[r]) - 1) : chain' = [chain EXCEPT ![r] = SubSeq(@, 1, n)]
    BY DEF Forget
  <1>2. UNCHANGED <<seals, images>>
    BY DEF Forget
  <1>3. chain \in [Roots -> Seq(seals)] /\ Len(chain[r]) \in Nat
    BY DEF SealingInv
  <1>4. n \in Nat /\ n < Len(chain[r])
    BY <1>1, <1>3
  <1>5. /\ SubSeq(chain[r], 1, n) \in Seq(seals)
        /\ Len(SubSeq(chain[r], 1, n)) = n
        /\ \A i \in 1..n : SubSeq(chain[r], 1, n)[i] = chain[r][i] /\ i \in DOMAIN chain[r]
    BY <1>3, <1>4
  <1>6. chain' \in [Roots -> Seq(seals)]
    BY <1>1, <1>3, <1>5
  <1>7. SequencesAscend'
    <2>1. \A q \in Roots : \A j \in DOMAIN chain[q] : chain[q][j].content.sequence = j
      BY DEF SealingInv, SequencesAscend
    <2>2. \A q \in Roots : q # r => chain'[q] = chain[q]
      BY <1>1, <1>3
    <2>3. chain'[r] = SubSeq(chain[r], 1, n) /\ DOMAIN chain'[r] = 1..n
      BY <1>1, <1>3, <1>4, <1>5
    <2>4. QED BY <1>5, <2>1, <2>2, <2>3 DEF SequencesAscend
  <1>8. TailsPublished'
    BY <1>2 DEF SealingInv, TailsPublished, Labelled
  <1>9. QED BY <1>2, <1>6, <1>7, <1>8 DEF SealingInv

LEMMA SealImageKeeps ==
  ASSUME SealingInv, NEW r \in Roots, SealImage(r)
  PROVE  SealingInv'
  <1>1. PICK n \in 0..Len(chain[r]), high_water \in 0..1 :
          \E image \in {encode_image(r, high_water, n, Len(chain[r]))} :
            /\ seals' = seals \cup {image.header, image.checkpoint, image.tail}
            /\ images' = images \cup {<<r, image>>}
    BY DEF SealImage
  <1> DEFINE h == encode_control_journal_header(r, high_water)
             c == seal_region(r, "checkpoint", h, <<>>, HeadOf(SubSeq(chain[r], 1, n)))
             t == seal_region(r, "tail", h, <<c>>, SubSeq(chain[r], n + 1, Len(chain[r])))
             sealed == [header |-> h, checkpoint |-> c, tail |-> t]
  <1>2. encode_image(r, high_water, n, Len(chain[r])) = sealed
    BY DEF encode_image
  <1>3. /\ h.label = "header" /\ c.label = "checkpoint" /\ t.label = "tail" /\ t.key = r
        /\ t.content.header = h /\ t.content.checkpoint = <<c>>
    BY DEF encode_control_journal_header, seal_region, Piece
  <1> HIDE DEF h, c, t
  <1>4. seals' = seals \cup {h, c, t} /\ images' = images \cup {<<r, sealed>>}
    BY <1>1, <1>2
  <1>5. chain' = chain
    BY DEF SealImage
  <1>6. chain' \in [Roots -> Seq(seals')]
    BY <1>4, <1>5 DEF SealingInv
  <1>7. SequencesAscend'
    BY <1>5 DEF SealingInv, SequencesAscend
  <1>8. TailsPublished'
    <2>1. SUFFICES ASSUME NEW x \in Labelled("tail")'
                   PROVE  <<x.key, [header |-> x.content.header,
                                    checkpoint |-> x.content.checkpoint[1], tail |-> x]>> \in images'
      BY DEF TailsPublished
    <2>2. x = t \/ x \in Labelled("tail")
      BY <1>3, <1>4 DEF Labelled
    <2>3. CASE x = t
      <3>1. sealed = [header |-> x.content.header, checkpoint |-> x.content.checkpoint[1], tail |-> x]
        BY <1>3, <2>3
      <3>2. <<x.key, sealed>> \in images'
        BY <1>3, <1>4, <2>3
      <3>3. QED BY <3>1, <3>2
    <2>4. CASE x \in Labelled("tail")
      BY <1>4, <2>4 DEF SealingInv, TailsPublished
    <2>5. QED BY <2>2, <2>3, <2>4
  <1>9. QED BY <1>6, <1>7, <1>8 DEF SealingInv

LEMMA SealingStep ==
  ASSUME SealingInv, [SealingNext]_sealingVars
  PROVE  SealingInv'
  <1>1. CASE UNCHANGED sealingVars
    BY <1>1 DEF sealingVars, SealingInv, TailsPublished, SequencesAscend, Labelled
  <1>2. CASE SealingNext
    BY <1>2, SealRecordKeeps, ForgetKeeps, SealImageKeeps DEF SealingNext
  <1>3. QED BY <1>1, <1>2

LEMMA OnePlace == OnePlacePerRecord
  <1>1. SUFFICES ASSUME NEW f \in Labelled("record"), NEW root \in Roots
                 PROVE  LET places == {<<h, "journal">> : h \in {x \in Heads : decode_control_journal_record(root, f, x)}}
                               \cup {<<h, "command">> : h \in {x \in Heads : decode_fixed_root_command_record(root, f, x)}}
                        IN Cardinality(places) <= 1
    BY DEF OnePlacePerRecord
  <1> DEFINE J == {x \in Heads : decode_control_journal_record(root, f, x)}
             K == {x \in Heads : decode_fixed_root_command_record(root, f, x)}
             places == {<<h, "journal">> : h \in J} \cup {<<h, "command">> : h \in K}
  <1>2. ASSUME NEW a \in Heads, NEW b \in Heads, a.digest = b.digest
        PROVE  a = b
    <2>1. \A x \in Heads : x = Genesis \/ \E g \in Labelled("record") : x = HeadAfter(g)
      BY DEF Heads
    <2>2. \A g : HeadAfter(g).digest # Genesis.digest
      BY DEF HeadAfter, Genesis
    <2>3. \A g, k : HeadAfter(g).digest = HeadAfter(k).digest => HeadAfter(g) = HeadAfter(k)
      <3>1. SUFFICES ASSUME NEW g, NEW k, HeadAfter(g).digest = HeadAfter(k).digest
                     PROVE  HeadAfter(g) = HeadAfter(k)
        OBVIOUS
      <3>2. <<g.content>> = <<k.content>>
        BY <3>1 DEF HeadAfter
      <3>3. g.content = k.content
        BY <3>2
      <3>4. QED BY <3>3 DEF HeadAfter
    <2>4. QED BY <1>2, <2>1, <2>2, <2>3
  <1>3. \A x \in J : x \in Heads /\ f.content.prior = x.digest /\ f.content.kind \in JournalKinds
    BY DEF decode_control_journal_record, decode_record
  <1>4. \A x \in K : x \in Heads /\ f.content.prior = x.digest /\ f.content.kind = FIXED_ROOT_COMMAND_KIND
    BY DEF decode_fixed_root_command_record, decode_record
  <1>5. FIXED_ROOT_COMMAND_KIND \notin JournalKinds
    BY DEF FIXED_ROOT_COMMAND_KIND, JournalKinds
  <1> HIDE DEF J, K
  <1>6. \A p, q \in places : p = q
    BY <1>2, <1>3, <1>4, <1>5
  <1> HIDE DEF places
  <1>7. places = {} \/ \E p : places = {p}
    BY <1>6
  <1>8. Cardinality(places) <= 1
    BY <1>7, FS_EmptySet, FS_Singleton
  <1>9. QED BY <1>8 DEF places, J, K

LEMMA WholeImages == SealingInv => AcceptedIsPublished
  <1>1. SUFFICES ASSUME SealingInv, NEW root \in Roots, NEW h \in Labelled("header"),
                        NEW c \in Labelled("checkpoint"), NEW t \in Labelled("tail"),
                        decode_image(root, [header |-> h, checkpoint |-> c, tail |-> t])
                 PROVE  <<root, [header |-> h, checkpoint |-> c, tail |-> t]>> \in images
    BY DEF AcceptedIsPublished
  <1>2. t.key = root /\ t.content.header = h /\ t.content.checkpoint = <<c>>
    BY <1>1 DEF decode_image, open_region, Opens
  <1>3. <<t.key, [header |-> t.content.header, checkpoint |-> t.content.checkpoint[1], tail |-> t]>>
          \in images
    BY <1>1 DEF SealingInv, TailsPublished
  <1>4. t.content.checkpoint[1] = c
    BY <1>2
  <1>5. QED BY <1>2, <1>3, <1>4

\* Whatever pieces of whatever roots are put together, an image that opens is one
\* its root published, whole (open_region, decode_image); a record opens after one
\* head and by one codec (decode_record); and along a chain the numbers count up
\* by one (sequence_available), whatever crashes made the journal forget.
THEOREM Seals == SealingSpec => []SealingSafety
  <1>1. SealingInv => SealingSafety
    BY OnePlace, WholeImages DEF SealingInv, SealingSafety
  <1>2. SealingInv /\ [SealingNext]_sealingVars => SealingInv'
    BY SealingStep
  <1>3. QED
    BY <1>1, <1>2, SealingStart, PTL DEF SealingSpec

-----------------------------------------------------------------------------
(***************************************************************************)
(* Wires.                                                                  *)
(***************************************************************************)
\* The names of the first fields of a table.
NamesTo(F, i) == {F[j].name : j \in 1..i}

\* A table names each field once, and a field depends only on one before it.
Table(F) ==
  /\ F \in Seq(Range(F)) /\ Len(F) > 0
  /\ \A i, j \in 1..Len(F) : F[i].name = F[j].name => i = j
  /\ \A i \in 1..Len(F) : F[i].of = "" \/ F[i].of \in NamesTo(F, i - 1)

\* A value with the cells a field asks for, and one that a wire is made of.
Fits(v, f) == v[f.name] \in Seq(f.codes) /\ Len(v[f.name]) = Extent(v, f)

Pieces(F, v) == [i \in DOMAIN F |-> v[F[i].name]]

Reading(F, w, v) ==
  /\ v \in [NamesTo(F, Len(F)) -> Seq(Nat)]
  /\ \A i \in 1..Len(F) : Fits(v, F[i])
  /\ FlattenSeq(Pieces(F, v)) = w

\* What the recursion of ReadFields runs through.
Running(g, F, w, n) ==
  g[0] = Reader /\ \A i \in 1..n : g[i] = ReadField(w, g[i - 1], F[i])

LEMMA ReadingRuns ==
  ASSUME NEW F, NEW w, NEW n \in Nat
  PROVE  \E g : Running(g, F, w, n)
  <1> DEFINE S == {m \in Nat : \E g : Running(g, F, w, m)}
  <1>1. 0 \in S
    <2>1. Running([i \in {0} |-> Reader], F, w, 0)
      BY DEF Running
    <2>2. QED BY <2>1
  <1>2. ASSUME NEW m \in S PROVE m + 1 \in S
    <2>1. m \in Nat
      OBVIOUS
    <2>2. PICK f : Running(f, F, w, m)
      OBVIOUS
    <2> DEFINE last == ReadField(w, f[m], F[m + 1])
               g == [i \in 0..m + 1 |-> IF i = m + 1 THEN last ELSE f[i]]
    <2>3. g[m + 1] = last /\ \A i \in 0..m : g[i] = f[i]
      BY <2>1
    <2> HIDE DEF g
    <2>4. ASSUME NEW i \in 1..m + 1
          PROVE  g[i] = ReadField(w, g[i - 1], F[i])
      <3>1. CASE i = m + 1
        <4>1. m \in 0..m /\ i - 1 = m
          BY <2>1, <3>1
        <4>2. g[i - 1] = f[m]
          BY <2>3, <4>1
        <4>3. QED BY <2>3, <3>1, <4>2
      <3>2. CASE i # m + 1
        <4>1. i \in 1..m /\ i \in 0..m /\ i - 1 \in 0..m
          BY <2>1, <3>2
        <4>2. g[i] = f[i] /\ g[i - 1] = f[i - 1]
          BY <2>3, <4>1
        <4>3. QED BY <2>2, <4>1, <4>2 DEF Running
      <3>3. QED BY <3>1, <3>2
    <2>5. g[0] = Reader
      BY <2>1, <2>2, <2>3 DEF Running
    <2>6. Running(g, F, w, m + 1)
      BY <2>4, <2>5 DEF Running
    <2>7. QED BY <2>1, <2>6
  <1> HIDE DEF S
  <1>3. S \subseteq Nat
    BY DEF S
  <1>4. S = Nat
    BY <1>1, <1>2, <1>3, SetInduction
  <1>5. QED BY <1>4 DEF S

LEMMA RunsOnce ==
  ASSUME NEW F, NEW w, NEW n \in Nat, NEW f, NEW g, Running(f, F, w, n), Running(g, F, w, n)
  PROVE  f[n] = g[n]
  <1> DEFINE S == {i \in Nat : i <= n => f[i] = g[i]}
  <1>1. 0 \in S
    BY DEF Running
  <1>2. ASSUME NEW i \in S PROVE i + 1 \in S
    <2>1. i \in Nat /\ (i <= n => f[i] = g[i])
      OBVIOUS
    <2>2. ASSUME i + 1 <= n PROVE f[i + 1] = g[i + 1]
      <3>1. i <= n /\ i + 1 \in 1..n /\ (i + 1) - 1 = i
        BY <2>1, <2>2
      <3>2. f[i + 1] = ReadField(w, f[i], F[i + 1]) /\ g[i + 1] = ReadField(w, g[i], F[i + 1])
        BY <3>1 DEF Running
      <3>3. QED BY <2>1, <3>1, <3>2
    <2>3. QED BY <2>1, <2>2
  <1> HIDE DEF S
  <1>3. S \subseteq Nat
    BY DEF S
  <1>4. S = Nat
    BY <1>1, <1>2, <1>3, SetInduction
  <1>5. n \in S
    BY <1>4
  <1>6. QED BY <1>5 DEF S

\* Whatever runs as the recursion does ends where ReadFields ends.
LEMMA ReadFieldsIs ==
  ASSUME NEW F, NEW w, NEW f, Len(F) \in Nat, Running(f, F, w, Len(F))
  PROVE  ReadFields(F, w) = f[Len(F)]
  <1> DEFINE n == Len(F)
             Next(r, i) == CHOOSE next \in {ReadField(w, reader, F[i]) : reader \in {r}} : TRUE
             Follows(e) == e = [i \in 0..n |-> IF i = 0 THEN Reader ELSE Next(e[i - 1], i)]
             g == CHOOSE e : Follows(e)
             h == [i \in 0..n |-> f[i]]
  <1>1. ReadFields(F, w) = g[n]
    BY DEF ReadFields
  <1>0. \A r, i : Next(r, i) = ReadField(w, r, F[i])
    OBVIOUS
  <1> HIDE DEF Next
  <1>2. Follows(h)
    <2>1. \A i \in 0..n : h[i] = f[i]
      OBVIOUS
    <2>2. ASSUME NEW i \in 0..n
          PROVE  f[i] = IF i = 0 THEN Reader ELSE Next(h[i - 1], i)
      <3>1. CASE i = 0
        BY <3>1 DEF Running
      <3>2. CASE i # 0
        <4>1. i \in 1..n /\ i - 1 \in 0..n
          BY <3>2
        <4>2. h[i - 1] = f[i - 1]
          BY <2>1, <4>1
        <4> HIDE DEF h
        <4>3. QED BY <1>0, <3>2, <4>1, <4>2 DEF Running
      <3>3. QED BY <3>1, <3>2
    <2>3. h = [i \in 0..n |-> IF i = 0 THEN Reader ELSE Next(h[i - 1], i)]
      BY <2>2
    <2>4. QED BY <2>3
  <1> HIDE DEF h
  <1>3. Follows(g)
    BY <1>2
  <1> HIDE DEF g
  <1>4. Running(g, F, w, n)
    <2>1. \A i \in 0..n : g[i] = IF i = 0 THEN Reader ELSE Next(g[i - 1], i)
      BY <1>3
    <2> HIDE DEF Follows
    <2>2. 0 \in 0..n /\ \A i \in 1..n : i \in 0..n /\ i # 0
      OBVIOUS
    <2>3. QED BY <1>0, <2>1, <2>2 DEF Running
  <1>5. QED BY <1>1, <1>4, RunsOnce

\* A reader that has read the first fields of a table.
Good(r, F, w, i) ==
  /\ r.ok /\ r.at \in 0..Len(w)
  /\ r.value \in [NamesTo(F, i) -> Seq(Nat)]
  /\ \A j \in 1..i : Fits(r.value, F[j])

LEMMA FirstCell ==
  ASSUME NEW A, NEW c \in Seq(A), c # <<>>
  PROVE  Len(c) \in Nat /\ Len(c) >= 1 /\ c[1] \in A
  <1>1. Len(c) \in Nat /\ Len(c) # 0
    BY EmptySeq
  <1>2. QED BY <1>1, ElementOfSeq

LEMMA CellsOf ==
  ASSUME NEW A, NEW S, NEW c \in Seq(A), \A k \in 1..Len(c) : c[k] \in S
  PROVE  c \in Seq(S)
  <1>1. Len(c) \in Nat /\ c = [k \in 1..Len(c) |-> c[k]]
    OBVIOUS
  <1>2. c \in [1..Len(c) -> S]
    BY <1>1
  <1>3. QED BY <1>1, <1>2

\* How many cells a field takes depends on the one it names only.
LEMMA ExtentIs ==
  ASSUME NEW f, NEW v, f.of = "" \/ (f.of \in DOMAIN v /\ v[f.of] \in Seq(Nat))
  PROVE  /\ Extent(v, f) \in Nat
         /\ \A u : (f.of # "" => u[f.of] = v[f.of]) => Extent(u, f) = Extent(v, f)
         /\ (f.of = "" \/ f.when # {}) => Extent(v, f) \in {0, 1}
  <1>1. CASE f.of = ""
    BY <1>1 DEF Extent
  <1>2. CASE f.of # ""
    <2>1. v[f.of] # <<>> => v[f.of][1] \in Nat
      BY <1>2, FirstCell
    <2>2. QED BY <1>2, <2>1 DEF Extent, Has, The
  <1>3. QED BY <1>1, <1>2

LEMMA FieldOf ==
  ASSUME NEW F, Table(F), NEW i \in 1..Len(F)
  PROVE  /\ Len(F) \in Nat /\ DOMAIN F = 1..Len(F)
         /\ NamesTo(F, i) = NamesTo(F, i - 1) \cup {F[i].name}
         /\ F[i].name \notin NamesTo(F, i - 1)
         /\ F[i].of = "" \/ F[i].of \in NamesTo(F, i - 1)
  <1>0. F \in Seq(Range(F))
    BY DEF Table
  <1>1. Len(F) \in Nat /\ DOMAIN F = 1..Len(F)
    BY <1>0, ElementOfSeq
  <1>2. 1..i = 1..(i - 1) \cup {i}
    BY <1>1
  <1>3. NamesTo(F, i) = NamesTo(F, i - 1) \cup {F[i].name}
    BY <1>2 DEF NamesTo
  <1>4. F[i].name \notin NamesTo(F, i - 1)
    <2> SUFFICES ASSUME NEW j \in 1..(i - 1), F[j].name = F[i].name PROVE FALSE
      BY DEF NamesTo
    <2>1. j \in 1..Len(F) /\ j # i
      BY <1>1
    <2>2. QED BY <2>1 DEF Table
  <1>5. QED BY <1>1, <1>3, <1>4 DEF Table

\* A part of a sequence.
LEMMA PartOf ==
  ASSUME NEW A, NEW w \in Seq(A), NEW a \in Nat, NEW b \in Nat, a <= b, b <= Len(w)
  PROVE  /\ SubSeq(w, a + 1, b) \in Seq(A) /\ Len(SubSeq(w, a + 1, b)) = b - a
         /\ \A j \in 1..(b - a) : SubSeq(w, a + 1, b)[j] = w[a + j]
  <1>1. a + 1 \in Int /\ b \in Int /\ Len(w) \in Nat
    OBVIOUS
  <1>2. \A j \in (a + 1)..b : w[j] \in A
    BY <1>1
  <1>3. /\ SubSeq(w, a + 1, b) \in Seq(A)
        /\ Len(SubSeq(w, a + 1, b)) = IF a + 1 <= b THEN b - (a + 1) + 1 ELSE 0
        /\ \A j \in 1..(b - (a + 1) + 1) : SubSeq(w, a + 1, b)[j] = w[(a + 1) + j - 1]
    BY <1>1, <1>2, SubSeqProperties
  <1>4. b - (a + 1) + 1 = b - a
    OBVIOUS
  <1>5. Len(SubSeq(w, a + 1, b)) = b - a
    BY <1>3, <1>4
  <1>6. \A j \in 1..(b - a) : (a + 1) + j - 1 = a + j
    OBVIOUS
  <1>7. QED BY <1>3, <1>4, <1>5, <1>6

\* What a reader that is still well has read with its last field.
LEMMA ReadOne ==
  ASSUME NEW w, NEW r, NEW f, ReadField(w, r, f).ok
  PROVE  LET n == Extent(r.value, f)
             cells == SubSeq(w, r.at + 1, r.at + n)
         IN /\ r.ok /\ ~(r.at + n > Len(w))
            /\ \A i \in 1..n : cells[i] \in f.codes
            /\ ReadField(w, r, f) = [ok |-> TRUE, at |-> r.at + n, value |-> Put(r.value, f.name, cells)]
  <1>1. r.ok
    BY DEF ReadField
  <1>2. ~Failed(r).ok
    BY DEF Failed
  <1>3. QED BY <1>1, <1>2 DEF ReadField

LEMMA StepGood ==
  ASSUME NEW F, Table(F), NEW w \in Seq(Nat), NEW i \in 1..Len(F), NEW r,
         Good(r, F, w, i - 1), ReadField(w, r, F[i]).ok
  PROVE  LET s == ReadField(w, r, F[i])
         IN /\ Good(s, F, w, i) /\ r.at <= s.at
            /\ s.value[F[i].name] = SubSeq(w, r.at + 1, s.at)
            /\ \A n \in NamesTo(F, i - 1) : s.value[n] = r.value[n]
  <1> DEFINE f == F[i]
             n == Extent(r.value, f)
             cells == SubSeq(w, r.at + 1, r.at + n)
             s == ReadField(w, r, f)
  <1>1. /\ ~(r.at + n > Len(w))
        /\ \A k \in 1..n : cells[k] \in f.codes
        /\ s = [ok |-> TRUE, at |-> r.at + n, value |-> Put(r.value, f.name, cells)]
    BY ReadOne
  <1>2. /\ Len(F) \in Nat
        /\ NamesTo(F, i) = NamesTo(F, i - 1) \cup {f.name}
        /\ f.name \notin NamesTo(F, i - 1)
        /\ f.of = "" \/ f.of \in NamesTo(F, i - 1)
    BY FieldOf
  <1>3. /\ r.at \in Nat /\ r.at <= Len(w) /\ Len(w) \in Nat
        /\ r.value \in [NamesTo(F, i - 1) -> Seq(Nat)] /\ DOMAIN r.value = NamesTo(F, i - 1)
        /\ \A j \in 1..(i - 1) : Fits(r.value, F[j])
    BY DEF Good
  <1>4. f.of = "" \/ (f.of \in DOMAIN r.value /\ r.value[f.of] \in Seq(Nat))
    BY <1>2, <1>3
  <1>5. n \in Nat
    BY <1>2, <1>4, ExtentIs
  <1>6. s.ok /\ s.at = r.at + n /\ s.value = Put(r.value, f.name, cells)
    BY <1>1
  <1> HIDE DEF s
  <1>7. r.at + n \in Nat /\ r.at <= r.at + n /\ r.at + n <= Len(w) /\ (r.at + n) - r.at = n
    BY <1>1, <1>3, <1>5
  <1>8. cells \in Seq(Nat) /\ Len(cells) = n
    <2>1. \A a, b \in Nat : a <= b /\ b <= Len(w) =>
            SubSeq(w, a + 1, b) \in Seq(Nat) /\ Len(SubSeq(w, a + 1, b)) = b - a
      BY PartOf
    <2> HIDE DEF n
    <2>2. QED BY <1>3, <1>7, <2>1
  <1> HIDE DEF n, cells
  <1>9. /\ DOMAIN s.value = NamesTo(F, i) /\ s.value[f.name] = cells
        /\ \A x \in NamesTo(F, i - 1) : s.value[x] = r.value[x]
    <2>1. f.name \notin DOMAIN r.value
      BY <1>2, <1>3
    <2>2. /\ DOMAIN Put(r.value, f.name, cells) = DOMAIN r.value \cup {f.name}
          /\ Put(r.value, f.name, cells)[f.name] = cells
          /\ \A x \in DOMAIN r.value : Put(r.value, f.name, cells)[x] = r.value[x]
      BY <2>1 DEF Put
    <2>3. DOMAIN r.value = NamesTo(F, i - 1) /\ s.value = Put(r.value, f.name, cells)
      BY <1>3, <1>6
    <2> HIDE DEF f
    <2>4. QED BY <1>2, <2>2, <2>3
  <1>10. s.value \in [NamesTo(F, i) -> Seq(Nat)]
    <2>1. \A x \in NamesTo(F, i) : s.value[x] \in Seq(Nat)
      BY <1>2, <1>3, <1>8, <1>9
    <2>2. s.value = [x \in DOMAIN s.value |-> s.value[x]]
      BY <1>6 DEF Put
    <2>3. QED BY <1>9, <2>1, <2>2
  <1>11. cells \in Seq(f.codes)
    <2>1. \A k \in 1..Len(cells) : cells[k] \in f.codes
      BY <1>1, <1>8 DEF cells, n
    <2>2. QED BY <1>8, <2>1, CellsOf
  <1>12. Fits(s.value, f)
    <2>1. f.of # "" => s.value[f.of] = r.value[f.of]
      BY <1>2, <1>9
    <2>2. Extent(s.value, f) = n
      BY <1>2, <1>4, <2>1, ExtentIs DEF n
    <2>3. QED BY <1>8, <1>9, <1>11, <2>2 DEF Fits
  <1>13. ASSUME NEW j \in 1..(i - 1) PROVE Fits(s.value, F[j])
    <2>0. Len(F) \in Nat /\ i \in Nat /\ i <= Len(F)
      <3>1. Len(F) \in Nat
        BY <1>2
      <3>2. QED BY <3>1
    <2>1. j \in 1..Len(F)
      BY <2>0
    <2>2. F[j].of = "" \/ F[j].of \in NamesTo(F, j - 1)
      BY <2>1, FieldOf
    <2>a. 1..(j - 1) \subseteq 1..(i - 1)
      BY <2>0
    <2>3. F[j].name \in NamesTo(F, i - 1) /\ (F[j].of = "" \/ F[j].of \in NamesTo(F, i - 1))
      <3>1. NamesTo(F, j - 1) \subseteq NamesTo(F, i - 1)
        BY <2>a DEF NamesTo
      <3>2. F[j].name \in NamesTo(F, i - 1)
        BY DEF NamesTo
      <3>3. QED BY <2>2, <3>1, <3>2
    <2>4. F[j].of = "" \/ (F[j].of \in DOMAIN r.value /\ r.value[F[j].of] \in Seq(Nat))
      BY <1>3, <2>3
    <2>5. F[j].of # "" => s.value[F[j].of] = r.value[F[j].of]
      BY <1>9, <2>3
    <2>6. Extent(s.value, F[j]) = Extent(r.value, F[j])
      BY <2>2, <2>4, <2>5, ExtentIs
    <2>7. QED BY <1>3, <1>9, <2>3, <2>6 DEF Fits
  <1>14. \A j \in 1..i : Fits(s.value, F[j])
    <2>1. \A j \in 1..i : j \in 1..(i - 1) \/ j = i
      OBVIOUS
    <2>2. QED BY <1>12, <1>13, <2>1
  <1>15. Good(s, F, w, i)
    BY <1>6, <1>7, <1>3, <1>10, <1>14 DEF Good
  <1>16. QED BY <1>15, <1>9, <1>6, <1>7 DEF s, cells, n

LEMMA TableLen ==
  ASSUME NEW F, Table(F)
  PROVE  F \in Seq(Range(F)) /\ Len(F) \in Nat /\ Len(F) > 0 /\ DOMAIN F = 1..Len(F)
  <1>1. F \in Seq(Range(F)) /\ Len(F) > 0
    BY DEF Table
  <1>2. \A A : \A s \in Seq(A) : Len(s) \in Nat /\ DOMAIN s = 1..Len(s)
    OBVIOUS
  <1>3. QED BY <1>1, <1>2

LEMMA Joins ==
  ASSUME NEW w \in Seq(Nat), NEW a \in Nat, NEW b \in Nat, a <= b, b <= Len(w)
  PROVE  SubSeq(w, 1, a) \o SubSeq(w, a + 1, b) = SubSeq(w, 1, b)
  <1> DEFINE x == SubSeq(w, 1, a)
             y == SubSeq(w, a + 1, b)
             z == SubSeq(w, 1, b)
  <1>0. Len(w) \in Nat /\ 0 + 1 = 1 /\ a - 0 = a /\ b - 0 = b /\ a <= Len(w)
    OBVIOUS
  <1>1. x \in Seq(Nat) /\ Len(x) = a /\ \A j \in 1..a : x[j] = w[j]
    <2>1. /\ SubSeq(w, 0 + 1, a) \in Seq(Nat) /\ Len(SubSeq(w, 0 + 1, a)) = a - 0
          /\ \A j \in 1..(a - 0) : SubSeq(w, 0 + 1, a)[j] = w[0 + j]
      BY <1>0, PartOf
    <2>2. QED BY <1>0, <2>1
  <1>2. y \in Seq(Nat) /\ Len(y) = b - a /\ \A j \in 1..(b - a) : y[j] = w[a + j]
    BY PartOf
  <1>3. z \in Seq(Nat) /\ Len(z) = b /\ \A j \in 1..b : z[j] = w[j]
    <2>1. /\ SubSeq(w, 0 + 1, b) \in Seq(Nat) /\ Len(SubSeq(w, 0 + 1, b)) = b - 0
          /\ \A j \in 1..(b - 0) : SubSeq(w, 0 + 1, b)[j] = w[0 + j]
      BY <1>0, PartOf
    <2>2. QED BY <1>0, <2>1
  <1> HIDE DEF x, y, z
  <1>4. /\ x \o y \in Seq(Nat) /\ Len(x \o y) = b
        /\ \A j \in 1..b : (x \o y)[j] = IF j <= a THEN x[j] ELSE y[j - a]
    <2>1. b = Len(x) + Len(y)
      BY <1>1, <1>2
    <2>2. /\ x \o y \in Seq(Nat) /\ Len(x \o y) = Len(x) + Len(y)
          /\ \A j \in 1..Len(x) + Len(y) : (x \o y)[j] = IF j <= Len(x) THEN x[j] ELSE y[j - Len(x)]
      BY <1>1, <1>2, ConcatProperties
    <2>3. QED BY <1>1, <2>1, <2>2
  <1>5. \A j \in 1..b : (x \o y)[j] = z[j]
    <2> TAKE j \in 1..b
    <2>1. CASE j <= a
      <3>1. j \in 1..a
        BY <2>1
      <3>2. QED BY <1>1, <1>3, <1>4, <2>1, <3>1
    <2>2. CASE ~(j <= a)
      <3>1. j - a \in 1..(b - a) /\ a + (j - a) = j
        BY <2>2
      <3>2. y[j - a] = w[j]
        BY <1>2, <3>1
      <3>3. QED BY <1>3, <1>4, <2>2, <3>2
    <2>3. QED BY <2>1, <2>2
  <1>6. QED BY <1>3, <1>4, <1>5, SeqEqual DEF x, y, z

\* Where a run that is well at the i-th field has been.
Trace(g, F, w, i) ==
  /\ Good(g[i], F, w, i)
  /\ \A j \in 1..i :
       /\ g[j - 1].at \in Nat /\ g[j].at \in Nat /\ g[j - 1].at <= g[j].at /\ g[j].at <= Len(w)
       /\ g[i].value[F[j].name] = SubSeq(w, g[j - 1].at + 1, g[j].at)

LEMMA Traced ==
  ASSUME NEW F, Table(F), NEW w \in Seq(Nat), NEW g, Running(g, F, w, Len(F)), g[Len(F)].ok
  PROVE  Trace(g, F, w, Len(F))
  <1> DEFINE n == Len(F)
             S == {i \in Nat : i <= n /\ g[i].ok => Trace(g, F, w, i)}
  <1>0. n \in Nat
    BY TableLen
  <1>1. 0 \in S
    <2>1. g[0] = [ok |-> TRUE, at |-> 0, value |-> << >>]
      BY DEF Running, Reader
    <2>2. NamesTo(F, 0) = {}
      BY DEF NamesTo
    <2>3. << >> \in [{} -> Seq(Nat)]
      OBVIOUS
    <2>4. Good(g[0], F, w, 0)
      BY <2>1, <2>2, <2>3 DEF Good
    <2>5. QED BY <2>4 DEF Trace
  <1>2. ASSUME NEW k \in S PROVE k + 1 \in S
    <2> DEFINE i == k + 1
    <2>1. k \in Nat /\ (k <= n /\ g[k].ok => Trace(g, F, w, k))
      OBVIOUS
    <2>2. ASSUME i <= n, g[i].ok PROVE Trace(g, F, w, i)
      <3>1. i \in 1..n /\ i - 1 = k /\ k <= n
        BY <1>0, <2>1, <2>2
      <3>2. g[i] = ReadField(w, g[k], F[i])
        BY <3>1 DEF Running
      <3>3. g[k].ok
        BY <2>2, <3>2, ReadOne
      <3>4. Trace(g, F, w, k)
        BY <2>1, <3>1, <3>3
      <3>5. Good(g[k], F, w, i - 1)
        BY <3>1, <3>4 DEF Trace
      <3>6. /\ Good(g[i], F, w, i) /\ g[k].at <= g[i].at
            /\ g[i].value[F[i].name] = SubSeq(w, g[k].at + 1, g[i].at)
            /\ \A x \in NamesTo(F, i - 1) : g[i].value[x] = g[k].value[x]
        BY <2>2, <3>1, <3>2, <3>5, StepGood
      <3> HIDE DEF i
      <3>7. ASSUME NEW j \in 1..i
            PROVE  /\ g[j - 1].at \in Nat /\ g[j].at \in Nat /\ g[j - 1].at <= g[j].at /\ g[j].at <= Len(w)
                   /\ g[i].value[F[j].name] = SubSeq(w, g[j - 1].at + 1, g[j].at)
        <4>1. CASE j = i
          <5>1. g[k].at \in Nat /\ g[i].at \in Nat /\ g[i].at <= Len(w)
            BY <3>4, <3>6 DEF Good, Trace
          <5>2. QED BY <3>1, <3>6, <4>1, <5>1
        <4>2. CASE j # i
          <5>1. j \in 1..k /\ j \in 1..(i - 1)
            BY <2>1, <3>1, <4>2
          <5>2. F[j].name \in NamesTo(F, i - 1)
            BY <5>1 DEF NamesTo
          <5>3. g[i].value[F[j].name] = g[k].value[F[j].name]
            BY <3>6, <5>2
          <5>4. QED BY <3>4, <5>1, <5>3 DEF Trace
        <4>3. QED BY <4>1, <4>2
      <3>8. QED BY <3>6, <3>7 DEF Trace
    <2>3. i \in Nat
      BY <2>1
    <2>4. QED BY <2>2, <2>3
  <1> HIDE DEF S
  <1>3. S \subseteq Nat
    BY DEF S
  <1>4. S = Nat
    BY <1>1, <1>2, <1>3, SetInduction
  <1>5. n \in S
    BY <1>0, <1>4
  <1>6. n <= n
    BY <1>0
  <1>7. QED BY <1>5, <1>6 DEF S

\* What was read is a value the wire is made of.
LEMMA ReadGives ==
  ASSUME NEW F, Table(F), NEW w \in Seq(Nat), Complete(ReadFields(F, w), w)
  PROVE  Reading(F, w, ReadFields(F, w).value)
  <1> DEFINE n == Len(F)
  <1>0. n \in Nat /\ n > 0 /\ F \in Seq(Range(F)) /\ DOMAIN F = 1..n
    BY TableLen
  <1>1. PICK g : Running(g, F, w, n)
    BY <1>0, ReadingRuns
  <1>2. ReadFields(F, w) = g[n]
    BY <1>0, <1>1, ReadFieldsIs
  <1> DEFINE v == g[n].value
  <1>3. g[n].ok /\ g[n].at = Len(w)
    BY <1>2 DEF Complete
  <1>4. Trace(g, F, w, n)
    BY <1>1, <1>3, Traced
  <1>5. v \in [NamesTo(F, n) -> Seq(Nat)] /\ \A j \in 1..n : Fits(v, F[j])
    BY <1>4 DEF Trace, Good
  <1>6. /\ g[0].at = 0
        /\ \A j \in 1..n : /\ g[j - 1].at \in Nat /\ g[j].at \in Nat
                           /\ g[j - 1].at <= g[j].at /\ g[j].at <= Len(w)
                           /\ v[F[j].name] = SubSeq(w, g[j - 1].at + 1, g[j].at)
    BY <1>1, <1>4 DEF Trace, Running, Reader
  <1> DEFINE s == Pieces(F, v)
             f == [j \in 1..n |-> SubSeq(w, 1, g[j].at)]
  <1>7. s = [j \in 1..n |-> v[F[j].name]]
    BY <1>0 DEF Pieces
  <1> HIDE DEF v, n
  <1>8. Len(s) = n /\ \A j \in 1..n : s[j] = v[F[j].name]
    BY <1>0, <1>7
  <1> HIDE DEF s
  <1>9. f[1] = s[1]
    <2>1. 1 \in 1..n /\ 1 - 1 = 0 /\ 0 + 1 = 1
      BY <1>0
    <2>2. v[F[1].name] = SubSeq(w, 1, g[1].at)
      BY <1>6, <2>1
    <2>3. QED BY <1>8, <2>1, <2>2
  <1>10. ASSUME NEW i \in 2..n PROVE f[i] = f[i - 1] \o s[i]
    <2>1. i \in 1..n /\ i - 1 \in 1..n
      BY <1>0
    <2>2. s[i] = SubSeq(w, g[i - 1].at + 1, g[i].at)
      BY <1>6, <1>8, <2>1
    <2>3. SubSeq(w, 1, g[i - 1].at) \o SubSeq(w, g[i - 1].at + 1, g[i].at) = SubSeq(w, 1, g[i].at)
      BY <1>6, <2>1, Joins
    <2>4. f[i] = SubSeq(w, 1, g[i].at) /\ f[i - 1] = SubSeq(w, 1, g[i - 1].at)
      BY <2>1
    <2> HIDE DEF f
    <2>5. QED BY <2>2, <2>3, <2>4
  <1>11. Concatenates(s, f, n)
    BY <1>0, <1>8, <1>9, <1>10 DEF Concatenates
  <1>12. FlattenSeq(s) = f[n]
    <2> HIDE DEF f
    <2>1. QED BY <1>11, FlattenedIs
  <1>13. f[n] = w
    <2>1. f[n] = SubSeq(w, 1, Len(w))
      BY <1>0, <1>3 DEF n
    <2>2. \A u \in Seq(Nat) : SubSeq(u, 1, Len(u)) = u
      OBVIOUS
    <2>3. QED BY <2>1, <2>2
  <1>14. QED BY <1>0, <1>2, <1>5, <1>12, <1>13 DEF Reading, v, s, n

\* What a prefix lets a reader read, the whole wire does.
LEMMA PrefixStep ==
  ASSUME NEW F, Table(F), NEW w \in Seq(Nat), NEW k \in 0..Len(w), NEW i \in 1..Len(F), NEW r,
         Good(r, F, SubSeq(w, 1, k), i - 1), ReadField(SubSeq(w, 1, k), r, F[i]).ok
  PROVE  ReadField(w, r, F[i]) = ReadField(SubSeq(w, 1, k), r, F[i])
  <1> DEFINE p == SubSeq(w, 1, k)
             f == F[i]
             n == Extent(r.value, f)
             cells == SubSeq(p, r.at + 1, r.at + n)
             whole == SubSeq(w, r.at + 1, r.at + n)
  <1>0. Len(w) \in Nat /\ k \in Nat /\ k <= Len(w) /\ 0 + 1 = 1 /\ k - 0 = k
    OBVIOUS
  <1>1. p \in Seq(Nat) /\ Len(p) = k /\ \A j \in 1..k : p[j] = w[j]
    <2>1. /\ SubSeq(w, 0 + 1, k) \in Seq(Nat) /\ Len(SubSeq(w, 0 + 1, k)) = k - 0
          /\ \A j \in 1..(k - 0) : SubSeq(w, 0 + 1, k)[j] = w[0 + j]
      BY <1>0, PartOf
    <2>2. QED BY <1>0, <2>1
  <1> HIDE DEF p
  <1>2. /\ r.ok /\ ~(r.at + n > Len(p))
        /\ \A j \in 1..n : cells[j] \in f.codes
        /\ ReadField(p, r, f) = [ok |-> TRUE, at |-> r.at + n, value |-> Put(r.value, f.name, cells)]
    BY ReadOne DEF p
  <1>3. f.of = "" \/ f.of \in NamesTo(F, i - 1)
    BY FieldOf
  <1>4. r.at \in Nat /\ r.value \in [NamesTo(F, i - 1) -> Seq(Nat)] /\ DOMAIN r.value = NamesTo(F, i - 1)
    BY <1>1 DEF Good, p
  <1>5. f.of = "" \/ (f.of \in DOMAIN r.value /\ r.value[f.of] \in Seq(Nat))
    BY <1>3, <1>4
  <1>6. n \in Nat
    BY <1>3, <1>5, ExtentIs
  <1> HIDE DEF n
  <1>7. /\ r.at + n \in Nat /\ r.at <= r.at + n /\ r.at + n <= k /\ (r.at + n) - r.at = n
        /\ r.at + n <= Len(w) /\ ~(r.at + n > Len(w))
    <2>1. r.at \in Nat /\ n \in Nat /\ k \in Nat /\ Len(w) \in Nat /\ k <= Len(w)
      BY <1>0, <1>4, <1>6
    <2>2. ~(r.at + n > k)
      BY <1>1, <1>2
    <2>3. QED BY <2>1, <2>2
  <1>8. cells \in Seq(Nat) /\ Len(cells) = n /\ \A j \in 1..n : cells[j] = p[r.at + j]
    <2>1. \A a, b \in Nat : a <= b /\ b <= Len(p) =>
            /\ SubSeq(p, a + 1, b) \in Seq(Nat) /\ Len(SubSeq(p, a + 1, b)) = b - a
            /\ \A j \in 1..(b - a) : SubSeq(p, a + 1, b)[j] = p[a + j]
      BY <1>1, PartOf
    <2>2. r.at \in Nat /\ r.at + n \in Nat /\ r.at <= r.at + n /\ r.at + n <= Len(p) /\ (r.at + n) - r.at = n
      BY <1>1, <1>4, <1>7
    <2>3. QED BY <2>1, <2>2
  <1>9. whole \in Seq(Nat) /\ Len(whole) = n /\ \A j \in 1..n : whole[j] = w[r.at + j]
    <2>1. \A a, b \in Nat : a <= b /\ b <= Len(w) =>
            /\ SubSeq(w, a + 1, b) \in Seq(Nat) /\ Len(SubSeq(w, a + 1, b)) = b - a
            /\ \A j \in 1..(b - a) : SubSeq(w, a + 1, b)[j] = w[a + j]
      BY PartOf
    <2>2. r.at \in Nat /\ r.at + n \in Nat /\ r.at <= r.at + n /\ r.at + n <= Len(w) /\ (r.at + n) - r.at = n
      BY <1>1, <1>4, <1>7
    <2>3. QED BY <2>1, <2>2
  <1>10. \A j \in 1..n : whole[j] = cells[j]
    <2> HIDE DEF whole, cells
    <2>1. \A j \in 1..n : r.at + j \in 1..k
      <3>1. \A a, b, c \in Nat : a + b <= c => \A j \in 1..b : a + j \in 1..c
        OBVIOUS
      <3>2. r.at \in Nat /\ n \in Nat /\ k \in Nat /\ r.at + n <= k
        BY <1>0, <1>4, <1>6, <1>7
      <3>3. QED BY <3>1, <3>2
    <2>2. QED BY <1>1, <1>8, <1>9, <2>1
  <1>11. whole = cells
    <2> HIDE DEF whole, cells
    <2>1. QED BY <1>8, <1>9, <1>10, SeqEqual
  <1>12. ReadField(w, r, f) = [ok |-> TRUE, at |-> r.at + n, value |-> Put(r.value, f.name, whole)]
    BY <1>2, <1>7, <1>10 DEF ReadField, n
  <1>13. QED BY <1>2, <1>11, <1>12 DEF p

\* No wire of a table is the beginning of another one.
LEMMA NoPrefix ==
  ASSUME NEW F, Table(F), NEW w \in Seq(Nat), NEW k \in 0..(Len(w) - 1),
         Complete(ReadFields(F, w), w), Complete(ReadFields(F, SubSeq(w, 1, k)), SubSeq(w, 1, k))
  PROVE  FALSE
  <1> DEFINE p == SubSeq(w, 1, k)
             n == Len(F)
  <1>0. n \in Nat /\ n > 0
    BY TableLen
  <1>a. Len(w) \in Nat /\ k \in 0..Len(w) /\ k # Len(w)
    OBVIOUS
  <1>b. p \in Seq(Nat) /\ Len(p) = k
    <2>1. 0 + 1 = 1 /\ k - 0 = k /\ k \in Nat /\ k <= Len(w)
      BY <1>a
    <2>2. SubSeq(w, 0 + 1, k) \in Seq(Nat) /\ Len(SubSeq(w, 0 + 1, k)) = k - 0
      BY <2>1, PartOf
    <2>3. QED BY <2>1, <2>2
  <1>1. PICK g : Running(g, F, p, n)
    BY <1>0, ReadingRuns
  <1>2. PICK h : Running(h, F, w, n)
    BY <1>0, ReadingRuns
  <1>3. ReadFields(F, p) = g[n] /\ ReadFields(F, w) = h[n]
    BY <1>0, <1>1, <1>2, ReadFieldsIs
  <1>4. g[n].ok /\ g[n].at = Len(p) /\ h[n].at = Len(w)
    BY <1>3 DEF Complete
  <1> DEFINE S == {i \in Nat : i <= n /\ g[i].ok => Good(g[i], F, p, i) /\ h[i] = g[i]}
  <1>5. 0 \in S
    <2>1. g[0] = [ok |-> TRUE, at |-> 0, value |-> << >>] /\ h[0] = g[0]
      BY <1>1, <1>2 DEF Running, Reader
    <2>2. NamesTo(F, 0) = {}
      BY DEF NamesTo
    <2>3. << >> \in [{} -> Seq(Nat)]
      OBVIOUS
    <2>4. Good(g[0], F, p, 0)
      BY <1>a, <1>b, <2>1, <2>2, <2>3 DEF Good
    <2>5. QED BY <2>1, <2>4
  <1>6. ASSUME NEW j \in S PROVE j + 1 \in S
    <2> DEFINE i == j + 1
    <2>1. j \in Nat /\ (j <= n /\ g[j].ok => Good(g[j], F, p, j) /\ h[j] = g[j])
      OBVIOUS
    <2>2. ASSUME i <= n, g[i].ok PROVE Good(g[i], F, p, i) /\ h[i] = g[i]
      <3>0. j \in Nat
        BY <2>1
      <3>1. i \in 1..n /\ i - 1 = j /\ j <= n
        <4> HIDE DEF S
        <4> QED BY <1>0, <2>2, <3>0
      <3>2. g[i] = ReadField(p, g[j], F[i]) /\ h[i] = ReadField(w, h[j], F[i])
        BY <1>1, <1>2, <3>1 DEF Running
      <3>3. g[j].ok
        BY <2>2, <3>2, ReadOne
      <3>4. Good(g[j], F, p, i - 1) /\ h[j] = g[j]
        BY <2>1, <3>1, <3>3
      <3>5. Good(g[i], F, p, i)
        <4> HIDE DEF p, i
        <4>1. QED BY <1>b, <2>2, <3>1, <3>2, <3>4, StepGood
      <3>6. ReadField(w, g[j], F[i]) = ReadField(p, g[j], F[i])
        <4>1. ReadField(p, g[j], F[i]).ok
          BY <2>2, <3>2
        <4>2. QED BY <1>a, <3>1, <3>4, <4>1, PrefixStep
      <3>7. QED BY <3>2, <3>4, <3>5, <3>6
    <2>3. i \in Nat
      BY <2>1
    <2>4. QED BY <2>2, <2>3
  <1> HIDE DEF S
  <1>7. S \subseteq Nat
    BY DEF S
  <1>8. S = Nat
    BY <1>5, <1>6, <1>7, SetInduction
  <1>9. n \in S /\ n <= n
    BY <1>0, <1>8
  <1>10. h[n] = g[n]
    BY <1>4, <1>9 DEF S
  <1>11. QED BY <1>4, <1>10, <1>a, <1>b

\* The first fields of a value.
Upto(F, v, i) == [x \in NamesTo(F, i) |-> v[x]]

LEMMA UptoNext ==
  ASSUME NEW F, Table(F), NEW v, DOMAIN v = NamesTo(F, Len(F)), NEW i \in 1..Len(F),
         \A x \in DOMAIN v : v[x] \in Seq(Nat)
  PROVE  /\ Upto(F, v, i) = Put(Upto(F, v, i - 1), F[i].name, v[F[i].name])
         /\ Extent(Upto(F, v, i - 1), F[i]) = Extent(v, F[i]) /\ Extent(v, F[i]) \in Nat
  <1> DEFINE f == F[i]
             u == Upto(F, v, i - 1)
  <1>1. /\ Len(F) \in Nat
        /\ NamesTo(F, i) = NamesTo(F, i - 1) \cup {f.name}
        /\ f.name \notin NamesTo(F, i - 1)
        /\ f.of = "" \/ f.of \in NamesTo(F, i - 1)
    BY FieldOf
  <1>2. DOMAIN u = NamesTo(F, i - 1) /\ \A x \in NamesTo(F, i - 1) : u[x] = v[x]
    BY DEF Upto
  <1>3. NamesTo(F, i - 1) \subseteq DOMAIN v
    <2>0. Len(F) \in Nat
      BY <1>1
    <2>1. 1..(i - 1) \subseteq 1..Len(F)
      BY <2>0
    <2>2. QED BY <2>1 DEF NamesTo
  <1>4. f.of = "" \/ (f.of \in DOMAIN v /\ v[f.of] \in Seq(Nat))
    BY <1>1, <1>3
  <1>5. f.of # "" => u[f.of] = v[f.of]
    BY <1>1, <1>2
  <1>6. Extent(u, f) = Extent(v, f) /\ Extent(v, f) \in Nat
    BY <1>1, <1>4, <1>5, ExtentIs
  <1>7. Upto(F, v, i) = Put(u, f.name, v[f.name])
    <2>1. Put(u, f.name, v[f.name]) = [x \in NamesTo(F, i) |-> IF x \in NamesTo(F, i - 1) THEN u[x] ELSE v[f.name]]
      BY <1>1, <1>2 DEF Put
    <2> HIDE DEF u, f
    <2>2. \A x \in NamesTo(F, i) : (IF x \in NamesTo(F, i - 1) THEN u[x] ELSE v[f.name]) = v[x]
      BY <1>1, <1>2
    <2>3. QED BY <2>1, <2>2 DEF Upto
  <1>8. QED BY <1>6, <1>7

\* The encoder writes a value piece by piece, when it writes each piece.
LEMMA WritesPieces ==
  ASSUME NEW F, Table(F), NEW v, NEW m, v \in [NamesTo(F, Len(F)) -> Seq(Nat)],
         \A i \in 1..Len(F) : Fits(v, F[i]),
         \A i \in 1..Len(F) : Extent(v, F[i]) # 0 => Written(m, F[i]) = v[F[i].name]
  PROVE  WriteAll(F, m) = FlattenSeq(Pieces(F, v))
  <1> DEFINE n == Len(F)
             Slice(cells, i) == IF Extent(cells, F[i]) = 0 THEN <<>> ELSE Written(m, F[i])
             Step(r, i) == CHOOSE next \in {Put(cells, F[i].name, Slice(cells, i)) : cells \in {r}} : TRUE
             Follows(e) == e = [i \in 0..n |-> IF i = 0 THEN << >> ELSE Step(e[i - 1], i)]
             g == CHOOSE e : Follows(e)
             h == [i \in 0..n |-> Upto(F, v, i)]
             Flat(r) == FlattenSeq([i \in DOMAIN F |-> r[F[i].name]])
  <1>0. n \in Nat /\ n > 0 /\ DOMAIN F = 1..n
    BY TableLen
  <1>1. WriteAll(F, m) = CHOOSE wire_ \in {Flat(cells) : cells \in {g[n]}} : TRUE
    BY DEF WriteAll
  <1>2. WriteAll(F, m) = Flat(g[n])
    <2> HIDE DEF Flat, g
    <2>1. QED BY <1>1
  <1> HIDE DEF Flat
  <1>3. \A r, i : Step(r, i) = Put(r, F[i].name, Slice(r, i))
    <2> HIDE DEF Slice
    <2>1. QED OBVIOUS
  <1> HIDE DEF Step
  <1>4. \A i \in 0..n : h[i] = Upto(F, v, i)
    OBVIOUS
  <1>5. h[0] = << >>
    <2>1. NamesTo(F, 0) = {}
      BY DEF NamesTo
    <2>2. Upto(F, v, 0) = << >>
      BY <2>1 DEF Upto
    <2>3. QED BY <1>0, <1>4, <2>2
  <1>6. ASSUME NEW i \in 1..n PROVE h[i] = Step(h[i - 1], i)
    <2>1. i \in 0..n /\ i - 1 \in 0..n
      BY <1>0
    <2>2. h[i] = Upto(F, v, i) /\ h[i - 1] = Upto(F, v, i - 1)
      BY <1>4, <2>1
    <2> HIDE DEF h
    <2>3. DOMAIN v = NamesTo(F, n) /\ \A x \in DOMAIN v : v[x] \in Seq(Nat)
      OBVIOUS
    <2>4. /\ Upto(F, v, i) = Put(Upto(F, v, i - 1), F[i].name, v[F[i].name])
          /\ Extent(Upto(F, v, i - 1), F[i]) = Extent(v, F[i])
      BY <2>3, UptoNext
    <2>5. Len(v[F[i].name]) = Extent(v, F[i]) /\ v[F[i].name] \in Seq(F[i].codes)
      BY DEF Fits
    <2>6. Slice(h[i - 1], i) = v[F[i].name]
      <3>1. CASE Extent(v, F[i]) = 0
        <4>1. \A A : \A c \in Seq(A) : Len(c) = 0 => c = <<>>
          OBVIOUS
        <4>2. v[F[i].name] = <<>>
          BY <2>5, <3>1, <4>1
        <4>3. QED BY <2>2, <2>4, <3>1, <4>2
      <3>2. CASE Extent(v, F[i]) # 0
        BY <2>2, <2>4, <3>2
      <3>3. QED BY <3>1, <3>2
    <2> HIDE DEF Slice
    <2>7. QED BY <1>3, <2>2, <2>4, <2>6
  <1> HIDE DEF Slice
  <1>7. Follows(h)
    <2>1. \A i \in 0..n : h[i] = IF i = 0 THEN << >> ELSE Step(h[i - 1], i)
      <3> TAKE i \in 0..n
      <3>1. CASE i = 0
        BY <1>5, <3>1
      <3>2. CASE i # 0
        <4>1. i \in 1..n
          BY <3>2
        <4> HIDE DEF h
        <4>2. QED BY <1>6, <3>2, <4>1
      <3>3. QED BY <3>1, <3>2
    <2>2. h = [i \in 0..n |-> h[i]]
      OBVIOUS
    <2> HIDE DEF h
    <2>3. h = [i \in 0..n |-> IF i = 0 THEN << >> ELSE Step(h[i - 1], i)]
      BY <2>1, <2>2
    <2>4. QED BY <2>3
  <1> HIDE DEF h
  <1>8. Follows(g)
    BY <1>7
  <1> HIDE DEF g
  <1>9. g[0] = << >> /\ \A i \in 1..n : g[i] = Step(g[i - 1], i)
    <2>1. \A i \in 0..n : g[i] = IF i = 0 THEN << >> ELSE Step(g[i - 1], i)
      BY <1>8
    <2> HIDE DEF Follows
    <2>2. 0 \in 0..n /\ \A i \in 1..n : i \in 0..n /\ i # 0
      BY <1>0
    <2>3. QED BY <2>1, <2>2
  <1> HIDE DEF Follows
  <1> DEFINE S == {i \in Nat : i <= n => g[i] = h[i]}
  <1>10. 0 \in S
    BY <1>5, <1>9
  <1>11. ASSUME NEW i \in S PROVE i + 1 \in S
    <2>1. i \in Nat /\ (i <= n => g[i] = h[i])
      OBVIOUS
    <2>2. ASSUME i + 1 <= n PROVE g[i + 1] = h[i + 1]
      <3>0. n \in Nat
        BY <1>0
      <3>1. i <= n /\ i + 1 \in 1..n /\ (i + 1) - 1 = i
        <4> HIDE DEF n
        <4>1. QED BY <2>1, <2>2, <3>0
      <3>2. g[i + 1] = Step(g[i], i + 1) /\ h[i + 1] = Step(h[i], i + 1)
        BY <1>6, <1>9, <3>1
      <3>3. QED BY <2>1, <3>1, <3>2
    <2>3. QED BY <2>1, <2>2
  <1> HIDE DEF S
  <1>12. S \subseteq Nat
    BY DEF S
  <1>13. S = Nat
    BY <1>10, <1>11, <1>12, SetInduction
  <1>14. n \in S /\ n <= n
    BY <1>0, <1>13
  <1>15. g[n] = Upto(F, v, n)
    BY <1>0, <1>4, <1>14 DEF S
  <1>16. Upto(F, v, n) = v
    BY DEF Upto
  <1>17. QED BY <1>2, <1>15, <1>16 DEF Flat, Pieces

\* The pieces that make up a wire.
LEMMA PiecesOf ==
  ASSUME NEW F, Table(F), NEW v, v \in [NamesTo(F, Len(F)) -> Seq(Nat)]
  PROVE  /\ Pieces(F, v) \in Seq(Seq(Nat)) /\ Len(Pieces(F, v)) = Len(F)
         /\ \A i \in 1..Len(F) : Pieces(F, v)[i] = v[F[i].name] /\ v[F[i].name] \in Seq(Nat)
  <1> DEFINE n == Len(F)
             s == [i \in 1..n |-> v[F[i].name]]
  <1>1. n \in Nat /\ DOMAIN F = 1..n
    BY TableLen
  <1>2. Pieces(F, v) = s
    BY <1>1 DEF Pieces
  <1>3. \A i \in 1..n : v[F[i].name] \in Seq(Nat)
    BY DEF NamesTo
  <1>4. s \in [1..n -> Seq(Nat)] /\ \A i \in 1..n : s[i] = v[F[i].name]
    BY <1>3
  <1> HIDE DEF n, s
  <1>5. s \in Seq(Seq(Nat)) /\ Len(s) = n
    BY <1>1, <1>4
  <1>6. QED BY <1>2, <1>3, <1>4, <1>5 DEF n

\* A piece lies in the wire where the pieces before it end.
LEMMA PieceAt ==
  ASSUME NEW s \in Seq(Seq(Nat)), NEW n \in Nat, NEW f \in [1..n -> Seq(Nat)], Concatenates(s, f, n),
         NEW i \in 1..n
  PROVE  LET from == IF i = 1 THEN 0 ELSE Len(f[i - 1])
         IN /\ from \in Nat /\ Len(f[i]) = from + Len(s[i]) /\ Len(f[i]) <= Len(f[n])
            /\ SubSeq(f[n], from + 1, Len(f[i])) = s[i]
  <1> DEFINE w == f[n]
             from == IF i = 1 THEN 0 ELSE Len(f[i - 1])
             Begins(k) == Len(f[k]) <= Len(w) /\ \A j \in 1..Len(f[k]) : w[j] = f[k][j]
             S == {m \in Nat : m < n => Begins(n - m)}
  <1>0. /\ n > 0 /\ n = Len(s) /\ f[1] = s[1] /\ \A k \in 2..n : f[k] = f[k - 1] \o s[k]
        /\ \A k \in 1..n : f[k] \in Seq(Nat) /\ s[k] \in Seq(Nat)
    <2>1. n > 0 /\ n = Len(s) /\ f[1] = s[1] /\ \A k \in 2..n : f[k] = f[k - 1] \o s[k]
      BY DEF Concatenates
    <2>2. \A k \in 1..Len(s) : s[k] \in Seq(Nat)
      BY ElementOfSeq
    <2>3. QED BY <2>1, <2>2
  <1>w. w \in Seq(Nat) /\ Len(w) \in Nat
    <2>1. f[n] \in Seq(Nat)
      BY <1>0
    <2>2. QED BY <2>1
  <1>l. \A k \in 1..n : Len(f[k]) \in Nat /\ Len(s[k]) \in Nat
    BY <1>0
  <1>1. \A k \in 2..n : /\ Len(f[k]) = Len(f[k - 1]) + Len(s[k])
                        /\ \A j \in 1..Len(f[k - 1]) : f[k][j] = f[k - 1][j]
                        /\ \A j \in 1..Len(s[k]) : f[k][Len(f[k - 1]) + j] = s[k][j]
    <2> TAKE k \in 2..n
    <2>1. k \in 1..n /\ k - 1 \in 1..n
      OBVIOUS
    <2>2. \A a, b \in Seq(Nat) : /\ Len(a \o b) = Len(a) + Len(b)
                                 /\ \A j \in 1..Len(a) : (a \o b)[j] = a[j]
                                 /\ \A j \in 1..Len(b) : (a \o b)[Len(a) + j] = b[j]
      OBVIOUS
    <2> DEFINE a == f[k - 1]
               b == s[k]
    <2>3. a \in Seq(Nat) /\ b \in Seq(Nat) /\ f[k] = a \o b
      BY <1>0, <2>1
    <2> HIDE DEF a, b
    <2>4. /\ Len(f[k]) = Len(a) + Len(b)
          /\ \A j \in 1..Len(a) : f[k][j] = a[j]
          /\ \A j \in 1..Len(b) : f[k][Len(a) + j] = b[j]
      BY <2>2, <2>3
    <2>5. QED BY <2>4 DEF a, b
  <1>2. 0 \in S
    <2>1. n - 0 = n
      OBVIOUS
    <2>2. QED BY <1>w, <2>1
  <1>3. ASSUME NEW m \in S PROVE m + 1 \in S
    <2>1. m \in Nat /\ (m < n => Begins(n - m))
      OBVIOUS
    <2>2. ASSUME m + 1 < n PROVE Begins(n - (m + 1))
      <3> DEFINE k == n - m
      <3>1. k \in 2..n /\ n - (m + 1) = k - 1 /\ m < n /\ k \in 1..n /\ k - 1 \in 1..n
        BY <2>1, <2>2
      <3>2. Begins(k)
        BY <2>1, <3>1
      <3> HIDE DEF k
      <3>3. Len(f[k]) \in Nat /\ Len(f[k - 1]) \in Nat /\ Len(s[k]) \in Nat /\ Len(w) \in Nat
        BY <1>l, <1>w, <3>1
      <3>4. Len(f[k]) = Len(f[k - 1]) + Len(s[k]) /\ \A j \in 1..Len(f[k - 1]) : f[k][j] = f[k - 1][j]
        BY <1>1, <3>1
      <3>5. Len(f[k - 1]) <= Len(f[k]) /\ Len(f[k - 1]) <= Len(w)
        <4> HIDE DEF w
        <4>1. Len(f[k]) <= Len(w)
          BY <3>2
        <4>2. \A a, b, c, d \in Nat : a = b + c /\ a <= d => b <= a /\ b <= d
          OBVIOUS
        <4>3. QED BY <3>3, <3>4, <4>1, <4>2
      <3>6. \A j \in 1..Len(f[k - 1]) : j \in 1..Len(f[k])
        BY <3>3, <3>5
      <3>7. \A j \in 1..Len(f[k - 1]) : w[j] = f[k - 1][j]
        BY <3>2, <3>4, <3>6
      <3>8. Begins(k - 1)
        BY <3>5, <3>7
      <3> HIDE DEF Begins
      <3>9. QED BY <3>1, <3>8
    <2> HIDE DEF Begins
    <2>3. QED BY <2>1, <2>2
  <1> HIDE DEF S
  <1>4. S \subseteq Nat
    BY DEF S
  <1>5. S = Nat
    BY <1>2, <1>3, <1>4, SetInduction
  <1>6. Begins(i)
    <2>1. n - i \in Nat /\ n - i < n /\ n - (n - i) = i
      OBVIOUS
    <2>2. n - i \in S
      BY <1>5, <2>1
    <2> HIDE DEF Begins
    <2>3. Begins(n - (n - i))
      BY <2>1, <2>2 DEF S
    <2>4. QED BY <2>1, <2>3
  <1>7. /\ from \in Nat /\ Len(f[i]) = from + Len(s[i])
        /\ \A j \in 1..Len(s[i]) : f[i][from + j] = s[i][j]
    <2>1. CASE i = 1
      <3>1. f[1] = s[1] /\ from = 0 /\ s[1] \in Seq(Nat)
        BY <1>0, <2>1
      <3>2. Len(s[1]) \in Nat
        BY <3>1
      <3> HIDE DEF from
      <3>3. \A j \in 1..Len(s[1]) : 0 + j = j
        BY <3>2
      <3>4. QED BY <2>1, <3>1, <3>2, <3>3
    <2>2. CASE i # 1
      <3>1. i \in 2..n /\ i - 1 \in 1..n /\ from = Len(f[i - 1])
        BY <2>2
      <3>2. Len(f[i - 1]) \in Nat
        BY <1>0, <3>1
      <3> HIDE DEF from
      <3>3. QED BY <1>1, <3>1, <3>2
    <2>3. QED BY <2>1, <2>2
  <1> HIDE DEF from
  <1>8. /\ w \in Seq(Nat) /\ s[i] \in Seq(Nat) /\ f[i] \in Seq(Nat) /\ Len(s[i]) \in Nat /\ Len(f[i]) \in Nat
        /\ Len(w) \in Nat
    BY <1>0, <1>l, <1>w
  <1> HIDE DEF w
  <1>9. from <= Len(f[i]) /\ Len(f[i]) <= Len(w) /\ Len(f[i]) - from = Len(s[i])
    BY <1>6, <1>7, <1>8
  <1> DEFINE cut == SubSeq(w, from + 1, Len(f[i]))
  <1>10. /\ cut \in Seq(Nat) /\ Len(cut) = Len(s[i])
         /\ \A j \in 1..Len(s[i]) : cut[j] = w[from + j]
    <2>1. \A a, b \in Nat : a <= b /\ b <= Len(w) =>
            /\ SubSeq(w, a + 1, b) \in Seq(Nat) /\ Len(SubSeq(w, a + 1, b)) = b - a
            /\ \A j \in 1..(b - a) : SubSeq(w, a + 1, b)[j] = w[a + j]
      BY <1>w, PartOf
    <2>2. from \in Nat /\ Len(f[i]) \in Nat
      BY <1>7, <1>8
    <2>3. QED BY <1>9, <2>1, <2>2
  <1>11. \A j \in 1..Len(s[i]) : cut[j] = s[i][j]
    <2> HIDE DEF cut
    <2>1. \A j \in 1..Len(s[i]) : from + j \in 1..Len(f[i])
      <3>1. \A a, b \in Nat : \A j \in 1..b : a + j \in 1..(a + b)
        OBVIOUS
      <3>2. QED BY <1>7, <1>8, <3>1
    <2>2. QED BY <1>6, <1>7, <1>10, <2>1
  <1>12. cut = s[i]
    <2> HIDE DEF cut
    <2>1. QED BY <1>8, <1>10, <1>11, SeqEqual
  <1>13. QED BY <1>7, <1>9, <1>12 DEF from, w

\* A wire made of a value is read as that value.
LEMMA ReadBack ==
  ASSUME NEW F, Table(F), NEW w, NEW v, Reading(F, w, v)
  PROVE  w \in Seq(Nat) /\ ReadFields(F, w) = [ok |-> TRUE, at |-> Len(w), value |-> v]
  <1> DEFINE n == Len(F)
             s == Pieces(F, v)
  <1>0. n \in Nat /\ n > 0 /\ 1 \in 1..n /\ n \in 1..n
    BY TableLen
  <1>1. v \in [NamesTo(F, n) -> Seq(Nat)] /\ (\A i \in 1..n : Fits(v, F[i])) /\ FlattenSeq(s) = w
    BY DEF Reading
  <1>2. s \in Seq(Seq(Nat)) /\ Len(s) = n /\ \A i \in 1..n : s[i] = v[F[i].name] /\ v[F[i].name] \in Seq(Nat)
    BY <1>1, PiecesOf
  <1> HIDE DEF s
  <1>3. PICK f \in [1..n -> Seq(Nat)] : Concatenates(s, f, n)
    BY <1>0, <1>2, HasConcatenations
  <1>4. w = f[n]
    BY <1>1, <1>3, FlattenedIs
  <1>5. w \in Seq(Nat)
    BY <1>0, <1>4
  <1> DEFINE end(i) == IF i = 0 THEN 0 ELSE Len(f[i])
             r(i) == [ok |-> TRUE, at |-> end(i), value |-> Upto(F, v, i)]
             h == [i \in 0..n |-> r(i)]
  <1>6. ASSUME NEW i \in 1..n PROVE r(i) = ReadField(w, r(i - 1), F[i])
    <2>0. i - 1 = 0 <=> i = 1
      OBVIOUS
    <2>1. end(i) = Len(f[i]) /\ end(i - 1) = IF i = 1 THEN 0 ELSE Len(f[i - 1])
      OBVIOUS
    <2>2. /\ end(i - 1) \in Nat /\ end(i) = end(i - 1) + Len(s[i]) /\ end(i) <= Len(w)
          /\ SubSeq(w, end(i - 1) + 1, end(i)) = s[i]
      <3> HIDE DEF end
      <3>1. LET from == IF i = 1 THEN 0 ELSE Len(f[i - 1])
            IN /\ from \in Nat /\ Len(f[i]) = from + Len(s[i]) /\ Len(f[i]) <= Len(f[n])
               /\ SubSeq(f[n], from + 1, Len(f[i])) = s[i]
        BY <1>0, <1>2, <1>3, PieceAt
      <3>2. QED BY <1>4, <2>1, <3>1
    <2> HIDE DEF end
    <2>3. DOMAIN v = NamesTo(F, n) /\ \A x \in DOMAIN v : v[x] \in Seq(Nat)
      BY <1>1
    <2>4. /\ Upto(F, v, i) = Put(Upto(F, v, i - 1), F[i].name, v[F[i].name])
          /\ Extent(Upto(F, v, i - 1), F[i]) = Extent(v, F[i])
      BY <2>3, UptoNext
    <2>5. Len(s[i]) = Extent(v, F[i]) /\ s[i] \in Seq(F[i].codes)
      BY <1>1, <1>2 DEF Fits
    <2>6. Len(s[i]) \in Nat /\ \A j \in 1..Len(s[i]) : s[i][j] \in F[i].codes
      BY <2>5
    <2> DEFINE k == Len(s[i])
    <2>7. /\ r(i - 1).ok /\ r(i - 1).at = end(i - 1) /\ r(i - 1).value = Upto(F, v, i - 1)
          /\ Extent(r(i - 1).value, F[i]) = k
      BY <2>4, <2>5
    <2> DEFINE q == r(i - 1)
    <2>8. q.ok /\ q.at = end(i - 1) /\ q.value = Upto(F, v, i - 1) /\ Extent(q.value, F[i]) = k
      BY <2>7
    <2>9. r(i) = [ok |-> TRUE, at |-> q.at + k, value |-> Put(q.value, F[i].name, s[i])]
      BY <1>2, <2>2, <2>4, <2>8
    <2> HIDE DEF q, r
    <2>10. ~(q.at + k > Len(w)) /\ SubSeq(w, q.at + 1, q.at + k) = s[i]
      <3>1. Len(w) \in Nat
        BY <1>5
      <3>2. QED BY <2>2, <2>6, <2>8, <3>1
    <2>11. ReadField(w, q, F[i]) = [ok |-> TRUE, at |-> q.at + k, value |-> Put(q.value, F[i].name, s[i])]
      BY <2>6, <2>8, <2>10 DEF ReadField
    <2>12. QED BY <2>9, <2>11 DEF q
  <1>7. r(0) = Reader
    <2>1. NamesTo(F, 0) = {}
      BY DEF NamesTo
    <2>2. Upto(F, v, 0) = << >>
      BY <2>1 DEF Upto
    <2>3. QED BY <2>2 DEF Reader
  <1>8. r(n) = [ok |-> TRUE, at |-> Len(w), value |-> v]
    <2>1. Upto(F, v, n) = v
      BY <1>1 DEF Upto
    <2>2. n # 0
      BY <1>0
    <2>3. QED BY <1>4, <2>1, <2>2
  <1> HIDE DEF r
  <1>9. Running(h, F, w, n)
    <2>1. \A i \in 0..n : h[i] = r(i)
      OBVIOUS
    <2> HIDE DEF h
    <2>2. 0 \in 0..n /\ \A i \in 1..n : i \in 0..n /\ i - 1 \in 0..n
      BY <1>0
    <2>3. QED BY <1>6, <1>7, <2>1, <2>2 DEF Running
  <1>10. h[n] = r(n)
    BY <1>0
  <1> HIDE DEF h
  <1>11. ReadFields(F, w) = h[n]
    BY <1>0, <1>9, ReadFieldsIs
  <1>12. QED BY <1>5, <1>8, <1>10, <1>11

NamesOf(F) == {f.name : f \in Range(F)}

\* The field a field depends on stands before it.
Stands(F, i, B) == F[i].of = "" \/ F[i].of \in B \cup NamesTo(F, i - 1)

\* A part of a table: the names in B stand before it.
Part(F, B) ==
  /\ F \in Seq(Range(F)) /\ Len(F) > 0
  /\ \A i, j \in 1..Len(F) : F[i].name = F[j].name => i = j
  /\ \A i \in 1..Len(F) : Stands(F, i, B)

LEMMA PartLen ==
  ASSUME NEW F, NEW B, Part(F, B)
  PROVE  /\ Len(F) \in Nat /\ Len(F) > 0 /\ DOMAIN F = 1..Len(F)
         /\ NamesTo(F, Len(F)) = NamesOf(F) /\ Range(F) = {F[i] : i \in 1..Len(F)}
  <1>1. F \in Seq(Range(F)) /\ Len(F) > 0
    BY DEF Part
  <1>2. \A A : \A s \in Seq(A) : Len(s) \in Nat /\ DOMAIN s = 1..Len(s)
    OBVIOUS
  <1>3. Len(F) \in Nat /\ DOMAIN F = 1..Len(F)
    BY <1>1, <1>2
  <1>4. Range(F) = {F[i] : i \in 1..Len(F)}
    BY <1>3 DEF Range
  <1>5. NamesTo(F, Len(F)) = NamesOf(F)
    BY <1>4 DEF NamesTo, NamesOf
  <1>6. QED BY <1>1, <1>3, <1>4, <1>5

LEMMA PartTable ==
  ASSUME NEW F, Part(F, {})
  PROVE  Table(F)
  BY DEF Part, Stands, Table

LEMMA JoinParts ==
  ASSUME NEW F, NEW G, NEW B, Part(F, B), Part(G, B \cup NamesOf(F)), NamesOf(F) \cap NamesOf(G) = {}
  PROVE  /\ Part(F \o G, B)
         /\ NamesOf(F \o G) = NamesOf(F) \cup NamesOf(G) /\ Range(F \o G) = Range(F) \cup Range(G)
         /\ Len(F \o G) = Len(F) + Len(G)
         /\ \A i \in 1..Len(F) : (F \o G)[i] = F[i]
         /\ \A i \in 1..Len(G) : (F \o G)[Len(F) + i] = G[i]
  <1> DEFINE m == Len(F)
             k == Len(G)
             H == F \o G
             R == Range(F) \cup Range(G)
  <1>1. /\ m \in Nat /\ m > 0 /\ DOMAIN F = 1..m
        /\ NamesTo(F, m) = NamesOf(F) /\ Range(F) = {F[i] : i \in 1..m}
    BY PartLen
  <1>2. /\ k \in Nat /\ k > 0 /\ DOMAIN G = 1..k
        /\ NamesTo(G, k) = NamesOf(G) /\ Range(G) = {G[i] : i \in 1..k}
    BY PartLen
  <1>3. F \in Seq(R) /\ G \in Seq(R)
    <2>1. F \in Seq(Range(F)) /\ G \in Seq(Range(G))
      BY DEF Part
    <2>2. \A S, T : S \subseteq T => Seq(S) \subseteq Seq(T)
      OBVIOUS
    <2>3. QED BY <2>1, <2>2
  <1>4. /\ H \in Seq(R) /\ Len(H) = m + k
        /\ \A i \in 1..m + k : H[i] = IF i <= m THEN F[i] ELSE G[i - m]
    BY <1>3, ConcatProperties
  <1> HIDE DEF m, k, H
  <1>5. \A i \in 1..m : i \in 1..m + k /\ H[i] = F[i]
    BY <1>1, <1>2, <1>4
  <1>6. \A i \in 1..k : m + i \in 1..m + k /\ H[m + i] = G[i]
    <2> TAKE i \in 1..k
    <2>1. m + i \in 1..m + k /\ ~(m + i <= m) /\ (m + i) - m = i
      BY <1>1, <1>2
    <2>2. QED BY <1>4, <2>1
  <1>7. \A i \in 1..m + k : i \in 1..m \/ (i - m \in 1..k /\ i = m + (i - m))
    BY <1>1, <1>2
  <1>8. DOMAIN H = 1..m + k
    <2>1. \A A : \A s \in Seq(A) : DOMAIN s = 1..Len(s)
      OBVIOUS
    <2>2. QED BY <1>4, <2>1
  <1>9. Range(H) = R
    <2>1. ASSUME NEW f \in Range(H) PROVE f \in R
      <3>1. PICK i \in 1..m + k : f = H[i]
        BY <1>8 DEF Range
      <3>2. QED BY <1>1, <1>2, <1>5, <1>6, <1>7, <3>1
    <2>2. ASSUME NEW f \in R PROVE f \in Range(H)
      <3>1. CASE f \in Range(F)
        BY <1>1, <1>5, <1>8, <3>1 DEF Range
      <3>2. CASE f \in Range(G)
        BY <1>2, <1>6, <1>8, <3>2 DEF Range
      <3>3. QED BY <3>1, <3>2
    <2>3. QED BY <2>1, <2>2
  <1>10. NamesOf(H) = NamesOf(F) \cup NamesOf(G)
    BY <1>9 DEF NamesOf
  <1>11. ASSUME NEW i \in 1..m + k, NEW j \in 1..m + k, H[i].name = H[j].name PROVE i = j
    <2>a. \A a, b \in 1..m : F[a].name = F[b].name => a = b
      BY DEF Part, m
    <2>b. \A a, b \in 1..k : G[a].name = G[b].name => a = b
      BY DEF Part, k
    <2>c. \A a \in 1..m, b \in 1..k : F[a].name # G[b].name
      BY <1>1, <1>2 DEF NamesOf
    <2>1. CASE i \in 1..m /\ j \in 1..m
      BY <1>5, <1>11, <2>1, <2>a
    <2>2. CASE i \in 1..m /\ j \notin 1..m
      <3>1. j - m \in 1..k /\ H[j] = G[j - m] /\ H[i] = F[i]
        BY <1>5, <1>6, <1>7, <2>2
      <3>2. QED BY <1>11, <2>2, <2>c, <3>1
    <2>3. CASE i \notin 1..m /\ j \in 1..m
      <3>1. i - m \in 1..k /\ H[i] = G[i - m] /\ H[j] = F[j]
        BY <1>5, <1>6, <1>7, <2>3
      <3>2. QED BY <1>11, <2>3, <2>c, <3>1
    <2>4. CASE i \notin 1..m /\ j \notin 1..m
      <3>1. /\ i - m \in 1..k /\ H[i] = G[i - m] /\ j - m \in 1..k /\ H[j] = G[j - m] /\ i = m + (i - m)
            /\ j = m + (j - m)
        BY <1>6, <1>7, <2>4
      <3>2. i - m = j - m
        BY <1>11, <2>b, <3>1
      <3>3. QED BY <3>1, <3>2
    <2>5. QED BY <2>1, <2>2, <2>3, <2>4
  <1>12. ASSUME NEW i \in 1..m + k PROVE H[i].of = "" \/ H[i].of \in B \cup NamesTo(H, i - 1)
    <2>1. CASE i \in 1..m
      <3>1. F[i].of = "" \/ F[i].of \in B \cup NamesTo(F, i - 1)
        BY <2>1 DEF Part, Stands, m
      <3>2. \A j \in 1..(i - 1) : j \in 1..m
        BY <1>1, <2>1
      <3>3. NamesTo(F, i - 1) = NamesTo(H, i - 1)
        BY <1>5, <3>2 DEF NamesTo
      <3>4. QED BY <1>5, <2>1, <3>1, <3>3
    <2>2. CASE i \notin 1..m
      <3> DEFINE a == i - m
      <3>1. a \in 1..k /\ i = m + a /\ H[i] = G[a]
        BY <1>6, <1>7, <2>2
      <3> HIDE DEF a
      <3>2. G[a].of = "" \/ G[a].of \in B \cup NamesOf(F) \cup NamesTo(G, a - 1)
        BY <3>1 DEF Part, Stands, k
      <3>3. \A j \in 1..m : j \in 1..(i - 1)
        BY <1>1, <1>2, <3>1
      <3>4. NamesOf(F) \subseteq NamesTo(H, i - 1)
        BY <1>1, <1>5, <3>3 DEF NamesTo
      <3>5. \A j \in 1..(a - 1) : m + j \in 1..(i - 1) /\ j \in 1..k
        BY <1>1, <1>2, <3>1
      <3>6. NamesTo(G, a - 1) \subseteq NamesTo(H, i - 1)
        BY <1>6, <3>5 DEF NamesTo
      <3>7. QED BY <3>1, <3>2, <3>4, <3>6
    <2>3. QED BY <2>1, <2>2
  <1>13. H \in Seq(Range(H)) /\ Len(H) > 0
    BY <1>1, <1>2, <1>4, <1>9
  <1>14. Part(H, B)
    BY <1>4, <1>11, <1>12, <1>13 DEF Part, Stands
  <1>15. QED BY <1>4, <1>5, <1>6, <1>9, <1>10, <1>14 DEF m, k, H

\* What the forms of a field say.
LEMMA NamesSay ==
  /\ \A n, c : Field(n, c).name = n /\ Const(n, c).name = n /\ Group(n, c).name = n /\ Variant(n, c).name = n
  /\ \A n, c, d : Length(n, c, d).name = n /\ Bytes(n, c, d).name = c
  /\ \A n, c, of, when :
       /\ When(of, when, Field(n, c)).name = n /\ When(of, when, Const(n, c)).name = n
       /\ When(of, when, Group(n, c)).name = n /\ When(of, when, Variant(n, c)).name = n
  BY DEF Field, Const, Group, Length, Variant, Bytes, Base, When

LEMMA WhensSay ==
  /\ \A n, c, d : Bytes(n, c, d).when = {}
  /\ \A n, c, of, when :
       /\ When(of, when, Field(n, c)).when = when /\ When(of, when, Const(n, c)).when = when
       /\ When(of, when, Group(n, c)).when = when /\ When(of, when, Variant(n, c)).when = when
  BY DEF Field, Const, Group, Length, Variant, Bytes, Base, When

LEMMA RolesSay ==
  /\ \A n, c : Field(n, c).role = "data" /\ Const(n, c).role = "const" /\ Group(n, c).role = "presence"
       /\ Variant(n, c).role = n
  /\ \A n, c, d : Length(n, c, d).role = "length" /\ Bytes(n, c, d).role = "data"
  /\ \A n, c, of, when :
       /\ When(of, when, Field(n, c)).role = "data" /\ When(of, when, Const(n, c)).role = "const"
       /\ When(of, when, Group(n, c)).role = "presence" /\ When(of, when, Variant(n, c)).role = n
  BY DEF Field, Const, Group, Length, Variant, Bytes, Base, When

LEMMA CodesSay ==
  /\ \A n, c : Field(n, c).codes = c /\ Const(n, c).codes = {c} /\ Group(n, c).codes = Flags
       /\ Variant(n, c).codes = c
  /\ \A n, c, d : Length(n, c, d).codes = d /\ Bytes(n, c, d).codes = d
  /\ \A n, c, of, when :
       /\ When(of, when, Field(n, c)).codes = c /\ When(of, when, Const(n, c)).codes = {c}
       /\ When(of, when, Group(n, c)).codes = Flags /\ When(of, when, Variant(n, c)).codes = c
  BY DEF Field, Const, Group, Length, Variant, Bytes, Base, When

\* A field that is data, or that the encoder finds from one member: a constant, the
\* presence of a member in R or the length of one.
Plain(f, R) ==
  \/ f.role = "data"
  \/ /\ f.role = "const" /\ (\E c : f.codes = {c}) /\ (f.of = "" \/ f.when # {})
  \/ /\ f.role = "presence" /\ f.codes = Flags /\ (f.of = "" \/ f.when # {}) /\ f.name # ""
     /\ \E g \in R : g.name = f.about /\ g.role = "data" /\ g.of = f.name /\ g.when = {1}
  \/ /\ f.role = "length" /\ f.of = "" /\ f.name # ""
     /\ \E g \in R : g.name = f.about /\ g.role = "data" /\ g.of = f.name /\ g.when = {}

LEMMA PlainForms ==
  ASSUME NEW R
  PROVE  /\ \A n, c : Plain(Field(n, c), R) /\ Plain(Const(n, c), R)
         /\ \A n, c, d : Plain(Bytes(n, c, d), R)
         /\ \A n, c, of, when : Plain(When(of, when, Field(n, c)), R)
         /\ \A n, c, of, when : when # {} => Plain(When(of, when, Const(n, c)), R)
         /\ \A n, c, d : n # "" /\ When(n, {1}, Field(c, d)) \in R => Plain(Group(n, c), R)
         /\ \A n, c, d, of, when :
              n # "" /\ when # {} /\ When(n, {1}, Field(c, d)) \in R => Plain(When(of, when, Group(n, c)), R)
         /\ \A n, c, d, e : n # "" /\ Bytes(n, c, d) \in R => Plain(Length(n, c, e), R)
  <1>1. \A n, c : Plain(Field(n, c), R) /\ Plain(Const(n, c), R)
    BY DEF Plain, Field, Const, Base
  <1>2. /\ \A n, c, d : Plain(Bytes(n, c, d), R)
        /\ \A n, c, of, when : Plain(When(of, when, Field(n, c)), R)
    BY DEF Plain, Bytes, Field, When, Base
  <1>3. ASSUME NEW n, NEW c, NEW of, NEW when, when # {}
        PROVE  Plain(When(of, when, Const(n, c)), R)
    BY <1>3 DEF Plain, Const, When, Base
  <1>4. ASSUME NEW n, NEW c, NEW d, n # "", When(n, {1}, Field(c, d)) \in R
        PROVE  /\ Plain(Group(n, c), R)
               /\ \A of, when : when # {} => Plain(When(of, when, Group(n, c)), R)
    <2> DEFINE g == When(n, {1}, Field(c, d))
    <2>1. g \in R /\ g.name = c /\ g.role = "data" /\ g.of = n /\ g.when = {1}
      BY <1>4 DEF Field, When, Base
    <2> HIDE DEF g
    <2>2. Plain(Group(n, c), R)
      BY <1>4, <2>1 DEF Plain, Group, Base
    <2>3. ASSUME NEW of, NEW when, when # {}
          PROVE  Plain(When(of, when, Group(n, c)), R)
      BY <1>4, <2>1, <2>3 DEF Plain, Group, When, Base
    <2>4. QED BY <2>2, <2>3
  <1>5. ASSUME NEW n, NEW c, NEW d, NEW e, n # "", Bytes(n, c, d) \in R
        PROVE  Plain(Length(n, c, e), R)
    <2> DEFINE g == Bytes(n, c, d)
    <2>1. g \in R /\ g.name = c /\ g.role = "data" /\ g.of = n /\ g.when = {}
      BY <1>5 DEF Bytes, Field, Base
    <2> HIDE DEF g
    <2>2. QED BY <1>5, <2>1 DEF Plain, Length, Base
  <1>6. QED BY <1>1, <1>2, <1>3, <1>4, <1>5

LEMMA PlainMore ==
  ASSUME NEW f, NEW R, NEW S, Plain(f, R), R \subseteq S
  PROVE  Plain(f, S)
  BY DEF Plain

\* A field of one cell.
LEMMA OneCell ==
  ASSUME NEW A, NEW c \in Seq(A), Len(c) = 1
  PROVE  c[1] \in A /\ c = <<c[1]>>
  <1>1. c[1] \in A
    BY ElementOfSeq
  <1>2. \A S : \A s \in Seq(S) : Len(s) = 1 => s = <<s[1]>>
    OBVIOUS
  <1>3. QED BY <1>1, <1>2

LEMMA MeaningIs ==
  ASSUME NEW F, NEW v, NEW n \in Members(F)
  PROVE  Meaning(F, v)[n] = v[n] /\ n \in DOMAIN Meaning(F, v)
  BY DEF Meaning

LEMMA Before ==
  ASSUME NEW n \in Nat, NEW k \in 1..n
  PROVE  1..(k - 1) \subseteq 1..n
  OBVIOUS

\* What a field depends on was read.
LEMMA OfRead ==
  ASSUME NEW F, Table(F), NEW w, NEW v, Reading(F, w, v)
  PROVE  \A g \in Range(F) : g.of = "" \/ (g.of \in DOMAIN v /\ v[g.of] \in Seq(Nat))
  <1>0. Len(F) \in Nat /\ DOMAIN F = 1..Len(F)
    BY TableLen
  <1> SUFFICES ASSUME NEW i \in 1..Len(F), F[i].of # ""
               PROVE  F[i].of \in DOMAIN v /\ v[F[i].of] \in Seq(Nat)
    BY <1>0 DEF Range
  <1>1. F[i].of \in NamesTo(F, i - 1)
    BY FieldOf
  <1>2. NamesTo(F, i - 1) \subseteq NamesTo(F, Len(F))
    <2>1. 1..(i - 1) \subseteq 1..Len(F)
      BY <1>0, Before
    <2>2. QED BY <2>1 DEF NamesTo
  <1>3. QED BY <1>1, <1>2 DEF Reading

\* The plain fields of what was read are written as they were.
LEMMA PlainWritten ==
  ASSUME NEW F, Table(F), NEW w, NEW v, Reading(F, w, v), NEW f \in Range(F),
         Plain(f, Range(F)), Extent(v, f) # 0, NEW m,
         \A g \in Range(F) : g.role = "data" => m[g.name] = v[g.name]
  PROVE  Written(m, f) = v[f.name]
  <1>1. DOMAIN F = 1..Len(F)
    BY TableLen
  <1>2. \A g \in Range(F) : Fits(v, g) /\ v[g.name] \in Seq(Nat)
    BY <1>1 DEF Range, Reading, NamesTo
  <1>3. \A g \in Range(F) : g.of = "" \/ (g.of \in DOMAIN v /\ v[g.of] \in Seq(Nat))
    BY OfRead
  <1>4. Len(v[f.name]) = Extent(v, f) /\ v[f.name] \in Seq(f.codes)
    BY <1>2 DEF Fits
  <1>5. ASSUME f.of = "" \/ f.when # {}
        PROVE  Extent(v, f) = 1 /\ v[f.name][1] \in f.codes /\ v[f.name] = <<v[f.name][1]>>
    <2>1. Extent(v, f) \in {0, 1}
      BY <1>3, <1>5, ExtentIs
    <2>2. QED BY <1>4, <2>1, OneCell
  <1>6. CASE f.role = "data"
    BY <1>6 DEF Written
  <1>7. CASE f.role = "const" /\ (\E c : f.codes = {c}) /\ (f.of = "" \/ f.when # {})
    <2>1. PICK c : f.codes = {c}
      BY <1>7
    <2>2. v[f.name] = <<c>>
      BY <1>5, <1>7, <2>1
    <2>3. (CHOOSE x \in f.codes : TRUE) = c
      BY <2>1
    <2>4. QED BY <1>7, <2>2, <2>3 DEF Written
  <1>8. CASE /\ f.role = "presence" /\ f.codes = Flags /\ (f.of = "" \/ f.when # {}) /\ f.name # ""
             /\ \E g \in Range(F) : g.name = f.about /\ g.role = "data" /\ g.of = f.name /\ g.when = {1}
    <2>1. PICK g \in Range(F) : g.name = f.about /\ g.role = "data" /\ g.of = f.name /\ g.when = {1}
      BY <1>8
    <2>2. v[f.name] = <<v[f.name][1]>> /\ v[f.name][1] \in {0, 1}
      BY <1>5, <1>8 DEF Flags
    <2> DEFINE c == v[f.name][1]
    <2>3. Has(v, f.name) /\ The(v, f.name) = c
      BY <2>2 DEF Has, The
    <2>4. Extent(v, g) = IF c = 1 THEN 1 ELSE 0
      BY <1>8, <2>1, <2>3 DEF Extent
    <2>5. v[g.name] \in Seq(Nat) /\ Len(v[g.name]) = Extent(v, g) /\ m[f.about] = v[g.name]
      BY <1>2, <2>1 DEF Fits
    <2> HIDE DEF c
    <2>6. Has(m, f.about) <=> c = 1
      <3>1. \A s \in Seq(Nat) : s # <<>> <=> Len(s) # 0
        BY EmptySeq
      <3>2. QED BY <2>4, <2>5, <3>1 DEF Has
    <2>7. Written(m, f) = <<IF Has(m, f.about) THEN 1 ELSE 0>>
      BY <1>8 DEF Written
    <2>8. QED BY <2>2, <2>6, <2>7 DEF c
  <1>9. CASE /\ f.role = "length" /\ f.of = "" /\ f.name # ""
             /\ \E g \in Range(F) : g.name = f.about /\ g.role = "data" /\ g.of = f.name /\ g.when = {}
    <2>1. PICK g \in Range(F) : g.name = f.about /\ g.role = "data" /\ g.of = f.name /\ g.when = {}
      BY <1>9
    <2>2. v[f.name] = <<v[f.name][1]>>
      BY <1>5, <1>9
    <2> DEFINE c == v[f.name][1]
    <2>3. Has(v, f.name) /\ The(v, f.name) = c
      BY <2>2 DEF Has, The
    <2>4. Extent(v, g) = c
      BY <1>9, <2>1, <2>3 DEF Extent
    <2>5. Len(v[g.name]) = Extent(v, g) /\ m[f.about] = v[g.name]
      BY <1>2, <2>1 DEF Fits
    <2>6. Written(m, f) = <<Len(m[f.about])>>
      BY <1>9 DEF Written
    <2>7. QED BY <2>2, <2>4, <2>5, <2>6
  <1>10. QED BY <1>6, <1>7, <1>8, <1>9 DEF Plain

LEMMA FreeForms ==
  /\ \A n, c : Field(n, c).of = "" /\ Const(n, c).of = "" /\ Group(n, c).of = "" /\ Variant(n, c).of = ""
  /\ \A n, c, d : Length(n, c, d).of = ""
  BY DEF Field, Const, Group, Length, Variant, Base

LEMMA BoundForms ==
  /\ \A n, c, d : Bytes(n, c, d).of = n
  /\ \A n, c, of, when :
       /\ When(of, when, Field(n, c)).of = of /\ When(of, when, Const(n, c)).of = of
       /\ When(of, when, Group(n, c)).of = of /\ When(of, when, Variant(n, c)).of = of
  BY DEF Field, Const, Group, Variant, Bytes, Base, When

LEMMA StandsFree ==
  ASSUME NEW t, NEW B, NEW i
  PROVE  /\ \A n, c : \/ t[i] = Field(n, c) \/ t[i] = Const(n, c)
                      \/ t[i] = Group(n, c) \/ t[i] = Variant(n, c)
                      => Stands(t, i, B)
         /\ \A n, c, d : t[i] = Length(n, c, d) => Stands(t, i, B)
  BY FreeForms DEF Stands

LEMMA StandsBound ==
  ASSUME NEW t, NEW B, NEW i \in Nat, NEW j \in 1..(i - 1)
  PROVE  t[i].of = t[j].name => Stands(t, i, B)
  BY DEF Stands, NamesTo

LEMMA StandsOuter ==
  ASSUME NEW t, NEW B, NEW i, t[i].of \in B
  PROVE  Stands(t, i, B)
  BY DEF Stands

LEMMA PlainData ==
  ASSUME NEW R
  PROVE  /\ \A n, c : Plain(Field(n, c), R) /\ Plain(Const(n, c), R)
         /\ \A n, c, d : Plain(Bytes(n, c, d), R)
         /\ \A n, c, of, when : Plain(When(of, when, Field(n, c)), R)
  BY PlainForms

LEMMA PlainConst ==
  ASSUME NEW R, NEW of, NEW when, when # {}, NEW n, NEW c
  PROVE  Plain(When(of, when, Const(n, c)), R)
  BY PlainForms

\* A flag and the member it is about.
Flagged(flag, name) == flag # name /\ flag # ""

LEMMA FlaggedApart ==
  ASSUME NEW flag, NEW name, Flagged(flag, name)
  PROVE  flag # name
  BY DEF Flagged

LEMMA PlainGroup ==
  ASSUME NEW R, NEW n, NEW c, Flagged(n, c), NEW d, When(n, {1}, Field(c, d)) \in R
  PROVE  /\ Plain(Group(n, c), R)
         /\ \A of, when : when # {} => Plain(When(of, when, Group(n, c)), R)
  BY PlainForms DEF Flagged

LEMMA PlainLength ==
  ASSUME NEW R, NEW n, n # "", NEW c, NEW d, Bytes(n, c, d) \in R
  PROVE  \A e : Plain(Length(n, c, e), R)
  BY PlainForms

\* Consecutive fields of a table: they admit cells, and are plain but for the ones
\* in S.
Section(F, B, S) ==
  /\ Part(F, B)
  /\ \A f \in Range(F) : f.codes \subseteq Cells /\ (Plain(f, Range(F)) \/ f \in S)

LEMMA JoinSections ==
  ASSUME NEW F, NEW G, NEW B, NEW S, Section(F, B, S), Section(G, B \cup NamesOf(F), S),
         NamesOf(F) \cap NamesOf(G) = {}
  PROVE  /\ Section(F \o G, B, S)
         /\ NamesOf(F \o G) = NamesOf(F) \cup NamesOf(G) /\ Range(F \o G) = Range(F) \cup Range(G)
         /\ Len(F \o G) = Len(F) + Len(G)
  <1>1. /\ Part(F \o G, B) /\ NamesOf(F \o G) = NamesOf(F) \cup NamesOf(G)
        /\ Range(F \o G) = Range(F) \cup Range(G) /\ Len(F \o G) = Len(F) + Len(G)
    BY JoinParts DEF Section
  <1>2. \A f \in Range(F) \cup Range(G) :
          f.codes \subseteq Cells /\ (Plain(f, Range(F) \cup Range(G)) \/ f \in S)
    BY PlainMore DEF Section
  <1>3. QED BY <1>1, <1>2 DEF Section

\* The codes of the tables are cells.
LEMMA CodesIn ==
  /\ AnyCell \subseteq Cells /\ NonZeroCell \subseteq Cells /\ Flags \subseteq Cells
  /\ {0} \subseteq Cells /\ {1} \subseteq Cells /\ {2} \subseteq Cells /\ {7} \subseteq Cells /\ {8} \subseteq Cells
  /\ {1, 2} \subseteq Cells /\ {2, 3} \subseteq Cells /\ {3, 5, 7} \subseteq Cells /\ {4} \subseteq Cells
  /\ {6} \subseteq Cells
  /\ 0..2 \subseteq Cells /\ 1..3 \subseteq Cells /\ 1..4 \subseteq Cells /\ 1..6 \subseteq Cells
  /\ 1..11 \subseteq Cells /\ 1..13 \subseteq Cells
  <1>1. \A c \in 0..13 : c \in Cells
    BY WireAssumption DEF WireConstants
  <1>2. QED BY <1>1 DEF AnyCell, NonZeroCell, Flags

\* Four names.
Apart(a, b, c, d) == a # b /\ a # c /\ a # d /\ b # c /\ b # d /\ c # d

\* The parts of the tables.
event_head ==
  <<Const("version", 1), Const("operation", 1), Const("actor", 1), Field("phase", 1..6),
    Field("generation", NonZeroCell), Field("command", NonZeroCell), Field("semantic", NonZeroCell),
    Field("phase_fingerprint", NonZeroCell), Field("reservation", NonZeroCell)>>

bound_option(flag, name) ==
  <<When("binding?", {1}, Group(flag, name)), When(flag, {1}, Field(name, AnyCell))>>

common_head(operations) ==
  <<Const("format", 1), Field("operation", operations)>>

run_fields ==
  <<Field("runtime", {1, 2}), Field("process_instance", NonZeroCell)>>

phase_field ==
  <<Field("phase", NonZeroCell)>>

retention_head ==
  <<Variant("retention", {1, 2})>>

binding_head ==
  <<Group("binding?", "source"), When("binding?", {1}, Field("source", AnyCell)),
    When("binding?", {1}, Field("source_serial", AnyCell)), When("binding?", {1}, Field("target", AnyCell)),
    When("binding?", {1}, Field("target_serial", NonZeroCell))>>

body_fields ==
  <<Length("profile_body#", "profile_body", AnyCell), Bytes("profile_body#", "profile_body", AnyCell)>>

unbound_fields ==
  <<Const("binding?", 0), Variant("profile_length", {3, 5, 7})>>

authority_head ==
  <<Const("format", 1), Field("safe_time", AnyCell), Group("hold?", "generation"),
    When("hold?", {1}, Field("generation", NonZeroCell)),
    When("hold?", {1}, Field("observation", NonZeroCell))>>

ack_head ==
  <<Const("format", 1), Const("operation", 1)>>

ack_body ==
  <<Field("generation", NonZeroCell), Field("observation", NonZeroCell), Const("transition", 1),
    Const("risk_acknowledged", 1), Field("wall", AnyCell), Field("tick", AnyCell), Field("prior", AnyCell)>>

ack_target ==
  <<Field("target", AnyCell)>>

shutdown_head ==
  <<Const("format", 1), Const("operation", 2)>>

shutdown_body ==
  <<Field("process", NonZeroCell), Const("transition", 1), Field("grace_ms", AnyCell),
    Field("tick", AnyCell), Field("deadline", AnyCell)>>

value_phase ==
  <<Field("phase", AnyCell)>>

ack_result ==
  <<Const("result_codec", 7), Field("settled_time", AnyCell), Field("settled", Flags)>>

shutdown_result ==
  <<Const("result_codec", 8), Field("ungraceful", AnyCell)>>

steps_fields ==
  <<Field("application", NonZeroCell), Field("publication", NonZeroCell)>>

action_head ==
  <<Const("format", 1), Variant("action", {2, 3}), Variant("payload", AnyCell),
    When("action", {2}, Field("phase", AnyCell))>>

ack_action_result ==
  <<When("action", {2}, Const("result_codec", 7)), When("action", {2}, Field("settled_time", AnyCell)),
    When("action", {2}, Field("settled", Flags))>>

shutdown_action_result ==
  <<When("action", {2}, Const("result_codec", 8)), When("action", {2}, Field("ungraceful", AnyCell))>>

receipt_fields ==
  <<When("action", {3}, Field("post.sequence", AnyCell)), When("action", {3}, Field("post.digest", AnyCell))>>

LEMMA EventHead ==
  ASSUME NEW B
  PROVE  /\ Section(event_head, B, {})
         /\ Len(event_head) = 9
         /\ NamesOf(event_head) = {"version", "operation", "actor", "phase", "generation", "command", "semantic",
             "phase_fingerprint", "reservation"}
         /\ Range(event_head) =
              {Const("version", 1), Const("operation", 1), Const("actor", 1), Field("phase", 1..6),
               Field("generation", NonZeroCell), Field("command", NonZeroCell),
               Field("semantic", NonZeroCell), Field("phase_fingerprint", NonZeroCell),
               Field("reservation", NonZeroCell)}
  <1> DEFINE t == event_head
  <1>1. /\ t[1] = Const("version", 1) /\ t[2] = Const("operation", 1) /\ t[3] = Const("actor", 1)
        /\ t[4] = Field("phase", 1..6) /\ t[5] = Field("generation", NonZeroCell)
        /\ t[6] = Field("command", NonZeroCell) /\ t[7] = Field("semantic", NonZeroCell)
        /\ t[8] = Field("phase_fingerprint", NonZeroCell) /\ t[9] = Field("reservation", NonZeroCell)
    BY DEF event_head
  <1>2. t \in Seq(Range(t)) /\ Len(t) = 9 /\ DOMAIN t = 1..9
    BY DEF event_head, Range
  <1> HIDE DEF t
  <1>3. /\ t[1].name = "version" /\ t[2].name = "operation" /\ t[3].name = "actor" /\ t[4].name = "phase"
        /\ t[5].name = "generation" /\ t[6].name = "command" /\ t[7].name = "semantic"
        /\ t[8].name = "phase_fingerprint" /\ t[9].name = "reservation"
    BY <1>1, NamesSay
  <1>4. /\ Stands(t, 1, B) /\ Stands(t, 2, B) /\ Stands(t, 3, B) /\ Stands(t, 4, B) /\ Stands(t, 5, B)
        /\ Stands(t, 6, B) /\ Stands(t, 7, B) /\ Stands(t, 8, B) /\ Stands(t, 9, B)
    BY <1>1, StandsFree
  <1>5. \A i \in 1..9 : Stands(t, i, B)
    BY <1>4
  <1>6. Range(t) = {t[1], t[2], t[3], t[4], t[5], t[6], t[7], t[8], t[9]}
    BY <1>2 DEF Range
  <1>7. NamesOf(t) = {"version", "operation", "actor", "phase", "generation", "command", "semantic",
             "phase_fingerprint", "reservation"}
    BY <1>3, <1>6 DEF NamesOf
  <1>8. \A i, j \in 1..9 : t[i].name = t[j].name => i = j
    BY <1>3
  <1>9. Range(t) =
           {Const("version", 1), Const("operation", 1), Const("actor", 1), Field("phase", 1..6),
            Field("generation", NonZeroCell), Field("command", NonZeroCell), Field("semantic", NonZeroCell),
            Field("phase_fingerprint", NonZeroCell), Field("reservation", NonZeroCell)}
    BY <1>1, <1>6
  <1>10. /\ Plain(t[1], Range(t)) /\ Plain(t[2], Range(t)) /\ Plain(t[3], Range(t)) /\ Plain(t[4], Range(t))
         /\ Plain(t[5], Range(t)) /\ Plain(t[6], Range(t)) /\ Plain(t[7], Range(t)) /\ Plain(t[8], Range(t))
         /\ Plain(t[9], Range(t))
    BY <1>1, PlainData
  <1>11. \A f \in Range(t) : Plain(f, Range(t))
    BY <1>6, <1>10
  <1>12. Part(t, B)
    BY <1>2, <1>8, <1>5 DEF Part
  <1>13. /\ t[1].codes = {1} /\ t[2].codes = {1} /\ t[3].codes = {1} /\ t[4].codes = 1..6
         /\ t[5].codes = NonZeroCell /\ t[6].codes = NonZeroCell /\ t[7].codes = NonZeroCell
         /\ t[8].codes = NonZeroCell /\ t[9].codes = NonZeroCell
    BY <1>1, CodesSay
  <1>14. {1} \subseteq Cells /\ 1..6 \subseteq Cells /\ NonZeroCell \subseteq Cells
    BY CodesIn
  <1>15. \A f \in Range(t) : f.codes \subseteq Cells
    BY <1>6, <1>13, <1>14
  <1>16. Section(t, B, {})
    BY <1>11, <1>12, <1>15 DEF Section
  <1>17. QED BY <1>2, <1>7, <1>9, <1>16 DEF t

LEMMA OptionPart ==
  ASSUME NEW B, NEW flag, NEW name, NEW codes, codes \subseteq Cells, Flagged(flag, name)
  PROVE  /\ Section(Option(flag, name, codes), B, {})
         /\ Len(Option(flag, name, codes)) = 2
         /\ NamesOf(Option(flag, name, codes)) = {flag, name}
         /\ Range(Option(flag, name, codes)) =
              {Group(flag, name), When(flag, {1}, Field(name, codes))}
  <1> DEFINE t == Option(flag, name, codes)
  <1>1. t[1] = Group(flag, name) /\ t[2] = When(flag, {1}, Field(name, codes))
    BY DEF Option
  <1>2. t \in Seq(Range(t)) /\ Len(t) = 2 /\ DOMAIN t = 1..2
    BY DEF Option, Range
  <1> HIDE DEF t
  <1>3. t[1].name = flag /\ t[2].name = name
    BY <1>1, NamesSay
  <1>4. Stands(t, 1, B)
    BY <1>1, StandsFree
  <1>5. t[2].of = t[1].name
    BY <1>1, <1>3, BoundForms
  <1>6. Stands(t, 2, B)
    BY <1>5, StandsBound
  <1>7. \A i \in 1..2 : Stands(t, i, B)
    BY <1>4, <1>6
  <1>8. Range(t) = {t[1], t[2]}
    BY <1>2 DEF Range
  <1>9. NamesOf(t) = {flag, name}
    BY <1>3, <1>8 DEF NamesOf
  <1>10. \A i, j \in 1..2 : t[i].name = t[j].name => i = j
    BY <1>3, FlaggedApart
  <1>11. Range(t) =
           {Group(flag, name), When(flag, {1}, Field(name, codes))}
    BY <1>1, <1>8
  <1>12. Plain(t[2], Range(t))
    BY <1>1, PlainData
  <1>13. When(flag, {1}, Field(name, codes)) \in Range(t)
    BY <1>1, <1>8
  <1>14. Plain(t[1], Range(t))
    BY <1>1, <1>13, PlainGroup
  <1>15. \A f \in Range(t) : Plain(f, Range(t))
    BY <1>8, <1>12, <1>14
  <1>16. Part(t, B)
    BY <1>2, <1>10, <1>7 DEF Part
  <1>17. t[1].codes = Flags /\ t[2].codes = codes
    BY <1>1, CodesSay
  <1>18. Flags \subseteq Cells /\ codes \subseteq Cells
    BY CodesIn
  <1>19. \A f \in Range(t) : f.codes \subseteq Cells
    BY <1>8, <1>17, <1>18
  <1>20. Section(t, B, {})
    BY <1>15, <1>16, <1>19 DEF Section
  <1>21. QED BY <1>2, <1>9, <1>11, <1>20 DEF t

LEMMA BoundPart ==
  ASSUME NEW B, NEW flag, NEW name, Flagged(flag, name), "binding?" \in B
  PROVE  /\ Section(bound_option(flag, name), B, {})
         /\ Len(bound_option(flag, name)) = 2
         /\ NamesOf(bound_option(flag, name)) = {flag, name}
         /\ Range(bound_option(flag, name)) =
              {When("binding?", {1}, Group(flag, name)), When(flag, {1}, Field(name, AnyCell))}
  <1> DEFINE t == bound_option(flag, name)
  <1>1. t[1] = When("binding?", {1}, Group(flag, name)) /\ t[2] = When(flag, {1}, Field(name, AnyCell))
    BY DEF bound_option
  <1>2. t \in Seq(Range(t)) /\ Len(t) = 2 /\ DOMAIN t = 1..2
    BY DEF bound_option, Range
  <1> HIDE DEF t
  <1>3. t[1].name = flag /\ t[2].name = name
    BY <1>1, NamesSay
  <1>4. t[2].of = t[1].name
    BY <1>1, <1>3, BoundForms
  <1>5. Stands(t, 2, B)
    BY <1>4, StandsBound
  <1>6. t[1].of \in B
    BY <1>1, BoundForms
  <1>7. Stands(t, 1, B)
    BY <1>6, StandsOuter
  <1>8. \A i \in 1..2 : Stands(t, i, B)
    BY <1>5, <1>7
  <1>9. Range(t) = {t[1], t[2]}
    BY <1>2 DEF Range
  <1>10. NamesOf(t) = {flag, name}
    BY <1>3, <1>9 DEF NamesOf
  <1>11. \A i, j \in 1..2 : t[i].name = t[j].name => i = j
    BY <1>3, FlaggedApart
  <1>12. Range(t) =
           {When("binding?", {1}, Group(flag, name)), When(flag, {1}, Field(name, AnyCell))}
    BY <1>1, <1>9
  <1>13. Plain(t[2], Range(t))
    BY <1>1, PlainData
  <1>14. When(flag, {1}, Field(name, AnyCell)) \in Range(t)
    BY <1>1, <1>9
  <1>15. Plain(t[1], Range(t))
    BY <1>1, <1>14, PlainGroup
  <1>16. \A f \in Range(t) : Plain(f, Range(t))
    BY <1>9, <1>13, <1>15
  <1>17. Part(t, B)
    BY <1>2, <1>11, <1>8 DEF Part
  <1>18. t[1].codes = Flags /\ t[2].codes = AnyCell
    BY <1>1, CodesSay
  <1>19. Flags \subseteq Cells /\ AnyCell \subseteq Cells
    BY CodesIn
  <1>20. \A f \in Range(t) : f.codes \subseteq Cells
    BY <1>9, <1>18, <1>19
  <1>21. Section(t, B, {})
    BY <1>16, <1>17, <1>20 DEF Section
  <1>22. QED BY <1>2, <1>10, <1>12, <1>21 DEF t

\* The computed fields of a profile.
profile_computed ==
  {When("digests", {1, 2}, Variant("kind1", {1, 2})), When("digests", {1, 2}, Variant("digest1", AnyCell)),
   When("digests", {2}, Variant("kind2", {1, 2})), When("digests", {2}, Variant("digest2", AnyCell))}

projection_computed ==
  {Variant("retention", {1, 2}), Variant("profile_length", {3, 5, 7}), Variant("digests", 0..2)} \cup profile_computed

LEMMA ProfilePart ==
  ASSUME NEW B
  PROVE  /\ Section(profile_format, B, {Variant("digests", 0..2)} \cup profile_computed)
         /\ Len(profile_format) = 7
         /\ NamesOf(profile_format) = {"profile", "variant", "digests", "kind1", "digest1", "kind2", "digest2"}
         /\ Range(profile_format) =
              {Const("profile", 1), Field("variant", {1, 2}), Variant("digests", 0..2),
               When("digests", {1, 2}, Variant("kind1", {1, 2})),
               When("digests", {1, 2}, Variant("digest1", AnyCell)),
               When("digests", {2}, Variant("kind2", {1, 2})),
               When("digests", {2}, Variant("digest2", AnyCell))}
  <1> DEFINE t == profile_format
  <1>1. /\ t[1] = Const("profile", 1) /\ t[2] = Field("variant", {1, 2}) /\ t[3] = Variant("digests", 0..2)
        /\ t[4] = When("digests", {1, 2}, Variant("kind1", {1, 2}))
        /\ t[5] = When("digests", {1, 2}, Variant("digest1", AnyCell))
        /\ t[6] = When("digests", {2}, Variant("kind2", {1, 2}))
        /\ t[7] = When("digests", {2}, Variant("digest2", AnyCell))
    BY DEF profile_format
  <1>2. t \in Seq(Range(t)) /\ Len(t) = 7 /\ DOMAIN t = 1..7
    BY DEF profile_format, Range
  <1> HIDE DEF t
  <1>3. /\ t[1].name = "profile" /\ t[2].name = "variant" /\ t[3].name = "digests" /\ t[4].name = "kind1"
        /\ t[5].name = "digest1" /\ t[6].name = "kind2" /\ t[7].name = "digest2"
    BY <1>1, NamesSay
  <1>4. Stands(t, 1, B) /\ Stands(t, 2, B) /\ Stands(t, 3, B)
    BY <1>1, StandsFree
  <1>5. t[4].of = t[3].name /\ t[5].of = t[3].name /\ t[6].of = t[3].name /\ t[7].of = t[3].name
    BY <1>1, <1>3, BoundForms
  <1>6. Stands(t, 4, B) /\ Stands(t, 5, B) /\ Stands(t, 6, B) /\ Stands(t, 7, B)
    BY <1>5, StandsBound
  <1>7. \A i \in 1..7 : Stands(t, i, B)
    BY <1>4, <1>6
  <1>8. Range(t) = {t[1], t[2], t[3], t[4], t[5], t[6], t[7]}
    BY <1>2 DEF Range
  <1>9. NamesOf(t) = {"profile", "variant", "digests", "kind1", "digest1", "kind2", "digest2"}
    BY <1>3, <1>8 DEF NamesOf
  <1>10. \A i, j \in 1..7 : t[i].name = t[j].name => i = j
    BY <1>3
  <1>11. Range(t) =
           {Const("profile", 1), Field("variant", {1, 2}), Variant("digests", 0..2),
            When("digests", {1, 2}, Variant("kind1", {1, 2})),
            When("digests", {1, 2}, Variant("digest1", AnyCell)),
            When("digests", {2}, Variant("kind2", {1, 2})),
            When("digests", {2}, Variant("digest2", AnyCell))}
    BY <1>1, <1>8
  <1>12. Plain(t[1], Range(t)) /\ Plain(t[2], Range(t))
    BY <1>1, PlainData
  <1>13. \A f \in Range(t) : Plain(f, Range(t)) \/ f \in {Variant("digests", 0..2)} \cup profile_computed
    BY <1>8, <1>12, <1>1 DEF profile_computed
  <1>14. Part(t, B)
    BY <1>2, <1>10, <1>7 DEF Part
  <1>15. /\ t[1].codes = {1} /\ t[2].codes = {1, 2} /\ t[3].codes = 0..2 /\ t[4].codes = {1, 2}
         /\ t[5].codes = AnyCell /\ t[6].codes = {1, 2} /\ t[7].codes = AnyCell
    BY <1>1, CodesSay
  <1>16. {1} \subseteq Cells /\ {1, 2} \subseteq Cells /\ 0..2 \subseteq Cells /\ AnyCell \subseteq Cells
    BY CodesIn
  <1>17. \A f \in Range(t) : f.codes \subseteq Cells
    BY <1>8, <1>15, <1>16
  <1>18. Section(t, B, {Variant("digests", 0..2)} \cup profile_computed)
    BY <1>13, <1>14, <1>17 DEF Section
  <1>19. QED BY <1>2, <1>9, <1>11, <1>18 DEF t

LEMMA ActorPart ==
  ASSUME NEW B
  PROVE  /\ Section(actor_fields, B, {})
         /\ Len(actor_fields) = 3
         /\ NamesOf(actor_fields) = {"actor_kind", "actor#", "actor"}
         /\ Range(actor_fields) =
              {Field("actor_kind", {1, 2}), Length("actor#", "actor", NonZeroCell),
               Bytes("actor#", "actor", NonZeroCell)}
  <1> DEFINE t == actor_fields
  <1>1. /\ t[1] = Field("actor_kind", {1, 2}) /\ t[2] = Length("actor#", "actor", NonZeroCell)
        /\ t[3] = Bytes("actor#", "actor", NonZeroCell)
    BY DEF actor_fields
  <1>2. t \in Seq(Range(t)) /\ Len(t) = 3 /\ DOMAIN t = 1..3
    BY DEF actor_fields, Range
  <1> HIDE DEF t
  <1>3. t[1].name = "actor_kind" /\ t[2].name = "actor#" /\ t[3].name = "actor"
    BY <1>1, NamesSay
  <1>4. Stands(t, 1, B) /\ Stands(t, 2, B)
    BY <1>1, StandsFree
  <1>5. t[3].of = t[2].name
    BY <1>1, <1>3, BoundForms
  <1>6. Stands(t, 3, B)
    BY <1>5, StandsBound
  <1>7. \A i \in 1..3 : Stands(t, i, B)
    BY <1>4, <1>6
  <1>8. Range(t) = {t[1], t[2], t[3]}
    BY <1>2 DEF Range
  <1>9. NamesOf(t) = {"actor_kind", "actor#", "actor"}
    BY <1>3, <1>8 DEF NamesOf
  <1>10. \A i, j \in 1..3 : t[i].name = t[j].name => i = j
    BY <1>3
  <1>11. Range(t) =
           {Field("actor_kind", {1, 2}), Length("actor#", "actor", NonZeroCell),
            Bytes("actor#", "actor", NonZeroCell)}
    BY <1>1, <1>8
  <1>12. Plain(t[1], Range(t)) /\ Plain(t[3], Range(t))
    BY <1>1, PlainData
  <1>13. Bytes("actor#", "actor", NonZeroCell) \in Range(t)
    BY <1>1, <1>8
  <1>14. Plain(t[2], Range(t))
    BY <1>1, <1>13, PlainLength
  <1>15. \A f \in Range(t) : Plain(f, Range(t))
    BY <1>8, <1>12, <1>14
  <1>16. Part(t, B)
    BY <1>2, <1>10, <1>7 DEF Part
  <1>17. t[1].codes = {1, 2} /\ t[2].codes = NonZeroCell /\ t[3].codes = NonZeroCell
    BY <1>1, CodesSay
  <1>18. {1, 2} \subseteq Cells /\ NonZeroCell \subseteq Cells
    BY CodesIn
  <1>19. \A f \in Range(t) : f.codes \subseteq Cells
    BY <1>8, <1>17, <1>18
  <1>20. Section(t, B, {})
    BY <1>15, <1>16, <1>19 DEF Section
  <1>21. QED BY <1>2, <1>9, <1>11, <1>20 DEF t

LEMMA TagPart ==
  ASSUME NEW B, NEW a, NEW b, NEW c, NEW d, Apart(a, b, c, d)
  PROVE  /\ Section(tag_fields(Tag(a, b, c, d)), B, {})
         /\ Len(tag_fields(Tag(a, b, c, d))) = 4
         /\ NamesOf(tag_fields(Tag(a, b, c, d))) = {a, b, c, d}
         /\ Range(tag_fields(Tag(a, b, c, d))) =
              {Field(a, AnyCell), Field(b, AnyCell), Field(c, NonZeroCell), Field(d, AnyCell)}
  <1> DEFINE t == tag_fields(Tag(a, b, c, d))
  <1>1. /\ t[1] = Field(a, AnyCell) /\ t[2] = Field(b, AnyCell) /\ t[3] = Field(c, NonZeroCell)
        /\ t[4] = Field(d, AnyCell)
    BY DEF tag_fields, Tag
  <1>2. t \in Seq(Range(t)) /\ Len(t) = 4 /\ DOMAIN t = 1..4
    BY DEF tag_fields, Tag, Range
  <1> HIDE DEF t
  <1>3. t[1].name = a /\ t[2].name = b /\ t[3].name = c /\ t[4].name = d
    BY <1>1, NamesSay
  <1>4. Stands(t, 1, B) /\ Stands(t, 2, B) /\ Stands(t, 3, B) /\ Stands(t, 4, B)
    BY <1>1, StandsFree
  <1>5. \A i \in 1..4 : Stands(t, i, B)
    BY <1>4
  <1>6. Range(t) = {t[1], t[2], t[3], t[4]}
    BY <1>2 DEF Range
  <1>7. NamesOf(t) = {a, b, c, d}
    BY <1>3, <1>6 DEF NamesOf
  <1>8. \A i, j \in 1..4 : t[i].name = t[j].name => i = j
    BY <1>3 DEF Apart
  <1>9. Range(t) =
           {Field(a, AnyCell), Field(b, AnyCell), Field(c, NonZeroCell), Field(d, AnyCell)}
    BY <1>1, <1>6
  <1>10. Plain(t[1], Range(t)) /\ Plain(t[2], Range(t)) /\ Plain(t[3], Range(t)) /\ Plain(t[4], Range(t))
    BY <1>1, PlainData
  <1>11. \A f \in Range(t) : Plain(f, Range(t))
    BY <1>6, <1>10
  <1>12. Part(t, B)
    BY <1>2, <1>8, <1>5 DEF Part
  <1>13. t[1].codes = AnyCell /\ t[2].codes = AnyCell /\ t[3].codes = NonZeroCell /\ t[4].codes = AnyCell
    BY <1>1, CodesSay
  <1>14. AnyCell \subseteq Cells /\ NonZeroCell \subseteq Cells
    BY CodesIn
  <1>15. \A f \in Range(t) : f.codes \subseteq Cells
    BY <1>6, <1>13, <1>14
  <1>16. Section(t, B, {})
    BY <1>11, <1>12, <1>15 DEF Section
  <1>17. QED BY <1>2, <1>7, <1>9, <1>16 DEF t

LEMMA CommonHead ==
  ASSUME NEW B, NEW operations, operations \subseteq Cells
  PROVE  /\ Section(common_head(operations), B, {})
         /\ Len(common_head(operations)) = 2
         /\ NamesOf(common_head(operations)) = {"format", "operation"}
         /\ Range(common_head(operations)) =
              {Const("format", 1), Field("operation", operations)}
  <1> DEFINE t == common_head(operations)
  <1>1. t[1] = Const("format", 1) /\ t[2] = Field("operation", operations)
    BY DEF common_head
  <1>2. t \in Seq(Range(t)) /\ Len(t) = 2 /\ DOMAIN t = 1..2
    BY DEF common_head, Range
  <1> HIDE DEF t
  <1>3. t[1].name = "format" /\ t[2].name = "operation"
    BY <1>1, NamesSay
  <1>4. Stands(t, 1, B) /\ Stands(t, 2, B)
    BY <1>1, StandsFree
  <1>5. \A i \in 1..2 : Stands(t, i, B)
    BY <1>4
  <1>6. Range(t) = {t[1], t[2]}
    BY <1>2 DEF Range
  <1>7. NamesOf(t) = {"format", "operation"}
    BY <1>3, <1>6 DEF NamesOf
  <1>8. \A i, j \in 1..2 : t[i].name = t[j].name => i = j
    BY <1>3
  <1>9. Range(t) =
           {Const("format", 1), Field("operation", operations)}
    BY <1>1, <1>6
  <1>10. Plain(t[1], Range(t)) /\ Plain(t[2], Range(t))
    BY <1>1, PlainData
  <1>11. \A f \in Range(t) : Plain(f, Range(t))
    BY <1>6, <1>10
  <1>12. Part(t, B)
    BY <1>2, <1>8, <1>5 DEF Part
  <1>13. t[1].codes = {1} /\ t[2].codes = operations
    BY <1>1, CodesSay
  <1>14. {1} \subseteq Cells /\ operations \subseteq Cells
    BY CodesIn
  <1>15. \A f \in Range(t) : f.codes \subseteq Cells
    BY <1>6, <1>13, <1>14
  <1>16. Section(t, B, {})
    BY <1>11, <1>12, <1>15 DEF Section
  <1>17. QED BY <1>2, <1>7, <1>9, <1>16 DEF t

LEMMA RunPart ==
  ASSUME NEW B
  PROVE  /\ Section(run_fields, B, {})
         /\ Len(run_fields) = 2
         /\ NamesOf(run_fields) = {"runtime", "process_instance"}
         /\ Range(run_fields) =
              {Field("runtime", {1, 2}), Field("process_instance", NonZeroCell)}
  <1> DEFINE t == run_fields
  <1>1. t[1] = Field("runtime", {1, 2}) /\ t[2] = Field("process_instance", NonZeroCell)
    BY DEF run_fields
  <1>2. t \in Seq(Range(t)) /\ Len(t) = 2 /\ DOMAIN t = 1..2
    BY DEF run_fields, Range
  <1> HIDE DEF t
  <1>3. t[1].name = "runtime" /\ t[2].name = "process_instance"
    BY <1>1, NamesSay
  <1>4. Stands(t, 1, B) /\ Stands(t, 2, B)
    BY <1>1, StandsFree
  <1>5. \A i \in 1..2 : Stands(t, i, B)
    BY <1>4
  <1>6. Range(t) = {t[1], t[2]}
    BY <1>2 DEF Range
  <1>7. NamesOf(t) = {"runtime", "process_instance"}
    BY <1>3, <1>6 DEF NamesOf
  <1>8. \A i, j \in 1..2 : t[i].name = t[j].name => i = j
    BY <1>3
  <1>9. Range(t) =
           {Field("runtime", {1, 2}), Field("process_instance", NonZeroCell)}
    BY <1>1, <1>6
  <1>10. Plain(t[1], Range(t)) /\ Plain(t[2], Range(t))
    BY <1>1, PlainData
  <1>11. \A f \in Range(t) : Plain(f, Range(t))
    BY <1>6, <1>10
  <1>12. Part(t, B)
    BY <1>2, <1>8, <1>5 DEF Part
  <1>13. t[1].codes = {1, 2} /\ t[2].codes = NonZeroCell
    BY <1>1, CodesSay
  <1>14. {1, 2} \subseteq Cells /\ NonZeroCell \subseteq Cells
    BY CodesIn
  <1>15. \A f \in Range(t) : f.codes \subseteq Cells
    BY <1>6, <1>13, <1>14
  <1>16. Section(t, B, {})
    BY <1>11, <1>12, <1>15 DEF Section
  <1>17. QED BY <1>2, <1>7, <1>9, <1>16 DEF t

LEMMA PhasePart ==
  ASSUME NEW B
  PROVE  /\ Section(phase_field, B, {})
         /\ Len(phase_field) = 1
         /\ NamesOf(phase_field) = {"phase"}
         /\ Range(phase_field) =
              {Field("phase", NonZeroCell)}
  <1> DEFINE t == phase_field
  <1>1. t[1] = Field("phase", NonZeroCell)
    BY DEF phase_field
  <1>2. t \in Seq(Range(t)) /\ Len(t) = 1 /\ DOMAIN t = 1..1
    BY DEF phase_field, Range
  <1> HIDE DEF t
  <1>3. t[1].name = "phase"
    BY <1>1, NamesSay
  <1>4. Stands(t, 1, B)
    BY <1>1, StandsFree
  <1>5. \A i \in 1..1 : Stands(t, i, B)
    BY <1>4
  <1>6. Range(t) = {t[1]}
    BY <1>2 DEF Range
  <1>7. NamesOf(t) = {"phase"}
    BY <1>3, <1>6 DEF NamesOf
  <1>8. \A i, j \in 1..1 : t[i].name = t[j].name => i = j
    BY <1>3
  <1>9. Range(t) =
           {Field("phase", NonZeroCell)}
    BY <1>1, <1>6
  <1>10. Plain(t[1], Range(t))
    BY <1>1, PlainData
  <1>11. \A f \in Range(t) : Plain(f, Range(t))
    BY <1>6, <1>10
  <1>12. Part(t, B)
    BY <1>2, <1>8, <1>5 DEF Part
  <1>13. t[1].codes = NonZeroCell
    BY <1>1, CodesSay
  <1>14. NonZeroCell \subseteq Cells
    BY CodesIn
  <1>15. \A f \in Range(t) : f.codes \subseteq Cells
    BY <1>6, <1>13, <1>14
  <1>16. Section(t, B, {})
    BY <1>11, <1>12, <1>15 DEF Section
  <1>17. QED BY <1>2, <1>7, <1>9, <1>16 DEF t

LEMMA RetentionHead ==
  ASSUME NEW B
  PROVE  /\ Section(retention_head, B, {Variant("retention", {1, 2})})
         /\ Len(retention_head) = 1
         /\ NamesOf(retention_head) = {"retention"}
         /\ Range(retention_head) =
              {Variant("retention", {1, 2})}
  <1> DEFINE t == retention_head
  <1>1. t[1] = Variant("retention", {1, 2})
    BY DEF retention_head
  <1>2. t \in Seq(Range(t)) /\ Len(t) = 1 /\ DOMAIN t = 1..1
    BY DEF retention_head, Range
  <1> HIDE DEF t
  <1>3. t[1].name = "retention"
    BY <1>1, NamesSay
  <1>4. Stands(t, 1, B)
    BY <1>1, StandsFree
  <1>5. \A i \in 1..1 : Stands(t, i, B)
    BY <1>4
  <1>6. Range(t) = {t[1]}
    BY <1>2 DEF Range
  <1>7. NamesOf(t) = {"retention"}
    BY <1>3, <1>6 DEF NamesOf
  <1>8. \A i, j \in 1..1 : t[i].name = t[j].name => i = j
    BY <1>3
  <1>9. Range(t) =
           {Variant("retention", {1, 2})}
    BY <1>1, <1>6
  <1>10. \A f \in Range(t) : Plain(f, Range(t)) \/ f \in {Variant("retention", {1, 2})}
    BY <1>6, <1>1
  <1>11. Part(t, B)
    BY <1>2, <1>8, <1>5 DEF Part
  <1>12. t[1].codes = {1, 2}
    BY <1>1, CodesSay
  <1>13. {1, 2} \subseteq Cells
    BY CodesIn
  <1>14. \A f \in Range(t) : f.codes \subseteq Cells
    BY <1>6, <1>12, <1>13
  <1>15. Section(t, B, {Variant("retention", {1, 2})})
    BY <1>10, <1>11, <1>14 DEF Section
  <1>16. QED BY <1>2, <1>7, <1>9, <1>15 DEF t

LEMMA ResultPart ==
  ASSUME NEW B, NEW codecs, codecs \subseteq Cells, NEW versions, versions \subseteq Cells
  PROVE  /\ Section(safe_result_fields(codecs, versions), B, {})
         /\ Len(safe_result_fields(codecs, versions)) = 4
         /\ NamesOf(safe_result_fields(codecs, versions)) = {"safe_result?", "codec", "codec_version", "result"}
         /\ Range(safe_result_fields(codecs, versions)) =
              {Group("safe_result?", "result"), When("safe_result?", {1}, Field("codec", codecs)),
               When("safe_result?", {1}, Field("codec_version", versions)),
               When("safe_result?", {1}, Field("result", AnyCell))}
  <1> DEFINE t == safe_result_fields(codecs, versions)
  <1>1. /\ t[1] = Group("safe_result?", "result") /\ t[2] = When("safe_result?", {1}, Field("codec", codecs))
        /\ t[3] = When("safe_result?", {1}, Field("codec_version", versions))
        /\ t[4] = When("safe_result?", {1}, Field("result", AnyCell))
    BY DEF safe_result_fields
  <1>2. t \in Seq(Range(t)) /\ Len(t) = 4 /\ DOMAIN t = 1..4
    BY DEF safe_result_fields, Range
  <1> HIDE DEF t
  <1>3. /\ t[1].name = "safe_result?" /\ t[2].name = "codec" /\ t[3].name = "codec_version"
        /\ t[4].name = "result"
    BY <1>1, NamesSay
  <1>4. Stands(t, 1, B)
    BY <1>1, StandsFree
  <1>5. t[2].of = t[1].name /\ t[3].of = t[1].name /\ t[4].of = t[1].name
    BY <1>1, <1>3, BoundForms
  <1>6. Stands(t, 2, B) /\ Stands(t, 3, B) /\ Stands(t, 4, B)
    BY <1>5, StandsBound
  <1>7. \A i \in 1..4 : Stands(t, i, B)
    BY <1>4, <1>6
  <1>8. Range(t) = {t[1], t[2], t[3], t[4]}
    BY <1>2 DEF Range
  <1>9. NamesOf(t) = {"safe_result?", "codec", "codec_version", "result"}
    BY <1>3, <1>8 DEF NamesOf
  <1>10. \A i, j \in 1..4 : t[i].name = t[j].name => i = j
    BY <1>3
  <1>11. Range(t) =
           {Group("safe_result?", "result"), When("safe_result?", {1}, Field("codec", codecs)),
            When("safe_result?", {1}, Field("codec_version", versions)),
            When("safe_result?", {1}, Field("result", AnyCell))}
    BY <1>1, <1>8
  <1>12. Plain(t[2], Range(t)) /\ Plain(t[3], Range(t)) /\ Plain(t[4], Range(t))
    BY <1>1, PlainData
  <1>13. When("safe_result?", {1}, Field("result", AnyCell)) \in Range(t)
    BY <1>1, <1>8
  <1>14. Flagged("safe_result?", "result")
    BY DEF Flagged
  <1>15. Plain(t[1], Range(t))
    BY <1>1, <1>13, <1>14, PlainGroup
  <1>16. \A f \in Range(t) : Plain(f, Range(t))
    BY <1>8, <1>12, <1>15
  <1>17. Part(t, B)
    BY <1>2, <1>10, <1>7 DEF Part
  <1>18. t[1].codes = Flags /\ t[2].codes = codecs /\ t[3].codes = versions /\ t[4].codes = AnyCell
    BY <1>1, CodesSay
  <1>19. /\ Flags \subseteq Cells /\ codecs \subseteq Cells /\ versions \subseteq Cells
         /\ AnyCell \subseteq Cells
    BY CodesIn
  <1>20. \A f \in Range(t) : f.codes \subseteq Cells
    BY <1>8, <1>18, <1>19
  <1>21. Section(t, B, {})
    BY <1>16, <1>17, <1>20 DEF Section
  <1>22. QED BY <1>2, <1>9, <1>11, <1>21 DEF t

LEMMA BindingHead ==
  ASSUME NEW B
  PROVE  /\ Section(binding_head, B, {})
         /\ Len(binding_head) = 5
         /\ NamesOf(binding_head) = {"binding?", "source", "source_serial", "target", "target_serial"}
         /\ Range(binding_head) =
              {Group("binding?", "source"), When("binding?", {1}, Field("source", AnyCell)),
               When("binding?", {1}, Field("source_serial", AnyCell)),
               When("binding?", {1}, Field("target", AnyCell)),
               When("binding?", {1}, Field("target_serial", NonZeroCell))}
  <1> DEFINE t == binding_head
  <1>1. /\ t[1] = Group("binding?", "source") /\ t[2] = When("binding?", {1}, Field("source", AnyCell))
        /\ t[3] = When("binding?", {1}, Field("source_serial", AnyCell))
        /\ t[4] = When("binding?", {1}, Field("target", AnyCell))
        /\ t[5] = When("binding?", {1}, Field("target_serial", NonZeroCell))
    BY DEF binding_head
  <1>2. t \in Seq(Range(t)) /\ Len(t) = 5 /\ DOMAIN t = 1..5
    BY DEF binding_head, Range
  <1> HIDE DEF t
  <1>3. /\ t[1].name = "binding?" /\ t[2].name = "source" /\ t[3].name = "source_serial"
        /\ t[4].name = "target" /\ t[5].name = "target_serial"
    BY <1>1, NamesSay
  <1>4. Stands(t, 1, B)
    BY <1>1, StandsFree
  <1>5. t[2].of = t[1].name /\ t[3].of = t[1].name /\ t[4].of = t[1].name /\ t[5].of = t[1].name
    BY <1>1, <1>3, BoundForms
  <1>6. Stands(t, 2, B) /\ Stands(t, 3, B) /\ Stands(t, 4, B) /\ Stands(t, 5, B)
    BY <1>5, StandsBound
  <1>7. \A i \in 1..5 : Stands(t, i, B)
    BY <1>4, <1>6
  <1>8. Range(t) = {t[1], t[2], t[3], t[4], t[5]}
    BY <1>2 DEF Range
  <1>9. NamesOf(t) = {"binding?", "source", "source_serial", "target", "target_serial"}
    BY <1>3, <1>8 DEF NamesOf
  <1>10. \A i, j \in 1..5 : t[i].name = t[j].name => i = j
    BY <1>3
  <1>11. Range(t) =
           {Group("binding?", "source"), When("binding?", {1}, Field("source", AnyCell)),
            When("binding?", {1}, Field("source_serial", AnyCell)),
            When("binding?", {1}, Field("target", AnyCell)),
            When("binding?", {1}, Field("target_serial", NonZeroCell))}
    BY <1>1, <1>8
  <1>12. Plain(t[2], Range(t)) /\ Plain(t[3], Range(t)) /\ Plain(t[4], Range(t)) /\ Plain(t[5], Range(t))
    BY <1>1, PlainData
  <1>13. When("binding?", {1}, Field("source", AnyCell)) \in Range(t)
    BY <1>1, <1>8
  <1>14. Flagged("binding?", "source")
    BY DEF Flagged
  <1>15. Plain(t[1], Range(t))
    BY <1>1, <1>13, <1>14, PlainGroup
  <1>16. \A f \in Range(t) : Plain(f, Range(t))
    BY <1>8, <1>12, <1>15
  <1>17. Part(t, B)
    BY <1>2, <1>10, <1>7 DEF Part
  <1>18. /\ t[1].codes = Flags /\ t[2].codes = AnyCell /\ t[3].codes = AnyCell /\ t[4].codes = AnyCell
         /\ t[5].codes = NonZeroCell
    BY <1>1, CodesSay
  <1>19. Flags \subseteq Cells /\ AnyCell \subseteq Cells /\ NonZeroCell \subseteq Cells
    BY CodesIn
  <1>20. \A f \in Range(t) : f.codes \subseteq Cells
    BY <1>8, <1>18, <1>19
  <1>21. Section(t, B, {})
    BY <1>16, <1>17, <1>20 DEF Section
  <1>22. QED BY <1>2, <1>9, <1>11, <1>21 DEF t

LEMMA BodyPart ==
  ASSUME NEW B
  PROVE  /\ Section(body_fields, B, {})
         /\ Len(body_fields) = 2
         /\ NamesOf(body_fields) = {"profile_body#", "profile_body"}
         /\ Range(body_fields) =
              {Length("profile_body#", "profile_body", AnyCell),
               Bytes("profile_body#", "profile_body", AnyCell)}
  <1> DEFINE t == body_fields
  <1>1. /\ t[1] = Length("profile_body#", "profile_body", AnyCell)
        /\ t[2] = Bytes("profile_body#", "profile_body", AnyCell)
    BY DEF body_fields
  <1>2. t \in Seq(Range(t)) /\ Len(t) = 2 /\ DOMAIN t = 1..2
    BY DEF body_fields, Range
  <1> HIDE DEF t
  <1>3. t[1].name = "profile_body#" /\ t[2].name = "profile_body"
    BY <1>1, NamesSay
  <1>4. Stands(t, 1, B)
    BY <1>1, StandsFree
  <1>5. t[2].of = t[1].name
    BY <1>1, <1>3, BoundForms
  <1>6. Stands(t, 2, B)
    BY <1>5, StandsBound
  <1>7. \A i \in 1..2 : Stands(t, i, B)
    BY <1>4, <1>6
  <1>8. Range(t) = {t[1], t[2]}
    BY <1>2 DEF Range
  <1>9. NamesOf(t) = {"profile_body#", "profile_body"}
    BY <1>3, <1>8 DEF NamesOf
  <1>10. \A i, j \in 1..2 : t[i].name = t[j].name => i = j
    BY <1>3
  <1>11. Range(t) =
           {Length("profile_body#", "profile_body", AnyCell),
            Bytes("profile_body#", "profile_body", AnyCell)}
    BY <1>1, <1>8
  <1>12. Plain(t[2], Range(t))
    BY <1>1, PlainData
  <1>13. Bytes("profile_body#", "profile_body", AnyCell) \in Range(t)
    BY <1>1, <1>8
  <1>14. Plain(t[1], Range(t))
    BY <1>1, <1>13, PlainLength
  <1>15. \A f \in Range(t) : Plain(f, Range(t))
    BY <1>8, <1>12, <1>14
  <1>16. Part(t, B)
    BY <1>2, <1>10, <1>7 DEF Part
  <1>17. t[1].codes = AnyCell /\ t[2].codes = AnyCell
    BY <1>1, CodesSay
  <1>18. AnyCell \subseteq Cells
    BY CodesIn
  <1>19. \A f \in Range(t) : f.codes \subseteq Cells
    BY <1>8, <1>17, <1>18
  <1>20. Section(t, B, {})
    BY <1>15, <1>16, <1>19 DEF Section
  <1>21. QED BY <1>2, <1>9, <1>11, <1>20 DEF t

LEMMA UnboundPart ==
  ASSUME NEW B
  PROVE  /\ Section(unbound_fields, B, {Variant("profile_length", {3, 5, 7})})
         /\ Len(unbound_fields) = 2
         /\ NamesOf(unbound_fields) = {"binding?", "profile_length"}
         /\ Range(unbound_fields) =
              {Const("binding?", 0), Variant("profile_length", {3, 5, 7})}
  <1> DEFINE t == unbound_fields
  <1>1. t[1] = Const("binding?", 0) /\ t[2] = Variant("profile_length", {3, 5, 7})
    BY DEF unbound_fields
  <1>2. t \in Seq(Range(t)) /\ Len(t) = 2 /\ DOMAIN t = 1..2
    BY DEF unbound_fields, Range
  <1> HIDE DEF t
  <1>3. t[1].name = "binding?" /\ t[2].name = "profile_length"
    BY <1>1, NamesSay
  <1>4. Stands(t, 1, B) /\ Stands(t, 2, B)
    BY <1>1, StandsFree
  <1>5. \A i \in 1..2 : Stands(t, i, B)
    BY <1>4
  <1>6. Range(t) = {t[1], t[2]}
    BY <1>2 DEF Range
  <1>7. NamesOf(t) = {"binding?", "profile_length"}
    BY <1>3, <1>6 DEF NamesOf
  <1>8. \A i, j \in 1..2 : t[i].name = t[j].name => i = j
    BY <1>3
  <1>9. Range(t) =
           {Const("binding?", 0), Variant("profile_length", {3, 5, 7})}
    BY <1>1, <1>6
  <1>10. Plain(t[1], Range(t))
    BY <1>1, PlainData
  <1>11. \A f \in Range(t) : Plain(f, Range(t)) \/ f \in {Variant("profile_length", {3, 5, 7})}
    BY <1>6, <1>10, <1>1
  <1>12. Part(t, B)
    BY <1>2, <1>8, <1>5 DEF Part
  <1>13. t[1].codes = {0} /\ t[2].codes = {3, 5, 7}
    BY <1>1, CodesSay
  <1>14. {0} \subseteq Cells /\ {3, 5, 7} \subseteq Cells
    BY CodesIn
  <1>15. \A f \in Range(t) : f.codes \subseteq Cells
    BY <1>6, <1>13, <1>14
  <1>16. Section(t, B, {Variant("profile_length", {3, 5, 7})})
    BY <1>11, <1>12, <1>15 DEF Section
  <1>17. QED BY <1>2, <1>7, <1>9, <1>16 DEF t

LEMMA AuthorityHead ==
  ASSUME NEW B
  PROVE  /\ Section(authority_head, B, {})
         /\ Len(authority_head) = 5
         /\ NamesOf(authority_head) = {"format", "safe_time", "hold?", "generation", "observation"}
         /\ Range(authority_head) =
              {Const("format", 1), Field("safe_time", AnyCell), Group("hold?", "generation"),
               When("hold?", {1}, Field("generation", NonZeroCell)),
               When("hold?", {1}, Field("observation", NonZeroCell))}
  <1> DEFINE t == authority_head
  <1>1. /\ t[1] = Const("format", 1) /\ t[2] = Field("safe_time", AnyCell)
        /\ t[3] = Group("hold?", "generation") /\ t[4] = When("hold?", {1}, Field("generation", NonZeroCell))
        /\ t[5] = When("hold?", {1}, Field("observation", NonZeroCell))
    BY DEF authority_head
  <1>2. t \in Seq(Range(t)) /\ Len(t) = 5 /\ DOMAIN t = 1..5
    BY DEF authority_head, Range
  <1> HIDE DEF t
  <1>3. /\ t[1].name = "format" /\ t[2].name = "safe_time" /\ t[3].name = "hold?" /\ t[4].name = "generation"
        /\ t[5].name = "observation"
    BY <1>1, NamesSay
  <1>4. Stands(t, 1, B) /\ Stands(t, 2, B) /\ Stands(t, 3, B)
    BY <1>1, StandsFree
  <1>5. t[4].of = t[3].name /\ t[5].of = t[3].name
    BY <1>1, <1>3, BoundForms
  <1>6. Stands(t, 4, B) /\ Stands(t, 5, B)
    BY <1>5, StandsBound
  <1>7. \A i \in 1..5 : Stands(t, i, B)
    BY <1>4, <1>6
  <1>8. Range(t) = {t[1], t[2], t[3], t[4], t[5]}
    BY <1>2 DEF Range
  <1>9. NamesOf(t) = {"format", "safe_time", "hold?", "generation", "observation"}
    BY <1>3, <1>8 DEF NamesOf
  <1>10. \A i, j \in 1..5 : t[i].name = t[j].name => i = j
    BY <1>3
  <1>11. Range(t) =
           {Const("format", 1), Field("safe_time", AnyCell), Group("hold?", "generation"),
            When("hold?", {1}, Field("generation", NonZeroCell)),
            When("hold?", {1}, Field("observation", NonZeroCell))}
    BY <1>1, <1>8
  <1>12. Plain(t[1], Range(t)) /\ Plain(t[2], Range(t)) /\ Plain(t[4], Range(t)) /\ Plain(t[5], Range(t))
    BY <1>1, PlainData
  <1>13. When("hold?", {1}, Field("generation", NonZeroCell)) \in Range(t)
    BY <1>1, <1>8
  <1>14. Flagged("hold?", "generation")
    BY DEF Flagged
  <1>15. Plain(t[3], Range(t))
    BY <1>1, <1>13, <1>14, PlainGroup
  <1>16. \A f \in Range(t) : Plain(f, Range(t))
    BY <1>8, <1>12, <1>15
  <1>17. Part(t, B)
    BY <1>2, <1>10, <1>7 DEF Part
  <1>18. /\ t[1].codes = {1} /\ t[2].codes = AnyCell /\ t[3].codes = Flags /\ t[4].codes = NonZeroCell
         /\ t[5].codes = NonZeroCell
    BY <1>1, CodesSay
  <1>19. /\ {1} \subseteq Cells /\ AnyCell \subseteq Cells /\ Flags \subseteq Cells
         /\ NonZeroCell \subseteq Cells
    BY CodesIn
  <1>20. \A f \in Range(t) : f.codes \subseteq Cells
    BY <1>8, <1>18, <1>19
  <1>21. Section(t, B, {})
    BY <1>16, <1>17, <1>20 DEF Section
  <1>22. QED BY <1>2, <1>9, <1>11, <1>21 DEF t

LEMMA CheckpointPart ==
  ASSUME NEW B
  PROVE  /\ Section(checkpoint_format, B, {})
         /\ Len(checkpoint_format) = 15
         /\ NamesOf(checkpoint_format) =
              {"format", "runtime", "process_instance", "wall", "tick", "prior_safe_time", "new_safe_time",
               "reason", "hold?", "mirror?", "generation", "observation", "origin", "sequence", "transaction"}
         /\ Range(checkpoint_format) =
              {Const("format", 1), Field("runtime", {1, 2}), Field("process_instance", NonZeroCell),
               Field("wall", AnyCell), Field("tick", AnyCell), Field("prior_safe_time", AnyCell),
               Field("new_safe_time", AnyCell), Field("reason", 1..4), Group("hold?", "generation"),
               Group("mirror?", "origin"), When("hold?", {1}, Field("generation", NonZeroCell)),
               When("hold?", {1}, Field("observation", NonZeroCell)),
               When("mirror?", {1}, Field("origin", NonZeroCell)),
               When("mirror?", {1}, Field("sequence", AnyCell)),
               When("mirror?", {1}, Field("transaction", NonZeroCell))}
  <1> DEFINE t == checkpoint_format
  <1>1. /\ t[1] = Const("format", 1) /\ t[2] = Field("runtime", {1, 2})
        /\ t[3] = Field("process_instance", NonZeroCell) /\ t[4] = Field("wall", AnyCell)
        /\ t[5] = Field("tick", AnyCell) /\ t[6] = Field("prior_safe_time", AnyCell)
        /\ t[7] = Field("new_safe_time", AnyCell) /\ t[8] = Field("reason", 1..4)
        /\ t[9] = Group("hold?", "generation") /\ t[10] = Group("mirror?", "origin")
        /\ t[11] = When("hold?", {1}, Field("generation", NonZeroCell))
        /\ t[12] = When("hold?", {1}, Field("observation", NonZeroCell))
        /\ t[13] = When("mirror?", {1}, Field("origin", NonZeroCell))
        /\ t[14] = When("mirror?", {1}, Field("sequence", AnyCell))
        /\ t[15] = When("mirror?", {1}, Field("transaction", NonZeroCell))
    BY DEF checkpoint_format
  <1>2. t \in Seq(Range(t)) /\ Len(t) = 15 /\ DOMAIN t = 1..15
    BY DEF checkpoint_format, Range
  <1> HIDE DEF t
  <1>3. /\ t[1].name = "format" /\ t[2].name = "runtime" /\ t[3].name = "process_instance"
        /\ t[4].name = "wall" /\ t[5].name = "tick" /\ t[6].name = "prior_safe_time"
        /\ t[7].name = "new_safe_time" /\ t[8].name = "reason" /\ t[9].name = "hold?"
        /\ t[10].name = "mirror?" /\ t[11].name = "generation" /\ t[12].name = "observation"
        /\ t[13].name = "origin" /\ t[14].name = "sequence" /\ t[15].name = "transaction"
    BY <1>1, NamesSay
  <1>4. /\ Stands(t, 1, B) /\ Stands(t, 2, B) /\ Stands(t, 3, B) /\ Stands(t, 4, B) /\ Stands(t, 5, B)
        /\ Stands(t, 6, B) /\ Stands(t, 7, B) /\ Stands(t, 8, B) /\ Stands(t, 9, B) /\ Stands(t, 10, B)
    BY <1>1, StandsFree
  <1>5. /\ t[11].of = t[9].name /\ t[12].of = t[9].name /\ t[13].of = t[10].name /\ t[14].of = t[10].name
        /\ t[15].of = t[10].name
    BY <1>1, <1>3, BoundForms
  <1>6. Stands(t, 11, B) /\ Stands(t, 12, B) /\ Stands(t, 13, B) /\ Stands(t, 14, B) /\ Stands(t, 15, B)
    BY <1>5, StandsBound
  <1>7. \A i \in 1..15 : Stands(t, i, B)
    BY <1>4, <1>6
  <1>8. Range(t) = {t[1], t[2], t[3], t[4], t[5], t[6], t[7], t[8], t[9], t[10], t[11], t[12], t[13], t[14], t[15]}
    BY <1>2 DEF Range
  <1>9. NamesOf(t) = {"format", "runtime", "process_instance", "wall", "tick", "prior_safe_time", "new_safe_time",
             "reason", "hold?", "mirror?", "generation", "observation", "origin", "sequence", "transaction"}
    BY <1>3, <1>8 DEF NamesOf
  <1>10. \A i, j \in 1..15 : t[i].name = t[j].name => i = j
    BY <1>3
  <1>11. Range(t) =
           {Const("format", 1), Field("runtime", {1, 2}), Field("process_instance", NonZeroCell),
            Field("wall", AnyCell), Field("tick", AnyCell), Field("prior_safe_time", AnyCell),
            Field("new_safe_time", AnyCell), Field("reason", 1..4), Group("hold?", "generation"),
            Group("mirror?", "origin"), When("hold?", {1}, Field("generation", NonZeroCell)),
            When("hold?", {1}, Field("observation", NonZeroCell)),
            When("mirror?", {1}, Field("origin", NonZeroCell)),
            When("mirror?", {1}, Field("sequence", AnyCell)),
            When("mirror?", {1}, Field("transaction", NonZeroCell))}
    BY <1>1, <1>8
  <1>12. /\ Plain(t[1], Range(t)) /\ Plain(t[2], Range(t)) /\ Plain(t[3], Range(t)) /\ Plain(t[4], Range(t))
         /\ Plain(t[5], Range(t)) /\ Plain(t[6], Range(t)) /\ Plain(t[7], Range(t)) /\ Plain(t[8], Range(t))
         /\ Plain(t[11], Range(t)) /\ Plain(t[12], Range(t)) /\ Plain(t[13], Range(t))
         /\ Plain(t[14], Range(t)) /\ Plain(t[15], Range(t))
    BY <1>1, PlainData
  <1>13. /\ When("hold?", {1}, Field("generation", NonZeroCell)) \in Range(t)
         /\ When("mirror?", {1}, Field("origin", NonZeroCell)) \in Range(t)
    BY <1>1, <1>8
  <1>14. Flagged("hold?", "generation") /\ Flagged("mirror?", "origin")
    BY DEF Flagged
  <1>15. Plain(t[9], Range(t)) /\ Plain(t[10], Range(t))
    BY <1>1, <1>13, <1>14, PlainGroup
  <1>16. \A f \in Range(t) : Plain(f, Range(t))
    BY <1>8, <1>12, <1>15
  <1>17. Part(t, B)
    BY <1>2, <1>10, <1>7 DEF Part
  <1>18. /\ t[1].codes = {1} /\ t[2].codes = {1, 2} /\ t[3].codes = NonZeroCell /\ t[4].codes = AnyCell
         /\ t[5].codes = AnyCell /\ t[6].codes = AnyCell /\ t[7].codes = AnyCell /\ t[8].codes = 1..4
         /\ t[9].codes = Flags /\ t[10].codes = Flags /\ t[11].codes = NonZeroCell
         /\ t[12].codes = NonZeroCell /\ t[13].codes = NonZeroCell /\ t[14].codes = AnyCell
         /\ t[15].codes = NonZeroCell
    BY <1>1, CodesSay
  <1>19. /\ {1} \subseteq Cells /\ {1, 2} \subseteq Cells /\ NonZeroCell \subseteq Cells
         /\ AnyCell \subseteq Cells /\ 1..4 \subseteq Cells /\ Flags \subseteq Cells
    BY CodesIn
  <1>20. \A f \in Range(t) : f.codes \subseteq Cells
    BY <1>8, <1>18, <1>19
  <1>21. Section(t, B, {})
    BY <1>16, <1>17, <1>20 DEF Section
  <1>22. QED BY <1>2, <1>9, <1>11, <1>21 DEF t

LEMMA RingPart ==
  ASSUME NEW B
  PROVE  /\ Section(ring_format, B, {Variant("count", 0..2)})
         /\ Len(ring_format) = 6
         /\ NamesOf(ring_format) = {"version", "count", "generation1", "phase1", "generation2", "phase2"}
         /\ Range(ring_format) =
              {Const("version", 1), Variant("count", 0..2),
               When("count", {1, 2}, Field("generation1", NonZeroCell)),
               When("count", {1, 2}, Field("phase1", 1..3)),
               When("count", {2}, Field("generation2", NonZeroCell)),
               When("count", {2}, Field("phase2", 1..3))}
  <1> DEFINE t == ring_format
  <1>1. /\ t[1] = Const("version", 1) /\ t[2] = Variant("count", 0..2)
        /\ t[3] = When("count", {1, 2}, Field("generation1", NonZeroCell))
        /\ t[4] = When("count", {1, 2}, Field("phase1", 1..3))
        /\ t[5] = When("count", {2}, Field("generation2", NonZeroCell))
        /\ t[6] = When("count", {2}, Field("phase2", 1..3))
    BY DEF ring_format
  <1>2. t \in Seq(Range(t)) /\ Len(t) = 6 /\ DOMAIN t = 1..6
    BY DEF ring_format, Range
  <1> HIDE DEF t
  <1>3. /\ t[1].name = "version" /\ t[2].name = "count" /\ t[3].name = "generation1" /\ t[4].name = "phase1"
        /\ t[5].name = "generation2" /\ t[6].name = "phase2"
    BY <1>1, NamesSay
  <1>4. Stands(t, 1, B) /\ Stands(t, 2, B)
    BY <1>1, StandsFree
  <1>5. t[3].of = t[2].name /\ t[4].of = t[2].name /\ t[5].of = t[2].name /\ t[6].of = t[2].name
    BY <1>1, <1>3, BoundForms
  <1>6. Stands(t, 3, B) /\ Stands(t, 4, B) /\ Stands(t, 5, B) /\ Stands(t, 6, B)
    BY <1>5, StandsBound
  <1>7. \A i \in 1..6 : Stands(t, i, B)
    BY <1>4, <1>6
  <1>8. Range(t) = {t[1], t[2], t[3], t[4], t[5], t[6]}
    BY <1>2 DEF Range
  <1>9. NamesOf(t) = {"version", "count", "generation1", "phase1", "generation2", "phase2"}
    BY <1>3, <1>8 DEF NamesOf
  <1>10. \A i, j \in 1..6 : t[i].name = t[j].name => i = j
    BY <1>3
  <1>11. Range(t) =
           {Const("version", 1), Variant("count", 0..2),
            When("count", {1, 2}, Field("generation1", NonZeroCell)),
            When("count", {1, 2}, Field("phase1", 1..3)),
            When("count", {2}, Field("generation2", NonZeroCell)), When("count", {2}, Field("phase2", 1..3))}
    BY <1>1, <1>8
  <1>12. /\ Plain(t[1], Range(t)) /\ Plain(t[3], Range(t)) /\ Plain(t[4], Range(t)) /\ Plain(t[5], Range(t))
         /\ Plain(t[6], Range(t))
    BY <1>1, PlainData
  <1>13. \A f \in Range(t) : Plain(f, Range(t)) \/ f \in {Variant("count", 0..2)}
    BY <1>8, <1>12, <1>1
  <1>14. Part(t, B)
    BY <1>2, <1>10, <1>7 DEF Part
  <1>15. /\ t[1].codes = {1} /\ t[2].codes = 0..2 /\ t[3].codes = NonZeroCell /\ t[4].codes = 1..3
         /\ t[5].codes = NonZeroCell /\ t[6].codes = 1..3
    BY <1>1, CodesSay
  <1>16. {1} \subseteq Cells /\ 0..2 \subseteq Cells /\ NonZeroCell \subseteq Cells /\ 1..3 \subseteq Cells
    BY CodesIn
  <1>17. \A f \in Range(t) : f.codes \subseteq Cells
    BY <1>8, <1>15, <1>16
  <1>18. Section(t, B, {Variant("count", 0..2)})
    BY <1>13, <1>14, <1>17 DEF Section
  <1>19. QED BY <1>2, <1>9, <1>11, <1>18 DEF t

LEMMA PointerPart ==
  ASSUME NEW B
  PROVE  /\ Section(pointer_format, B, {})
         /\ Len(pointer_format) = 10
         /\ NamesOf(pointer_format) =
              {"version", "protocol_version", "transition_id#", "transition_id", "final_generation",
               "lineage_id#", "lineage_id", "target_history_epoch", "origin", "certificate"}
         /\ Range(pointer_format) =
              {Const("version", 1), Field("protocol_version", AnyCell),
               Length("transition_id#", "transition_id", NonZeroCell),
               Bytes("transition_id#", "transition_id", NonZeroCell),
               Field("final_generation", NonZeroCell), Length("lineage_id#", "lineage_id", NonZeroCell),
               Bytes("lineage_id#", "lineage_id", NonZeroCell), Field("target_history_epoch", AnyCell),
               Field("origin", 1..3), Field("certificate", NonZeroCell)}
  <1> DEFINE t == pointer_format
  <1>1. /\ t[1] = Const("version", 1) /\ t[2] = Field("protocol_version", AnyCell)
        /\ t[3] = Length("transition_id#", "transition_id", NonZeroCell)
        /\ t[4] = Bytes("transition_id#", "transition_id", NonZeroCell)
        /\ t[5] = Field("final_generation", NonZeroCell)
        /\ t[6] = Length("lineage_id#", "lineage_id", NonZeroCell)
        /\ t[7] = Bytes("lineage_id#", "lineage_id", NonZeroCell)
        /\ t[8] = Field("target_history_epoch", AnyCell) /\ t[9] = Field("origin", 1..3)
        /\ t[10] = Field("certificate", NonZeroCell)
    BY DEF pointer_format
  <1>2. t \in Seq(Range(t)) /\ Len(t) = 10 /\ DOMAIN t = 1..10
    BY DEF pointer_format, Range
  <1> HIDE DEF t
  <1>3. /\ t[1].name = "version" /\ t[2].name = "protocol_version" /\ t[3].name = "transition_id#"
        /\ t[4].name = "transition_id" /\ t[5].name = "final_generation" /\ t[6].name = "lineage_id#"
        /\ t[7].name = "lineage_id" /\ t[8].name = "target_history_epoch" /\ t[9].name = "origin"
        /\ t[10].name = "certificate"
    BY <1>1, NamesSay
  <1>4. /\ Stands(t, 1, B) /\ Stands(t, 2, B) /\ Stands(t, 3, B) /\ Stands(t, 5, B) /\ Stands(t, 6, B)
        /\ Stands(t, 8, B) /\ Stands(t, 9, B) /\ Stands(t, 10, B)
    BY <1>1, StandsFree
  <1>5. t[4].of = t[3].name /\ t[7].of = t[6].name
    BY <1>1, <1>3, BoundForms
  <1>6. Stands(t, 4, B) /\ Stands(t, 7, B)
    BY <1>5, StandsBound
  <1>7. \A i \in 1..10 : Stands(t, i, B)
    BY <1>4, <1>6
  <1>8. Range(t) = {t[1], t[2], t[3], t[4], t[5], t[6], t[7], t[8], t[9], t[10]}
    BY <1>2 DEF Range
  <1>9. NamesOf(t) = {"version", "protocol_version", "transition_id#", "transition_id", "final_generation",
             "lineage_id#", "lineage_id", "target_history_epoch", "origin", "certificate"}
    BY <1>3, <1>8 DEF NamesOf
  <1>10. \A i, j \in 1..10 : t[i].name = t[j].name => i = j
    BY <1>3
  <1>11. Range(t) =
           {Const("version", 1), Field("protocol_version", AnyCell),
            Length("transition_id#", "transition_id", NonZeroCell),
            Bytes("transition_id#", "transition_id", NonZeroCell), Field("final_generation", NonZeroCell),
            Length("lineage_id#", "lineage_id", NonZeroCell),
            Bytes("lineage_id#", "lineage_id", NonZeroCell), Field("target_history_epoch", AnyCell),
            Field("origin", 1..3), Field("certificate", NonZeroCell)}
    BY <1>1, <1>8
  <1>12. /\ Plain(t[1], Range(t)) /\ Plain(t[2], Range(t)) /\ Plain(t[4], Range(t)) /\ Plain(t[5], Range(t))
         /\ Plain(t[7], Range(t)) /\ Plain(t[8], Range(t)) /\ Plain(t[9], Range(t)) /\ Plain(t[10], Range(t))
    BY <1>1, PlainData
  <1>13. /\ Bytes("transition_id#", "transition_id", NonZeroCell) \in Range(t)
         /\ Bytes("lineage_id#", "lineage_id", NonZeroCell) \in Range(t)
    BY <1>1, <1>8
  <1>14. Plain(t[3], Range(t)) /\ Plain(t[6], Range(t))
    BY <1>1, <1>13, PlainLength
  <1>15. \A f \in Range(t) : Plain(f, Range(t))
    BY <1>8, <1>12, <1>14
  <1>16. Part(t, B)
    BY <1>2, <1>10, <1>7 DEF Part
  <1>17. /\ t[1].codes = {1} /\ t[2].codes = AnyCell /\ t[3].codes = NonZeroCell /\ t[4].codes = NonZeroCell
         /\ t[5].codes = NonZeroCell /\ t[6].codes = NonZeroCell /\ t[7].codes = NonZeroCell
         /\ t[8].codes = AnyCell /\ t[9].codes = 1..3 /\ t[10].codes = NonZeroCell
    BY <1>1, CodesSay
  <1>18. /\ {1} \subseteq Cells /\ AnyCell \subseteq Cells /\ NonZeroCell \subseteq Cells
         /\ 1..3 \subseteq Cells
    BY CodesIn
  <1>19. \A f \in Range(t) : f.codes \subseteq Cells
    BY <1>8, <1>17, <1>18
  <1>20. Section(t, B, {})
    BY <1>15, <1>16, <1>19 DEF Section
  <1>21. QED BY <1>2, <1>9, <1>11, <1>20 DEF t

LEMMA MacKeyPart ==
  ASSUME NEW B
  PROVE  /\ Section(mac_key_format, B, {})
         /\ Len(mac_key_format) = 5
         /\ NamesOf(mac_key_format) = {"version", "purpose", "origin", "key", "secret"}
         /\ Range(mac_key_format) =
              {Const("version", 1), Field("purpose", 1..11), Field("origin", AnyCell),
               Field("key", NonZeroCell), Field("secret", NonZeroCell)}
  <1> DEFINE t == mac_key_format
  <1>1. /\ t[1] = Const("version", 1) /\ t[2] = Field("purpose", 1..11) /\ t[3] = Field("origin", AnyCell)
        /\ t[4] = Field("key", NonZeroCell) /\ t[5] = Field("secret", NonZeroCell)
    BY DEF mac_key_format
  <1>2. t \in Seq(Range(t)) /\ Len(t) = 5 /\ DOMAIN t = 1..5
    BY DEF mac_key_format, Range
  <1> HIDE DEF t
  <1>3. /\ t[1].name = "version" /\ t[2].name = "purpose" /\ t[3].name = "origin" /\ t[4].name = "key"
        /\ t[5].name = "secret"
    BY <1>1, NamesSay
  <1>4. Stands(t, 1, B) /\ Stands(t, 2, B) /\ Stands(t, 3, B) /\ Stands(t, 4, B) /\ Stands(t, 5, B)
    BY <1>1, StandsFree
  <1>5. \A i \in 1..5 : Stands(t, i, B)
    BY <1>4
  <1>6. Range(t) = {t[1], t[2], t[3], t[4], t[5]}
    BY <1>2 DEF Range
  <1>7. NamesOf(t) = {"version", "purpose", "origin", "key", "secret"}
    BY <1>3, <1>6 DEF NamesOf
  <1>8. \A i, j \in 1..5 : t[i].name = t[j].name => i = j
    BY <1>3
  <1>9. Range(t) =
           {Const("version", 1), Field("purpose", 1..11), Field("origin", AnyCell),
            Field("key", NonZeroCell), Field("secret", NonZeroCell)}
    BY <1>1, <1>6
  <1>10. /\ Plain(t[1], Range(t)) /\ Plain(t[2], Range(t)) /\ Plain(t[3], Range(t)) /\ Plain(t[4], Range(t))
         /\ Plain(t[5], Range(t))
    BY <1>1, PlainData
  <1>11. \A f \in Range(t) : Plain(f, Range(t))
    BY <1>6, <1>10
  <1>12. Part(t, B)
    BY <1>2, <1>8, <1>5 DEF Part
  <1>13. /\ t[1].codes = {1} /\ t[2].codes = 1..11 /\ t[3].codes = AnyCell /\ t[4].codes = NonZeroCell
         /\ t[5].codes = NonZeroCell
    BY <1>1, CodesSay
  <1>14. /\ {1} \subseteq Cells /\ 1..11 \subseteq Cells /\ AnyCell \subseteq Cells
         /\ NonZeroCell \subseteq Cells
    BY CodesIn
  <1>15. \A f \in Range(t) : f.codes \subseteq Cells
    BY <1>6, <1>13, <1>14
  <1>16. Section(t, B, {})
    BY <1>11, <1>12, <1>15 DEF Section
  <1>17. QED BY <1>2, <1>7, <1>9, <1>16 DEF t

LEMMA AckHead ==
  ASSUME NEW B
  PROVE  /\ Section(ack_head, B, {})
         /\ Len(ack_head) = 2
         /\ NamesOf(ack_head) = {"format", "operation"}
         /\ Range(ack_head) =
              {Const("format", 1), Const("operation", 1)}
  <1> DEFINE t == ack_head
  <1>1. t[1] = Const("format", 1) /\ t[2] = Const("operation", 1)
    BY DEF ack_head
  <1>2. t \in Seq(Range(t)) /\ Len(t) = 2 /\ DOMAIN t = 1..2
    BY DEF ack_head, Range
  <1> HIDE DEF t
  <1>3. t[1].name = "format" /\ t[2].name = "operation"
    BY <1>1, NamesSay
  <1>4. Stands(t, 1, B) /\ Stands(t, 2, B)
    BY <1>1, StandsFree
  <1>5. \A i \in 1..2 : Stands(t, i, B)
    BY <1>4
  <1>6. Range(t) = {t[1], t[2]}
    BY <1>2 DEF Range
  <1>7. NamesOf(t) = {"format", "operation"}
    BY <1>3, <1>6 DEF NamesOf
  <1>8. \A i, j \in 1..2 : t[i].name = t[j].name => i = j
    BY <1>3
  <1>9. Range(t) =
           {Const("format", 1), Const("operation", 1)}
    BY <1>1, <1>6
  <1>10. Plain(t[1], Range(t)) /\ Plain(t[2], Range(t))
    BY <1>1, PlainData
  <1>11. \A f \in Range(t) : Plain(f, Range(t))
    BY <1>6, <1>10
  <1>12. Part(t, B)
    BY <1>2, <1>8, <1>5 DEF Part
  <1>13. t[1].codes = {1} /\ t[2].codes = {1}
    BY <1>1, CodesSay
  <1>14. {1} \subseteq Cells
    BY CodesIn
  <1>15. \A f \in Range(t) : f.codes \subseteq Cells
    BY <1>6, <1>13, <1>14
  <1>16. Section(t, B, {})
    BY <1>11, <1>12, <1>15 DEF Section
  <1>17. QED BY <1>2, <1>7, <1>9, <1>16 DEF t

LEMMA AckBody ==
  ASSUME NEW B
  PROVE  /\ Section(ack_body, B, {})
         /\ Len(ack_body) = 7
         /\ NamesOf(ack_body) =
              {"generation", "observation", "transition", "risk_acknowledged", "wall", "tick", "prior"}
         /\ Range(ack_body) =
              {Field("generation", NonZeroCell), Field("observation", NonZeroCell), Const("transition", 1),
               Const("risk_acknowledged", 1), Field("wall", AnyCell), Field("tick", AnyCell),
               Field("prior", AnyCell)}
  <1> DEFINE t == ack_body
  <1>1. /\ t[1] = Field("generation", NonZeroCell) /\ t[2] = Field("observation", NonZeroCell)
        /\ t[3] = Const("transition", 1) /\ t[4] = Const("risk_acknowledged", 1)
        /\ t[5] = Field("wall", AnyCell) /\ t[6] = Field("tick", AnyCell) /\ t[7] = Field("prior", AnyCell)
    BY DEF ack_body
  <1>2. t \in Seq(Range(t)) /\ Len(t) = 7 /\ DOMAIN t = 1..7
    BY DEF ack_body, Range
  <1> HIDE DEF t
  <1>3. /\ t[1].name = "generation" /\ t[2].name = "observation" /\ t[3].name = "transition"
        /\ t[4].name = "risk_acknowledged" /\ t[5].name = "wall" /\ t[6].name = "tick" /\ t[7].name = "prior"
    BY <1>1, NamesSay
  <1>4. /\ Stands(t, 1, B) /\ Stands(t, 2, B) /\ Stands(t, 3, B) /\ Stands(t, 4, B) /\ Stands(t, 5, B)
        /\ Stands(t, 6, B) /\ Stands(t, 7, B)
    BY <1>1, StandsFree
  <1>5. \A i \in 1..7 : Stands(t, i, B)
    BY <1>4
  <1>6. Range(t) = {t[1], t[2], t[3], t[4], t[5], t[6], t[7]}
    BY <1>2 DEF Range
  <1>7. NamesOf(t) = {"generation", "observation", "transition", "risk_acknowledged", "wall", "tick", "prior"}
    BY <1>3, <1>6 DEF NamesOf
  <1>8. \A i, j \in 1..7 : t[i].name = t[j].name => i = j
    BY <1>3
  <1>9. Range(t) =
           {Field("generation", NonZeroCell), Field("observation", NonZeroCell), Const("transition", 1),
            Const("risk_acknowledged", 1), Field("wall", AnyCell), Field("tick", AnyCell),
            Field("prior", AnyCell)}
    BY <1>1, <1>6
  <1>10. /\ Plain(t[1], Range(t)) /\ Plain(t[2], Range(t)) /\ Plain(t[3], Range(t)) /\ Plain(t[4], Range(t))
         /\ Plain(t[5], Range(t)) /\ Plain(t[6], Range(t)) /\ Plain(t[7], Range(t))
    BY <1>1, PlainData
  <1>11. \A f \in Range(t) : Plain(f, Range(t))
    BY <1>6, <1>10
  <1>12. Part(t, B)
    BY <1>2, <1>8, <1>5 DEF Part
  <1>13. /\ t[1].codes = NonZeroCell /\ t[2].codes = NonZeroCell /\ t[3].codes = {1} /\ t[4].codes = {1}
         /\ t[5].codes = AnyCell /\ t[6].codes = AnyCell /\ t[7].codes = AnyCell
    BY <1>1, CodesSay
  <1>14. NonZeroCell \subseteq Cells /\ {1} \subseteq Cells /\ AnyCell \subseteq Cells
    BY CodesIn
  <1>15. \A f \in Range(t) : f.codes \subseteq Cells
    BY <1>6, <1>13, <1>14
  <1>16. Section(t, B, {})
    BY <1>11, <1>12, <1>15 DEF Section
  <1>17. QED BY <1>2, <1>7, <1>9, <1>16 DEF t

LEMMA AckTarget ==
  ASSUME NEW B
  PROVE  /\ Section(ack_target, B, {})
         /\ Len(ack_target) = 1
         /\ NamesOf(ack_target) = {"target"}
         /\ Range(ack_target) =
              {Field("target", AnyCell)}
  <1> DEFINE t == ack_target
  <1>1. t[1] = Field("target", AnyCell)
    BY DEF ack_target
  <1>2. t \in Seq(Range(t)) /\ Len(t) = 1 /\ DOMAIN t = 1..1
    BY DEF ack_target, Range
  <1> HIDE DEF t
  <1>3. t[1].name = "target"
    BY <1>1, NamesSay
  <1>4. Stands(t, 1, B)
    BY <1>1, StandsFree
  <1>5. \A i \in 1..1 : Stands(t, i, B)
    BY <1>4
  <1>6. Range(t) = {t[1]}
    BY <1>2 DEF Range
  <1>7. NamesOf(t) = {"target"}
    BY <1>3, <1>6 DEF NamesOf
  <1>8. \A i, j \in 1..1 : t[i].name = t[j].name => i = j
    BY <1>3
  <1>9. Range(t) =
           {Field("target", AnyCell)}
    BY <1>1, <1>6
  <1>10. Plain(t[1], Range(t))
    BY <1>1, PlainData
  <1>11. \A f \in Range(t) : Plain(f, Range(t))
    BY <1>6, <1>10
  <1>12. Part(t, B)
    BY <1>2, <1>8, <1>5 DEF Part
  <1>13. t[1].codes = AnyCell
    BY <1>1, CodesSay
  <1>14. AnyCell \subseteq Cells
    BY CodesIn
  <1>15. \A f \in Range(t) : f.codes \subseteq Cells
    BY <1>6, <1>13, <1>14
  <1>16. Section(t, B, {})
    BY <1>11, <1>12, <1>15 DEF Section
  <1>17. QED BY <1>2, <1>7, <1>9, <1>16 DEF t

LEMMA ShutdownHead ==
  ASSUME NEW B
  PROVE  /\ Section(shutdown_head, B, {})
         /\ Len(shutdown_head) = 2
         /\ NamesOf(shutdown_head) = {"format", "operation"}
         /\ Range(shutdown_head) =
              {Const("format", 1), Const("operation", 2)}
  <1> DEFINE t == shutdown_head
  <1>1. t[1] = Const("format", 1) /\ t[2] = Const("operation", 2)
    BY DEF shutdown_head
  <1>2. t \in Seq(Range(t)) /\ Len(t) = 2 /\ DOMAIN t = 1..2
    BY DEF shutdown_head, Range
  <1> HIDE DEF t
  <1>3. t[1].name = "format" /\ t[2].name = "operation"
    BY <1>1, NamesSay
  <1>4. Stands(t, 1, B) /\ Stands(t, 2, B)
    BY <1>1, StandsFree
  <1>5. \A i \in 1..2 : Stands(t, i, B)
    BY <1>4
  <1>6. Range(t) = {t[1], t[2]}
    BY <1>2 DEF Range
  <1>7. NamesOf(t) = {"format", "operation"}
    BY <1>3, <1>6 DEF NamesOf
  <1>8. \A i, j \in 1..2 : t[i].name = t[j].name => i = j
    BY <1>3
  <1>9. Range(t) =
           {Const("format", 1), Const("operation", 2)}
    BY <1>1, <1>6
  <1>10. Plain(t[1], Range(t)) /\ Plain(t[2], Range(t))
    BY <1>1, PlainData
  <1>11. \A f \in Range(t) : Plain(f, Range(t))
    BY <1>6, <1>10
  <1>12. Part(t, B)
    BY <1>2, <1>8, <1>5 DEF Part
  <1>13. t[1].codes = {1} /\ t[2].codes = {2}
    BY <1>1, CodesSay
  <1>14. {1} \subseteq Cells /\ {2} \subseteq Cells
    BY CodesIn
  <1>15. \A f \in Range(t) : f.codes \subseteq Cells
    BY <1>6, <1>13, <1>14
  <1>16. Section(t, B, {})
    BY <1>11, <1>12, <1>15 DEF Section
  <1>17. QED BY <1>2, <1>7, <1>9, <1>16 DEF t

LEMMA ShutdownBody ==
  ASSUME NEW B
  PROVE  /\ Section(shutdown_body, B, {})
         /\ Len(shutdown_body) = 5
         /\ NamesOf(shutdown_body) = {"process", "transition", "grace_ms", "tick", "deadline"}
         /\ Range(shutdown_body) =
              {Field("process", NonZeroCell), Const("transition", 1), Field("grace_ms", AnyCell),
               Field("tick", AnyCell), Field("deadline", AnyCell)}
  <1> DEFINE t == shutdown_body
  <1>1. /\ t[1] = Field("process", NonZeroCell) /\ t[2] = Const("transition", 1)
        /\ t[3] = Field("grace_ms", AnyCell) /\ t[4] = Field("tick", AnyCell)
        /\ t[5] = Field("deadline", AnyCell)
    BY DEF shutdown_body
  <1>2. t \in Seq(Range(t)) /\ Len(t) = 5 /\ DOMAIN t = 1..5
    BY DEF shutdown_body, Range
  <1> HIDE DEF t
  <1>3. /\ t[1].name = "process" /\ t[2].name = "transition" /\ t[3].name = "grace_ms" /\ t[4].name = "tick"
        /\ t[5].name = "deadline"
    BY <1>1, NamesSay
  <1>4. Stands(t, 1, B) /\ Stands(t, 2, B) /\ Stands(t, 3, B) /\ Stands(t, 4, B) /\ Stands(t, 5, B)
    BY <1>1, StandsFree
  <1>5. \A i \in 1..5 : Stands(t, i, B)
    BY <1>4
  <1>6. Range(t) = {t[1], t[2], t[3], t[4], t[5]}
    BY <1>2 DEF Range
  <1>7. NamesOf(t) = {"process", "transition", "grace_ms", "tick", "deadline"}
    BY <1>3, <1>6 DEF NamesOf
  <1>8. \A i, j \in 1..5 : t[i].name = t[j].name => i = j
    BY <1>3
  <1>9. Range(t) =
           {Field("process", NonZeroCell), Const("transition", 1), Field("grace_ms", AnyCell),
            Field("tick", AnyCell), Field("deadline", AnyCell)}
    BY <1>1, <1>6
  <1>10. /\ Plain(t[1], Range(t)) /\ Plain(t[2], Range(t)) /\ Plain(t[3], Range(t)) /\ Plain(t[4], Range(t))
         /\ Plain(t[5], Range(t))
    BY <1>1, PlainData
  <1>11. \A f \in Range(t) : Plain(f, Range(t))
    BY <1>6, <1>10
  <1>12. Part(t, B)
    BY <1>2, <1>8, <1>5 DEF Part
  <1>13. /\ t[1].codes = NonZeroCell /\ t[2].codes = {1} /\ t[3].codes = AnyCell /\ t[4].codes = AnyCell
         /\ t[5].codes = AnyCell
    BY <1>1, CodesSay
  <1>14. NonZeroCell \subseteq Cells /\ {1} \subseteq Cells /\ AnyCell \subseteq Cells
    BY CodesIn
  <1>15. \A f \in Range(t) : f.codes \subseteq Cells
    BY <1>6, <1>13, <1>14
  <1>16. Section(t, B, {})
    BY <1>11, <1>12, <1>15 DEF Section
  <1>17. QED BY <1>2, <1>7, <1>9, <1>16 DEF t

LEMMA ValuePhase ==
  ASSUME NEW B
  PROVE  /\ Section(value_phase, B, {})
         /\ Len(value_phase) = 1
         /\ NamesOf(value_phase) = {"phase"}
         /\ Range(value_phase) =
              {Field("phase", AnyCell)}
  <1> DEFINE t == value_phase
  <1>1. t[1] = Field("phase", AnyCell)
    BY DEF value_phase
  <1>2. t \in Seq(Range(t)) /\ Len(t) = 1 /\ DOMAIN t = 1..1
    BY DEF value_phase, Range
  <1> HIDE DEF t
  <1>3. t[1].name = "phase"
    BY <1>1, NamesSay
  <1>4. Stands(t, 1, B)
    BY <1>1, StandsFree
  <1>5. \A i \in 1..1 : Stands(t, i, B)
    BY <1>4
  <1>6. Range(t) = {t[1]}
    BY <1>2 DEF Range
  <1>7. NamesOf(t) = {"phase"}
    BY <1>3, <1>6 DEF NamesOf
  <1>8. \A i, j \in 1..1 : t[i].name = t[j].name => i = j
    BY <1>3
  <1>9. Range(t) =
           {Field("phase", AnyCell)}
    BY <1>1, <1>6
  <1>10. Plain(t[1], Range(t))
    BY <1>1, PlainData
  <1>11. \A f \in Range(t) : Plain(f, Range(t))
    BY <1>6, <1>10
  <1>12. Part(t, B)
    BY <1>2, <1>8, <1>5 DEF Part
  <1>13. t[1].codes = AnyCell
    BY <1>1, CodesSay
  <1>14. AnyCell \subseteq Cells
    BY CodesIn
  <1>15. \A f \in Range(t) : f.codes \subseteq Cells
    BY <1>6, <1>13, <1>14
  <1>16. Section(t, B, {})
    BY <1>11, <1>12, <1>15 DEF Section
  <1>17. QED BY <1>2, <1>7, <1>9, <1>16 DEF t

LEMMA AckResult ==
  ASSUME NEW B
  PROVE  /\ Section(ack_result, B, {})
         /\ Len(ack_result) = 3
         /\ NamesOf(ack_result) = {"result_codec", "settled_time", "settled"}
         /\ Range(ack_result) =
              {Const("result_codec", 7), Field("settled_time", AnyCell), Field("settled", Flags)}
  <1> DEFINE t == ack_result
  <1>1. /\ t[1] = Const("result_codec", 7) /\ t[2] = Field("settled_time", AnyCell)
        /\ t[3] = Field("settled", Flags)
    BY DEF ack_result
  <1>2. t \in Seq(Range(t)) /\ Len(t) = 3 /\ DOMAIN t = 1..3
    BY DEF ack_result, Range
  <1> HIDE DEF t
  <1>3. t[1].name = "result_codec" /\ t[2].name = "settled_time" /\ t[3].name = "settled"
    BY <1>1, NamesSay
  <1>4. Stands(t, 1, B) /\ Stands(t, 2, B) /\ Stands(t, 3, B)
    BY <1>1, StandsFree
  <1>5. \A i \in 1..3 : Stands(t, i, B)
    BY <1>4
  <1>6. Range(t) = {t[1], t[2], t[3]}
    BY <1>2 DEF Range
  <1>7. NamesOf(t) = {"result_codec", "settled_time", "settled"}
    BY <1>3, <1>6 DEF NamesOf
  <1>8. \A i, j \in 1..3 : t[i].name = t[j].name => i = j
    BY <1>3
  <1>9. Range(t) =
           {Const("result_codec", 7), Field("settled_time", AnyCell), Field("settled", Flags)}
    BY <1>1, <1>6
  <1>10. Plain(t[1], Range(t)) /\ Plain(t[2], Range(t)) /\ Plain(t[3], Range(t))
    BY <1>1, PlainData
  <1>11. \A f \in Range(t) : Plain(f, Range(t))
    BY <1>6, <1>10
  <1>12. Part(t, B)
    BY <1>2, <1>8, <1>5 DEF Part
  <1>13. t[1].codes = {7} /\ t[2].codes = AnyCell /\ t[3].codes = Flags
    BY <1>1, CodesSay
  <1>14. {7} \subseteq Cells /\ AnyCell \subseteq Cells /\ Flags \subseteq Cells
    BY CodesIn
  <1>15. \A f \in Range(t) : f.codes \subseteq Cells
    BY <1>6, <1>13, <1>14
  <1>16. Section(t, B, {})
    BY <1>11, <1>12, <1>15 DEF Section
  <1>17. QED BY <1>2, <1>7, <1>9, <1>16 DEF t

LEMMA ShutdownResult ==
  ASSUME NEW B
  PROVE  /\ Section(shutdown_result, B, {})
         /\ Len(shutdown_result) = 2
         /\ NamesOf(shutdown_result) = {"result_codec", "ungraceful"}
         /\ Range(shutdown_result) =
              {Const("result_codec", 8), Field("ungraceful", AnyCell)}
  <1> DEFINE t == shutdown_result
  <1>1. t[1] = Const("result_codec", 8) /\ t[2] = Field("ungraceful", AnyCell)
    BY DEF shutdown_result
  <1>2. t \in Seq(Range(t)) /\ Len(t) = 2 /\ DOMAIN t = 1..2
    BY DEF shutdown_result, Range
  <1> HIDE DEF t
  <1>3. t[1].name = "result_codec" /\ t[2].name = "ungraceful"
    BY <1>1, NamesSay
  <1>4. Stands(t, 1, B) /\ Stands(t, 2, B)
    BY <1>1, StandsFree
  <1>5. \A i \in 1..2 : Stands(t, i, B)
    BY <1>4
  <1>6. Range(t) = {t[1], t[2]}
    BY <1>2 DEF Range
  <1>7. NamesOf(t) = {"result_codec", "ungraceful"}
    BY <1>3, <1>6 DEF NamesOf
  <1>8. \A i, j \in 1..2 : t[i].name = t[j].name => i = j
    BY <1>3
  <1>9. Range(t) =
           {Const("result_codec", 8), Field("ungraceful", AnyCell)}
    BY <1>1, <1>6
  <1>10. Plain(t[1], Range(t)) /\ Plain(t[2], Range(t))
    BY <1>1, PlainData
  <1>11. \A f \in Range(t) : Plain(f, Range(t))
    BY <1>6, <1>10
  <1>12. Part(t, B)
    BY <1>2, <1>8, <1>5 DEF Part
  <1>13. t[1].codes = {8} /\ t[2].codes = AnyCell
    BY <1>1, CodesSay
  <1>14. {8} \subseteq Cells /\ AnyCell \subseteq Cells
    BY CodesIn
  <1>15. \A f \in Range(t) : f.codes \subseteq Cells
    BY <1>6, <1>13, <1>14
  <1>16. Section(t, B, {})
    BY <1>11, <1>12, <1>15 DEF Section
  <1>17. QED BY <1>2, <1>7, <1>9, <1>16 DEF t

LEMMA StepsPart ==
  ASSUME NEW B
  PROVE  /\ Section(steps_fields, B, {})
         /\ Len(steps_fields) = 2
         /\ NamesOf(steps_fields) = {"application", "publication"}
         /\ Range(steps_fields) =
              {Field("application", NonZeroCell), Field("publication", NonZeroCell)}
  <1> DEFINE t == steps_fields
  <1>1. t[1] = Field("application", NonZeroCell) /\ t[2] = Field("publication", NonZeroCell)
    BY DEF steps_fields
  <1>2. t \in Seq(Range(t)) /\ Len(t) = 2 /\ DOMAIN t = 1..2
    BY DEF steps_fields, Range
  <1> HIDE DEF t
  <1>3. t[1].name = "application" /\ t[2].name = "publication"
    BY <1>1, NamesSay
  <1>4. Stands(t, 1, B) /\ Stands(t, 2, B)
    BY <1>1, StandsFree
  <1>5. \A i \in 1..2 : Stands(t, i, B)
    BY <1>4
  <1>6. Range(t) = {t[1], t[2]}
    BY <1>2 DEF Range
  <1>7. NamesOf(t) = {"application", "publication"}
    BY <1>3, <1>6 DEF NamesOf
  <1>8. \A i, j \in 1..2 : t[i].name = t[j].name => i = j
    BY <1>3
  <1>9. Range(t) =
           {Field("application", NonZeroCell), Field("publication", NonZeroCell)}
    BY <1>1, <1>6
  <1>10. Plain(t[1], Range(t)) /\ Plain(t[2], Range(t))
    BY <1>1, PlainData
  <1>11. \A f \in Range(t) : Plain(f, Range(t))
    BY <1>6, <1>10
  <1>12. Part(t, B)
    BY <1>2, <1>8, <1>5 DEF Part
  <1>13. t[1].codes = NonZeroCell /\ t[2].codes = NonZeroCell
    BY <1>1, CodesSay
  <1>14. NonZeroCell \subseteq Cells
    BY CodesIn
  <1>15. \A f \in Range(t) : f.codes \subseteq Cells
    BY <1>6, <1>13, <1>14
  <1>16. Section(t, B, {})
    BY <1>11, <1>12, <1>15 DEF Section
  <1>17. QED BY <1>2, <1>7, <1>9, <1>16 DEF t

LEMMA MirrorPart ==
  ASSUME NEW B
  PROVE  /\ Section(mirror_fields, B, {Variant("mirror", 0..2)})
         /\ Len(mirror_fields) = 5
         /\ NamesOf(mirror_fields) = {"mirror", "origin", "pre", "policy", "post"}
         /\ Range(mirror_fields) =
              {Variant("mirror", 0..2), When("mirror", {1, 2}, Field("origin", AnyCell)),
               When("mirror", {1, 2}, Field("pre", AnyCell)),
               When("mirror", {1, 2}, Field("policy", AnyCell)), When("mirror", {2}, Field("post", AnyCell))}
  <1> DEFINE t == mirror_fields
  <1>1. /\ t[1] = Variant("mirror", 0..2) /\ t[2] = When("mirror", {1, 2}, Field("origin", AnyCell))
        /\ t[3] = When("mirror", {1, 2}, Field("pre", AnyCell))
        /\ t[4] = When("mirror", {1, 2}, Field("policy", AnyCell))
        /\ t[5] = When("mirror", {2}, Field("post", AnyCell))
    BY DEF mirror_fields
  <1>2. t \in Seq(Range(t)) /\ Len(t) = 5 /\ DOMAIN t = 1..5
    BY DEF mirror_fields, Range
  <1> HIDE DEF t
  <1>3. /\ t[1].name = "mirror" /\ t[2].name = "origin" /\ t[3].name = "pre" /\ t[4].name = "policy"
        /\ t[5].name = "post"
    BY <1>1, NamesSay
  <1>4. Stands(t, 1, B)
    BY <1>1, StandsFree
  <1>5. t[2].of = t[1].name /\ t[3].of = t[1].name /\ t[4].of = t[1].name /\ t[5].of = t[1].name
    BY <1>1, <1>3, BoundForms
  <1>6. Stands(t, 2, B) /\ Stands(t, 3, B) /\ Stands(t, 4, B) /\ Stands(t, 5, B)
    BY <1>5, StandsBound
  <1>7. \A i \in 1..5 : Stands(t, i, B)
    BY <1>4, <1>6
  <1>8. Range(t) = {t[1], t[2], t[3], t[4], t[5]}
    BY <1>2 DEF Range
  <1>9. NamesOf(t) = {"mirror", "origin", "pre", "policy", "post"}
    BY <1>3, <1>8 DEF NamesOf
  <1>10. \A i, j \in 1..5 : t[i].name = t[j].name => i = j
    BY <1>3
  <1>11. Range(t) =
           {Variant("mirror", 0..2), When("mirror", {1, 2}, Field("origin", AnyCell)),
            When("mirror", {1, 2}, Field("pre", AnyCell)), When("mirror", {1, 2}, Field("policy", AnyCell)),
            When("mirror", {2}, Field("post", AnyCell))}
    BY <1>1, <1>8
  <1>12. Plain(t[2], Range(t)) /\ Plain(t[3], Range(t)) /\ Plain(t[4], Range(t)) /\ Plain(t[5], Range(t))
    BY <1>1, PlainData
  <1>13. \A f \in Range(t) : Plain(f, Range(t)) \/ f \in {Variant("mirror", 0..2)}
    BY <1>8, <1>12, <1>1
  <1>14. Part(t, B)
    BY <1>2, <1>10, <1>7 DEF Part
  <1>15. /\ t[1].codes = 0..2 /\ t[2].codes = AnyCell /\ t[3].codes = AnyCell /\ t[4].codes = AnyCell
         /\ t[5].codes = AnyCell
    BY <1>1, CodesSay
  <1>16. 0..2 \subseteq Cells /\ AnyCell \subseteq Cells
    BY CodesIn
  <1>17. \A f \in Range(t) : f.codes \subseteq Cells
    BY <1>8, <1>15, <1>16
  <1>18. Section(t, B, {Variant("mirror", 0..2)})
    BY <1>13, <1>14, <1>17 DEF Section
  <1>19. QED BY <1>2, <1>9, <1>11, <1>18 DEF t

LEMMA ActionHead ==
  ASSUME NEW B
  PROVE  /\ Section(action_head, B, {Variant("action", {2, 3}), Variant("payload", AnyCell)})
         /\ Len(action_head) = 4
         /\ NamesOf(action_head) = {"format", "action", "payload", "phase"}
         /\ Range(action_head) =
              {Const("format", 1), Variant("action", {2, 3}), Variant("payload", AnyCell),
               When("action", {2}, Field("phase", AnyCell))}
  <1> DEFINE t == action_head
  <1>1. /\ t[1] = Const("format", 1) /\ t[2] = Variant("action", {2, 3}) /\ t[3] = Variant("payload", AnyCell)
        /\ t[4] = When("action", {2}, Field("phase", AnyCell))
    BY DEF action_head
  <1>2. t \in Seq(Range(t)) /\ Len(t) = 4 /\ DOMAIN t = 1..4
    BY DEF action_head, Range
  <1> HIDE DEF t
  <1>3. t[1].name = "format" /\ t[2].name = "action" /\ t[3].name = "payload" /\ t[4].name = "phase"
    BY <1>1, NamesSay
  <1>4. Stands(t, 1, B) /\ Stands(t, 2, B) /\ Stands(t, 3, B)
    BY <1>1, StandsFree
  <1>5. t[4].of = t[2].name
    BY <1>1, <1>3, BoundForms
  <1>6. Stands(t, 4, B)
    BY <1>5, StandsBound
  <1>7. \A i \in 1..4 : Stands(t, i, B)
    BY <1>4, <1>6
  <1>8. Range(t) = {t[1], t[2], t[3], t[4]}
    BY <1>2 DEF Range
  <1>9. NamesOf(t) = {"format", "action", "payload", "phase"}
    BY <1>3, <1>8 DEF NamesOf
  <1>10. \A i, j \in 1..4 : t[i].name = t[j].name => i = j
    BY <1>3
  <1>11. Range(t) =
           {Const("format", 1), Variant("action", {2, 3}), Variant("payload", AnyCell),
            When("action", {2}, Field("phase", AnyCell))}
    BY <1>1, <1>8
  <1>12. Plain(t[1], Range(t)) /\ Plain(t[4], Range(t))
    BY <1>1, PlainData
  <1>13. \A f \in Range(t) : Plain(f, Range(t)) \/ f \in {Variant("action", {2, 3}), Variant("payload", AnyCell)}
    BY <1>8, <1>12, <1>1
  <1>14. Part(t, B)
    BY <1>2, <1>10, <1>7 DEF Part
  <1>15. t[1].codes = {1} /\ t[2].codes = {2, 3} /\ t[3].codes = AnyCell /\ t[4].codes = AnyCell
    BY <1>1, CodesSay
  <1>16. {1} \subseteq Cells /\ {2, 3} \subseteq Cells /\ AnyCell \subseteq Cells
    BY CodesIn
  <1>17. \A f \in Range(t) : f.codes \subseteq Cells
    BY <1>8, <1>15, <1>16
  <1>18. Section(t, B, {Variant("action", {2, 3}), Variant("payload", AnyCell)})
    BY <1>13, <1>14, <1>17 DEF Section
  <1>19. QED BY <1>2, <1>9, <1>11, <1>18 DEF t

LEMMA AckActionResult ==
  ASSUME NEW B, "action" \in B
  PROVE  /\ Section(ack_action_result, B, {})
         /\ Len(ack_action_result) = 3
         /\ NamesOf(ack_action_result) = {"result_codec", "settled_time", "settled"}
         /\ Range(ack_action_result) =
              {When("action", {2}, Const("result_codec", 7)),
               When("action", {2}, Field("settled_time", AnyCell)),
               When("action", {2}, Field("settled", Flags))}
  <1> DEFINE t == ack_action_result
  <1>1. /\ t[1] = When("action", {2}, Const("result_codec", 7))
        /\ t[2] = When("action", {2}, Field("settled_time", AnyCell))
        /\ t[3] = When("action", {2}, Field("settled", Flags))
    BY DEF ack_action_result
  <1>2. t \in Seq(Range(t)) /\ Len(t) = 3 /\ DOMAIN t = 1..3
    BY DEF ack_action_result, Range
  <1> HIDE DEF t
  <1>3. t[1].name = "result_codec" /\ t[2].name = "settled_time" /\ t[3].name = "settled"
    BY <1>1, NamesSay
  <1>4. t[1].of \in B /\ t[2].of \in B /\ t[3].of \in B
    BY <1>1, BoundForms
  <1>5. Stands(t, 1, B) /\ Stands(t, 2, B) /\ Stands(t, 3, B)
    BY <1>4, StandsOuter
  <1>6. \A i \in 1..3 : Stands(t, i, B)
    BY <1>5
  <1>7. Range(t) = {t[1], t[2], t[3]}
    BY <1>2 DEF Range
  <1>8. NamesOf(t) = {"result_codec", "settled_time", "settled"}
    BY <1>3, <1>7 DEF NamesOf
  <1>9. \A i, j \in 1..3 : t[i].name = t[j].name => i = j
    BY <1>3
  <1>10. Range(t) =
           {When("action", {2}, Const("result_codec", 7)),
            When("action", {2}, Field("settled_time", AnyCell)),
            When("action", {2}, Field("settled", Flags))}
    BY <1>1, <1>7
  <1>11. Plain(t[2], Range(t)) /\ Plain(t[3], Range(t))
    BY <1>1, PlainData
  <1>12. Plain(t[1], Range(t))
    BY <1>1, PlainConst
  <1>13. \A f \in Range(t) : Plain(f, Range(t))
    BY <1>7, <1>11, <1>12
  <1>14. Part(t, B)
    BY <1>2, <1>9, <1>6 DEF Part
  <1>15. t[1].codes = {7} /\ t[2].codes = AnyCell /\ t[3].codes = Flags
    BY <1>1, CodesSay
  <1>16. {7} \subseteq Cells /\ AnyCell \subseteq Cells /\ Flags \subseteq Cells
    BY CodesIn
  <1>17. \A f \in Range(t) : f.codes \subseteq Cells
    BY <1>7, <1>15, <1>16
  <1>18. Section(t, B, {})
    BY <1>13, <1>14, <1>17 DEF Section
  <1>19. QED BY <1>2, <1>8, <1>10, <1>18 DEF t

LEMMA ShutdownActionResult ==
  ASSUME NEW B, "action" \in B
  PROVE  /\ Section(shutdown_action_result, B, {})
         /\ Len(shutdown_action_result) = 2
         /\ NamesOf(shutdown_action_result) = {"result_codec", "ungraceful"}
         /\ Range(shutdown_action_result) =
              {When("action", {2}, Const("result_codec", 8)),
               When("action", {2}, Field("ungraceful", AnyCell))}
  <1> DEFINE t == shutdown_action_result
  <1>1. /\ t[1] = When("action", {2}, Const("result_codec", 8))
        /\ t[2] = When("action", {2}, Field("ungraceful", AnyCell))
    BY DEF shutdown_action_result
  <1>2. t \in Seq(Range(t)) /\ Len(t) = 2 /\ DOMAIN t = 1..2
    BY DEF shutdown_action_result, Range
  <1> HIDE DEF t
  <1>3. t[1].name = "result_codec" /\ t[2].name = "ungraceful"
    BY <1>1, NamesSay
  <1>4. t[1].of \in B /\ t[2].of \in B
    BY <1>1, BoundForms
  <1>5. Stands(t, 1, B) /\ Stands(t, 2, B)
    BY <1>4, StandsOuter
  <1>6. \A i \in 1..2 : Stands(t, i, B)
    BY <1>5
  <1>7. Range(t) = {t[1], t[2]}
    BY <1>2 DEF Range
  <1>8. NamesOf(t) = {"result_codec", "ungraceful"}
    BY <1>3, <1>7 DEF NamesOf
  <1>9. \A i, j \in 1..2 : t[i].name = t[j].name => i = j
    BY <1>3
  <1>10. Range(t) =
           {When("action", {2}, Const("result_codec", 8)), When("action", {2}, Field("ungraceful", AnyCell))}
    BY <1>1, <1>7
  <1>11. Plain(t[2], Range(t))
    BY <1>1, PlainData
  <1>12. Plain(t[1], Range(t))
    BY <1>1, PlainConst
  <1>13. \A f \in Range(t) : Plain(f, Range(t))
    BY <1>7, <1>11, <1>12
  <1>14. Part(t, B)
    BY <1>2, <1>9, <1>6 DEF Part
  <1>15. t[1].codes = {8} /\ t[2].codes = AnyCell
    BY <1>1, CodesSay
  <1>16. {8} \subseteq Cells /\ AnyCell \subseteq Cells
    BY CodesIn
  <1>17. \A f \in Range(t) : f.codes \subseteq Cells
    BY <1>7, <1>15, <1>16
  <1>18. Section(t, B, {})
    BY <1>13, <1>14, <1>17 DEF Section
  <1>19. QED BY <1>2, <1>8, <1>10, <1>18 DEF t

LEMMA ReceiptPart ==
  ASSUME NEW B, "action" \in B
  PROVE  /\ Section(receipt_fields, B, {})
         /\ Len(receipt_fields) = 2
         /\ NamesOf(receipt_fields) = {"post.sequence", "post.digest"}
         /\ Range(receipt_fields) =
              {When("action", {3}, Field("post.sequence", AnyCell)),
               When("action", {3}, Field("post.digest", AnyCell))}
  <1> DEFINE t == receipt_fields
  <1>1. /\ t[1] = When("action", {3}, Field("post.sequence", AnyCell))
        /\ t[2] = When("action", {3}, Field("post.digest", AnyCell))
    BY DEF receipt_fields
  <1>2. t \in Seq(Range(t)) /\ Len(t) = 2 /\ DOMAIN t = 1..2
    BY DEF receipt_fields, Range
  <1> HIDE DEF t
  <1>3. t[1].name = "post.sequence" /\ t[2].name = "post.digest"
    BY <1>1, NamesSay
  <1>4. t[1].of \in B /\ t[2].of \in B
    BY <1>1, BoundForms
  <1>5. Stands(t, 1, B) /\ Stands(t, 2, B)
    BY <1>4, StandsOuter
  <1>6. \A i \in 1..2 : Stands(t, i, B)
    BY <1>5
  <1>7. Range(t) = {t[1], t[2]}
    BY <1>2 DEF Range
  <1>8. NamesOf(t) = {"post.sequence", "post.digest"}
    BY <1>3, <1>7 DEF NamesOf
  <1>9. \A i, j \in 1..2 : t[i].name = t[j].name => i = j
    BY <1>3
  <1>10. Range(t) =
           {When("action", {3}, Field("post.sequence", AnyCell)),
            When("action", {3}, Field("post.digest", AnyCell))}
    BY <1>1, <1>7
  <1>11. Plain(t[1], Range(t)) /\ Plain(t[2], Range(t))
    BY <1>1, PlainData
  <1>12. \A f \in Range(t) : Plain(f, Range(t))
    BY <1>7, <1>11
  <1>13. Part(t, B)
    BY <1>2, <1>9, <1>6 DEF Part
  <1>14. t[1].codes = AnyCell /\ t[2].codes = AnyCell
    BY <1>1, CodesSay
  <1>15. AnyCell \subseteq Cells
    BY CodesIn
  <1>16. \A f \in Range(t) : f.codes \subseteq Cells
    BY <1>7, <1>14, <1>15
  <1>17. Section(t, B, {})
    BY <1>12, <1>13, <1>16 DEF Section
  <1>18. QED BY <1>2, <1>8, <1>10, <1>17 DEF t

LEMMA OptionMember ==
  ASSUME NEW flag, NEW name, NEW codes
  PROVE  When(flag, {1}, Field(name, codes)) \in Range(Option(flag, name, codes))
  <1> DEFINE t == Option(flag, name, codes)
  <1>1. t[2] = When(flag, {1}, Field(name, codes)) /\ DOMAIN t = 1..2
    BY DEF Option
  <1> HIDE DEF t
  <1>2. QED BY <1>1 DEF Range, t

LEMMA BoundNames ==
  ASSUME NEW flag, NEW name
  PROVE  NamesOf(bound_option(flag, name)) = {flag, name}
  <1> DEFINE t == bound_option(flag, name)
  <1>1. t[1] = When("binding?", {1}, Group(flag, name)) /\ t[2] = When(flag, {1}, Field(name, AnyCell))
    BY DEF bound_option
  <1>2. DOMAIN t = 1..2
    BY DEF bound_option
  <1> HIDE DEF t
  <1>3. t[1].name = flag /\ t[2].name = name
    BY <1>1, NamesSay
  <1>4. Range(t) = {t[1], t[2]}
    BY <1>2 DEF Range
  <1>5. QED BY <1>3, <1>4 DEF NamesOf, t

LEMMA TagNames ==
  ASSUME NEW a, NEW b, NEW c, NEW d
  PROVE  NamesOf(tag_fields(Tag(a, b, c, d))) = {a, b, c, d}
  <1> DEFINE t == tag_fields(Tag(a, b, c, d))
  <1>1. /\ t[1] = Field(a, AnyCell) /\ t[2] = Field(b, AnyCell) /\ t[3] = Field(c, NonZeroCell)
        /\ t[4] = Field(d, AnyCell)
    BY DEF tag_fields, Tag
  <1>2. DOMAIN t = 1..4
    BY DEF tag_fields, Tag
  <1> HIDE DEF t
  <1>3. t[1].name = a /\ t[2].name = b /\ t[3].name = c /\ t[4].name = d
    BY <1>1, NamesSay
  <1>4. Range(t) = {t[1], t[2], t[3], t[4]}
    BY <1>2 DEF Range
  <1>5. QED BY <1>3, <1>4 DEF NamesOf, t

ack_fields == ack_body \o Option("selected?", "selected", AnyCell) \o ack_target

LEMMA SectionMore ==
  ASSUME NEW F, NEW B, NEW S, NEW T, Section(F, B, S), S \subseteq T
  PROVE  Section(F, B, T)
  BY DEF Section

LEMMA AckOwed ==
  [i \in 1..Len(result_fields("ack")) |-> When("action", {2}, result_fields("ack")[i])] = ack_action_result
  <1>1. result_fields("ack") = ack_result
    BY DEF result_fields, ack_result
  <1>2. /\ Len(ack_result) = 3 /\ ack_result[1] = Const("result_codec", 7)
        /\ ack_result[2] = Field("settled_time", AnyCell)
        /\ ack_result[3] = Field("settled", Flags)
    BY DEF ack_result
  <1> DEFINE owed == [i \in 1..3 |-> When("action", {2}, ack_result[i])]
  <1>3. owed = <<owed[1], owed[2], owed[3]>>
    OBVIOUS
  <1>4. owed = ack_action_result
    <2>1. /\ owed[1] = When("action", {2}, Const("result_codec", 7))
          /\ owed[2] = When("action", {2}, Field("settled_time", AnyCell))
          /\ owed[3] = When("action", {2}, Field("settled", Flags))
      BY <1>2
    <2> HIDE DEF owed
    <2>2. QED BY <1>3, <2>1 DEF ack_action_result
  <1>5. QED BY <1>1, <1>2, <1>4

LEMMA ShutdownOwed ==
  [i \in 1..Len(result_fields("shutdown")) |-> When("action", {2}, result_fields("shutdown")[i])] =
  shutdown_action_result
  <1>1. result_fields("shutdown") = shutdown_result
    BY DEF result_fields, shutdown_result
  <1>2. /\ Len(shutdown_result) = 2 /\ shutdown_result[1] = Const("result_codec", 8)
        /\ shutdown_result[2] = Field("ungraceful", AnyCell)
    BY DEF shutdown_result
  <1> DEFINE owed == [i \in 1..2 |-> When("action", {2}, shutdown_result[i])]
  <1>3. owed = <<owed[1], owed[2]>>
    OBVIOUS
  <1>4. owed = shutdown_action_result
    <2>1. /\ owed[1] = When("action", {2}, Const("result_codec", 8))
          /\ owed[2] = When("action", {2}, Field("ungraceful", AnyCell))
      BY <1>2
    <2> HIDE DEF owed
    <2>2. QED BY <1>3, <2>1 DEF shutdown_action_result
  <1>5. QED BY <1>1, <1>2, <1>4

LEMMA EventTable ==
  ASSUME NEW B
  PROVE  /\ Section(event_format, B, {})
         /\ NamesOf(event_format) =
              {"version", "operation", "actor", "phase", "generation", "command", "semantic",
               "phase_fingerprint", "reservation", "confirmation?", "confirmation", "expires_at?",
               "expires_at"}
  <1> DEFINE S == {}
             p1 == event_head
             p2 == Option("confirmation?", "confirmation", NonZeroCell)
             p3 == Option("expires_at?", "expires_at", AnyCell)
  <1>1. Flagged("confirmation?", "confirmation") /\ Flagged("expires_at?", "expires_at")
    BY DEF Flagged
  <1>2. \A D : Section(p1, D, S)
    BY EventHead
  <1>3. NamesOf(p1) = {"version", "operation", "actor", "phase", "generation", "command", "semantic",
             "phase_fingerprint", "reservation"}
    BY EventHead
  <1>4. \A D : Section(p2, D, S)
    BY <1>1, CodesIn, OptionPart
  <1>5. NamesOf(p2) = {"confirmation?", "confirmation"}
    BY <1>1, CodesIn, OptionPart
  <1>6. \A D : Section(p3, D, S)
    BY <1>1, CodesIn, OptionPart
  <1>7. NamesOf(p3) = {"expires_at?", "expires_at"}
    BY <1>1, CodesIn, OptionPart
  <1> HIDE DEF S, p1, p2, p3
  <1>8. NamesOf(p1) \cap NamesOf(p2) = {}
    BY <1>3, <1>5
  <1> DEFINE a2 == p1 \o p2
  <1>9. /\ Section(a2, B, S) /\ Range(a2) = Range(p1) \cup Range(p2)
        /\ NamesOf(a2) = NamesOf(p1) \cup NamesOf(p2)
    BY <1>2, <1>4, <1>8, JoinSections
  <1> HIDE DEF a2
  <1>10. NamesOf(a2) = {"version", "operation", "actor", "phase", "generation", "command", "semantic",
             "phase_fingerprint", "reservation", "confirmation?", "confirmation"}
    BY <1>3, <1>5, <1>9
  <1>11. NamesOf(a2) \cap NamesOf(p3) = {}
    BY <1>10, <1>7
  <1> DEFINE a3 == a2 \o p3
  <1>12. /\ Section(a3, B, S) /\ Range(a3) = Range(a2) \cup Range(p3)
         /\ NamesOf(a3) = NamesOf(a2) \cup NamesOf(p3)
    BY <1>9, <1>6, <1>11, JoinSections
  <1> HIDE DEF a3
  <1>13. NamesOf(a3) = {"version", "operation", "actor", "phase", "generation", "command", "semantic",
             "phase_fingerprint", "reservation", "confirmation?", "confirmation", "expires_at?",
             "expires_at"}
    BY <1>10, <1>7, <1>12
  <1>14. event_format = a3
    BY DEF event_format, event_head, p1, p2, p3, a2, a3
  <1>15. QED BY <1>13, <1>12, <1>14 DEF S

LEMMA RetentionPart ==
  ASSUME NEW B
  PROVE  /\ Section(retention_fields, B, {Variant("retention", {1, 2})})
         /\ NamesOf(retention_fields) =
              {"retention", "terminal_time?", "terminal_time", "expires_at?", "expires_at"}
         /\ Range(retention_head) \subseteq Range(retention_fields)
         /\ Range(Option("terminal_time?", "terminal_time", AnyCell)) \subseteq Range(retention_fields)
  <1> DEFINE S == {Variant("retention", {1, 2})}
             p1 == retention_head
             p2 == Option("terminal_time?", "terminal_time", AnyCell)
             p3 == Option("expires_at?", "expires_at", AnyCell)
  <1>1. Flagged("terminal_time?", "terminal_time") /\ Flagged("expires_at?", "expires_at")
    BY DEF Flagged
  <1>2. \A D : Section(p1, D, S)
    BY RetentionHead
  <1>3. NamesOf(p1) = {"retention"}
    BY RetentionHead
  <1>4. \A D : Section(p2, D, {})
    BY <1>1, CodesIn, OptionPart
  <1>5. \A D : Section(p2, D, S)
    BY <1>4, SectionMore
  <1>6. NamesOf(p2) = {"terminal_time?", "terminal_time"}
    BY <1>1, CodesIn, OptionPart
  <1>7. \A D : Section(p3, D, {})
    BY <1>1, CodesIn, OptionPart
  <1>8. \A D : Section(p3, D, S)
    BY <1>7, SectionMore
  <1>9. NamesOf(p3) = {"expires_at?", "expires_at"}
    BY <1>1, CodesIn, OptionPart
  <1> HIDE DEF S, p1, p2, p3
  <1>10. NamesOf(p1) \cap NamesOf(p2) = {}
    BY <1>3, <1>6
  <1> DEFINE a2 == p1 \o p2
  <1>11. /\ Section(a2, B, S) /\ Range(a2) = Range(p1) \cup Range(p2)
         /\ NamesOf(a2) = NamesOf(p1) \cup NamesOf(p2)
    BY <1>2, <1>5, <1>10, JoinSections
  <1> HIDE DEF a2
  <1>12. NamesOf(a2) = {"retention", "terminal_time?", "terminal_time"}
    BY <1>3, <1>6, <1>11
  <1>13. NamesOf(a2) \cap NamesOf(p3) = {}
    BY <1>12, <1>9
  <1> DEFINE a3 == a2 \o p3
  <1>14. /\ Section(a3, B, S) /\ Range(a3) = Range(a2) \cup Range(p3)
         /\ NamesOf(a3) = NamesOf(a2) \cup NamesOf(p3)
    BY <1>11, <1>8, <1>13, JoinSections
  <1> HIDE DEF a3
  <1>15. NamesOf(a3) = {"retention", "terminal_time?", "terminal_time", "expires_at?", "expires_at"}
    BY <1>12, <1>9, <1>14
  <1>16. retention_fields = a3
    BY DEF retention_fields, retention_head, p1, p2, p3, a2, a3
  <1>17. QED BY <1>15, <1>11, <1>14, <1>16 DEF S, p1, p2

LEMMA CommonPart ==
  ASSUME NEW B, NEW operations, operations \subseteq Cells, NEW codecs, codecs \subseteq Cells,
         NEW versions, versions \subseteq Cells
  PROVE  /\ Section(common_fields(operations, codecs, versions), B, {Variant("retention", {1, 2})})
         /\ NamesOf(common_fields(operations, codecs, versions)) =
              {"format", "operation", "actor_kind", "actor#", "actor", "lookup.namespace", "lookup.serial",
               "lookup.key", "lookup.tag", "semantic.namespace", "semantic.serial", "semantic.key",
               "semantic.tag", "phase.namespace", "phase.serial", "phase.key", "phase.tag",
               "reservation.namespace", "reservation.serial", "reservation.key", "reservation.tag",
               "runtime", "process_instance", "original_deadline?", "original_deadline", "phase",
               "retention", "terminal_time?", "terminal_time", "expires_at?", "expires_at", "safe_result?",
               "codec", "codec_version", "result"}
         /\ Range(retention_fields) \subseteq Range(common_fields(operations, codecs, versions))
  <1> DEFINE S == {Variant("retention", {1, 2})}
             p1 == common_head(operations)
             p2 == actor_fields
             p3 == tag_fields(Tag("lookup.namespace", "lookup.serial", "lookup.key", "lookup.tag"))
             p4 == tag_fields(Tag("semantic.namespace", "semantic.serial", "semantic.key", "semantic.tag"))
             p5 == tag_fields(Tag("phase.namespace", "phase.serial", "phase.key", "phase.tag"))
             p6 == tag_fields(Tag("reservation.namespace", "reservation.serial", "reservation.key",
                                  "reservation.tag"))
             p7 == run_fields
             p8 == Option("original_deadline?", "original_deadline", AnyCell)
             p9 == phase_field
             p10 == retention_fields
             p11 == safe_result_fields(codecs, versions)
  <1>1. Flagged("original_deadline?", "original_deadline")
    BY DEF Flagged
  <1>2. /\ Apart("lookup.namespace", "lookup.serial", "lookup.key", "lookup.tag")
        /\ Apart("semantic.namespace", "semantic.serial", "semantic.key", "semantic.tag")
        /\ Apart("phase.namespace", "phase.serial", "phase.key", "phase.tag")
        /\ Apart("reservation.namespace", "reservation.serial", "reservation.key", "reservation.tag")
    BY DEF Apart
  <1>3. \A D : Section(p1, D, {})
    BY CommonHead
  <1>4. \A D : Section(p1, D, S)
    BY <1>3, SectionMore
  <1>5. NamesOf(p1) = {"format", "operation"}
    BY CommonHead
  <1>6. \A D : Section(p2, D, {})
    BY ActorPart
  <1>7. \A D : Section(p2, D, S)
    BY <1>6, SectionMore
  <1>8. NamesOf(p2) = {"actor_kind", "actor#", "actor"}
    BY ActorPart
  <1>9. \A D : Section(p3, D, {})
    BY <1>2, TagPart
  <1>10. \A D : Section(p3, D, S)
    BY <1>9, SectionMore
  <1>11. NamesOf(p3) = {"lookup.namespace", "lookup.serial", "lookup.key", "lookup.tag"}
    BY TagNames
  <1>12. \A D : Section(p4, D, {})
    BY <1>2, TagPart
  <1>13. \A D : Section(p4, D, S)
    BY <1>12, SectionMore
  <1>14. NamesOf(p4) = {"semantic.namespace", "semantic.serial", "semantic.key", "semantic.tag"}
    BY TagNames
  <1>15. \A D : Section(p5, D, {})
    BY <1>2, TagPart
  <1>16. \A D : Section(p5, D, S)
    BY <1>15, SectionMore
  <1>17. NamesOf(p5) = {"phase.namespace", "phase.serial", "phase.key", "phase.tag"}
    BY TagNames
  <1>18. \A D : Section(p6, D, {})
    BY <1>2, TagPart
  <1>19. \A D : Section(p6, D, S)
    BY <1>18, SectionMore
  <1>20. NamesOf(p6) = {"reservation.namespace", "reservation.serial", "reservation.key", "reservation.tag"}
    BY TagNames
  <1>21. \A D : Section(p7, D, {})
    BY RunPart
  <1>22. \A D : Section(p7, D, S)
    BY <1>21, SectionMore
  <1>23. NamesOf(p7) = {"runtime", "process_instance"}
    BY RunPart
  <1>24. \A D : Section(p8, D, {})
    BY <1>1, CodesIn, OptionPart
  <1>25. \A D : Section(p8, D, S)
    BY <1>24, SectionMore
  <1>26. NamesOf(p8) = {"original_deadline?", "original_deadline"}
    BY <1>1, CodesIn, OptionPart
  <1>27. \A D : Section(p9, D, {})
    BY PhasePart
  <1>28. \A D : Section(p9, D, S)
    BY <1>27, SectionMore
  <1>29. NamesOf(p9) = {"phase"}
    BY PhasePart
  <1>30. \A D : Section(p10, D, S)
    BY RetentionPart
  <1>31. NamesOf(p10) = {"retention", "terminal_time?", "terminal_time", "expires_at?", "expires_at"}
    BY RetentionPart
  <1>32. \A D : Section(p11, D, {})
    BY ResultPart
  <1>33. \A D : Section(p11, D, S)
    BY <1>32, SectionMore
  <1>34. NamesOf(p11) = {"safe_result?", "codec", "codec_version", "result"}
    BY ResultPart
  <1> HIDE DEF S, p1, p2, p3, p4, p5, p6, p7, p8, p9, p10, p11
  <1>35. NamesOf(p1) \cap NamesOf(p2) = {}
    BY <1>5, <1>8
  <1> DEFINE a2 == p1 \o p2
  <1>36. /\ Section(a2, B, S) /\ Range(a2) = Range(p1) \cup Range(p2)
         /\ NamesOf(a2) = NamesOf(p1) \cup NamesOf(p2)
    BY <1>4, <1>7, <1>35, JoinSections
  <1> HIDE DEF a2
  <1>37. NamesOf(a2) = {"format", "operation", "actor_kind", "actor#", "actor"}
    BY <1>5, <1>8, <1>36
  <1>38. NamesOf(a2) \cap NamesOf(p3) = {}
    BY <1>37, <1>11
  <1> DEFINE a3 == a2 \o p3
  <1>39. /\ Section(a3, B, S) /\ Range(a3) = Range(a2) \cup Range(p3)
         /\ NamesOf(a3) = NamesOf(a2) \cup NamesOf(p3)
    BY <1>36, <1>10, <1>38, JoinSections
  <1> HIDE DEF a3
  <1>40. NamesOf(a3) = {"format", "operation", "actor_kind", "actor#", "actor", "lookup.namespace", "lookup.serial",
             "lookup.key", "lookup.tag"}
    BY <1>37, <1>11, <1>39
  <1>41. NamesOf(a3) \cap NamesOf(p4) = {}
    BY <1>40, <1>14
  <1> DEFINE a4 == a3 \o p4
  <1>42. /\ Section(a4, B, S) /\ Range(a4) = Range(a3) \cup Range(p4)
         /\ NamesOf(a4) = NamesOf(a3) \cup NamesOf(p4)
    BY <1>39, <1>13, <1>41, JoinSections
  <1> HIDE DEF a4
  <1>43. NamesOf(a4) = {"format", "operation", "actor_kind", "actor#", "actor", "lookup.namespace", "lookup.serial",
             "lookup.key", "lookup.tag", "semantic.namespace", "semantic.serial", "semantic.key",
             "semantic.tag"}
    BY <1>40, <1>14, <1>42
  <1>44. NamesOf(a4) \cap NamesOf(p5) = {}
    BY <1>43, <1>17
  <1> DEFINE a5 == a4 \o p5
  <1>45. /\ Section(a5, B, S) /\ Range(a5) = Range(a4) \cup Range(p5)
         /\ NamesOf(a5) = NamesOf(a4) \cup NamesOf(p5)
    BY <1>42, <1>16, <1>44, JoinSections
  <1> HIDE DEF a5
  <1>46. NamesOf(a5) = {"format", "operation", "actor_kind", "actor#", "actor", "lookup.namespace", "lookup.serial",
             "lookup.key", "lookup.tag", "semantic.namespace", "semantic.serial", "semantic.key",
             "semantic.tag", "phase.namespace", "phase.serial", "phase.key", "phase.tag"}
    BY <1>43, <1>17, <1>45
  <1>47. NamesOf(a5) \cap NamesOf(p6) = {}
    BY <1>46, <1>20
  <1> DEFINE a6 == a5 \o p6
  <1>48. /\ Section(a6, B, S) /\ Range(a6) = Range(a5) \cup Range(p6)
         /\ NamesOf(a6) = NamesOf(a5) \cup NamesOf(p6)
    BY <1>45, <1>19, <1>47, JoinSections
  <1> HIDE DEF a6
  <1>49. NamesOf(a6) = {"format", "operation", "actor_kind", "actor#", "actor", "lookup.namespace", "lookup.serial",
             "lookup.key", "lookup.tag", "semantic.namespace", "semantic.serial", "semantic.key",
             "semantic.tag", "phase.namespace", "phase.serial", "phase.key", "phase.tag",
             "reservation.namespace", "reservation.serial", "reservation.key", "reservation.tag"}
    BY <1>46, <1>20, <1>48
  <1>50. NamesOf(a6) \cap NamesOf(p7) = {}
    BY <1>49, <1>23
  <1> DEFINE a7 == a6 \o p7
  <1>51. /\ Section(a7, B, S) /\ Range(a7) = Range(a6) \cup Range(p7)
         /\ NamesOf(a7) = NamesOf(a6) \cup NamesOf(p7)
    BY <1>48, <1>22, <1>50, JoinSections
  <1> HIDE DEF a7
  <1>52. NamesOf(a7) = {"format", "operation", "actor_kind", "actor#", "actor", "lookup.namespace", "lookup.serial",
             "lookup.key", "lookup.tag", "semantic.namespace", "semantic.serial", "semantic.key",
             "semantic.tag", "phase.namespace", "phase.serial", "phase.key", "phase.tag",
             "reservation.namespace", "reservation.serial", "reservation.key", "reservation.tag", "runtime",
             "process_instance"}
    BY <1>49, <1>23, <1>51
  <1>53. NamesOf(a7) \cap NamesOf(p8) = {}
    BY <1>52, <1>26
  <1> DEFINE a8 == a7 \o p8
  <1>54. /\ Section(a8, B, S) /\ Range(a8) = Range(a7) \cup Range(p8)
         /\ NamesOf(a8) = NamesOf(a7) \cup NamesOf(p8)
    BY <1>51, <1>25, <1>53, JoinSections
  <1> HIDE DEF a8
  <1>55. NamesOf(a8) = {"format", "operation", "actor_kind", "actor#", "actor", "lookup.namespace", "lookup.serial",
             "lookup.key", "lookup.tag", "semantic.namespace", "semantic.serial", "semantic.key",
             "semantic.tag", "phase.namespace", "phase.serial", "phase.key", "phase.tag",
             "reservation.namespace", "reservation.serial", "reservation.key", "reservation.tag", "runtime",
             "process_instance", "original_deadline?", "original_deadline"}
    BY <1>52, <1>26, <1>54
  <1>56. NamesOf(a8) \cap NamesOf(p9) = {}
    BY <1>55, <1>29
  <1> DEFINE a9 == a8 \o p9
  <1>57. /\ Section(a9, B, S) /\ Range(a9) = Range(a8) \cup Range(p9)
         /\ NamesOf(a9) = NamesOf(a8) \cup NamesOf(p9)
    BY <1>54, <1>28, <1>56, JoinSections
  <1> HIDE DEF a9
  <1>58. NamesOf(a9) = {"format", "operation", "actor_kind", "actor#", "actor", "lookup.namespace", "lookup.serial",
             "lookup.key", "lookup.tag", "semantic.namespace", "semantic.serial", "semantic.key",
             "semantic.tag", "phase.namespace", "phase.serial", "phase.key", "phase.tag",
             "reservation.namespace", "reservation.serial", "reservation.key", "reservation.tag", "runtime",
             "process_instance", "original_deadline?", "original_deadline", "phase"}
    BY <1>55, <1>29, <1>57
  <1>59. NamesOf(a9) \cap NamesOf(p10) = {}
    BY <1>58, <1>31
  <1> DEFINE a10 == a9 \o p10
  <1>60. /\ Section(a10, B, S) /\ Range(a10) = Range(a9) \cup Range(p10)
         /\ NamesOf(a10) = NamesOf(a9) \cup NamesOf(p10)
    BY <1>57, <1>30, <1>59, JoinSections
  <1> HIDE DEF a10
  <1>61. NamesOf(a10) = {"format", "operation", "actor_kind", "actor#", "actor", "lookup.namespace", "lookup.serial",
             "lookup.key", "lookup.tag", "semantic.namespace", "semantic.serial", "semantic.key",
             "semantic.tag", "phase.namespace", "phase.serial", "phase.key", "phase.tag",
             "reservation.namespace", "reservation.serial", "reservation.key", "reservation.tag", "runtime",
             "process_instance", "original_deadline?", "original_deadline", "phase", "retention",
             "terminal_time?", "terminal_time", "expires_at?", "expires_at"}
    BY <1>58, <1>31, <1>60
  <1>62. NamesOf(a10) \cap NamesOf(p11) = {}
    BY <1>61, <1>34
  <1> DEFINE a11 == a10 \o p11
  <1>63. /\ Section(a11, B, S) /\ Range(a11) = Range(a10) \cup Range(p11)
         /\ NamesOf(a11) = NamesOf(a10) \cup NamesOf(p11)
    BY <1>60, <1>33, <1>62, JoinSections
  <1> HIDE DEF a11
  <1>64. NamesOf(a11) = {"format", "operation", "actor_kind", "actor#", "actor", "lookup.namespace", "lookup.serial",
             "lookup.key", "lookup.tag", "semantic.namespace", "semantic.serial", "semantic.key",
             "semantic.tag", "phase.namespace", "phase.serial", "phase.key", "phase.tag",
             "reservation.namespace", "reservation.serial", "reservation.key", "reservation.tag", "runtime",
             "process_instance", "original_deadline?", "original_deadline", "phase", "retention",
             "terminal_time?", "terminal_time", "expires_at?", "expires_at", "safe_result?", "codec",
             "codec_version", "result"}
    BY <1>61, <1>34, <1>63
  <1>65. common_fields(operations, codecs, versions) = a11
    BY DEF common_fields, common_head, run_fields, phase_field, Purposes, p1, p2, p3, p4, p5, p6, p7, p8, p9, p10,
           p11, a2, a3, a4, a5, a6, a7, a8, a9, a10, a11
  <1>66. QED BY <1>64, <1>36, <1>39, <1>42, <1>45, <1>48, <1>51, <1>54, <1>57, <1>60, <1>63, <1>65 DEF S, p10

LEMMA BindingPart ==
  ASSUME NEW B
  PROVE  /\ Section(binding_fields, B, {})
         /\ NamesOf(binding_fields) =
              {"binding?", "source", "source_serial", "target", "target_serial", "source_generation?",
               "source_generation", "target_generation?", "target_generation", "parent_witness?",
               "parent_witness"}
  <1> DEFINE S == {}
             p1 == binding_head
             p2 == bound_option("source_generation?", "source_generation")
             p3 == bound_option("target_generation?", "target_generation")
             p4 == bound_option("parent_witness?", "parent_witness")
  <1>1. /\ Flagged("source_generation?", "source_generation")
        /\ Flagged("target_generation?", "target_generation") /\ Flagged("parent_witness?", "parent_witness")
    BY DEF Flagged
  <1>2. \A D : Section(p1, D, S)
    BY BindingHead
  <1>3. NamesOf(p1) = {"binding?", "source", "source_serial", "target", "target_serial"}
    BY BindingHead
  <1>4. \A D : "binding?" \in D => Section(p2, D, S)
    BY <1>1, BoundPart
  <1>5. NamesOf(p2) = {"source_generation?", "source_generation"}
    BY BoundNames
  <1>6. \A D : "binding?" \in D => Section(p3, D, S)
    BY <1>1, BoundPart
  <1>7. NamesOf(p3) = {"target_generation?", "target_generation"}
    BY BoundNames
  <1>8. \A D : "binding?" \in D => Section(p4, D, S)
    BY <1>1, BoundPart
  <1>9. NamesOf(p4) = {"parent_witness?", "parent_witness"}
    BY BoundNames
  <1> HIDE DEF S, p1, p2, p3, p4
  <1>10. NamesOf(p1) \cap NamesOf(p2) = {}
    BY <1>3, <1>5
  <1>11. Section(p2, B \cup NamesOf(p1), S)
    <2>1. "binding?" \in B \cup NamesOf(p1)
      BY <1>3
    <2>2. QED BY <1>4, <2>1
  <1> DEFINE a2 == p1 \o p2
  <1>12. /\ Section(a2, B, S) /\ Range(a2) = Range(p1) \cup Range(p2)
         /\ NamesOf(a2) = NamesOf(p1) \cup NamesOf(p2)
    BY <1>2, <1>11, <1>10, JoinSections
  <1> HIDE DEF a2
  <1>13. NamesOf(a2) = {"binding?", "source", "source_serial", "target", "target_serial", "source_generation?",
             "source_generation"}
    BY <1>3, <1>5, <1>12
  <1>14. NamesOf(a2) \cap NamesOf(p3) = {}
    BY <1>13, <1>7
  <1>15. Section(p3, B \cup NamesOf(a2), S)
    <2>1. "binding?" \in B \cup NamesOf(a2)
      BY <1>13
    <2>2. QED BY <1>6, <2>1
  <1> DEFINE a3 == a2 \o p3
  <1>16. /\ Section(a3, B, S) /\ Range(a3) = Range(a2) \cup Range(p3)
         /\ NamesOf(a3) = NamesOf(a2) \cup NamesOf(p3)
    BY <1>12, <1>15, <1>14, JoinSections
  <1> HIDE DEF a3
  <1>17. NamesOf(a3) = {"binding?", "source", "source_serial", "target", "target_serial", "source_generation?",
             "source_generation", "target_generation?", "target_generation"}
    BY <1>13, <1>7, <1>16
  <1>18. NamesOf(a3) \cap NamesOf(p4) = {}
    BY <1>17, <1>9
  <1>19. Section(p4, B \cup NamesOf(a3), S)
    <2>1. "binding?" \in B \cup NamesOf(a3)
      BY <1>17
    <2>2. QED BY <1>8, <2>1
  <1> DEFINE a4 == a3 \o p4
  <1>20. /\ Section(a4, B, S) /\ Range(a4) = Range(a3) \cup Range(p4)
         /\ NamesOf(a4) = NamesOf(a3) \cup NamesOf(p4)
    BY <1>16, <1>19, <1>18, JoinSections
  <1> HIDE DEF a4
  <1>21. NamesOf(a4) = {"binding?", "source", "source_serial", "target", "target_serial", "source_generation?",
             "source_generation", "target_generation?", "target_generation", "parent_witness?",
             "parent_witness"}
    BY <1>17, <1>9, <1>20
  <1>22. binding_fields = a4
    BY DEF binding_fields, binding_head, bound_option, p1, p2, p3, p4, a2, a3, a4
  <1>23. QED BY <1>21, <1>20, <1>22 DEF S

LEMMA CommandTable ==
  ASSUME NEW B
  PROVE  /\ Section(command_format, B, {Variant("retention", {1, 2})})
         /\ NamesOf(command_format) =
              {"format", "operation", "actor_kind", "actor#", "actor", "lookup.namespace", "lookup.serial",
               "lookup.key", "lookup.tag", "semantic.namespace", "semantic.serial", "semantic.key",
               "semantic.tag", "phase.namespace", "phase.serial", "phase.key", "phase.tag",
               "reservation.namespace", "reservation.serial", "reservation.key", "reservation.tag",
               "runtime", "process_instance", "original_deadline?", "original_deadline", "phase",
               "retention", "terminal_time?", "terminal_time", "expires_at?", "expires_at", "safe_result?",
               "codec", "codec_version", "result", "binding?", "source", "source_serial", "target",
               "target_serial", "source_generation?", "source_generation", "target_generation?",
               "target_generation", "parent_witness?", "parent_witness", "profile_body#", "profile_body"}
         /\ Range(common_fields(1..13, AnyCell, AnyCell)) \subseteq Range(command_format)
         /\ Range(binding_fields) \subseteq Range(command_format)
         /\ Range(body_fields) \subseteq Range(command_format)
  <1> DEFINE S == {Variant("retention", {1, 2})}
             p1 == common_fields(1..13, AnyCell, AnyCell)
             p2 == binding_fields
             p3 == body_fields
  <1>1. \A D : Section(p1, D, S)
    BY CodesIn, CommonPart
  <1>2. NamesOf(p1) = {"format", "operation", "actor_kind", "actor#", "actor", "lookup.namespace", "lookup.serial",
             "lookup.key", "lookup.tag", "semantic.namespace", "semantic.serial", "semantic.key",
             "semantic.tag", "phase.namespace", "phase.serial", "phase.key", "phase.tag",
             "reservation.namespace", "reservation.serial", "reservation.key", "reservation.tag", "runtime",
             "process_instance", "original_deadline?", "original_deadline", "phase", "retention",
             "terminal_time?", "terminal_time", "expires_at?", "expires_at", "safe_result?", "codec",
             "codec_version", "result"}
    BY CodesIn, CommonPart
  <1>3. \A D : Section(p2, D, {})
    BY BindingPart
  <1>4. \A D : Section(p2, D, S)
    BY <1>3, SectionMore
  <1>5. NamesOf(p2) = {"binding?", "source", "source_serial", "target", "target_serial", "source_generation?",
             "source_generation", "target_generation?", "target_generation", "parent_witness?",
             "parent_witness"}
    BY BindingPart
  <1>6. \A D : Section(p3, D, {})
    BY BodyPart
  <1>7. \A D : Section(p3, D, S)
    BY <1>6, SectionMore
  <1>8. NamesOf(p3) = {"profile_body#", "profile_body"}
    BY BodyPart
  <1> HIDE DEF S, p1, p2, p3
  <1>9. NamesOf(p1) \cap NamesOf(p2) = {}
    BY <1>2, <1>5
  <1> DEFINE a2 == p1 \o p2
  <1>10. /\ Section(a2, B, S) /\ Range(a2) = Range(p1) \cup Range(p2)
         /\ NamesOf(a2) = NamesOf(p1) \cup NamesOf(p2)
    BY <1>1, <1>4, <1>9, JoinSections
  <1> HIDE DEF a2
  <1>11. NamesOf(a2) = {"format", "operation", "actor_kind", "actor#", "actor", "lookup.namespace", "lookup.serial",
             "lookup.key", "lookup.tag", "semantic.namespace", "semantic.serial", "semantic.key",
             "semantic.tag", "phase.namespace", "phase.serial", "phase.key", "phase.tag",
             "reservation.namespace", "reservation.serial", "reservation.key", "reservation.tag", "runtime",
             "process_instance", "original_deadline?", "original_deadline", "phase", "retention",
             "terminal_time?", "terminal_time", "expires_at?", "expires_at", "safe_result?", "codec",
             "codec_version", "result", "binding?", "source", "source_serial", "target", "target_serial",
             "source_generation?", "source_generation", "target_generation?", "target_generation",
             "parent_witness?", "parent_witness"}
    BY <1>2, <1>5, <1>10
  <1>12. NamesOf(a2) \cap NamesOf(p3) = {}
    BY <1>11, <1>8
  <1> DEFINE a3 == a2 \o p3
  <1>13. /\ Section(a3, B, S) /\ Range(a3) = Range(a2) \cup Range(p3)
         /\ NamesOf(a3) = NamesOf(a2) \cup NamesOf(p3)
    BY <1>10, <1>7, <1>12, JoinSections
  <1> HIDE DEF a3
  <1>14. NamesOf(a3) = {"format", "operation", "actor_kind", "actor#", "actor", "lookup.namespace", "lookup.serial",
             "lookup.key", "lookup.tag", "semantic.namespace", "semantic.serial", "semantic.key",
             "semantic.tag", "phase.namespace", "phase.serial", "phase.key", "phase.tag",
             "reservation.namespace", "reservation.serial", "reservation.key", "reservation.tag", "runtime",
             "process_instance", "original_deadline?", "original_deadline", "phase", "retention",
             "terminal_time?", "terminal_time", "expires_at?", "expires_at", "safe_result?", "codec",
             "codec_version", "result", "binding?", "source", "source_serial", "target", "target_serial",
             "source_generation?", "source_generation", "target_generation?", "target_generation",
             "parent_witness?", "parent_witness", "profile_body#", "profile_body"}
    BY <1>11, <1>8, <1>13
  <1>15. command_format = a3
    BY DEF command_format, body_fields, p1, p2, p3, a2, a3
  <1>16. QED BY <1>14, <1>10, <1>13, <1>15 DEF S, p1, p2, p3

LEMMA ProjectionTable ==
  ASSUME NEW B
  PROVE  /\ Section(projection_format, B, projection_computed)
         /\ NamesOf(projection_format) =
              {"format", "operation", "actor_kind", "actor#", "actor", "lookup.namespace", "lookup.serial",
               "lookup.key", "lookup.tag", "semantic.namespace", "semantic.serial", "semantic.key",
               "semantic.tag", "phase.namespace", "phase.serial", "phase.key", "phase.tag",
               "reservation.namespace", "reservation.serial", "reservation.key", "reservation.tag",
               "runtime", "process_instance", "original_deadline?", "original_deadline", "phase",
               "retention", "terminal_time?", "terminal_time", "expires_at?", "expires_at", "safe_result?",
               "codec", "codec_version", "result", "binding?", "profile_length", "profile", "variant",
               "digests", "kind1", "digest1", "kind2", "digest2"}
         /\ Range(common_fields({4}, {6}, {1})) \subseteq Range(projection_format)
         /\ Range(unbound_fields) \subseteq Range(projection_format)
         /\ Range(profile_format) \subseteq Range(projection_format)
  <1> DEFINE S == projection_computed
             p1 == common_fields({4}, {6}, {1})
             p2 == unbound_fields
             p3 == profile_format
  <1>1. \A D : Section(p1, D, {Variant("retention", {1, 2})})
    BY CodesIn, CommonPart
  <1>2. \A D : Section(p1, D, S)
    BY <1>1, SectionMore DEF projection_computed
  <1>3. NamesOf(p1) = {"format", "operation", "actor_kind", "actor#", "actor", "lookup.namespace", "lookup.serial",
             "lookup.key", "lookup.tag", "semantic.namespace", "semantic.serial", "semantic.key",
             "semantic.tag", "phase.namespace", "phase.serial", "phase.key", "phase.tag",
             "reservation.namespace", "reservation.serial", "reservation.key", "reservation.tag", "runtime",
             "process_instance", "original_deadline?", "original_deadline", "phase", "retention",
             "terminal_time?", "terminal_time", "expires_at?", "expires_at", "safe_result?", "codec",
             "codec_version", "result"}
    BY CodesIn, CommonPart
  <1>4. \A D : Section(p2, D, {Variant("profile_length", {3, 5, 7})})
    BY UnboundPart
  <1>5. \A D : Section(p2, D, S)
    BY <1>4, SectionMore DEF projection_computed
  <1>6. NamesOf(p2) = {"binding?", "profile_length"}
    BY UnboundPart
  <1>7. \A D : Section(p3, D, {Variant("digests", 0..2)} \cup profile_computed)
    BY ProfilePart
  <1>8. \A D : Section(p3, D, S)
    BY <1>7, SectionMore DEF projection_computed
  <1>9. NamesOf(p3) = {"profile", "variant", "digests", "kind1", "digest1", "kind2", "digest2"}
    BY ProfilePart
  <1> HIDE DEF S, p1, p2, p3
  <1>10. NamesOf(p1) \cap NamesOf(p2) = {}
    BY <1>3, <1>6
  <1> DEFINE a2 == p1 \o p2
  <1>11. /\ Section(a2, B, S) /\ Range(a2) = Range(p1) \cup Range(p2)
         /\ NamesOf(a2) = NamesOf(p1) \cup NamesOf(p2)
    BY <1>2, <1>5, <1>10, JoinSections
  <1> HIDE DEF a2
  <1>12. NamesOf(a2) = {"format", "operation", "actor_kind", "actor#", "actor", "lookup.namespace", "lookup.serial",
             "lookup.key", "lookup.tag", "semantic.namespace", "semantic.serial", "semantic.key",
             "semantic.tag", "phase.namespace", "phase.serial", "phase.key", "phase.tag",
             "reservation.namespace", "reservation.serial", "reservation.key", "reservation.tag", "runtime",
             "process_instance", "original_deadline?", "original_deadline", "phase", "retention",
             "terminal_time?", "terminal_time", "expires_at?", "expires_at", "safe_result?", "codec",
             "codec_version", "result", "binding?", "profile_length"}
    BY <1>3, <1>6, <1>11
  <1>13. NamesOf(a2) \cap NamesOf(p3) = {}
    BY <1>12, <1>9
  <1> DEFINE a3 == a2 \o p3
  <1>14. /\ Section(a3, B, S) /\ Range(a3) = Range(a2) \cup Range(p3)
         /\ NamesOf(a3) = NamesOf(a2) \cup NamesOf(p3)
    BY <1>11, <1>8, <1>13, JoinSections
  <1> HIDE DEF a3
  <1>15. NamesOf(a3) = {"format", "operation", "actor_kind", "actor#", "actor", "lookup.namespace", "lookup.serial",
             "lookup.key", "lookup.tag", "semantic.namespace", "semantic.serial", "semantic.key",
             "semantic.tag", "phase.namespace", "phase.serial", "phase.key", "phase.tag",
             "reservation.namespace", "reservation.serial", "reservation.key", "reservation.tag", "runtime",
             "process_instance", "original_deadline?", "original_deadline", "phase", "retention",
             "terminal_time?", "terminal_time", "expires_at?", "expires_at", "safe_result?", "codec",
             "codec_version", "result", "binding?", "profile_length", "profile", "variant", "digests",
             "kind1", "digest1", "kind2", "digest2"}
    BY <1>12, <1>9, <1>14
  <1>16. projection_format = a3
    BY DEF projection_format, unbound_fields, p1, p2, p3, a2, a3
  <1>17. QED BY <1>15, <1>11, <1>14, <1>16 DEF S, p1, p2, p3

LEMMA AuthorityTable ==
  ASSUME NEW B
  PROVE  /\ Section(authority_format, B, {})
         /\ NamesOf(authority_format) =
              {"format", "safe_time", "hold?", "generation", "observation", "last_shutdown?",
               "last_shutdown"}
  <1> DEFINE S == {}
             p1 == authority_head
             p2 == Option("last_shutdown?", "last_shutdown", AnyCell)
  <1>1. Flagged("last_shutdown?", "last_shutdown")
    BY DEF Flagged
  <1>2. \A D : Section(p1, D, S)
    BY AuthorityHead
  <1>3. NamesOf(p1) = {"format", "safe_time", "hold?", "generation", "observation"}
    BY AuthorityHead
  <1>4. \A D : Section(p2, D, S)
    BY <1>1, CodesIn, OptionPart
  <1>5. NamesOf(p2) = {"last_shutdown?", "last_shutdown"}
    BY <1>1, CodesIn, OptionPart
  <1> HIDE DEF S, p1, p2
  <1>6. NamesOf(p1) \cap NamesOf(p2) = {}
    BY <1>3, <1>5
  <1> DEFINE a2 == p1 \o p2
  <1>7. /\ Section(a2, B, S) /\ Range(a2) = Range(p1) \cup Range(p2)
        /\ NamesOf(a2) = NamesOf(p1) \cup NamesOf(p2)
    BY <1>2, <1>4, <1>6, JoinSections
  <1> HIDE DEF a2
  <1>8. NamesOf(a2) = {"format", "safe_time", "hold?", "generation", "observation", "last_shutdown?", "last_shutdown"}
    BY <1>3, <1>5, <1>7
  <1>9. authority_format = a2
    BY DEF authority_format, authority_head, p1, p2, a2
  <1>10. QED BY <1>8, <1>7, <1>9 DEF S

LEMMA AckFields ==
  ASSUME NEW B
  PROVE  /\ Section(ack_fields, B, {})
         /\ NamesOf(ack_fields) =
              {"generation", "observation", "transition", "risk_acknowledged", "wall", "tick", "prior",
               "selected?", "selected", "target"}
  <1> DEFINE S == {}
             p1 == ack_body
             p2 == Option("selected?", "selected", AnyCell)
             p3 == ack_target
  <1>1. Flagged("selected?", "selected")
    BY DEF Flagged
  <1>2. \A D : Section(p1, D, S)
    BY AckBody
  <1>3. NamesOf(p1) = {"generation", "observation", "transition", "risk_acknowledged", "wall", "tick", "prior"}
    BY AckBody
  <1>4. \A D : Section(p2, D, S)
    BY <1>1, CodesIn, OptionPart
  <1>5. NamesOf(p2) = {"selected?", "selected"}
    BY <1>1, CodesIn, OptionPart
  <1>6. \A D : Section(p3, D, S)
    BY AckTarget
  <1>7. NamesOf(p3) = {"target"}
    BY AckTarget
  <1> HIDE DEF S, p1, p2, p3
  <1>8. NamesOf(p1) \cap NamesOf(p2) = {}
    BY <1>3, <1>5
  <1> DEFINE a2 == p1 \o p2
  <1>9. /\ Section(a2, B, S) /\ Range(a2) = Range(p1) \cup Range(p2)
        /\ NamesOf(a2) = NamesOf(p1) \cup NamesOf(p2)
    BY <1>2, <1>4, <1>8, JoinSections
  <1> HIDE DEF a2
  <1>10. NamesOf(a2) = {"generation", "observation", "transition", "risk_acknowledged", "wall", "tick", "prior",
             "selected?", "selected"}
    BY <1>3, <1>5, <1>9
  <1>11. NamesOf(a2) \cap NamesOf(p3) = {}
    BY <1>10, <1>7
  <1> DEFINE a3 == a2 \o p3
  <1>12. /\ Section(a3, B, S) /\ Range(a3) = Range(a2) \cup Range(p3)
         /\ NamesOf(a3) = NamesOf(a2) \cup NamesOf(p3)
    BY <1>9, <1>6, <1>11, JoinSections
  <1> HIDE DEF a3
  <1>13. NamesOf(a3) = {"generation", "observation", "transition", "risk_acknowledged", "wall", "tick", "prior",
             "selected?", "selected", "target"}
    BY <1>10, <1>7, <1>12
  <1>14. ack_fields = a3
    BY DEF ack_fields, p1, p2, p3, a2, a3
  <1>15. QED BY <1>13, <1>12, <1>14 DEF S

LEMMA AckValueTable ==
  ASSUME NEW B
  PROVE  /\ Section(value_format("ack"), B, {Variant("mirror", 0..2)})
         /\ NamesOf(value_format("ack")) =
              {"format", "operation", "actor_kind", "actor#", "actor", "generation", "observation",
               "transition", "risk_acknowledged", "wall", "tick", "prior", "selected?", "selected",
               "target", "phase", "result_codec", "settled_time", "settled", "application", "publication",
               "mirror", "origin", "pre", "policy", "post"}
         /\ Range(mirror_fields) \subseteq Range(value_format("ack"))
  <1> DEFINE S == {Variant("mirror", 0..2)}
             p1 == ack_head
             p2 == actor_fields
             p3 == ack_fields
             p4 == value_phase
             p5 == ack_result
             p6 == steps_fields
             p7 == mirror_fields
  <1>1. \A D : Section(p1, D, {})
    BY AckHead
  <1>2. \A D : Section(p1, D, S)
    BY <1>1, SectionMore
  <1>3. NamesOf(p1) = {"format", "operation"}
    BY AckHead
  <1>4. \A D : Section(p2, D, {})
    BY ActorPart
  <1>5. \A D : Section(p2, D, S)
    BY <1>4, SectionMore
  <1>6. NamesOf(p2) = {"actor_kind", "actor#", "actor"}
    BY ActorPart
  <1>7. \A D : Section(p3, D, {})
    BY AckFields
  <1>8. \A D : Section(p3, D, S)
    BY <1>7, SectionMore
  <1>9. NamesOf(p3) = {"generation", "observation", "transition", "risk_acknowledged", "wall", "tick", "prior",
             "selected?", "selected", "target"}
    BY AckFields
  <1>10. \A D : Section(p4, D, {})
    BY ValuePhase
  <1>11. \A D : Section(p4, D, S)
    BY <1>10, SectionMore
  <1>12. NamesOf(p4) = {"phase"}
    BY ValuePhase
  <1>13. \A D : Section(p5, D, {})
    BY AckResult
  <1>14. \A D : Section(p5, D, S)
    BY <1>13, SectionMore
  <1>15. NamesOf(p5) = {"result_codec", "settled_time", "settled"}
    BY AckResult
  <1>16. \A D : Section(p6, D, {})
    BY StepsPart
  <1>17. \A D : Section(p6, D, S)
    BY <1>16, SectionMore
  <1>18. NamesOf(p6) = {"application", "publication"}
    BY StepsPart
  <1>19. \A D : Section(p7, D, S)
    BY MirrorPart
  <1>20. NamesOf(p7) = {"mirror", "origin", "pre", "policy", "post"}
    BY MirrorPart
  <1> HIDE DEF S, p1, p2, p3, p4, p5, p6, p7
  <1>21. NamesOf(p1) \cap NamesOf(p2) = {}
    BY <1>3, <1>6
  <1> DEFINE a2 == p1 \o p2
  <1>22. /\ Section(a2, B, S) /\ Range(a2) = Range(p1) \cup Range(p2)
         /\ NamesOf(a2) = NamesOf(p1) \cup NamesOf(p2)
    BY <1>2, <1>5, <1>21, JoinSections
  <1> HIDE DEF a2
  <1>23. NamesOf(a2) = {"format", "operation", "actor_kind", "actor#", "actor"}
    BY <1>3, <1>6, <1>22
  <1>24. NamesOf(a2) \cap NamesOf(p3) = {}
    BY <1>23, <1>9
  <1> DEFINE a3 == a2 \o p3
  <1>25. /\ Section(a3, B, S) /\ Range(a3) = Range(a2) \cup Range(p3)
         /\ NamesOf(a3) = NamesOf(a2) \cup NamesOf(p3)
    BY <1>22, <1>8, <1>24, JoinSections
  <1> HIDE DEF a3
  <1>26. NamesOf(a3) = {"format", "operation", "actor_kind", "actor#", "actor", "generation", "observation",
             "transition", "risk_acknowledged", "wall", "tick", "prior", "selected?", "selected", "target"}
    BY <1>23, <1>9, <1>25
  <1>27. NamesOf(a3) \cap NamesOf(p4) = {}
    BY <1>26, <1>12
  <1> DEFINE a4 == a3 \o p4
  <1>28. /\ Section(a4, B, S) /\ Range(a4) = Range(a3) \cup Range(p4)
         /\ NamesOf(a4) = NamesOf(a3) \cup NamesOf(p4)
    BY <1>25, <1>11, <1>27, JoinSections
  <1> HIDE DEF a4
  <1>29. NamesOf(a4) = {"format", "operation", "actor_kind", "actor#", "actor", "generation", "observation",
             "transition", "risk_acknowledged", "wall", "tick", "prior", "selected?", "selected", "target",
             "phase"}
    BY <1>26, <1>12, <1>28
  <1>30. NamesOf(a4) \cap NamesOf(p5) = {}
    BY <1>29, <1>15
  <1> DEFINE a5 == a4 \o p5
  <1>31. /\ Section(a5, B, S) /\ Range(a5) = Range(a4) \cup Range(p5)
         /\ NamesOf(a5) = NamesOf(a4) \cup NamesOf(p5)
    BY <1>28, <1>14, <1>30, JoinSections
  <1> HIDE DEF a5
  <1>32. NamesOf(a5) = {"format", "operation", "actor_kind", "actor#", "actor", "generation", "observation",
             "transition", "risk_acknowledged", "wall", "tick", "prior", "selected?", "selected", "target",
             "phase", "result_codec", "settled_time", "settled"}
    BY <1>29, <1>15, <1>31
  <1>33. NamesOf(a5) \cap NamesOf(p6) = {}
    BY <1>32, <1>18
  <1> DEFINE a6 == a5 \o p6
  <1>34. /\ Section(a6, B, S) /\ Range(a6) = Range(a5) \cup Range(p6)
         /\ NamesOf(a6) = NamesOf(a5) \cup NamesOf(p6)
    BY <1>31, <1>17, <1>33, JoinSections
  <1> HIDE DEF a6
  <1>35. NamesOf(a6) = {"format", "operation", "actor_kind", "actor#", "actor", "generation", "observation",
             "transition", "risk_acknowledged", "wall", "tick", "prior", "selected?", "selected", "target",
             "phase", "result_codec", "settled_time", "settled", "application", "publication"}
    BY <1>32, <1>18, <1>34
  <1>36. NamesOf(a6) \cap NamesOf(p7) = {}
    BY <1>35, <1>20
  <1> DEFINE a7 == a6 \o p7
  <1>37. /\ Section(a7, B, S) /\ Range(a7) = Range(a6) \cup Range(p7)
         /\ NamesOf(a7) = NamesOf(a6) \cup NamesOf(p7)
    BY <1>34, <1>19, <1>36, JoinSections
  <1> HIDE DEF a7
  <1>38. NamesOf(a7) = {"format", "operation", "actor_kind", "actor#", "actor", "generation", "observation",
             "transition", "risk_acknowledged", "wall", "tick", "prior", "selected?", "selected", "target",
             "phase", "result_codec", "settled_time", "settled", "application", "publication", "mirror",
             "origin", "pre", "policy", "post"}
    BY <1>35, <1>20, <1>37
  <1>39. value_format("ack") = a7
    BY DEF value_format, ack_head, ack_fields, ack_body, ack_target, value_phase, result_fields, ack_result,
           steps_fields, p1, p2, p3, p4, p5, p6, p7, a2, a3, a4, a5, a6, a7
  <1>40. QED BY <1>38, <1>22, <1>25, <1>28, <1>31, <1>34, <1>37, <1>39 DEF S, p7

LEMMA ShutdownValueTable ==
  ASSUME NEW B
  PROVE  /\ Section(value_format("shutdown"), B, {Variant("mirror", 0..2)})
         /\ NamesOf(value_format("shutdown")) =
              {"format", "operation", "actor_kind", "actor#", "actor", "process", "transition", "grace_ms",
               "tick", "deadline", "phase", "result_codec", "ungraceful", "application", "publication",
               "mirror", "origin", "pre", "policy", "post"}
         /\ Range(mirror_fields) \subseteq Range(value_format("shutdown"))
  <1> DEFINE S == {Variant("mirror", 0..2)}
             p1 == shutdown_head
             p2 == actor_fields
             p3 == shutdown_body
             p4 == value_phase
             p5 == shutdown_result
             p6 == steps_fields
             p7 == mirror_fields
  <1>1. \A D : Section(p1, D, {})
    BY ShutdownHead
  <1>2. \A D : Section(p1, D, S)
    BY <1>1, SectionMore
  <1>3. NamesOf(p1) = {"format", "operation"}
    BY ShutdownHead
  <1>4. \A D : Section(p2, D, {})
    BY ActorPart
  <1>5. \A D : Section(p2, D, S)
    BY <1>4, SectionMore
  <1>6. NamesOf(p2) = {"actor_kind", "actor#", "actor"}
    BY ActorPart
  <1>7. \A D : Section(p3, D, {})
    BY ShutdownBody
  <1>8. \A D : Section(p3, D, S)
    BY <1>7, SectionMore
  <1>9. NamesOf(p3) = {"process", "transition", "grace_ms", "tick", "deadline"}
    BY ShutdownBody
  <1>10. \A D : Section(p4, D, {})
    BY ValuePhase
  <1>11. \A D : Section(p4, D, S)
    BY <1>10, SectionMore
  <1>12. NamesOf(p4) = {"phase"}
    BY ValuePhase
  <1>13. \A D : Section(p5, D, {})
    BY ShutdownResult
  <1>14. \A D : Section(p5, D, S)
    BY <1>13, SectionMore
  <1>15. NamesOf(p5) = {"result_codec", "ungraceful"}
    BY ShutdownResult
  <1>16. \A D : Section(p6, D, {})
    BY StepsPart
  <1>17. \A D : Section(p6, D, S)
    BY <1>16, SectionMore
  <1>18. NamesOf(p6) = {"application", "publication"}
    BY StepsPart
  <1>19. \A D : Section(p7, D, S)
    BY MirrorPart
  <1>20. NamesOf(p7) = {"mirror", "origin", "pre", "policy", "post"}
    BY MirrorPart
  <1> HIDE DEF S, p1, p2, p3, p4, p5, p6, p7
  <1>21. NamesOf(p1) \cap NamesOf(p2) = {}
    BY <1>3, <1>6
  <1> DEFINE a2 == p1 \o p2
  <1>22. /\ Section(a2, B, S) /\ Range(a2) = Range(p1) \cup Range(p2)
         /\ NamesOf(a2) = NamesOf(p1) \cup NamesOf(p2)
    BY <1>2, <1>5, <1>21, JoinSections
  <1> HIDE DEF a2
  <1>23. NamesOf(a2) = {"format", "operation", "actor_kind", "actor#", "actor"}
    BY <1>3, <1>6, <1>22
  <1>24. NamesOf(a2) \cap NamesOf(p3) = {}
    BY <1>23, <1>9
  <1> DEFINE a3 == a2 \o p3
  <1>25. /\ Section(a3, B, S) /\ Range(a3) = Range(a2) \cup Range(p3)
         /\ NamesOf(a3) = NamesOf(a2) \cup NamesOf(p3)
    BY <1>22, <1>8, <1>24, JoinSections
  <1> HIDE DEF a3
  <1>26. NamesOf(a3) = {"format", "operation", "actor_kind", "actor#", "actor", "process", "transition", "grace_ms",
             "tick", "deadline"}
    BY <1>23, <1>9, <1>25
  <1>27. NamesOf(a3) \cap NamesOf(p4) = {}
    BY <1>26, <1>12
  <1> DEFINE a4 == a3 \o p4
  <1>28. /\ Section(a4, B, S) /\ Range(a4) = Range(a3) \cup Range(p4)
         /\ NamesOf(a4) = NamesOf(a3) \cup NamesOf(p4)
    BY <1>25, <1>11, <1>27, JoinSections
  <1> HIDE DEF a4
  <1>29. NamesOf(a4) = {"format", "operation", "actor_kind", "actor#", "actor", "process", "transition", "grace_ms",
             "tick", "deadline", "phase"}
    BY <1>26, <1>12, <1>28
  <1>30. NamesOf(a4) \cap NamesOf(p5) = {}
    BY <1>29, <1>15
  <1> DEFINE a5 == a4 \o p5
  <1>31. /\ Section(a5, B, S) /\ Range(a5) = Range(a4) \cup Range(p5)
         /\ NamesOf(a5) = NamesOf(a4) \cup NamesOf(p5)
    BY <1>28, <1>14, <1>30, JoinSections
  <1> HIDE DEF a5
  <1>32. NamesOf(a5) = {"format", "operation", "actor_kind", "actor#", "actor", "process", "transition", "grace_ms",
             "tick", "deadline", "phase", "result_codec", "ungraceful"}
    BY <1>29, <1>15, <1>31
  <1>33. NamesOf(a5) \cap NamesOf(p6) = {}
    BY <1>32, <1>18
  <1> DEFINE a6 == a5 \o p6
  <1>34. /\ Section(a6, B, S) /\ Range(a6) = Range(a5) \cup Range(p6)
         /\ NamesOf(a6) = NamesOf(a5) \cup NamesOf(p6)
    BY <1>31, <1>17, <1>33, JoinSections
  <1> HIDE DEF a6
  <1>35. NamesOf(a6) = {"format", "operation", "actor_kind", "actor#", "actor", "process", "transition", "grace_ms",
             "tick", "deadline", "phase", "result_codec", "ungraceful", "application", "publication"}
    BY <1>32, <1>18, <1>34
  <1>36. NamesOf(a6) \cap NamesOf(p7) = {}
    BY <1>35, <1>20
  <1> DEFINE a7 == a6 \o p7
  <1>37. /\ Section(a7, B, S) /\ Range(a7) = Range(a6) \cup Range(p7)
         /\ NamesOf(a7) = NamesOf(a6) \cup NamesOf(p7)
    BY <1>34, <1>19, <1>36, JoinSections
  <1> HIDE DEF a7
  <1>38. NamesOf(a7) = {"format", "operation", "actor_kind", "actor#", "actor", "process", "transition", "grace_ms",
             "tick", "deadline", "phase", "result_codec", "ungraceful", "application", "publication",
             "mirror", "origin", "pre", "policy", "post"}
    BY <1>35, <1>20, <1>37
  <1>39. value_format("shutdown") = a7
    BY DEF value_format, shutdown_head, shutdown_body, value_phase, result_fields, shutdown_result, steps_fields, p1,
           p2, p3, p4, p5, p6, p7, a2, a3, a4, a5, a6, a7
  <1>40. QED BY <1>38, <1>22, <1>25, <1>28, <1>31, <1>34, <1>37, <1>39 DEF S, p7

LEMMA AckActionTable ==
  ASSUME NEW B
  PROVE  /\ Section(action_format("ack"), B, {Variant("action", {2, 3}), Variant("payload", AnyCell)})
         /\ NamesOf(action_format("ack")) =
              {"format", "action", "payload", "phase", "result_codec", "settled_time", "settled",
               "post.sequence", "post.digest"}
         /\ Range(action_format("ack")) = Range(action_head) \cup Range(ack_action_result) \cup Range(receipt_fields)
  <1> DEFINE S == {Variant("action", {2, 3}), Variant("payload", AnyCell)}
             p1 == action_head
             p2 == ack_action_result
             p3 == receipt_fields
  <1>1. \A D : Section(p1, D, S)
    BY ActionHead
  <1>2. NamesOf(p1) = {"format", "action", "payload", "phase"}
    BY ActionHead
  <1>3. \A D : "action" \in D => Section(p2, D, {})
    BY AckActionResult
  <1>4. \A D : "action" \in D => Section(p2, D, S)
    BY <1>3, SectionMore
  <1>5. NamesOf(p2) = {"result_codec", "settled_time", "settled"}
    <2>1. "action" \in {"action"}
      OBVIOUS
    <2>2. QED BY <2>1, AckActionResult
  <1>6. \A D : "action" \in D => Section(p3, D, {})
    BY ReceiptPart
  <1>7. \A D : "action" \in D => Section(p3, D, S)
    BY <1>6, SectionMore
  <1>8. NamesOf(p3) = {"post.sequence", "post.digest"}
    <2>1. "action" \in {"action"}
      OBVIOUS
    <2>2. QED BY <2>1, ReceiptPart
  <1> HIDE DEF S, p1, p2, p3
  <1>9. NamesOf(p1) \cap NamesOf(p2) = {}
    BY <1>2, <1>5
  <1>10. Section(p2, B \cup NamesOf(p1), S)
    <2>1. "action" \in B \cup NamesOf(p1)
      BY <1>2
    <2>2. QED BY <1>4, <2>1
  <1> DEFINE a2 == p1 \o p2
  <1>11. /\ Section(a2, B, S) /\ Range(a2) = Range(p1) \cup Range(p2)
         /\ NamesOf(a2) = NamesOf(p1) \cup NamesOf(p2)
    BY <1>1, <1>10, <1>9, JoinSections
  <1> HIDE DEF a2
  <1>12. NamesOf(a2) = {"format", "action", "payload", "phase", "result_codec", "settled_time", "settled"}
    BY <1>2, <1>5, <1>11
  <1>13. NamesOf(a2) \cap NamesOf(p3) = {}
    BY <1>12, <1>8
  <1>14. Section(p3, B \cup NamesOf(a2), S)
    <2>1. "action" \in B \cup NamesOf(a2)
      BY <1>12
    <2>2. QED BY <1>7, <2>1
  <1> DEFINE a3 == a2 \o p3
  <1>15. /\ Section(a3, B, S) /\ Range(a3) = Range(a2) \cup Range(p3)
         /\ NamesOf(a3) = NamesOf(a2) \cup NamesOf(p3)
    BY <1>11, <1>14, <1>13, JoinSections
  <1> HIDE DEF a3
  <1>16. NamesOf(a3) = {"format", "action", "payload", "phase", "result_codec", "settled_time", "settled",
             "post.sequence", "post.digest"}
    BY <1>12, <1>8, <1>15
  <1>17. action_format("ack") = a3
    BY AckOwed DEF action_format, action_head, receipt_fields, p1, p2, p3, a2, a3
  <1>18. QED BY <1>16, <1>11, <1>15, <1>17 DEF S, p1, p2, p3

LEMMA ShutdownActionTable ==
  ASSUME NEW B
  PROVE  /\ Section(action_format("shutdown"), B, {Variant("action", {2, 3}), Variant("payload", AnyCell)})
         /\ NamesOf(action_format("shutdown")) =
              {"format", "action", "payload", "phase", "result_codec", "ungraceful", "post.sequence",
               "post.digest"}
         /\ Range(action_format("shutdown")) =
              Range(action_head) \cup Range(shutdown_action_result) \cup Range(receipt_fields)
  <1> DEFINE S == {Variant("action", {2, 3}), Variant("payload", AnyCell)}
             p1 == action_head
             p2 == shutdown_action_result
             p3 == receipt_fields
  <1>1. \A D : Section(p1, D, S)
    BY ActionHead
  <1>2. NamesOf(p1) = {"format", "action", "payload", "phase"}
    BY ActionHead
  <1>3. \A D : "action" \in D => Section(p2, D, {})
    BY ShutdownActionResult
  <1>4. \A D : "action" \in D => Section(p2, D, S)
    BY <1>3, SectionMore
  <1>5. NamesOf(p2) = {"result_codec", "ungraceful"}
    <2>1. "action" \in {"action"}
      OBVIOUS
    <2>2. QED BY <2>1, ShutdownActionResult
  <1>6. \A D : "action" \in D => Section(p3, D, {})
    BY ReceiptPart
  <1>7. \A D : "action" \in D => Section(p3, D, S)
    BY <1>6, SectionMore
  <1>8. NamesOf(p3) = {"post.sequence", "post.digest"}
    <2>1. "action" \in {"action"}
      OBVIOUS
    <2>2. QED BY <2>1, ReceiptPart
  <1> HIDE DEF S, p1, p2, p3
  <1>9. NamesOf(p1) \cap NamesOf(p2) = {}
    BY <1>2, <1>5
  <1>10. Section(p2, B \cup NamesOf(p1), S)
    <2>1. "action" \in B \cup NamesOf(p1)
      BY <1>2
    <2>2. QED BY <1>4, <2>1
  <1> DEFINE a2 == p1 \o p2
  <1>11. /\ Section(a2, B, S) /\ Range(a2) = Range(p1) \cup Range(p2)
         /\ NamesOf(a2) = NamesOf(p1) \cup NamesOf(p2)
    BY <1>1, <1>10, <1>9, JoinSections
  <1> HIDE DEF a2
  <1>12. NamesOf(a2) = {"format", "action", "payload", "phase", "result_codec", "ungraceful"}
    BY <1>2, <1>5, <1>11
  <1>13. NamesOf(a2) \cap NamesOf(p3) = {}
    BY <1>12, <1>8
  <1>14. Section(p3, B \cup NamesOf(a2), S)
    <2>1. "action" \in B \cup NamesOf(a2)
      BY <1>12
    <2>2. QED BY <1>7, <2>1
  <1> DEFINE a3 == a2 \o p3
  <1>15. /\ Section(a3, B, S) /\ Range(a3) = Range(a2) \cup Range(p3)
         /\ NamesOf(a3) = NamesOf(a2) \cup NamesOf(p3)
    BY <1>11, <1>14, <1>13, JoinSections
  <1> HIDE DEF a3
  <1>16. NamesOf(a3) = {"format", "action", "payload", "phase", "result_codec", "ungraceful", "post.sequence",
             "post.digest"}
    BY <1>12, <1>8, <1>15
  <1>17. action_format("shutdown") = a3
    BY ShutdownOwed DEF action_format, action_head, receipt_fields, p1, p2, p3, a2, a3
  <1>18. QED BY <1>16, <1>11, <1>15, <1>17 DEF S, p1, p2, p3

\* Members by the fields that carry them.
LEMMA MembersAre ==
  ASSUME NEW F, NEW B, NEW S, Section(F, B, S)
  PROVE  /\ Members(F) = {g.name : g \in {f \in Range(F) : f.role = "data"}}
         /\ \A g \in Range(F) : g.name \in NamesTo(F, Len(F))
  <1>1. /\ Len(F) \in Nat /\ DOMAIN F = 1..Len(F) /\ Range(F) = {F[i] : i \in 1..Len(F)}
    BY PartLen DEF Section
  <1>2. QED BY <1>1 DEF Members, NamesTo

\* What a decoder read.
Opened(F, w, v) == Table(F) /\ w \in Seq(Nat) /\ Reading(F, w, v)

LEMMA OpensTo ==
  ASSUME NEW F, NEW S, Section(F, {}, S), NEW w \in Seq(Nat), Complete(ReadFields(F, w), w)
  PROVE  Opened(F, w, ReadFields(F, w).value)
  BY PartTable, ReadGives DEF Section, Opened

\* What is read is what is written, if it is for the fields that are not plain.
LEMMA WrittenAsRead ==
  ASSUME NEW F, NEW S, Section(F, {}, S), NEW w, NEW v, Opened(F, w, v),
         \A f \in Range(F) : f \in S /\ Extent(v, f) # 0 => Written(Meaning(F, v), f) = v[f.name]
  PROVE  WriteAll(F, Meaning(F, v)) = w
  <1> DEFINE m == Meaning(F, v)
  <1>1. Table(F) /\ Reading(F, w, v)
    BY DEF Opened
  <1>2. DOMAIN F = 1..Len(F) /\ \A i \in 1..Len(F) : F[i] \in Range(F)
    BY <1>1, TableLen DEF Range
  <1>3. \A g \in Range(F) : g.role = "data" => m[g.name] = v[g.name]
    BY MembersAre, MeaningIs
  <1> HIDE DEF m
  <1>4. \A f \in Range(F) : Extent(v, f) # 0 => Written(m, f) = v[f.name]
    <2> TAKE f \in Range(F)
    <2> HAVE Extent(v, f) # 0
    <2>1. CASE Plain(f, Range(F))
      BY <1>1, <1>3, <2>1, PlainWritten
    <2>2. CASE f \in S
      BY <2>2 DEF m
    <2>3. QED BY <2>1, <2>2 DEF Section
  <1>5. WriteAll(F, m) = FlattenSeq(Pieces(F, v))
    <2>1. v \in [NamesTo(F, Len(F)) -> Seq(Nat)] /\ \A i \in 1..Len(F) : Fits(v, F[i])
      BY <1>1 DEF Reading
    <2>2. \A i \in 1..Len(F) : Extent(v, F[i]) # 0 => Written(m, F[i]) = v[F[i].name]
      BY <1>2, <1>4
    <2>3. QED BY <1>1, <2>1, <2>2, WritesPieces
  <1>6. QED BY <1>1, <1>5 DEF m, Reading

LEMMA ReadIn ==
  ASSUME NEW F, NEW w, NEW v, Opened(F, w, v), NEW f \in Range(F)
  PROVE  /\ v[f.name] \in Seq(f.codes) /\ v[f.name] \in Seq(Nat) /\ Len(v[f.name]) = Extent(v, f)
         /\ f.name \in DOMAIN v
         /\ f.of = "" \/ (f.of \in DOMAIN v /\ v[f.of] \in Seq(Nat))
  <1>1. Table(F) /\ Reading(F, w, v)
    BY DEF Opened
  <1>2. DOMAIN F = 1..Len(F)
    BY <1>1, TableLen
  <1>3. QED BY <1>1, <1>2, OfRead DEF Range, Reading, NamesTo, Fits

LEMMA OneThere ==
  ASSUME NEW c \in Seq(Nat), Len(c) = 1
  PROVE  c # <<>>
  <1>1. c # <<>> <=> Len(c) # 0
    BY EmptySeq
  <1>2. Len(c) # 0
    OBVIOUS
  <1>3. QED BY <1>1, <1>2

\* A name that is one.
Named(n) == n # ""

\* A field that is always there, and one that is there when another one says so.
LEMMA ReadAlways ==
  ASSUME NEW F, NEW w, NEW v, Opened(F, w, v), NEW f \in Range(F), f.of = ""
  PROVE  Has(v, f.name) /\ The(v, f.name) \in f.codes /\ v[f.name] = <<The(v, f.name)>> /\ Extent(v, f) = 1
  <1>1. Extent(v, f) = 1
    BY DEF Extent
  <1>2. v[f.name] \in Seq(f.codes) /\ v[f.name] \in Seq(Nat) /\ Len(v[f.name]) = 1
    BY <1>1, ReadIn
  <1>3. v[f.name] = <<v[f.name][1]>> /\ v[f.name][1] \in f.codes
    BY <1>2, OneCell
  <1>4. v[f.name] # <<>>
    BY <1>2, OneThere
  <1>5. QED BY <1>1, <1>3, <1>4 DEF Has, The

LEMMA ReadWhen ==
  ASSUME NEW F, NEW w, NEW v, Opened(F, w, v), NEW f \in Range(F), Named(f.of), f.when # {}, Has(v, f.of)
  PROVE  /\ Has(v, f.name) <=> The(v, f.of) \in f.when
         /\ Extent(v, f) # 0 <=> The(v, f.of) \in f.when
         /\ The(v, f.of) \in f.when =>
              The(v, f.name) \in f.codes /\ v[f.name] = <<The(v, f.name)>>
  <1>1. Extent(v, f) = IF The(v, f.of) \in f.when THEN 1 ELSE 0
    BY DEF Extent, Named
  <1>2. v[f.name] \in Seq(f.codes) /\ v[f.name] \in Seq(Nat) /\ Len(v[f.name]) = Extent(v, f)
    BY ReadIn
  <1>3. v[f.name] # <<>> <=> Len(v[f.name]) # 0
    BY <1>2, EmptySeq
  <1>4. Len(v[f.name]) = 1 => v[f.name] = <<v[f.name][1]>> /\ v[f.name][1] \in f.codes
    BY <1>2, OneCell
  <1>5. QED BY <1>1, <1>2, <1>3, <1>4 DEF Has, The

LEMMA ReadVariant ==
  ASSUME NEW F, NEW w, NEW v, Opened(F, w, v), NEW n, NEW c, Variant(n, c) \in Range(F)
  PROVE  Has(v, n) /\ The(v, n) \in c /\ v[n] = <<The(v, n)>>
  <1> DEFINE f == Variant(n, c)
  <1>1. f.name = n /\ f.codes = c
    BY NamesSay, CodesSay
  <1>2. f.of = ""
    BY FreeForms
  <1> HIDE DEF f
  <1>3. QED BY <1>1, <1>2, ReadAlways DEF f

\* A member that another one says is there.
LEMMA ReadOptional ==
  ASSUME NEW F, NEW w, NEW v, Opened(F, w, v), NEW of, Named(of), NEW when, when # {}, NEW n, NEW c,
         When(of, when, Field(n, c)) \in Range(F), Has(v, of)
  PROVE  /\ Has(v, n) <=> The(v, of) \in when
         /\ The(v, of) \in when => The(v, n) \in c /\ v[n] = <<The(v, n)>>
         /\ ~(The(v, of) \in when) => v[n] = <<>>
  <1> DEFINE f == When(of, when, Field(n, c))
  <1>1. f.name = n /\ f.codes = c /\ f.of = of /\ f.when = when
    BY NamesSay, CodesSay, BoundForms, WhensSay
  <1> HIDE DEF f
  <1>2. /\ Has(v, f.name) <=> The(v, f.of) \in f.when
        /\ The(v, f.of) \in f.when => The(v, f.name) \in f.codes /\ v[f.name] = <<The(v, f.name)>>
    BY <1>1, ReadWhen DEF f
  <1>3. QED BY <1>1, <1>2 DEF Has

LEMMA ReadOptionalVariant ==
  ASSUME NEW F, NEW w, NEW v, Opened(F, w, v), NEW of, Named(of), NEW when, when # {}, NEW n, NEW c,
         When(of, when, Variant(n, c)) \in Range(F), Has(v, of)
  PROVE  /\ Has(v, n) <=> The(v, of) \in when
         /\ The(v, of) \in when => The(v, n) \in c /\ v[n] = <<The(v, n)>>
         /\ ~(The(v, of) \in when) => v[n] = <<>>
         /\ Extent(v, When(of, when, Variant(n, c))) # 0 => The(v, of) \in when
  <1> DEFINE f == When(of, when, Variant(n, c))
  <1>1. f.name = n /\ f.codes = c /\ f.of = of /\ f.when = when
    BY NamesSay, CodesSay, BoundForms, WhensSay
  <1> HIDE DEF f
  <1>2. /\ Has(v, f.name) <=> The(v, f.of) \in f.when
        /\ The(v, f.of) \in f.when => The(v, f.name) \in f.codes /\ v[f.name] = <<The(v, f.name)>>
        /\ Extent(v, f) # 0 <=> The(v, f.of) \in f.when
    BY <1>1, ReadWhen DEF f
  <1>3. QED BY <1>1, <1>2 DEF Has, f

\* A member means what was read.
LEMMA MeansRead ==
  ASSUME NEW F, NEW B, NEW S, Section(F, B, S), NEW v, NEW n, NEW c,
         Field(n, c) \in Range(F) \/ \E of, when : When(of, when, Field(n, c)) \in Range(F)
  PROVE  Meaning(F, v)[n] = v[n] /\ n \in Members(F)
  <1>1. PICK f \in Range(F) : f = Field(n, c) \/ \E of, when : f = When(of, when, Field(n, c))
    OBVIOUS
  <1>2. f.name = n
    BY <1>1, NamesSay
  <1>3. f.role = "data"
    BY <1>1, RolesSay
  <1>4. n \in Members(F)
    BY <1>1, <1>2, <1>3, MembersAre
  <1>5. QED BY <1>4, MeaningIs

\* A field that is always there, by its form.
LEMMA VariantRole ==
  ASSUME NEW n, NEW c
  PROVE  /\ Variant(n, c).role = n /\ Variant(n, c).name = n
         /\ \A of, when : When(of, when, Variant(n, c)).role = n /\ When(of, when, Variant(n, c)).name = n
  BY DEF Variant, When, Base

LEMMA TwoOf ==
  ASSUME NEW m, NEW a, NEW b, a # b
  PROVE  LET S == {g \in {a, b} : Has(m, g)}
         IN /\ Has(m, a) /\ Has(m, b) => Cardinality(S) = 2
            /\ Has(m, a) /\ ~Has(m, b) => Cardinality(S) = 1
            /\ ~Has(m, a) /\ Has(m, b) => Cardinality(S) = 1
            /\ ~Has(m, a) /\ ~Has(m, b) => Cardinality(S) = 0
  <1> DEFINE S == {g \in {a, b} : Has(m, g)}
  <1>1. /\ Has(m, a) /\ Has(m, b) => S = {a} \cup {b}
        /\ Has(m, a) /\ ~Has(m, b) => S = {a}
        /\ ~Has(m, a) /\ Has(m, b) => S = {b}
        /\ ~Has(m, a) /\ ~Has(m, b) => S = {}
    OBVIOUS
  <1>2. /\ \A x : IsFiniteSet({x}) /\ Cardinality({x}) = 1
        /\ IsFiniteSet({}) /\ Cardinality({}) = 0
    BY FS_Singleton, FS_EmptySet
  <1>3. Cardinality({a} \cup {b}) = 2
    <2>1. Cardinality({a} \cup {b}) = Cardinality({a}) + 1
      BY <1>2, FS_AddElement
    <2>2. Cardinality({a}) = 1
      BY <1>2
    <2>3. QED BY <2>1, <2>2
  <1> HIDE DEF S
  <1>4. QED BY <1>1, <1>2, <1>3 DEF S

\* The ring's count.
LEMMA CountWritten ==
  ASSUME NEW F, NEW S, Section(F, {}, S), NEW w, NEW v, Opened(F, w, v), Range(ring_format) \subseteq Range(F)
  PROVE  Written(Meaning(F, v), Variant("count", 0..2)) = v["count"]
  <1> DEFINE m == Meaning(F, v)
             c == The(v, "count")
  <1>2. /\ Variant("count", 0..2) \in Range(F)
        /\ When("count", {1, 2}, Field("generation1", NonZeroCell)) \in Range(F)
        /\ When("count", {2}, Field("generation2", NonZeroCell)) \in Range(F)
    BY RingPart
  <1>3. Named("count") /\ {1, 2} # {} /\ {2} # {}
    BY DEF Named
  <1>5. Has(v, "count") /\ c \in 0..2 /\ v["count"] = <<c>>
    BY <1>2, ReadVariant
  <1> HIDE DEF c
  <1>a. Has(v, "count")
    BY <1>5
  <1>6. Has(v, "generation1") <=> The(v, "count") \in {1, 2}
    BY <1>2, <1>3, <1>a, ReadOptional
  <1>7. Has(v, "generation2") <=> The(v, "count") \in {2}
    BY <1>2, <1>3, <1>a, ReadOptional
  <1>8. m["generation1"] = v["generation1"] /\ m["generation2"] = v["generation2"]
    BY <1>2, MeansRead
  <1> HIDE DEF m
  <1>9. Has(m, "generation1") <=> c \in {1, 2}
    BY <1>6, <1>8 DEF Has, c
  <1>10. Has(m, "generation2") <=> c \in {2}
    BY <1>7, <1>8 DEF Has, c
  <1> DEFINE k == Cardinality({g \in {"generation1", "generation2"} : Has(m, g)})
  <1>11. k = c
    <2>1. "generation1" # "generation2"
      OBVIOUS
    <2>2. /\ Has(m, "generation1") /\ Has(m, "generation2") => k = 2
          /\ Has(m, "generation1") /\ ~Has(m, "generation2") => k = 1
          /\ ~Has(m, "generation1") /\ ~Has(m, "generation2") => k = 0
      BY <2>1, TwoOf
    <2> HIDE DEF k
    <2>3. QED BY <1>5, <1>9, <1>10, <2>2
  <1> DEFINE f == Variant("count", 0..2)
  <1>12. f.role = "count" /\ f.name = "count"
    BY VariantRole
  <1> HIDE DEF f
  <1>13. Written(m, f) = <<k>>
    BY <1>12 DEF Written
  <1>14. QED BY <1>5, <1>11, <1>12, <1>13 DEF f, m

\* The mirror of a value, and the times of a command.
LEMMA MirrorWritten ==
  ASSUME NEW F, NEW S, Section(F, {}, S), NEW w, NEW v, Opened(F, w, v), Range(mirror_fields) \subseteq Range(F)
  PROVE  Written(Meaning(F, v), Variant("mirror", 0..2)) = v["mirror"]
  <1> DEFINE m == Meaning(F, v)
             c == The(v, "mirror")
             f == Variant("mirror", 0..2)
  <1>1. /\ Variant("mirror", 0..2) \in Range(F)
        /\ When("mirror", {1, 2}, Field("origin", AnyCell)) \in Range(F)
        /\ When("mirror", {2}, Field("post", AnyCell)) \in Range(F)
    BY MirrorPart
  <1>2. Named("mirror") /\ {1, 2} # {} /\ {2} # {}
    BY DEF Named
  <1>3. Has(v, "mirror") /\ c \in 0..2 /\ v["mirror"] = <<c>>
    BY <1>1, ReadVariant
  <1>4. Has(v, "origin") <=> c \in {1, 2}
    BY <1>1, <1>2, <1>3, ReadOptional
  <1>5. Has(v, "post") <=> c \in {2}
    BY <1>1, <1>2, <1>3, ReadOptional
  <1>6. m["origin"] = v["origin"] /\ m["post"] = v["post"]
    BY <1>1, MeansRead
  <1> HIDE DEF m, c
  <1>7. (Has(m, "origin") <=> c \in {1, 2}) /\ (Has(m, "post") <=> c \in {2})
    BY <1>4, <1>5, <1>6 DEF Has
  <1>8. f.role = "mirror" /\ f.name = "mirror"
    BY VariantRole
  <1> HIDE DEF f
  <1>9. Written(m, f) = <<IF ~Has(m, "origin") THEN 0 ELSE IF ~Has(m, "post") THEN 1 ELSE 2>>
    BY <1>8 DEF Written
  <1>10. (IF ~Has(m, "origin") THEN 0 ELSE IF ~Has(m, "post") THEN 1 ELSE 2) = c
    BY <1>3, <1>7
  <1>11. QED BY <1>3, <1>8, <1>9, <1>10 DEF f, m

LEMMA RetentionWritten ==
  ASSUME NEW F, NEW S, Section(F, {}, S), NEW w, NEW v, Opened(F, w, v), Range(retention_fields) \subseteq Range(F),
         validate_retention(v)
  PROVE  Written(Meaning(F, v), Variant("retention", {1, 2})) = v["retention"]
  <1> DEFINE m == Meaning(F, v)
             c == The(v, "retention")
             f == Variant("retention", {1, 2})
  <1>1. When("terminal_time?", {1}, Field("terminal_time", AnyCell)) \in Range(F)
    <2>2. When("terminal_time?", {1}, Field("terminal_time", AnyCell)) \in
            Range(Option("terminal_time?", "terminal_time", AnyCell))
      BY OptionMember
    <2>3. Range(Option("terminal_time?", "terminal_time", AnyCell)) \subseteq Range(retention_fields)
      BY RetentionPart
    <2>4. QED BY <2>2, <2>3
  <1>2. f \in Range(F)
    <2>1. f \in Range(retention_head)
      BY RetentionHead
    <2>2. Range(retention_head) \subseteq Range(retention_fields)
      BY RetentionPart
    <2>3. QED BY <2>1, <2>2
  <1>3. Has(v, "retention") /\ c \in {1, 2} /\ v["retention"] = <<c>>
    BY <1>2, ReadVariant
  <1>4. m["terminal_time"] = v["terminal_time"]
    BY <1>1, MeansRead
  <1>5. Has(v, "terminal_time") <=> c # 1
    BY DEF validate_retention
  <1> HIDE DEF m, c
  <1>6. Has(m, "terminal_time") <=> c # 1
    BY <1>4, <1>5 DEF Has
  <1>7. f.role = "retention" /\ f.name = "retention"
    BY VariantRole
  <1> HIDE DEF f
  <1>8. Written(m, f) = <<IF Has(m, "terminal_time") THEN 2 ELSE 1>>
    BY <1>7 DEF Written
  <1>9. (IF Has(m, "terminal_time") THEN 2 ELSE 1) = c
    BY <1>3, <1>6
  <1>10. QED BY <1>3, <1>7, <1>8, <1>9 DEF f, m

\* The digests of a profile: how many, which, and in which slots.
Slots(v, m) ==
  LET d == The(v, "digests") IN
  /\ Has(v, "digests") /\ v["digests"] = <<d>> /\ d \in 0..2
  /\ d = 0 => ~Has(m, "issuance") /\ ~Has(m, "confirmation")
  /\ d = 1 => \/ /\ v["kind1"] = <<1>> /\ Has(m, "issuance") /\ ~Has(m, "confirmation")
                 /\ m["issuance"] = v["digest1"]
              \/ /\ v["kind1"] = <<2>> /\ ~Has(m, "issuance") /\ Has(m, "confirmation")
                 /\ m["confirmation"] = v["digest1"]
  /\ d = 2 => /\ v["kind1"] = <<1>> /\ v["kind2"] = <<2>> /\ Has(m, "issuance") /\ Has(m, "confirmation")
              /\ m["issuance"] = v["digest1"] /\ m["confirmation"] = v["digest2"]

LEMMA SlotsRead ==
  ASSUME NEW F, NEW w, NEW v, Opened(F, w, v), Range(profile_format) \subseteq Range(F),
         "issuance" \notin Members(F), "confirmation" \notin Members(F), validate_profile(v)
  PROVE  Slots(v, Meaning(F, v))
  <1> DEFINE m == Meaning(F, v)
  <1>a. Variant("digests", 0..2) \in Range(F)
    BY ProfilePart
  <1>b. When("digests", {1, 2}, Variant("kind1", {1, 2})) \in Range(F)
    BY ProfilePart
  <1>c. When("digests", {1, 2}, Variant("digest1", AnyCell)) \in Range(F)
    BY ProfilePart
  <1>d. When("digests", {2}, Variant("kind2", {1, 2})) \in Range(F)
    BY ProfilePart
  <1>e. When("digests", {2}, Variant("digest2", AnyCell)) \in Range(F)
    BY ProfilePart
  <1>1. {1, 2} # {} /\ {2} # {}
    OBVIOUS
  <1>2. Named("digests")
    BY DEF Named
  <1>3. Has(v, "digests") /\ The(v, "digests") \in 0..2 /\ v["digests"] = <<The(v, "digests")>>
    BY <1>a, ReadVariant
  <1>4. Has(v, "digests")
    BY <1>3
  <1>5. /\ Has(v, "kind1") <=> The(v, "digests") \in {1, 2}
        /\ The(v, "digests") \in {1, 2} => The(v, "kind1") \in {1, 2} /\ v["kind1"] = <<The(v, "kind1")>>
    BY <1>b, <1>1, <1>2, <1>4, ReadOptionalVariant
  <1>6. Has(v, "digest1") <=> The(v, "digests") \in {1, 2}
    BY <1>c, <1>1, <1>2, <1>4, ReadOptionalVariant
  <1>7. /\ Has(v, "kind2") <=> The(v, "digests") \in {2}
        /\ The(v, "digests") \in {2} => The(v, "kind2") \in {1, 2} /\ v["kind2"] = <<The(v, "kind2")>>
    <2> DEFINE when == {2}
    <2> HIDE DEF when
    <2>1. when # {} /\ When("digests", when, Variant("kind2", {1, 2})) \in Range(F)
      BY <1>d DEF when
    <2>2. /\ Has(v, "kind2") <=> The(v, "digests") \in when
          /\ The(v, "digests") \in when => The(v, "kind2") \in {1, 2} /\ v["kind2"] = <<The(v, "kind2")>>
      BY <1>2, <1>4, <2>1, ReadOptionalVariant
    <2>3. QED BY <2>2 DEF when
  <1>8. Has(v, "digest2") <=> The(v, "digests") \in {2}
    BY <1>e, <1>1, <1>2, <1>4, ReadOptionalVariant
  <1>9. "kind1" \in DOMAIN v
    <2>1. When("digests", {1, 2}, Variant("kind1", {1, 2})).name = "kind1"
      BY NamesSay
    <2>2. QED BY <1>b, <2>1, ReadIn
  <1>10. m["issuance"] = Slot(v, 1) /\ m["confirmation"] = Slot(v, 2)
    BY <1>9 DEF Meaning
  <1> HIDE DEF m
  <1> DEFINE d == The(v, "digests")
             k1 == The(v, "kind1")
             k2 == The(v, "kind2")
  <1>11. d = 0 => ~Has(m, "issuance") /\ ~Has(m, "confirmation")
    BY <1>5, <1>7, <1>10 DEF Has, Slot
  <1>12. ASSUME d = 1
         PROVE  \/ /\ v["kind1"] = <<1>> /\ Has(m, "issuance") /\ ~Has(m, "confirmation")
                   /\ m["issuance"] = v["digest1"]
                \/ /\ v["kind1"] = <<2>> /\ ~Has(m, "issuance") /\ Has(m, "confirmation")
                   /\ m["confirmation"] = v["digest1"]
    <2>1. Has(v, "kind1") /\ k1 \in {1, 2} /\ v["kind1"] = <<k1>> /\ Has(v, "digest1") /\ ~Has(v, "kind2")
      BY <1>5, <1>6, <1>7, <1>12
    <2>2. CASE k1 = 1
      <3>1. Slot(v, 1) = v["digest1"] /\ Slot(v, 2) = <<>>
        BY <2>1, <2>2 DEF Slot
      <3>2. QED BY <1>10, <2>1, <2>2, <3>1 DEF Has
    <2>3. CASE k1 = 2
      <3>1. Slot(v, 1) = <<>> /\ Slot(v, 2) = v["digest1"]
        BY <2>1, <2>3 DEF Slot
      <3>2. QED BY <1>10, <2>1, <2>3, <3>1 DEF Has
    <2>4. QED BY <2>1, <2>2, <2>3
  <1>13. ASSUME d = 2
         PROVE  /\ v["kind1"] = <<1>> /\ v["kind2"] = <<2>> /\ Has(m, "issuance") /\ Has(m, "confirmation")
                /\ m["issuance"] = v["digest1"] /\ m["confirmation"] = v["digest2"]
    <2>1. /\ Has(v, "kind1") /\ k1 \in {1, 2} /\ v["kind1"] = <<k1>> /\ Has(v, "digest1")
          /\ Has(v, "kind2") /\ k2 \in {1, 2} /\ v["kind2"] = <<k2>> /\ Has(v, "digest2")
      BY <1>5, <1>6, <1>7, <1>8, <1>13
    <2>2. k1 < k2
      BY <2>1 DEF validate_profile
    <2> HIDE DEF k1, k2
    <2>3. k1 = 1 /\ k2 = 2
      BY <2>1, <2>2
    <2>4. Slot(v, 1) = v["digest1"] /\ Slot(v, 2) = v["digest2"]
      BY <2>1, <2>3 DEF Slot, k1, k2
    <2>5. QED BY <1>10, <2>1, <2>3, <2>4 DEF Has
  <1>14. QED BY <1>3, <1>11, <1>12, <1>13 DEF Slots, m

LEMMA DigestsCounted ==
  ASSUME NEW v, NEW m, Slots(v, m)
  PROVE  Cardinality({g \in {"issuance", "confirmation"} : Has(m, g)}) = The(v, "digests")
  <1> DEFINE k == Cardinality({g \in {"issuance", "confirmation"} : Has(m, g)})
             d == The(v, "digests")
  <1>1. "issuance" # "confirmation"
    OBVIOUS
  <1>2. /\ Has(m, "issuance") /\ Has(m, "confirmation") => k = 2
        /\ Has(m, "issuance") /\ ~Has(m, "confirmation") => k = 1
        /\ ~Has(m, "issuance") /\ Has(m, "confirmation") => k = 1
        /\ ~Has(m, "issuance") /\ ~Has(m, "confirmation") => k = 0
    BY <1>1, TwoOf
  <1> HIDE DEF k
  <1>3. /\ d \in 0..2
        /\ d = 0 => ~Has(m, "issuance") /\ ~Has(m, "confirmation")
        /\ d = 1 => (Has(m, "issuance") /\ ~Has(m, "confirmation")) \/ (~Has(m, "issuance") /\ Has(m, "confirmation"))
        /\ d = 2 => Has(m, "issuance") /\ Has(m, "confirmation")
    BY DEF Slots
  <1> HIDE DEF d
  <1>4. d = 0 \/ d = 1 \/ d = 2
    BY <1>3
  <1>5. QED BY <1>2, <1>3, <1>4 DEF k, d

\* Each computed field of a profile is written as it was read.
LEMMA ProfileWritten ==
  ASSUME NEW F, NEW w, NEW v, Opened(F, w, v), NEW m, Slots(v, m), Range(profile_format) \subseteq Range(F),
         Range(unbound_fields) \subseteq Range(F), The(v, "profile_length") = 3 + 2 * The(v, "digests")
  PROVE  /\ Written(m, Variant("profile_length", {3, 5, 7})) = v["profile_length"]
         /\ Written(m, Variant("digests", 0..2)) = v["digests"]
         /\ \A f \in profile_computed : Extent(v, f) # 0 => Written(m, f) = v[f.name]
  <1> DEFINE d == The(v, "digests")
             k == Cardinality({g \in {"issuance", "confirmation"} : Has(m, g)})
             f0 == Variant("profile_length", {3, 5, 7})
             f1 == Variant("digests", 0..2)
             f2 == When("digests", {1, 2}, Variant("kind1", {1, 2}))
             f3 == When("digests", {1, 2}, Variant("digest1", AnyCell))
             f4 == When("digests", {2}, Variant("kind2", {1, 2}))
             f5 == When("digests", {2}, Variant("digest2", AnyCell))
  <1>a. f0 \in Range(F)
    BY UnboundPart
  <1>b. f2 \in Range(F) /\ f3 \in Range(F) /\ f4 \in Range(F) /\ f5 \in Range(F)
    BY ProfilePart
  <1>c. v["profile_length"] = <<The(v, "profile_length")>>
    BY <1>a, ReadVariant
  <1>d. Has(v, "digests") /\ v["digests"] = <<d>> /\ d \in 0..2
    BY DEF Slots
  <1>e. f2.of = "digests" /\ f3.of = "digests" /\ f4.of = "digests" /\ f5.of = "digests"
    BY BoundForms
  <1>f. f2.when = {1, 2} /\ f3.when = {1, 2} /\ f4.when = {2} /\ f5.when = {2}
    BY WhensSay
  <1>g. /\ f0.role = "profile_length" /\ f1.role = "digests" /\ f2.role = "kind1" /\ f3.role = "digest1"
        /\ f4.role = "kind2" /\ f5.role = "digest2"
    BY VariantRole
  <1>h. f2.name = "kind1" /\ f3.name = "digest1" /\ f4.name = "kind2" /\ f5.name = "digest2"
    BY VariantRole
  <1> HIDE DEF f0, f1, f2, f3, f4, f5
  <1>1. k = d
    BY DigestsCounted
  <1>2. Written(m, f0) = <<3 + 2 * k>> /\ Written(m, f1) = <<k>>
    BY <1>g DEF Written
  <1> HIDE DEF k
  <1>3. Named("digests")
    BY DEF Named
  <1>4. ASSUME NEW f \in {f2, f3}, Extent(v, f) # 0 PROVE d = 1 \/ d = 2
    <2>1. d \in {1, 2}
      <3>1. f.of = "digests" /\ f.when = {1, 2} /\ {1, 2} # {} /\ f \in Range(F)
        BY <1>b, <1>e, <1>f
      <3>2. QED BY <1>3, <1>4, <1>d, <3>1, ReadWhen
    <2>2. QED BY <2>1
  <1>5. ASSUME NEW f \in {f4, f5}, Extent(v, f) # 0 PROVE d = 2
    <2>1. d \in {2}
      <3>1. f.of = "digests" /\ f.when = {2} /\ {2} # {} /\ f \in Range(F)
        BY <1>b, <1>e, <1>f
      <3>2. QED BY <1>3, <1>5, <1>d, <3>1, ReadWhen
    <2>2. QED BY <2>1
  <1>6. /\ Written(m, f2) = <<IF Has(m, "issuance") THEN 1 ELSE 2>>
        /\ Written(m, f3) = IF Has(m, "issuance") THEN m["issuance"] ELSE m["confirmation"]
        /\ Written(m, f4) = <<2>> /\ Written(m, f5) = m["confirmation"]
    BY <1>g DEF Written
  <1>7. d = 1 \/ d = 2 => Written(m, f2) = v["kind1"] /\ Written(m, f3) = v["digest1"]
    BY <1>6 DEF Slots
  <1>8. d = 2 => Written(m, f4) = v["kind2"] /\ Written(m, f5) = v["digest2"]
    BY <1>6 DEF Slots
  <1>9. \A f \in {f2, f3, f4, f5} : Extent(v, f) # 0 => Written(m, f) = v[f.name]
    BY <1>4, <1>5, <1>7, <1>8, <1>h
  <1>10. Written(m, f0) = v["profile_length"]
    BY <1>1, <1>2, <1>c
  <1>11. Written(m, f1) = v["digests"]
    BY <1>1, <1>2, <1>d
  <1>12. QED BY <1>9, <1>10, <1>11 DEF f0, f1, f2, f3, f4, f5, profile_computed

\* A phase or a receipt: which one, and how long it is.  N holds the members of a
\* phase.
LEMMA ActionWritten ==
  ASSUME NEW F, NEW S, Section(F, {}, S), NEW w, NEW v, Opened(F, w, v),
         Range(action_head) \subseteq Range(F), Range(receipt_fields) \subseteq Range(F),
         NEW N, Members(F) = N \cup {"post.sequence", "post.digest"},
         "kind1" \notin DOMAIN v,
         \A n \in N : Has(v, n) <=> The(v, "action") \in {2},
         "post.sequence" \notin N, "post.digest" \notin N,
         The(v, "payload") = IF The(v, "action") = 3 THEN 2 ELSE 1 + Cardinality(N)
  PROVE  /\ Written(Meaning(F, v), Variant("action", {2, 3})) = v["action"]
         /\ Written(Meaning(F, v), Variant("payload", AnyCell)) = v["payload"]
  <1> DEFINE m == Meaning(F, v)
             a == The(v, "action")
             f == Variant("action", {2, 3})
             g == Variant("payload", AnyCell)
             has == {n \in DOMAIN m : Has(m, n)}
  <1>1. f \in Range(F) /\ g \in Range(F)
    BY ActionHead
  <1>2. Has(v, "action") /\ a \in {2, 3} /\ v["action"] = <<a>>
    BY <1>1, ReadVariant
  <1>3. v["payload"] = <<The(v, "payload")>>
    BY <1>1, ReadVariant
  <1>4. /\ When("action", {3}, Field("post.sequence", AnyCell)) \in Range(F)
        /\ When("action", {3}, Field("post.digest", AnyCell)) \in Range(F)
    <2>1. PICK B : "action" \in B
      <3>1. "action" \in {"action"}
        OBVIOUS
      <3>2. QED BY <3>1
    <2>2. QED BY <2>1, ReceiptPart
  <1>5. Named("action") /\ {3} # {}
    BY DEF Named
  <1>6. (Has(v, "post.sequence") <=> The(v, "action") \in {3}) /\ (Has(v, "post.digest") <=> The(v, "action") \in {3})
    <2> DEFINE when == {3}
    <2>1. /\ when # {} /\ When("action", when, Field("post.sequence", AnyCell)) \in Range(F)
          /\ When("action", when, Field("post.digest", AnyCell)) \in Range(F)
      BY <1>4
    <2> HIDE DEF when
    <2>2. Has(v, "post.sequence") <=> The(v, "action") \in when
      BY <1>2, <1>5, <2>1, ReadOptional
    <2>3. Has(v, "post.digest") <=> The(v, "action") \in when
      BY <1>2, <1>5, <2>1, ReadOptional
    <2>4. QED BY <2>2, <2>3 DEF when
  <1>7. DOMAIN m = N \cup {"post.sequence", "post.digest"} /\ \A n \in DOMAIN m : m[n] = v[n]
    BY DEF Meaning
  <1>8. f.role = "action" /\ g.role = "payload"
    BY VariantRole
  <1> HIDE DEF f, g, m
  <1>9. /\ Written(m, f) = <<IF Has(m, "post.sequence") THEN 3 ELSE 2>>
        /\ Written(m, g) = <<IF Has(m, "post.sequence") THEN 2 ELSE 1 + Cardinality(has)>>
    BY <1>8 DEF Written
  <1>10. Has(m, "post.sequence") <=> a \in {3}
    BY <1>6, <1>7 DEF Has
  <1> HIDE DEF a
  <1>11. Written(m, f) = v["action"]
    BY <1>2, <1>9, <1>10
  <1>12. CASE a = 3
    BY <1>3, <1>9, <1>10, <1>11, <1>12 DEF a, f, g, m
  <1>13. CASE a = 2
    <2>1. has = N
      BY <1>6, <1>7, <1>13 DEF Has, a
    <2>2. Written(m, g) = <<1 + Cardinality(N)>>
      BY <1>9, <1>10, <1>13, <2>1
    <2>3. The(v, "payload") = 1 + Cardinality(N)
      BY <1>13 DEF a
    <2>4. QED BY <1>3, <1>11, <2>2, <2>3 DEF f, g, m
  <1>14. QED BY <1>2, <1>12, <1>13

LEMMA AckActionMembers ==
  /\ Members(action_format("ack")) = {"phase", "settled_time", "settled"} \cup {"post.sequence", "post.digest"}
  /\ Cardinality({"phase", "settled_time", "settled"}) = 3 /\ Len(result_fields("ack")) = 3
  <1> DEFINE F == action_format("ack")
             x1 == Const("format", 1)
             x2 == Variant("action", {2, 3})
             x3 == Variant("payload", AnyCell)
             x4 == When("action", {2}, Field("phase", AnyCell))
             x5 == When("action", {2}, Const("result_codec", 7))
             x6 == When("action", {2}, Field("settled_time", AnyCell))
             x7 == When("action", {2}, Field("settled", Flags))
             x8 == When("action", {3}, Field("post.sequence", AnyCell))
             x9 == When("action", {3}, Field("post.digest", AnyCell))
  <1>1. Range(F) = {x1, x2, x3, x4, x5, x6, x7, x8, x9}
    <2>1. PICK B : "action" \in B
      <3>1. "action" \in {"action"}
        OBVIOUS
      <3>2. QED BY <3>1
    <2>2. Range(action_head) = {x1, x2, x3, x4}
      BY ActionHead
    <2>3. Range(ack_action_result) = {x5, x6, x7}
      BY <2>1, AckActionResult
    <2>4. Range(receipt_fields) = {x8, x9}
      BY <2>1, ReceiptPart
    <2>5. Range(F) = Range(action_head) \cup Range(ack_action_result) \cup Range(receipt_fields)
      BY AckActionTable
    <2> HIDE DEF x1, x2, x3, x4, x5, x6, x7, x8, x9, F
    <2>6. QED BY <2>2, <2>3, <2>4, <2>5
  <1>2. /\ x1.role = "const" /\ x4.role = "data" /\ x5.role = "const" /\ x6.role = "data" /\ x7.role = "data"
        /\ x8.role = "data" /\ x9.role = "data"
    BY RolesSay
  <1>3. x2.role = "action" /\ x3.role = "payload"
    BY VariantRole
  <1>4. /\ x4.name = "phase" /\ x6.name = "settled_time" /\ x7.name = "settled" /\ x8.name = "post.sequence"
        /\ x9.name = "post.digest"
    BY NamesSay
  <1>5. Members(F) = {g.name : g \in {f \in Range(F) : f.role = "data"}}
    BY AckActionTable, MembersAre
  <1> HIDE DEF F, x1, x2, x3, x4, x5, x6, x7, x8, x9
  <1>6. {f \in Range(F) : f.role = "data"} = {x4, x6, x7, x8, x9}
    BY <1>1, <1>2, <1>3
  <1>7. Members(F) = {"phase", "settled_time", "settled"} \cup {"post.sequence", "post.digest"}
    BY <1>4, <1>5, <1>6
  <1>8. Cardinality({"phase", "settled_time", "settled"}) = 3
    <2>1. IsFiniteSet({"phase"}) /\ Cardinality({"phase"}) = 1
      BY FS_Singleton
    <2>2. {"phase", "settled_time"} = {"phase"} \cup {"settled_time"} /\ "settled_time" \notin {"phase"}
      OBVIOUS
    <2>3. IsFiniteSet({"phase", "settled_time"}) /\ Cardinality({"phase", "settled_time"}) = 2
      <3>1. /\ IsFiniteSet({"phase"} \cup {"settled_time"})
            /\ Cardinality({"phase"} \cup {"settled_time"}) = Cardinality({"phase"}) + 1
        BY <2>1, <2>2, FS_AddElement
      <3>2. QED BY <2>1, <2>2, <3>1
    <2>4. /\ {"phase", "settled_time", "settled"} = {"phase", "settled_time"} \cup {"settled"}
          /\ "settled" \notin {"phase", "settled_time"}
      OBVIOUS
    <2>5. IsFiniteSet({"phase", "settled_time", "settled"}) /\ Cardinality({"phase", "settled_time", "settled"}) = 3
      <3>1. /\ IsFiniteSet({"phase", "settled_time"} \cup {"settled"})
            /\ Cardinality({"phase", "settled_time"} \cup {"settled"}) = Cardinality({"phase", "settled_time"}) + 1
        BY <2>3, <2>4, FS_AddElement
      <3>2. QED BY <2>3, <2>4, <3>1
    <2>6. QED BY <2>5
  <1>9. Len(result_fields("ack")) = 3
    BY DEF result_fields
  <1>10. QED BY <1>7, <1>8, <1>9 DEF F

LEMMA AckActionWritten ==
  ASSUME NEW w, NEW v, Opened(action_format("ack"), w, v), validate_action("ack", v)
  PROVE  WriteAll(action_format("ack"), Meaning(action_format("ack"), v)) = w
  <1> DEFINE F == action_format("ack")
             N == {"phase", "settled_time", "settled"}
             S == {Variant("action", {2, 3}), Variant("payload", AnyCell)}
  <1>1. Section(F, {}, S)
    BY AckActionTable
  <1>2. Range(action_head) \subseteq Range(F) /\ Range(receipt_fields) \subseteq Range(F)
    BY AckActionTable
  <1>3. "kind1" \notin DOMAIN v
    <2>1. "kind1" \notin NamesOf(F)
      BY AckActionTable
    <2>2. DOMAIN v = NamesTo(F, Len(F))
      BY DEF Opened, Reading
    <2>3. NamesTo(F, Len(F)) = NamesOf(F)
      BY <1>1, PartLen DEF Section
    <2>4. QED BY <2>1, <2>2, <2>3
  <1>4. Members(F) = N \cup {"post.sequence", "post.digest"} /\ "post.sequence" \notin N /\ "post.digest" \notin N
    BY AckActionMembers
  <1>5. \A n \in N : Has(v, n) <=> The(v, "action") \in {2}
    <2> DEFINE when == {2}
    <2>1. Variant("action", {2, 3}) \in Range(F) /\ When("action", when, Field("phase", AnyCell)) \in Range(F)
      BY <1>2, ActionHead
    <2>2. /\ When("action", when, Field("settled_time", AnyCell)) \in Range(F)
          /\ When("action", when, Field("settled", Flags)) \in Range(F)
      <3>1. PICK B : "action" \in B
        <4>1. "action" \in {"action"}
          OBVIOUS
        <4>2. QED BY <4>1
      <3>2. Range(ack_action_result) \subseteq Range(F)
        BY AckActionTable
      <3>3. QED BY <3>1, <3>2, AckActionResult
    <2>3. when # {} /\ Named("action")
      BY DEF Named
    <2> HIDE DEF when, F
    <2>4. Has(v, "action")
      BY <2>1, ReadVariant DEF F
    <2>5. Has(v, "phase") <=> The(v, "action") \in when
      BY <2>1, <2>3, <2>4, ReadOptional DEF F
    <2>6. Has(v, "settled_time") <=> The(v, "action") \in when
      BY <2>2, <2>3, <2>4, ReadOptional DEF F
    <2>7. Has(v, "settled") <=> The(v, "action") \in when
      BY <2>2, <2>3, <2>4, ReadOptional DEF F
    <2>8. QED BY <2>5, <2>6, <2>7 DEF when
  <1>6. The(v, "payload") = IF The(v, "action") = 3 THEN 2 ELSE 1 + Cardinality(N)
    BY AckActionMembers DEF validate_action
  <1> HIDE DEF N
  <1>7. /\ Written(Meaning(F, v), Variant("action", {2, 3})) = v["action"]
        /\ Written(Meaning(F, v), Variant("payload", AnyCell)) = v["payload"]
    BY <1>1, <1>2, <1>3, <1>4, <1>5, <1>6, ActionWritten
  <1>8. Variant("action", {2, 3}).name = "action" /\ Variant("payload", AnyCell).name = "payload"
    BY VariantRole
  <1>9. \A f \in S : Written(Meaning(F, v), f) = v[f.name]
    BY <1>7, <1>8
  <1> HIDE DEF S, F
  <1>10. QED BY <1>1, <1>9, WrittenAsRead DEF F

LEMMA ShutdownActionMembers ==
  /\ Members(action_format("shutdown")) = {"phase", "ungraceful"} \cup {"post.sequence", "post.digest"}
  /\ Cardinality({"phase", "ungraceful"}) = 2 /\ Len(result_fields("shutdown")) = 2
  <1> DEFINE F == action_format("shutdown")
             x1 == Const("format", 1)
             x2 == Variant("action", {2, 3})
             x3 == Variant("payload", AnyCell)
             x4 == When("action", {2}, Field("phase", AnyCell))
             x5 == When("action", {2}, Const("result_codec", 8))
             x6 == When("action", {2}, Field("ungraceful", AnyCell))
             x7 == When("action", {3}, Field("post.sequence", AnyCell))
             x8 == When("action", {3}, Field("post.digest", AnyCell))
  <1>1. Range(F) = {x1, x2, x3, x4, x5, x6, x7, x8}
    <2>1. PICK B : "action" \in B
      <3>1. "action" \in {"action"}
        OBVIOUS
      <3>2. QED BY <3>1
    <2>2. Range(action_head) = {x1, x2, x3, x4}
      BY ActionHead
    <2>3. Range(shutdown_action_result) = {x5, x6}
      BY <2>1, ShutdownActionResult
    <2>4. Range(receipt_fields) = {x7, x8}
      BY <2>1, ReceiptPart
    <2>5. Range(F) = Range(action_head) \cup Range(shutdown_action_result) \cup Range(receipt_fields)
      BY ShutdownActionTable
    <2> HIDE DEF x1, x2, x3, x4, x5, x6, x7, x8, F
    <2>6. QED BY <2>2, <2>3, <2>4, <2>5
  <1>2. /\ x1.role = "const" /\ x4.role = "data" /\ x5.role = "const" /\ x6.role = "data" /\ x7.role = "data"
        /\ x8.role = "data"
    BY RolesSay
  <1>3. x2.role = "action" /\ x3.role = "payload"
    BY VariantRole
  <1>4. x4.name = "phase" /\ x6.name = "ungraceful" /\ x7.name = "post.sequence" /\ x8.name = "post.digest"
    BY NamesSay
  <1>5. Members(F) = {g.name : g \in {f \in Range(F) : f.role = "data"}}
    BY ShutdownActionTable, MembersAre
  <1> HIDE DEF F, x1, x2, x3, x4, x5, x6, x7, x8
  <1>6. {f \in Range(F) : f.role = "data"} = {x4, x6, x7, x8}
    BY <1>1, <1>2, <1>3
  <1>7. Members(F) = {"phase", "ungraceful"} \cup {"post.sequence", "post.digest"}
    BY <1>4, <1>5, <1>6
  <1>8. Cardinality({"phase", "ungraceful"}) = 2
    <2>1. IsFiniteSet({"phase"}) /\ Cardinality({"phase"}) = 1
      BY FS_Singleton
    <2>2. {"phase", "ungraceful"} = {"phase"} \cup {"ungraceful"} /\ "ungraceful" \notin {"phase"}
      OBVIOUS
    <2>3. IsFiniteSet({"phase", "ungraceful"}) /\ Cardinality({"phase", "ungraceful"}) = 2
      <3>1. /\ IsFiniteSet({"phase"} \cup {"ungraceful"})
            /\ Cardinality({"phase"} \cup {"ungraceful"}) = Cardinality({"phase"}) + 1
        BY <2>1, <2>2, FS_AddElement
      <3>2. QED BY <2>1, <2>2, <3>1
    <2>4. QED BY <2>3
  <1>9. Len(result_fields("shutdown")) = 2
    BY DEF result_fields
  <1>10. QED BY <1>7, <1>8, <1>9 DEF F

LEMMA ShutdownActionWritten ==
  ASSUME NEW w, NEW v, Opened(action_format("shutdown"), w, v), validate_action("shutdown", v)
  PROVE  WriteAll(action_format("shutdown"), Meaning(action_format("shutdown"), v)) = w
  <1> DEFINE F == action_format("shutdown")
             N == {"phase", "ungraceful"}
             S == {Variant("action", {2, 3}), Variant("payload", AnyCell)}
  <1>1. Section(F, {}, S)
    BY ShutdownActionTable
  <1>2. Range(action_head) \subseteq Range(F) /\ Range(receipt_fields) \subseteq Range(F)
    BY ShutdownActionTable
  <1>3. "kind1" \notin DOMAIN v
    <2>1. "kind1" \notin NamesOf(F)
      BY ShutdownActionTable
    <2>2. DOMAIN v = NamesTo(F, Len(F))
      BY DEF Opened, Reading
    <2>3. NamesTo(F, Len(F)) = NamesOf(F)
      BY <1>1, PartLen DEF Section
    <2>4. QED BY <2>1, <2>2, <2>3
  <1>4. Members(F) = N \cup {"post.sequence", "post.digest"} /\ "post.sequence" \notin N /\ "post.digest" \notin N
    BY ShutdownActionMembers
  <1>5. \A n \in N : Has(v, n) <=> The(v, "action") \in {2}
    <2> DEFINE when == {2}
    <2>1. Variant("action", {2, 3}) \in Range(F) /\ When("action", when, Field("phase", AnyCell)) \in Range(F)
      BY <1>2, ActionHead
    <2>2. When("action", when, Field("ungraceful", AnyCell)) \in Range(F)
      <3>1. PICK B : "action" \in B
        <4>1. "action" \in {"action"}
          OBVIOUS
        <4>2. QED BY <4>1
      <3>2. Range(shutdown_action_result) \subseteq Range(F)
        BY ShutdownActionTable
      <3>3. QED BY <3>1, <3>2, ShutdownActionResult
    <2>3. when # {} /\ Named("action")
      BY DEF Named
    <2> HIDE DEF when, F
    <2>4. Has(v, "action")
      BY <2>1, ReadVariant DEF F
    <2>5. Has(v, "phase") <=> The(v, "action") \in when
      BY <2>1, <2>3, <2>4, ReadOptional DEF F
    <2>6. Has(v, "ungraceful") <=> The(v, "action") \in when
      BY <2>2, <2>3, <2>4, ReadOptional DEF F
    <2>7. QED BY <2>5, <2>6 DEF when
  <1>6. The(v, "payload") = IF The(v, "action") = 3 THEN 2 ELSE 1 + Cardinality(N)
    BY ShutdownActionMembers DEF validate_action
  <1> HIDE DEF N
  <1>7. /\ Written(Meaning(F, v), Variant("action", {2, 3})) = v["action"]
        /\ Written(Meaning(F, v), Variant("payload", AnyCell)) = v["payload"]
    BY <1>1, <1>2, <1>3, <1>4, <1>5, <1>6, ActionWritten
  <1>8. Variant("action", {2, 3}).name = "action" /\ Variant("payload", AnyCell).name = "payload"
    BY VariantRole
  <1>9. \A f \in S : Written(Meaning(F, v), f) = v[f.name]
    BY <1>7, <1>8
  <1> HIDE DEF S, F
  <1>10. QED BY <1>1, <1>9, WrittenAsRead DEF F

LEMMA CodecsAre ==
  /\ Codecs = {"event", "command", "projection", "authority", "checkpoint", "ring", "pointer", "mac_key",
               "ack_value", "shutdown_value", "ack_action", "shutdown_action"}
  /\ Formats["event"] = event_format /\ Formats["command"] = command_format
  /\ Formats["projection"] = projection_format
  /\ Formats["authority"] = authority_format /\ Formats["checkpoint"] = checkpoint_format
  /\ Formats["ring"] = ring_format /\ Formats["pointer"] = pointer_format /\ Formats["mac_key"] = mac_key_format
  /\ Formats["ack_value"] = value_format("ack") /\ Formats["shutdown_value"] = value_format("shutdown")
  /\ Formats["ack_action"] = action_format("ack") /\ Formats["shutdown_action"] = action_format("shutdown")
  BY DEF Codecs, Formats

LEMMA CodecTables ==
  /\ Section(event_format, {}, {}) /\ Section(authority_format, {}, {}) /\ Section(checkpoint_format, {}, {})
  /\ Section(pointer_format, {}, {}) /\ Section(mac_key_format, {}, {})
  /\ Section(command_format, {}, {Variant("retention", {1, 2})})
  /\ \E S : Section(projection_format, {}, S)
  /\ Section(ring_format, {}, {Variant("count", 0..2)})
  /\ Section(value_format("ack"), {}, {Variant("mirror", 0..2)})
  /\ Section(value_format("shutdown"), {}, {Variant("mirror", 0..2)})
  /\ Section(action_format("ack"), {}, {Variant("action", {2, 3}), Variant("payload", AnyCell)})
  /\ Section(action_format("shutdown"), {}, {Variant("action", {2, 3}), Variant("payload", AnyCell)})
  <1>1. Section(event_format, {}, {})
    BY EventTable
  <1>2. Section(authority_format, {}, {})
    BY AuthorityTable
  <1>3. Section(checkpoint_format, {}, {})
    BY CheckpointPart
  <1>4. Section(pointer_format, {}, {})
    BY PointerPart
  <1>5. Section(mac_key_format, {}, {})
    BY MacKeyPart
  <1>6. Section(command_format, {}, {Variant("retention", {1, 2})})
    BY CommandTable
  <1>7. \E S : Section(projection_format, {}, S)
    BY ProjectionTable
  <1>8. Section(ring_format, {}, {Variant("count", 0..2)})
    BY RingPart
  <1>9. Section(value_format("ack"), {}, {Variant("mirror", 0..2)})
    BY AckValueTable
  <1>10. Section(value_format("shutdown"), {}, {Variant("mirror", 0..2)})
    BY ShutdownValueTable
  <1>11. Section(action_format("ack"), {}, {Variant("action", {2, 3}), Variant("payload", AnyCell)})
    BY AckActionTable
  <1>12. Section(action_format("shutdown"), {}, {Variant("action", {2, 3}), Variant("payload", AnyCell)})
    BY ShutdownActionTable
  <1>13. QED BY <1>1, <1>2, <1>3, <1>4, <1>5, <1>6, <1>7, <1>8, <1>9, <1>10, <1>11, <1>12

LEMMA CodecTable ==
  ASSUME NEW c \in Codecs
  PROVE  \E S : Section(Formats[c], {}, S)
  BY CodecsAre, CodecTables

\* The codecs whose fields are all plain.
LEMMA PlainAsRead ==
  ASSUME NEW F, Section(F, {}, {}), NEW w, NEW v, Opened(F, w, v)
  PROVE  WriteAll(F, Meaning(F, v)) = w
  BY WrittenAsRead

\* ... and the ones with one field that is not.
LEMMA OneAsRead ==
  ASSUME NEW F, NEW n, NEW c, Section(F, {}, {Variant(n, c)}), NEW w, NEW v, Opened(F, w, v),
         Written(Meaning(F, v), Variant(n, c)) = v[n]
  PROVE  WriteAll(F, Meaning(F, v)) = w
  <1>1. \A f \in {Variant(n, c)} : Written(Meaning(F, v), f) = v[f.name]
    BY VariantRole
  <1> DEFINE S == {Variant(n, c)}
  <1> HIDE DEF S
  <1>2. Section(F, {}, S) /\ \A f \in S : Written(Meaning(F, v), f) = v[f.name]
    BY <1>1 DEF S
  <1>3. QED BY <1>2, WrittenAsRead

LEMMA CommandAsRead ==
  ASSUME NEW w, NEW v, Opened(command_format, w, v), validate_command(v)
  PROVE  WriteAll(command_format, Meaning(command_format, v)) = w
  <1>1. Section(command_format, {}, {Variant("retention", {1, 2})})
    BY CodecTables
  <1>2. Range(retention_fields) \subseteq Range(command_format)
    <2>1. Range(retention_fields) \subseteq Range(common_fields(1..13, AnyCell, AnyCell))
      BY CommonPart, CodesIn
    <2>2. Range(common_fields(1..13, AnyCell, AnyCell)) \subseteq Range(command_format)
      BY CommandTable
    <2>3. QED BY <2>1, <2>2
  <1>3. validate_retention(v)
    BY DEF validate_command, validate_common
  <1>4. Written(Meaning(command_format, v), Variant("retention", {1, 2})) = v["retention"]
    BY <1>1, <1>2, <1>3, RetentionWritten
  <1>5. QED BY <1>1, <1>4, OneAsRead

LEMMA RingAsRead ==
  ASSUME NEW w, NEW v, Opened(ring_format, w, v)
  PROVE  WriteAll(ring_format, Meaning(ring_format, v)) = w
  <1>1. Section(ring_format, {}, {Variant("count", 0..2)})
    BY CodecTables
  <1>2. Written(Meaning(ring_format, v), Variant("count", 0..2)) = v["count"]
    BY <1>1, CountWritten
  <1>3. QED BY <1>1, <1>2, OneAsRead

LEMMA ValueAsRead ==
  ASSUME NEW F, Section(F, {}, {Variant("mirror", 0..2)}), Range(mirror_fields) \subseteq Range(F),
         NEW w, NEW v, Opened(F, w, v)
  PROVE  WriteAll(F, Meaning(F, v)) = w
  <1>1. Written(Meaning(F, v), Variant("mirror", 0..2)) = v["mirror"]
    BY MirrorWritten
  <1>2. QED BY <1>1, OneAsRead

LEMMA MembersNamed ==
  ASSUME NEW F, NEW B, NEW S, Section(F, B, S)
  PROVE  Members(F) \subseteq NamesOf(F)
  BY MembersAre DEF NamesOf

LEMMA ProjectionSection ==
  /\ Section(projection_format, {}, projection_computed)
  /\ Range(common_fields({4}, {6}, {1})) \subseteq Range(projection_format)
  /\ Range(unbound_fields) \subseteq Range(projection_format)
  /\ Range(profile_format) \subseteq Range(projection_format)
  BY ProjectionTable

LEMMA ProjectionAsRead ==
  ASSUME NEW w, NEW v, Opened(projection_format, w, v), validate_projection(v)
  PROVE  WriteAll(projection_format, Meaning(projection_format, v)) = w
  <1> DEFINE F == projection_format
             m == Meaning(F, v)
  <1>1. Section(F, {}, projection_computed)
    BY ProjectionSection
  <1>2. /\ Range(common_fields({4}, {6}, {1})) \subseteq Range(F)
        /\ Range(unbound_fields) \subseteq Range(F) /\ Range(profile_format) \subseteq Range(F)
    BY ProjectionSection
  <1>3. Range(retention_fields) \subseteq Range(F)
    <2>1. Range(retention_fields) \subseteq Range(common_fields({4}, {6}, {1}))
      BY CommonPart, CodesIn
    <2>2. QED BY <1>2, <2>1
  <1>4. /\ validate_retention(v) /\ validate_profile(v)
        /\ The(v, "profile_length") = 3 + 2 * The(v, "digests")
    BY DEF validate_projection, validate_common
  <1>5. "issuance" \notin Members(F) /\ "confirmation" \notin Members(F)
    <2>1. "issuance" \notin NamesOf(F) /\ "confirmation" \notin NamesOf(F)
      BY ProjectionTable
    <2>2. QED BY <1>1, <2>1, MembersNamed
  <1>6. Opened(F, w, v)
    OBVIOUS
  <1> HIDE DEF F
  <1>7. Slots(v, m)
    BY <1>2, <1>4, <1>5, <1>6, SlotsRead
  <1>8. Written(m, Variant("retention", {1, 2})) = v["retention"]
    BY <1>1, <1>3, <1>4, <1>6, RetentionWritten
  <1> HIDE DEF m
  <1>9. /\ Written(m, Variant("profile_length", {3, 5, 7})) = v["profile_length"]
        /\ Written(m, Variant("digests", 0..2)) = v["digests"]
        /\ \A f \in profile_computed : Extent(v, f) # 0 => Written(m, f) = v[f.name]
    BY <1>2, <1>4, <1>6, <1>7, ProfileWritten DEF profile_computed
  <1>10. /\ Variant("retention", {1, 2}).name = "retention"
         /\ Variant("profile_length", {3, 5, 7}).name = "profile_length"
         /\ Variant("digests", 0..2).name = "digests"
    BY VariantRole
  <1>11. \A f \in projection_computed : Extent(v, f) # 0 => Written(m, f) = v[f.name]
    BY <1>8, <1>9, <1>10 DEF projection_computed
  <1>12. QED BY <1>1, <1>6, <1>11, WrittenAsRead DEF F, m

\* One value, one wire.
LEMMA AsRead ==
  ASSUME NEW c \in Codecs, NEW w, NEW v, Opened(Formats[c], w, v), Valid(c, v)
  PROVE  WriteAll(Formats[c], Meaning(Formats[c], v)) = w
  <1>1. CASE c \in {"event", "authority", "checkpoint", "pointer", "mac_key"}
    <2>1. Section(Formats[c], {}, {})
      BY <1>1, CodecsAre, CodecTables
    <2>2. QED BY <2>1, PlainAsRead
  <1>2. CASE c = "command"
    <2>1. validate_command(v)
      BY <1>2 DEF Valid
    <2>2. QED BY <1>2, <2>1, CodecsAre, CommandAsRead
  <1>3. CASE c = "projection"
    <2>1. validate_projection(v)
      BY <1>3 DEF Valid
    <2>2. QED BY <1>3, <2>1, CodecsAre, ProjectionAsRead
  <1>4. CASE c = "ring"
    BY <1>4, CodecsAre, RingAsRead
  <1>5. CASE c = "ack_value"
    <2>1. Range(mirror_fields) \subseteq Range(value_format("ack"))
      BY AckValueTable
    <2>2. QED BY <1>5, <2>1, CodecsAre, CodecTables, ValueAsRead
  <1>6. CASE c = "shutdown_value"
    <2>1. Range(mirror_fields) \subseteq Range(value_format("shutdown"))
      BY ShutdownValueTable
    <2>2. QED BY <1>6, <2>1, CodecsAre, CodecTables, ValueAsRead
  <1>7. CASE c = "ack_action"
    <2>1. validate_action("ack", v)
      BY <1>7 DEF Valid
    <2>2. QED BY <1>7, <2>1, CodecsAre, AckActionWritten
  <1>8. CASE c = "shutdown_action"
    <2>1. validate_action("shutdown", v)
      BY <1>8 DEF Valid
    <2>2. QED BY <1>8, <2>1, CodecsAre, ShutdownActionWritten
  <1>9. QED BY <1>1, <1>2, <1>3, <1>4, <1>5, <1>6, <1>7, <1>8, CodecsAre

\* What Decode answers.
LEMMA DecodeIs ==
  ASSUME NEW c, NEW w
  PROVE  LET r == ReadFields(Formats[c], w)
         IN Decode(c, w) = IF Complete(r, w) /\ Valid(c, r.value) THEN Meaning(Formats[c], r.value) ELSE Invalid
  BY DEF Decode

LEMMA Encodes ==
  ASSUME NEW c \in Codecs, NEW w \in Seq(Nat), Decode(c, w) # Invalid
  PROVE  Encode(c, Decode(c, w)) = w
  <1> DEFINE F == Formats[c]
             r == ReadFields(F, w)
  <1>1. Complete(r, w) /\ Valid(c, r.value) /\ Decode(c, w) = Meaning(F, r.value)
    BY DecodeIs
  <1>2. Opened(F, w, r.value)
    BY <1>1, CodecTable, OpensTo
  <1>3. QED BY <1>1, <1>2, AsRead DEF Encode

LEMMA PrefixRefused ==
  ASSUME NEW c \in Codecs, NEW w \in Seq(Nat), Decode(c, w) # Invalid, NEW n \in 0..(Len(w) - 1)
  PROVE  Decode(c, SubSeq(w, 1, n)) = Invalid
  <1> DEFINE F == Formats[c]
             p == SubSeq(w, 1, n)
  <1>1. Complete(ReadFields(F, w), w)
    BY DecodeIs
  <1>2. Table(F)
    BY CodecTable, PartTable DEF Section
  <1>3. ~Complete(ReadFields(F, p), p)
    BY <1>1, <1>2, NoPrefix
  <1>4. QED BY <1>3, DecodeIs

LEMMA JoinAssociates ==
  ASSUME NEW A, NEW x \in Seq(A), NEW y \in Seq(A), NEW z \in Seq(A)
  PROVE  x \o (y \o z) = (x \o y) \o z
  BY ConcatAssociative

\* A sequence of at least one piece.
Pieced(s) == Len(s) > 0

\* Flattening piece by piece.
LEMMA FlattenJoin ==
  ASSUME NEW A, NEW s \in Seq(Seq(A)), NEW t \in Seq(Seq(A)), Pieced(s), Pieced(t)
  PROVE  /\ FlattenSeq(s \o t) = FlattenSeq(s) \o FlattenSeq(t)
         /\ FlattenSeq(s) \in Seq(A) /\ FlattenSeq(t) \in Seq(A)
  <1>a. \A x, y, z \in Seq(A) : x \o (y \o z) = (x \o y) \o z
    BY JoinAssociates
  <1> DEFINE m == Len(s)
             k == Len(t)
  <1>0. m \in Nat /\ k \in Nat /\ m > 0 /\ k > 0
    BY LenProperties DEF Pieced
  <1>1. PICK f \in [1..m -> Seq(A)] : Concatenates(s, f, m)
    BY <1>0, HasConcatenations
  <1>2. PICK g \in [1..k -> Seq(A)] : Concatenates(t, g, k)
    BY <1>0, HasConcatenations
  <1>3. FlattenSeq(s) = f[m] /\ FlattenSeq(t) = g[k] /\ f[m] \in Seq(A) /\ g[k] \in Seq(A)
    <2>1. m \in 1..m /\ k \in 1..k
      BY <1>0
    <2>2. FlattenSeq(s) = f[m]
      BY <1>1, FlattenedIs
    <2>3. FlattenSeq(t) = g[k]
      BY <1>2, FlattenedIs
    <2>4. QED BY <1>1, <1>2, <2>1, <2>2, <2>3
  <1> DEFINE st == s \o t
             h == [i \in 1..m + k |-> IF i <= m THEN f[i] ELSE f[m] \o g[i - m]]
  <1>4. /\ Len(st) = m + k
        /\ \A i \in 1..m + k : st[i] = IF i <= m THEN s[i] ELSE t[i - m]
    BY ConcatProperties
  <1> HIDE DEF st, m, k
  <1>5. h[1] = st[1]
    <2>1. 1 \in 1..m + k /\ 1 <= m
      BY <1>0
    <2>2. h[1] = f[1] /\ st[1] = s[1]
      BY <1>4, <2>1
    <2>3. QED BY <1>1, <2>2 DEF Concatenates
  <1>6. ASSUME NEW i \in 2..m + k PROVE h[i] = h[i - 1] \o st[i]
    <2>0. i \in 1..m + k /\ i - 1 \in 1..m + k
      BY <1>0
    <2>1. CASE i <= m
      <3>1. i \in 2..m /\ i - 1 <= m
        BY <1>0, <2>1
      <3>2. h[i] = f[i] /\ h[i - 1] = f[i - 1] /\ st[i] = s[i]
        BY <1>4, <2>0, <2>1, <3>1
      <3>3. f[i] = f[i - 1] \o s[i]
        BY <1>1, <3>1 DEF Concatenates
      <3>4. QED BY <3>2, <3>3
    <2>2. CASE i = m + 1
      <3>1. i - 1 = m /\ i - m = 1 /\ ~(i <= m) /\ m <= m
        BY <1>0, <2>2
      <3>2. h[i] = f[m] \o g[1] /\ h[i - 1] = f[m] /\ st[i] = t[1]
        BY <1>4, <2>0, <3>1
      <3>3. g[1] = t[1]
        BY <1>2 DEF Concatenates
      <3>4. QED BY <3>2, <3>3
    <2>3. CASE i > m + 1
      <3> DEFINE j == i - m
      <3>1. j \in 2..k /\ ~(i <= m) /\ ~(i - 1 <= m) /\ (i - 1) - m = j - 1 /\ j \in 1..k /\ j - 1 \in 1..k
        BY <1>0, <2>0, <2>3
      <3>2. h[i] = f[m] \o g[j] /\ h[i - 1] = f[m] \o g[j - 1] /\ st[i] = t[j]
        BY <1>4, <2>0, <3>1
      <3> HIDE DEF j
      <3>3. g[j] = g[j - 1] \o t[j]
        BY <1>2, <3>1 DEF Concatenates
      <3>4. f[m] \in Seq(A) /\ g[j - 1] \in Seq(A) /\ t[j] \in Seq(A)
        <4>1. t[j] \in Seq(A)
          BY <3>1, ElementOfSeq DEF k
        <4>2. QED BY <1>2, <1>3, <3>1, <4>1
      <3>5. f[m] \o (g[j - 1] \o t[j]) = (f[m] \o g[j - 1]) \o t[j]
        BY <1>a, <3>4
      <3>6. QED BY <3>2, <3>3, <3>5
    <2>4. i <= m \/ i = m + 1 \/ i > m + 1
      BY <1>0
    <2>5. QED BY <2>1, <2>2, <2>3, <2>4
  <1>7. Concatenates(st, h, m + k)
    <2>1. m + k \in Nat /\ m + k > 0
      BY <1>0
    <2> HIDE DEF h
    <2>2. QED BY <1>4, <1>5, <1>6, <2>1 DEF Concatenates
  <1>8. FlattenSeq(st) = h[m + k]
    BY <1>7, FlattenedIs
  <1>9. h[m + k] = f[m] \o g[k]
    <2>1. m + k \in 1..m + k /\ ~(m + k <= m) /\ (m + k) - m = k
      BY <1>0
    <2>2. QED BY <2>1
  <1>10. QED BY <1>3, <1>8, <1>9 DEF st

LEMMA FlattenTwo ==
  ASSUME NEW A, NEW a \in Seq(A), NEW b \in Seq(A)
  PROVE  FlattenSeq(<<a, b>>) = a \o b
  <1> DEFINE s == <<a, b>>
             f == <<a, a \o b>>
  <1>1. Len(s) = 2 /\ s[1] = a /\ s[2] = b /\ f[1] = a /\ f[2] = a \o b
    OBVIOUS
  <1> HIDE DEF s, f
  <1>2. Concatenates(s, f, 2)
    <2>1. \A i \in 2..2 : i = 2 /\ i - 1 = 1
      OBVIOUS
    <2>2. \A i \in 2..2 : f[i] = f[i - 1] \o s[i]
      BY <1>1, <2>1
    <2>3. QED BY <1>1, <2>2 DEF Concatenates
  <1>3. QED BY <1>1, <1>2, FlattenedIs DEF s

\* Only the first piece has cells.
LEMMA FlattenFirst ==
  ASSUME NEW A, NEW s \in Seq(Seq(A)), Len(s) > 0, \A i \in 2..Len(s) : s[i] = <<>>
  PROVE  FlattenSeq(s) = s[1]
  <1> DEFINE n == Len(s)
             f == [i \in 1..n |-> s[1]]
  <1>0. n \in Nat /\ n > 0 /\ s[1] \in Seq(A)
    <2>1. n \in Nat
      BY LenProperties
    <2>2. 1 \in 1..Len(s)
      BY <2>1
    <2>3. QED BY <2>1, <2>2, ElementOfSeq
  <1>1. s[1] \o <<>> = s[1]
    BY <1>0, ConcatEmptySeq
  <1> HIDE DEF n
  <1>2. \A i \in 1..n : f[i] = s[1]
    OBVIOUS
  <1>3. \A i \in 2..n : i \in 1..n /\ i - 1 \in 1..n
    BY <1>0
  <1>4. \A i \in 2..n : f[i] = f[i - 1] \o s[i]
    BY <1>1, <1>2, <1>3 DEF n
  <1>5. 1 \in 1..n /\ n \in 1..n
    BY <1>0
  <1> HIDE DEF f
  <1>6. Concatenates(s, f, n)
    BY <1>0, <1>2, <1>4, <1>5 DEF Concatenates, n
  <1>7. QED BY <1>2, <1>5, <1>6, FlattenedIs

\* The fields of a part hold sequences over A.
Held(F, v, A) == \A f \in Range(F) : v[f.name] \in Seq(A)

\* A part of some table.
IsPart(F) == \E B : Part(F, B)

LEMMA PartIs ==
  ASSUME NEW F, IsPart(F)
  PROVE  /\ F \in Seq(Range(F)) /\ Len(F) \in Nat /\ Len(F) > 0 /\ DOMAIN F = 1..Len(F)
         /\ Range(F) = {F[i] : i \in 1..Len(F)}
  <1>1. PICK B : Part(F, B)
    BY DEF IsPart
  <1>2. F \in Seq(Range(F))
    BY <1>1 DEF Part
  <1>3. QED BY <1>1, <1>2, PartLen

LEMMA PiecesIn ==
  ASSUME NEW F, IsPart(F), NEW v, NEW A, Held(F, v, A)
  PROVE  /\ Pieces(F, v) \in Seq(Seq(A)) /\ Len(Pieces(F, v)) = Len(F) /\ Pieced(Pieces(F, v))
         /\ \A i \in 1..Len(F) : Pieces(F, v)[i] = v[F[i].name]
  <1> DEFINE n == Len(F)
             s == [i \in 1..n |-> v[F[i].name]]
             T == Seq(A)
  <1>1. n \in Nat /\ n > 0 /\ DOMAIN F = 1..n /\ Range(F) = {F[i] : i \in 1..n}
    BY PartIs
  <1>2. \A i \in 1..n : v[F[i].name] \in T
    BY <1>1 DEF Held
  <1>3. Pieces(F, v) = s
    BY <1>1 DEF Pieces
  <1> HIDE DEF n, T
  <1>4. s \in Seq(T) /\ Len(s) = n
    BY <1>1, <1>2
  <1>5. QED BY <1>1, <1>3, <1>4 DEF n, T, Pieced

LEMMA PiecesJoin ==
  ASSUME NEW F, IsPart(F), NEW G, IsPart(G), NEW v, NEW A, Held(F, v, A), Held(G, v, A)
  PROVE  Pieces(F \o G, v) = Pieces(F, v) \o Pieces(G, v)
  <1> DEFINE m == Len(F)
             k == Len(G)
             H == F \o G
             R == Range(F) \cup Range(G)
             p == Pieces(F, v)
             q == Pieces(G, v)
             T == Seq(A)
  <1>1. m \in Nat /\ k \in Nat /\ F \in Seq(Range(F)) /\ G \in Seq(Range(G))
    BY PartIs
  <1>2. F \in Seq(R) /\ G \in Seq(R)
    <2>1. \A X, Y : X \subseteq Y => Seq(X) \subseteq Seq(Y)
      OBVIOUS
    <2>2. QED BY <1>1, <2>1
  <1>3. /\ H \in Seq(R) /\ Len(H) = m + k
        /\ \A i \in 1..m + k : H[i] = IF i <= m THEN F[i] ELSE G[i - m]
    BY <1>2, ConcatProperties
  <1>4. DOMAIN H = 1..m + k
    <2>1. \A X : \A s \in Seq(X) : DOMAIN s = 1..Len(s)
      OBVIOUS
    <2>2. QED BY <1>3, <2>1
  <1>5. p \in Seq(T) /\ Len(p) = m /\ \A i \in 1..m : p[i] = v[F[i].name]
    BY PiecesIn
  <1>6. q \in Seq(T) /\ Len(q) = k /\ \A i \in 1..k : q[i] = v[G[i].name]
    BY PiecesIn
  <1> HIDE DEF p, q, T, m, k
  <1>7. /\ p \o q \in Seq(T) /\ Len(p \o q) = m + k
        /\ \A i \in 1..m + k : (p \o q)[i] = IF i <= m THEN p[i] ELSE q[i - m]
    BY <1>5, <1>6, ConcatProperties
  <1> DEFINE pq == p \o q
             s == [i \in 1..m + k |-> v[H[i].name]]
  <1>8. Pieces(H, v) = s
    BY <1>4 DEF Pieces
  <1> HIDE DEF H
  <1>9. \A i \in 1..m + k : pq[i] = s[i]
    <2> TAKE i \in 1..m + k
    <2>1. CASE i <= m
      <3>1. i \in 1..m
        BY <1>1, <2>1 DEF m
      <3>2. QED BY <1>3, <1>5, <1>7, <2>1, <3>1
    <2>2. CASE ~(i <= m)
      <3>1. i - m \in 1..k
        BY <1>1, <2>2 DEF m, k
      <3>2. QED BY <1>3, <1>6, <1>7, <2>2, <3>1
    <2>3. QED BY <2>1, <2>2
  <1> HIDE DEF pq, s
  <1>10. pq \in Seq(T) /\ Len(pq) = m + k
    BY <1>7 DEF pq
  <1>11. pq = s
    <2>1. \A X : \A x \in Seq(X) : x = [i \in 1..Len(x) |-> x[i]]
      OBVIOUS
    <2>2. pq = [i \in 1..m + k |-> pq[i]]
      BY <1>10, <2>1
    <2>3. s = [i \in 1..m + k |-> s[i]]
      BY DEF s
    <2>4. QED BY <1>9, <2>2, <2>3
  <1>12. QED BY <1>8, <1>11 DEF pq, p, q, H

LEMMA FlatJoin ==
  ASSUME NEW F, IsPart(F), NEW G, IsPart(G), NEW v, NEW A, Held(F, v, A), Held(G, v, A)
  PROVE  /\ FlattenSeq(Pieces(F \o G, v)) = FlattenSeq(Pieces(F, v)) \o FlattenSeq(Pieces(G, v))
         /\ FlattenSeq(Pieces(F, v)) \in Seq(A) /\ FlattenSeq(Pieces(G, v)) \in Seq(A)
  <1> DEFINE p == Pieces(F, v)
             q == Pieces(G, v)
  <1>1. p \in Seq(Seq(A)) /\ Pieced(p)
    BY PiecesIn
  <1>2. q \in Seq(Seq(A)) /\ Pieced(q)
    BY PiecesIn
  <1>3. Pieces(F \o G, v) = p \o q
    BY PiecesJoin
  <1> HIDE DEF p, q
  <1>4. FlattenSeq(p \o q) = FlattenSeq(p) \o FlattenSeq(q) /\ FlattenSeq(p) \in Seq(A) /\ FlattenSeq(q) \in Seq(A)
    BY <1>1, <1>2, FlattenJoin
  <1>5. QED BY <1>3, <1>4 DEF p, q

\* Two tables that lay out the same fields, the second with at least the codes of
\* the first.
Wider(F, G) ==
  /\ Len(G) = Len(F)
  /\ \A i \in 1..Len(F) : /\ G[i].name = F[i].name /\ G[i].of = F[i].of /\ G[i].when = F[i].when
                          /\ F[i].codes \subseteq G[i].codes

LEMMA WiderSelf ==
  ASSUME NEW F PROVE Wider(F, F)
  BY DEF Wider

\* A sequence, over its own elements.
IsTuple(F) == F \in Seq(Range(F))

LEMMA TupleLen ==
  ASSUME NEW F, IsTuple(F)
  PROVE  Len(F) \in Nat
  BY LenProperties DEF IsTuple

LEMMA InTuple ==
  ASSUME NEW A, NEW F \in Seq(A)
  PROVE  IsTuple(F)
  <1>1. Len(F) \in Nat /\ DOMAIN F = 1..Len(F)
    OBVIOUS
  <1>2. \A i \in 1..Len(F) : F[i] \in Range(F)
    BY <1>1 DEF Range
  <1>3. F = [i \in 1..Len(F) |-> F[i]]
    OBVIOUS
  <1>4. QED BY <1>1, <1>2, <1>3 DEF IsTuple

LEMMA WiderJoin ==
  ASSUME NEW F, IsTuple(F), NEW G, IsTuple(G), NEW P, IsTuple(P), NEW Q, IsTuple(Q), Wider(F, G), Wider(P, Q)
  PROVE  Wider(F \o P, G \o Q) /\ IsTuple(F \o P) /\ IsTuple(G \o Q)
  <1> DEFINE m == Len(F)
             k == Len(P)
             R == Range(F) \cup Range(G) \cup Range(P) \cup Range(Q)
             x == F \o P
             y == G \o Q
  <1>1. /\ m \in Nat /\ k \in Nat /\ Len(G) = m /\ Len(Q) = k
    BY TupleLen DEF Wider
  <1>2. F \in Seq(R) /\ G \in Seq(R) /\ P \in Seq(R) /\ Q \in Seq(R)
    <2>1. \A X, Y : X \subseteq Y => Seq(X) \subseteq Seq(Y)
      OBVIOUS
    <2>2. F \in Seq(Range(F)) /\ G \in Seq(Range(G)) /\ P \in Seq(Range(P)) /\ Q \in Seq(Range(Q))
      BY DEF IsTuple
    <2>3. QED BY <2>1, <2>2
  <1>3. Len(x) = m + k /\ \A i \in 1..m + k : x[i] = IF i <= m THEN F[i] ELSE P[i - m]
    BY <1>2, ConcatProperties
  <1>4. Len(y) = m + k /\ \A i \in 1..m + k : y[i] = IF i <= m THEN G[i] ELSE Q[i - m]
    <2>1. Len(y) = Len(G) + Len(Q) /\ \A i \in 1..Len(G) + Len(Q) : y[i] = IF i <= Len(G) THEN G[i] ELSE Q[i - Len(G)]
      BY <1>2, ConcatProperties
    <2> HIDE DEF m, k, y
    <2>2. QED BY <1>1, <2>1
  <1> HIDE DEF x, y, m, k
  <1>5. ASSUME NEW i \in 1..m + k
        PROVE  /\ y[i].name = x[i].name /\ y[i].of = x[i].of /\ y[i].when = x[i].when
               /\ x[i].codes \subseteq y[i].codes
    <2>1. CASE i <= m
      <3>1. i \in 1..m
        BY <1>1, <2>1
      <3>2. QED BY <1>3, <1>4, <2>1, <3>1 DEF Wider, m
    <2>2. CASE ~(i <= m)
      <3>1. i - m \in 1..k
        BY <1>1, <2>2
      <3>2. x[i] = P[i - m] /\ y[i] = Q[i - m]
        BY <1>3, <1>4, <2>2
      <3>3. QED BY <3>1, <3>2 DEF Wider, k
    <2>3. QED BY <2>1, <2>2
  <1>6. Wider(x, y)
    BY <1>3, <1>4, <1>5 DEF Wider
  <1>7. x \in Seq(R) /\ y \in Seq(R)
    BY <1>2, ConcatProperties DEF x, y
  <1>8. IsTuple(x) /\ IsTuple(y)
    BY <1>7, InTuple
  <1>9. QED BY <1>6, <1>8 DEF x, y

\* The fields the two codecs of a command share.
image_common == common_fields({4}, {6}, {1})
command_common == common_fields(1..13, AnyCell, AnyCell)

LEMMA SectionIsPart ==
  ASSUME NEW F, NEW B, NEW S, Section(F, B, S)
  PROVE  IsPart(F)
  BY DEF Section, IsPart

LEMMA HeadWider ==
  ASSUME NEW n, NEW c, NEW d, c \subseteq d
  PROVE  /\ Field(n, d).name = Field(n, c).name /\ Field(n, d).of = Field(n, c).of
         /\ Field(n, d).when = Field(n, c).when
         /\ Field(n, c).codes \subseteq Field(n, d).codes
         /\ \A of, when : /\ When(of, when, Field(n, d)).name = When(of, when, Field(n, c)).name
                          /\ When(of, when, Field(n, d)).of = When(of, when, Field(n, c)).of
                          /\ When(of, when, Field(n, d)).when = When(of, when, Field(n, c)).when
                          /\ When(of, when, Field(n, c)).codes \subseteq When(of, when, Field(n, d)).codes
  BY DEF Field, When, Base

LEMMA WiderMore ==
  ASSUME NEW F, IsTuple(F), NEW G, IsTuple(G), NEW P, IsTuple(P), Wider(F, G)
  PROVE  Wider(F \o P, G \o P) /\ IsTuple(F \o P) /\ IsTuple(G \o P)
  BY WiderSelf, WiderJoin

LEMMA CommonsWider == Wider(image_common, command_common)
  <1> DEFINE h == common_head({4})
             g == common_head(1..13)
             p == safe_result_fields({6}, {1})
             q == safe_result_fields(AnyCell, AnyCell)
  <1>0. {4} \subseteq 1..13 /\ {6} \subseteq AnyCell /\ {1} \subseteq AnyCell
    BY CodesIn DEF AnyCell
  <1>1. Wider(h, g)
    <2>1. /\ Len(h) = 2 /\ Len(g) = 2 /\ h[1] = g[1] /\ h[2] = Field("operation", {4})
          /\ g[2] = Field("operation", 1..13)
      BY DEF common_head
    <2> HIDE DEF h, g
    <2>2. \A i \in 1..2 : i = 1 \/ i = 2
      OBVIOUS
    <2>3. /\ g[2].name = h[2].name /\ g[2].of = h[2].of /\ g[2].when = h[2].when /\ h[2].codes \subseteq g[2].codes
      BY <1>0, <2>1, HeadWider
    <2>4. QED BY <2>1, <2>2, <2>3 DEF Wider
  <1>2. Wider(p, q)
    <2>1. /\ Len(p) = 4 /\ Len(q) = 4 /\ p[1] = q[1] /\ p[4] = q[4]
          /\ p[2] = When("safe_result?", {1}, Field("codec", {6}))
          /\ q[2] = When("safe_result?", {1}, Field("codec", AnyCell))
          /\ p[3] = When("safe_result?", {1}, Field("codec_version", {1}))
          /\ q[3] = When("safe_result?", {1}, Field("codec_version", AnyCell))
      BY DEF safe_result_fields
    <2> HIDE DEF p, q
    <2>2. \A i \in 1..4 : i = 1 \/ i = 2 \/ i = 3 \/ i = 4
      OBVIOUS
    <2>3. /\ q[2].name = p[2].name /\ q[2].of = p[2].of /\ q[2].when = p[2].when /\ p[2].codes \subseteq q[2].codes
      BY <1>0, <2>1, HeadWider
    <2>4. /\ q[3].name = p[3].name /\ q[3].of = p[3].of /\ q[3].when = p[3].when /\ p[3].codes \subseteq q[3].codes
      BY <1>0, <2>1, HeadWider
    <2>5. QED BY <2>1, <2>2, <2>3, <2>4 DEF Wider
  <1>3. IsTuple(h) /\ IsTuple(g) /\ IsTuple(p) /\ IsTuple(q)
    BY DEF IsTuple, Range, common_head, safe_result_fields
  <1> DEFINE p1 == actor_fields
             p2 == tag_fields(Tag("lookup.namespace", "lookup.serial", "lookup.key", "lookup.tag"))
             p3 == tag_fields(Tag("semantic.namespace", "semantic.serial", "semantic.key", "semantic.tag"))
             p4 == tag_fields(Tag("phase.namespace", "phase.serial", "phase.key", "phase.tag"))
             p5 == tag_fields(Tag("reservation.namespace", "reservation.serial", "reservation.key",
                                  "reservation.tag"))
             p6 == run_fields
             p7 == Option("original_deadline?", "original_deadline", AnyCell)
             p8 == phase_field
             p9 == retention_fields
  <1>4. /\ IsTuple(p1) /\ IsTuple(p2) /\ IsTuple(p3) /\ IsTuple(p4) /\ IsTuple(p5) /\ IsTuple(p6) /\ IsTuple(p7)
        /\ IsTuple(p8)
    BY DEF IsTuple, Range, actor_fields, tag_fields, run_fields, phase_field, Option
  <1>5. IsTuple(p9)
    BY RetentionPart DEF IsTuple, Section, Part
  <1>6. /\ image_common = h \o p1 \o p2 \o p3 \o p4 \o p5 \o p6 \o p7 \o p8 \o p9 \o p
        /\ command_common = g \o p1 \o p2 \o p3 \o p4 \o p5 \o p6 \o p7 \o p8 \o p9 \o q
    BY DEF image_common, command_common, common_fields, common_head, run_fields, phase_field, Purposes
  <1> HIDE DEF h, g, p, q, p1, p2, p3, p4, p5, p6, p7, p8, p9
  <1> DEFINE x1 == h \o p1
             y1 == g \o p1
  <1>7. Wider(x1, y1) /\ IsTuple(x1) /\ IsTuple(y1)
    BY <1>1, <1>3, <1>4, WiderMore
  <1> HIDE DEF x1, y1
  <1> DEFINE x2 == x1 \o p2
             y2 == y1 \o p2
  <1>8. Wider(x2, y2) /\ IsTuple(x2) /\ IsTuple(y2)
    BY <1>7, <1>4, WiderMore
  <1> HIDE DEF x2, y2
  <1> DEFINE x3 == x2 \o p3
             y3 == y2 \o p3
  <1>9. Wider(x3, y3) /\ IsTuple(x3) /\ IsTuple(y3)
    BY <1>8, <1>4, WiderMore
  <1> HIDE DEF x3, y3
  <1> DEFINE x4 == x3 \o p4
             y4 == y3 \o p4
  <1>10. Wider(x4, y4) /\ IsTuple(x4) /\ IsTuple(y4)
    BY <1>9, <1>4, WiderMore
  <1> HIDE DEF x4, y4
  <1> DEFINE x5 == x4 \o p5
             y5 == y4 \o p5
  <1>11. Wider(x5, y5) /\ IsTuple(x5) /\ IsTuple(y5)
    BY <1>10, <1>4, WiderMore
  <1> HIDE DEF x5, y5
  <1> DEFINE x6 == x5 \o p6
             y6 == y5 \o p6
  <1>12. Wider(x6, y6) /\ IsTuple(x6) /\ IsTuple(y6)
    BY <1>11, <1>4, WiderMore
  <1> HIDE DEF x6, y6
  <1> DEFINE x7 == x6 \o p7
             y7 == y6 \o p7
  <1>13. Wider(x7, y7) /\ IsTuple(x7) /\ IsTuple(y7)
    BY <1>12, <1>4, WiderMore
  <1> HIDE DEF x7, y7
  <1> DEFINE x8 == x7 \o p8
             y8 == y7 \o p8
  <1>14. Wider(x8, y8) /\ IsTuple(x8) /\ IsTuple(y8)
    BY <1>13, <1>4, WiderMore
  <1> HIDE DEF x8, y8
  <1> DEFINE x9 == x8 \o p9
             y9 == y8 \o p9
  <1>15. Wider(x9, y9) /\ IsTuple(x9) /\ IsTuple(y9)
    BY <1>14, <1>5, WiderMore
  <1> HIDE DEF x9, y9
  <1>16. Wider(x9 \o p, y9 \o q)
    BY <1>2, <1>3, <1>15, WiderJoin
  <1>17. QED BY <1>6, <1>16 DEF x1, y1, x2, y2, x3, y3, x4, y4, x5, y5, x6, y6, x7, y7, x8, y8, x9, y9

\* How many cells seven pieces make.
LEMMA FlattenLen ==
  ASSUME NEW A, NEW s \in Seq(Seq(A)), Len(s) = 7
  PROVE  Len(FlattenSeq(s)) = Len(s[1]) + Len(s[2]) + Len(s[3]) + Len(s[4]) + Len(s[5]) + Len(s[6]) + Len(s[7])
  <1> DEFINE n == 7
  <1>n. n \in Nat /\ n = Len(s) /\ n > 0
    OBVIOUS
  <1> HIDE DEF n
  <1>0. \E f \in [1..n -> Seq(A)] : Concatenates(s, f, n)
    BY <1>n, HasConcatenations
  <1>1. PICK f \in [1..7 -> Seq(A)] : Concatenates(s, f, 7)
    BY <1>0 DEF n
  <1>2. FlattenSeq(s) = f[7]
    BY <1>1, FlattenedIs
  <1>3. \A i \in 1..7 : s[i] \in Seq(A) /\ f[i] \in Seq(A) /\ Len(s[i]) \in Nat /\ Len(f[i]) \in Nat
    BY <1>1, ElementOfSeq, LenProperties
  <1>4. \A x, y \in Seq(A) : Len(x \o y) = Len(x) + Len(y)
    BY ConcatProperties
  <1>5. \A i \in 2..7 : i \in 1..7 /\ i - 1 \in 1..7 /\ f[i] = f[i - 1] \o s[i]
    <2>1. \A i \in 2..7 : i \in 1..7 /\ i - 1 \in 1..7
      OBVIOUS
    <2>2. \A i \in 2..7 : f[i] = f[i - 1] \o s[i]
      <3> HIDE <1>0
      <3>1. QED BY <1>1 DEF Concatenates
    <2>3. QED BY <2>1, <2>2
  <1>6. ASSUME NEW i \in 2..7 PROVE Len(f[i]) = Len(f[i - 1]) + Len(s[i])
    BY <1>3, <1>4, <1>5
  <1>7. f[1] = s[1]
    BY <1>1 DEF Concatenates
  <1> DEFINE a == Len(s[1])
             b == Len(s[2])
             c == Len(s[3])
             d == Len(s[4])
             e == Len(s[5])
             g == Len(s[6])
             h == Len(s[7])
  <1>8. a \in Nat /\ b \in Nat /\ c \in Nat /\ d \in Nat /\ e \in Nat /\ g \in Nat /\ h \in Nat
    BY <1>3
  <1>9. /\ Len(f[2]) = Len(f[1]) + b /\ Len(f[3]) = Len(f[2]) + c /\ Len(f[4]) = Len(f[3]) + d
        /\ Len(f[5]) = Len(f[4]) + e /\ Len(f[6]) = Len(f[5]) + g /\ Len(f[7]) = Len(f[6]) + h
    <2>1. /\ 2 \in 2..7 /\ 3 \in 2..7 /\ 4 \in 2..7 /\ 5 \in 2..7 /\ 6 \in 2..7 /\ 7 \in 2..7
          /\ 2 - 1 = 1 /\ 3 - 1 = 2 /\ 4 - 1 = 3 /\ 5 - 1 = 4 /\ 6 - 1 = 5 /\ 7 - 1 = 6
      OBVIOUS
    <2>2. Len(f[2]) = Len(f[1]) + b /\ Len(f[3]) = Len(f[2]) + c
      BY <1>6, <2>1
    <2>3. Len(f[4]) = Len(f[3]) + d /\ Len(f[5]) = Len(f[4]) + e
      BY <1>6, <2>1
    <2>4. Len(f[6]) = Len(f[5]) + g /\ Len(f[7]) = Len(f[6]) + h
      BY <1>6, <2>1
    <2>5. QED BY <2>2, <2>3, <2>4
  <1>10. Len(f[1]) = a
    BY <1>7
  <1> HIDE DEF a, b, c, d, e, g, h
  <1>11. Len(f[7]) = a + b + c + d + e + g + h
    BY <1>8, <1>9, <1>10
  <1>12. QED BY <1>2, <1>11 DEF a, b, c, d, e, g, h

\* The first elements of a sequence stay first when another one follows.
LEMMA TupleJoin ==
  ASSUME NEW F, IsTuple(F), NEW G, IsTuple(G)
  PROVE  /\ IsTuple(F \o G) /\ Range(F \o G) = Range(F) \cup Range(G)
         /\ Len(F) >= 1 => (F \o G)[1] = F[1] /\ Len(F \o G) >= 1
  <1> DEFINE m == Len(F)
             k == Len(G)
             R == Range(F) \cup Range(G)
             H == F \o G
  <1>1. m \in Nat /\ k \in Nat
    BY TupleLen
  <1>2. F \in Seq(R) /\ G \in Seq(R) /\ DOMAIN F = 1..m /\ DOMAIN G = 1..k
    <2>1. \A X, Y : X \subseteq Y => Seq(X) \subseteq Seq(Y)
      OBVIOUS
    <2>2. F \in Seq(Range(F)) /\ G \in Seq(Range(G))
      BY DEF IsTuple
    <2>3. F \in Seq(R) /\ G \in Seq(R)
      BY <2>1, <2>2
    <2>4. \A X : \A s \in Seq(X) : DOMAIN s = 1..Len(s)
      OBVIOUS
    <2>5. QED BY <2>3, <2>4
  <1>3. /\ H \in Seq(R) /\ Len(H) = m + k
        /\ \A i \in 1..m + k : H[i] = IF i <= m THEN F[i] ELSE G[i - m]
    BY <1>2, ConcatProperties
  <1>4. DOMAIN H = 1..m + k
    <2>1. \A X : \A s \in Seq(X) : DOMAIN s = 1..Len(s)
      OBVIOUS
    <2>2. QED BY <1>3, <2>1
  <1>5. IsTuple(H)
    BY <1>3, InTuple
  <1> HIDE DEF m, k, H
  <1>6. \A i \in 1..m : i \in 1..m + k /\ H[i] = F[i]
    BY <1>1, <1>3
  <1>7. \A i \in 1..k : m + i \in 1..m + k /\ H[m + i] = G[i]
    <2> TAKE i \in 1..k
    <2>1. m + i \in 1..m + k /\ ~(m + i <= m) /\ (m + i) - m = i
      BY <1>1
    <2>2. QED BY <1>3, <2>1
  <1>8. \A i \in 1..m + k : H[i] \in R
    BY <1>3, ElementOfSeq
  <1>9. Range(H) = R
    <2>1. Range(H) \subseteq R
      BY <1>4, <1>8 DEF Range
    <2>2. Range(F) \subseteq Range(H)
      BY <1>2, <1>4, <1>6 DEF Range
    <2>3. Range(G) \subseteq Range(H)
      BY <1>2, <1>4, <1>7 DEF Range
    <2>4. QED BY <2>1, <2>2, <2>3
  <1>10. m >= 1 => H[1] = F[1] /\ m + k >= 1
    BY <1>1, <1>6
  <1>11. QED BY <1>3, <1>5, <1>9, <1>10 DEF H, m

\* The binding: its flag, and fields that are there only when a flag is set.
LEMMA BindingForms ==
  /\ Len(binding_fields) >= 1 /\ binding_fields[1] = Group("binding?", "source")
  /\ When("binding?", {1}, Field("source", AnyCell)) \in Range(binding_fields)
  /\ \A f \in Range(binding_fields) : f = Group("binding?", "source") \/ (f.when = {1} /\ Named(f.of))
  <1> DEFINE g == Group("binding?", "source")
             p1 == binding_head
             p2 == bound_option("source_generation?", "source_generation")
             p3 == bound_option("target_generation?", "target_generation")
             p4 == bound_option("parent_witness?", "parent_witness")
             Due(F) == \A f \in Range(F) : f = g \/ (f.when = {1} /\ Named(f.of))
  <1>0. Named("binding?") /\ Named("source_generation?") /\ Named("target_generation?") /\ Named("parent_witness?")
    BY DEF Named
  <1>1. IsTuple(p1) /\ IsTuple(p2) /\ IsTuple(p3) /\ IsTuple(p4)
    BY DEF IsTuple, Range, binding_head, bound_option
  <1>2. p1[1] = g /\ Len(p1) >= 1
    BY DEF binding_head
  <1>s. When("binding?", {1}, Field("source", AnyCell)) \in Range(p1)
    BY BindingHead
  <1>3. Due(p1)
    <2>1. Range(p1) = {g, When("binding?", {1}, Field("source", AnyCell)),
               When("binding?", {1}, Field("source_serial", AnyCell)),
               When("binding?", {1}, Field("target", AnyCell)),
               When("binding?", {1}, Field("target_serial", NonZeroCell))}
      BY BindingHead
    <2>2. \A f \in Range(p1) : f = g \/ f.when = {1}
      BY <2>1, WhensSay
    <2>3. \A f \in Range(p1) : f = g \/ f.of = "binding?"
      BY <2>1, BoundForms
    <2>4. QED BY <1>0, <2>2, <2>3
  <1>4. ASSUME NEW flag, Named(flag), NEW name PROVE Due(bound_option(flag, name))
    <2> DEFINE t == bound_option(flag, name)
    <2>1. t[1] = When("binding?", {1}, Group(flag, name)) /\ t[2] = When(flag, {1}, Field(name, AnyCell))
      BY DEF bound_option
    <2>2. DOMAIN t = 1..2
      BY DEF bound_option
    <2> HIDE DEF t
    <2>3. Range(t) = {t[1], t[2]}
      BY <2>2 DEF Range
    <2>4. t[1].when = {1} /\ t[2].when = {1}
      BY <2>1, WhensSay
    <2>5. t[1].of = "binding?" /\ t[2].of = flag
      BY <2>1, BoundForms
    <2>6. Named(t[1].of) /\ Named(t[2].of)
      BY <1>0, <1>4, <2>5
    <2>7. QED BY <2>3, <2>4, <2>6 DEF t
  <1>5. Due(p2) /\ Due(p3) /\ Due(p4)
    BY <1>0, <1>4
  <1>6. binding_fields = p1 \o p2 \o p3 \o p4
    BY DEF binding_fields, binding_head, bound_option
  <1> HIDE DEF g, p1, p2, p3, p4
  <1> DEFINE a2 == p1 \o p2
  <1>7. IsTuple(a2) /\ Range(a2) = Range(p1) \cup Range(p2) /\ a2[1] = g /\ Len(a2) >= 1
    BY <1>1, <1>2, TupleJoin
  <1> HIDE DEF a2
  <1> DEFINE a3 == a2 \o p3
  <1>8. IsTuple(a3) /\ Range(a3) = Range(a2) \cup Range(p3) /\ a3[1] = g /\ Len(a3) >= 1
    BY <1>1, <1>7, TupleJoin
  <1> HIDE DEF a3
  <1> DEFINE a4 == a3 \o p4
  <1>9. IsTuple(a4) /\ Range(a4) = Range(a3) \cup Range(p4) /\ a4[1] = g /\ Len(a4) >= 1
    BY <1>1, <1>8, TupleJoin
  <1> HIDE DEF a4
  <1>10. Due(a4)
    BY <1>3, <1>5, <1>7, <1>8, <1>9
  <1>11. binding_fields = a4
    BY <1>6 DEF a2, a3, a4
  <1>12. QED BY <1>s, <1>7, <1>8, <1>9, <1>10, <1>11 DEF g

\* What the common codec reads where the image read v.
as_command(v) ==
  [n \in NamesOf(command_format) |->
     IF n \in NamesOf(image_common) THEN v[n]
     ELSE IF n = "binding?" THEN <<0>>
     ELSE IF n = "profile_body#" THEN v["profile_length"]
     ELSE IF n = "profile_body" THEN FlattenSeq(Pieces(profile_format, v))
     ELSE <<>>]

\* The names the two codecs share, and the ones of a binding.
common_names ==
  {"format", "operation", "actor_kind", "actor#", "actor", "lookup.namespace", "lookup.serial", "lookup.key",
   "lookup.tag", "semantic.namespace", "semantic.serial", "semantic.key", "semantic.tag", "phase.namespace",
   "phase.serial", "phase.key", "phase.tag", "reservation.namespace", "reservation.serial", "reservation.key",
   "reservation.tag", "runtime", "process_instance", "original_deadline?", "original_deadline", "phase", "retention",
   "terminal_time?", "terminal_time", "expires_at?", "expires_at", "safe_result?", "codec", "codec_version", "result"}

binding_names ==
  {"binding?", "source", "source_serial", "target", "target_serial", "source_generation?", "source_generation",
   "target_generation?", "target_generation", "parent_witness?", "parent_witness"}

LEMMA CommonNames ==
  /\ NamesOf(image_common) = common_names /\ NamesOf(command_common) = common_names
  /\ NamesOf(binding_fields) = binding_names
  /\ NamesOf(command_format) = common_names \cup binding_names \cup {"profile_body#", "profile_body"}
  /\ NamesOf(projection_format) =
       common_names \cup {"binding?", "profile_length", "profile", "variant", "digests", "kind1", "digest1", "kind2",
                          "digest2"}
  <1>1. NamesOf(image_common) = common_names
    BY CodesIn, CommonPart DEF image_common, common_names
  <1>2. NamesOf(command_common) = common_names
    BY CodesIn, CommonPart DEF command_common, common_names
  <1>3. NamesOf(binding_fields) = binding_names
    BY BindingPart DEF binding_names
  <1>4. NamesOf(command_format) = common_names \cup binding_names \cup {"profile_body#", "profile_body"}
    BY CommandTable DEF common_names, binding_names
  <1>5. NamesOf(projection_format) =
          common_names \cup {"binding?", "profile_length", "profile", "variant", "digests", "kind1", "digest1",
                             "kind2", "digest2"}
    BY ProjectionTable DEF common_names
  <1>6. QED BY <1>1, <1>2, <1>3, <1>4, <1>5

\* What the names of a command are not, and which it shares with an image's.
LEMMA CommandApart ==
  /\ "kind1" \notin NamesOf(command_format) /\ "issuance" \notin NamesOf(command_format)
  /\ "confirmation" \notin NamesOf(command_format)
  /\ NamesOf(command_format) \cap NamesOf(projection_format) \subseteq NamesOf(image_common) \cup {"binding?"}
  <1>1. /\ "kind1" \notin common_names \cup binding_names \cup {"profile_body#", "profile_body"}
        /\ "issuance" \notin common_names \cup binding_names \cup {"profile_body#", "profile_body"}
        /\ "confirmation" \notin common_names \cup binding_names \cup {"profile_body#", "profile_body"}
    BY DEF common_names, binding_names
  <1>2. (binding_names \cup {"profile_body#", "profile_body"})
          \cap {"binding?", "profile_length", "profile", "variant", "digests", "kind1", "digest1", "kind2", "digest2"}
        \subseteq {"binding?"}
    BY DEF binding_names
  <1>3. QED BY <1>1, <1>2, CommonNames

LEMMA CommandNames ==
  /\ NamesOf(command_format) =
       NamesOf(image_common) \cup NamesOf(binding_fields) \cup {"profile_body#", "profile_body"}
  /\ NamesOf(command_common) = NamesOf(image_common)
  /\ NamesOf(image_common) \cap NamesOf(binding_fields) = {}
  /\ NamesOf(image_common) \cap NamesOf(unbound_fields) = {}
  /\ "binding?" \in NamesOf(binding_fields) /\ "source" \in NamesOf(binding_fields)
  /\ \A n \in NamesOf(binding_fields) : n # "profile_body#" /\ n # "profile_body"
  /\ "profile_body#" \notin NamesOf(image_common) /\ "profile_body" \notin NamesOf(image_common)
  <1> DEFINE common == common_names
             bound == binding_names
  <1>1. /\ NamesOf(image_common) = common /\ NamesOf(command_common) = common /\ NamesOf(binding_fields) = bound
        /\ NamesOf(command_format) = common \cup bound \cup {"profile_body#", "profile_body"}
    BY CommonNames
  <1>5. common \cap bound = {}
    BY DEF common_names, binding_names
  <1>6. "binding?" \in bound /\ "source" \in bound
    BY DEF common_names, binding_names
  <1>7. \A n \in bound : n # "profile_body#" /\ n # "profile_body"
    BY DEF common_names, binding_names
  <1>8. "profile_body#" \notin common /\ "profile_body" \notin common
    BY DEF common_names, binding_names
  <1>9. common \cap {"binding?", "profile_length"} = {}
    BY DEF common_names, binding_names
  <1>10. NamesOf(unbound_fields) = {"binding?", "profile_length"}
    BY UnboundPart
  <1>11. QED BY <1>1, <1>5, <1>6, <1>7, <1>8, <1>9, <1>10

\* The parts of the two tables.
LEMMA CommandParts ==
  /\ command_format = command_common \o binding_fields \o body_fields
  /\ projection_format = image_common \o unbound_fields \o profile_format
  /\ IsPart(command_common) /\ IsPart(binding_fields) /\ IsPart(body_fields)
  /\ IsPart(image_common) /\ IsPart(unbound_fields) /\ IsPart(profile_format)
  /\ IsPart(command_common \o binding_fields) /\ IsPart(image_common \o unbound_fields)
  <1>1. command_format = command_common \o binding_fields \o body_fields
    BY DEF command_format, command_common, body_fields
  <1>2. projection_format = image_common \o unbound_fields \o profile_format
    BY DEF projection_format, image_common, unbound_fields
  <1>3. \A D : Section(command_common, D, {Variant("retention", {1, 2})})
    BY CodesIn, CommonPart DEF command_common
  <1>4. \A D : Section(image_common, D, {Variant("retention", {1, 2})})
    BY CodesIn, CommonPart DEF image_common
  <1>5. \A D : Section(binding_fields, D, {})
    BY BindingPart
  <1>6. \A D : Section(body_fields, D, {})
    BY BodyPart
  <1>7. \A D : Section(unbound_fields, D, {Variant("profile_length", {3, 5, 7})})
    BY UnboundPart
  <1>8. \A D : \E S : Section(profile_format, D, S)
    BY ProfilePart
  <1>9. NamesOf(command_common) \cap NamesOf(binding_fields) = {}
    BY CommandNames
  <1>10. NamesOf(image_common) \cap NamesOf(unbound_fields) = {}
    BY CommandNames
  <1>11. IsPart(command_common \o binding_fields)
    BY <1>3, <1>5, <1>9, JoinParts DEF IsPart, Section
  <1>12. IsPart(image_common \o unbound_fields)
    BY <1>4, <1>7, <1>10, JoinParts DEF IsPart, Section
  <1>13. QED BY <1>1, <1>2, <1>3, <1>4, <1>5, <1>6, <1>7, <1>8, <1>11, <1>12, SectionIsPart

LEMMA CommandIs ==
  ASSUME NEW v
  PROVE  LET u == as_command(v)
         IN /\ DOMAIN u = NamesOf(command_format)
            /\ \A n \in NamesOf(image_common) : u[n] = v[n]
            /\ u["binding?"] = <<0>>
            /\ \A n \in NamesOf(binding_fields) : n # "binding?" => u[n] = <<>>
            /\ u["profile_body#"] = v["profile_length"] /\ u["profile_body"] = FlattenSeq(Pieces(profile_format, v))
  <1> DEFINE u == as_command(v)
             N == NamesOf(command_format)
             C == NamesOf(image_common)
             E == NamesOf(binding_fields)
             flat == FlattenSeq(Pieces(profile_format, v))
  <1>1. u = [n \in N |-> IF n \in C THEN v[n] ELSE IF n = "binding?" THEN <<0>>
                         ELSE IF n = "profile_body#" THEN v["profile_length"]
                         ELSE IF n = "profile_body" THEN flat ELSE <<>>]
    BY DEF as_command
  <1>2. /\ N = C \cup E \cup {"profile_body#", "profile_body"} /\ C \cap E = {} /\ "binding?" \in E
        /\ \A n \in E : n # "profile_body#" /\ n # "profile_body"
        /\ "profile_body#" \notin C /\ "profile_body" \notin C
    BY CommandNames
  <1> HIDE DEF u, N, C, E, flat
  <1>3. DOMAIN u = N /\ \A n \in C : u[n] = v[n]
    BY <1>1, <1>2
  <1>4. u["binding?"] = <<0>>
    BY <1>1, <1>2
  <1>5. \A n \in E : n # "binding?" => u[n] = <<>>
    BY <1>1, <1>2
  <1>6. "profile_body#" # "binding?" /\ "profile_body" # "binding?" /\ "profile_body" # "profile_body#"
    OBVIOUS
  <1>7. u["profile_body#"] = v["profile_length"] /\ u["profile_body"] = flat
    BY <1>1, <1>2, <1>6
  <1>8. QED BY <1>3, <1>4, <1>5, <1>7 DEF u, N, C, E, flat

\* The fields the two codecs share.
LEMMA CommonFits ==
  ASSUME NEW w, NEW v, Opened(projection_format, w, v)
  PROVE  LET u == as_command(v)
         IN /\ Held(image_common, v, Cells)
            /\ Held(command_common, u, Cells)
            /\ \A f \in Range(command_common) : Fits(u, f)
            /\ Pieces(command_common, u) = Pieces(image_common, v)
  <1> DEFINE u == as_command(v)
             F == image_common
             G == command_common
             n == Len(F)
  <1>1. Wider(F, G)
    BY CommonsWider
  <1>2. /\ Len(G) = n
        /\ \A i \in 1..n : G[i].name = F[i].name /\ G[i].of = F[i].of /\ G[i].when = F[i].when
             /\ F[i].codes \subseteq G[i].codes
    BY <1>1 DEF Wider
  <1>3. /\ n \in Nat /\ DOMAIN F = 1..n /\ Range(F) = {F[i] : i \in 1..n}
        /\ DOMAIN G = 1..Len(G) /\ Range(G) = {G[i] : i \in 1..Len(G)}
    BY CommandParts, PartIs
  <1>4. Range(F) \subseteq Range(projection_format)
    BY ProjectionSection DEF image_common
  <1>5. Section(F, {}, {Variant("retention", {1, 2})}) /\ Section(G, {}, {Variant("retention", {1, 2})})
    BY CodesIn, CommonPart DEF image_common, command_common
  <1>6. \A f \in Range(F) \cup Range(G) : f.codes \subseteq Cells
    BY <1>5 DEF Section
  <1>7. \A f \in Range(F) : f.name \in NamesOf(F)
    BY DEF NamesOf
  <1>8. \A m \in NamesOf(F) : u[m] = v[m]
    BY CommandIs
  <1>9. \A i \in 1..n : F[i].of = "" \/ F[i].of \in NamesOf(F)
    <2> TAKE i \in 1..n
    <2>1. Stands(F, i, {})
      BY <1>5 DEF Section, Part
    <2>2. NamesTo(F, i - 1) \subseteq NamesOf(F)
      <3>1. 1..(i - 1) \subseteq 1..n
        BY <1>3, Before
      <3>2. QED BY <1>3, <3>1 DEF NamesTo, NamesOf
    <2>3. QED BY <2>1, <2>2 DEF Stands
  <1>10. \A X, Y : X \subseteq Y => Seq(X) \subseteq Seq(Y)
    OBVIOUS
  <1> HIDE DEF F, G, u, n
  <1>11. Held(F, v, Cells)
    <2> SUFFICES ASSUME NEW f \in Range(F) PROVE v[f.name] \in Seq(Cells)
      BY DEF Held
    <2>1. v[f.name] \in Seq(f.codes)
      BY <1>4, ReadIn
    <2>2. QED BY <1>6, <1>10, <2>1
  <1>12. ASSUME NEW i \in 1..n
         PROVE  /\ u[G[i].name] = v[F[i].name] /\ u[G[i].name] \in Seq(G[i].codes)
                /\ Len(u[G[i].name]) = Extent(u, G[i])
    <2> DEFINE f == F[i]
               g == G[i]
    <2>1. f \in Range(F) /\ g.name = f.name /\ g.of = f.of /\ g.when = f.when /\ f.codes \subseteq g.codes
      BY <1>2, <1>3
    <2>2. f.of = "" \/ f.of \in NamesOf(F)
      BY <1>9
    <2> HIDE DEF f, g
    <2>3. /\ v[f.name] \in Seq(f.codes) /\ Len(v[f.name]) = Extent(v, f)
          /\ f.of = "" \/ (f.of \in DOMAIN v /\ v[f.of] \in Seq(Nat))
      BY <1>4, <2>1, ReadIn
    <2>4. u[g.name] = v[f.name]
      BY <1>7, <1>8, <2>1
    <2>5. v[f.name] \in Seq(g.codes)
      BY <1>10, <2>1, <2>3
    <2>6. f.of # "" => u[f.of] = v[f.of]
      BY <1>8, <2>2
    <2>7. Extent(u, f) = Extent(v, f)
      BY <2>3, <2>6, ExtentIs
    <2>8. Extent(u, g) = Extent(u, f)
      BY <2>1 DEF Extent
    <2>9. QED BY <2>3, <2>4, <2>5, <2>7, <2>8 DEF f, g
  <1>13. \A g \in Range(G) : Fits(u, g)
    BY <1>2, <1>3, <1>12 DEF Fits
  <1>14. Held(G, u, Cells)
    <2> SUFFICES ASSUME NEW g \in Range(G) PROVE u[g.name] \in Seq(Cells)
      BY DEF Held
    <2>1. u[g.name] \in Seq(g.codes)
      BY <1>13 DEF Fits
    <2>2. QED BY <1>6, <1>10, <2>1
  <1>15. Pieces(G, u) = Pieces(F, v)
    <2>1. Pieces(G, u) = [i \in 1..n |-> u[G[i].name]] /\ Pieces(F, v) = [i \in 1..n |-> v[F[i].name]]
      BY <1>2, <1>3 DEF Pieces
    <2>2. QED BY <1>12, <2>1
  <1>16. QED BY <1>11, <1>13, <1>14, <1>15 DEF F, G, u

\* The binding is missing.
LEMMA BindingFits ==
  ASSUME NEW u, u["binding?"] = << 0 >>, \A n \in NamesOf(binding_fields) : n # "binding?" => u[n] = <<>>
  PROVE  /\ Held(binding_fields, u, Cells)
         /\ \A f \in Range(binding_fields) : Fits(u, f)
         /\ FlattenSeq(Pieces(binding_fields, u)) = << 0 >>
  <1> DEFINE F == binding_fields
             g == Group("binding?", "source")
             n == Len(F)
             p == Pieces(F, u)
             Zero == <<0>>
  <1>1. n >= 1 /\ F[1] = g /\ \A f \in Range(F) : f = g \/ (f.when = {1} /\ Named(f.of))
    BY BindingForms
  <1>2. n \in Nat /\ DOMAIN F = 1..n /\ Range(F) = {F[i] : i \in 1..n}
    BY CommandParts, PartIs
  <1>3. Part(F, {}) /\ \A f \in Range(F) : f.codes \subseteq Cells
    BY BindingPart DEF Section
  <1>4. g.name = "binding?" /\ g.codes = Flags /\ Extent(u, g) = 1
    <2>1. g.name = "binding?"
      BY NamesSay
    <2>2. g.codes = Flags
      BY CodesSay
    <2>3. g.of = ""
      BY FreeForms
    <2>4. Extent(u, g) = 1
      BY <2>3 DEF Extent
    <2>5. QED BY <2>1, <2>2, <2>4
  <1> HIDE DEF F, g, n, p
  <1>5. \A f \in Range(F) : f.name \in NamesOf(F)
    BY DEF NamesOf
  <1>6. ASSUME NEW i \in 1..n PROVE i = 1 \/ F[i].name # "binding?"
    <2>1. 1 \in 1..n
      BY <1>1, <1>2
    <2>2. QED BY <1>1, <1>3, <1>4, <2>1 DEF Part, n
  <1>z. /\ Zero \in Seq(Flags) /\ Len(Zero) = 1 /\ Zero \in Seq(Cells) /\ <<>> \in Seq(Cells) /\ Zero[1] = 0
        /\ Zero # <<>>
    <2>1. 0 \in Flags /\ 0 \in Cells
      BY CodesIn DEF Flags
    <2>2. QED BY <2>1
  <1> HIDE DEF Zero
  <1>7. ASSUME NEW i \in 1..n, i # 1
        PROVE  u[F[i].name] = <<>> /\ Extent(u, F[i]) = 0
    <2> DEFINE f == F[i]
    <2>1. f \in Range(F) /\ f.name # "binding?" /\ f.name \in NamesOf(F)
      BY <1>2, <1>5, <1>6, <1>7
    <2>2. u[f.name] = <<>>
      BY <2>1 DEF F
    <2>3. f # g
      BY <1>4, <2>1
    <2>4. f.when = {1} /\ Named(f.of)
      BY <1>1, <2>1, <2>3
    <2>5. f.of \in NamesOf(F)
      <3>1. Stands(F, i, {})
        BY <1>3 DEF Part, n
      <3>2. NamesTo(F, i - 1) \subseteq NamesOf(F)
        <4>1. 1..(i - 1) \subseteq 1..n
          BY <1>2, Before
        <4>2. QED BY <1>2, <4>1 DEF NamesTo, NamesOf
      <3>3. QED BY <2>4, <3>1, <3>2 DEF Stands, Named
    <2>6. u[f.of] = Zero \/ u[f.of] = <<>>
      BY <2>5 DEF F, Zero
    <2> HIDE DEF f
    <2>7. Extent(u, f) = 0
      BY <1>z, <2>4, <2>6 DEF Extent, Has, The, Named
    <2>8. QED BY <2>2, <2>7 DEF f
  <1>8. u[g.name] = Zero
    BY <1>4 DEF Zero
  <1>9. \A f \in Range(F) : Fits(u, f) /\ u[f.name] \in Seq(Cells)
    <2>1. ASSUME NEW i \in 1..n PROVE Fits(u, F[i]) /\ u[F[i].name] \in Seq(Cells)
      <3>1. CASE i = 1
        BY <1>1, <1>4, <1>8, <1>z, <3>1 DEF Fits
      <3>2. CASE i # 1
        <4>1. u[F[i].name] = <<>> /\ Extent(u, F[i]) = 0
          BY <1>7, <3>2
        <4>2. \A A : <<>> \in Seq(A) /\ Len(<<>>) = 0
          OBVIOUS
        <4>3. QED BY <4>1, <4>2 DEF Fits
      <3>3. QED BY <3>1, <3>2
    <2>2. QED BY <1>2, <2>1
  <1>10. Held(F, u, Cells)
    BY <1>9 DEF Held
  <1>11. p \in Seq(Seq(Cells)) /\ Len(p) = n /\ Pieced(p) /\ \A i \in 1..n : p[i] = u[F[i].name]
    BY <1>10, CommandParts, PiecesIn DEF F, p, n
  <1>12. \A i \in 2..Len(p) : p[i] = <<>>
    <2>1. \A i \in 2..n : i \in 1..n /\ i # 1
      BY <1>2
    <2>2. QED BY <1>7, <1>11, <2>1
  <1>13. p[1] = Zero
    BY <1>1, <1>2, <1>8, <1>11
  <1>14. FlattenSeq(p) = p[1]
    <2>1. Len(p) > 0
      BY <1>11 DEF Pieced
    <2>2. QED BY <1>11, <1>12, <2>1, FlattenFirst
  <1>15. QED BY <1>9, <1>10, <1>13, <1>14 DEF F, p, Zero

\* The profile as the image read it: its length, over cells.
LEMMA ProfileFlat ==
  ASSUME NEW w, NEW v, Opened(projection_format, w, v)
  PROVE  LET flat == FlattenSeq(Pieces(profile_format, v))
         IN /\ Held(profile_format, v, Cells) /\ Held(unbound_fields, v, Cells)
            /\ flat \in Seq(Cells) /\ Len(flat) = 3 + 2 * The(v, "digests")
            /\ v["binding?"] = <<0>>
            /\ v["profile_length"] = <<The(v, "profile_length")>> /\ The(v, "profile_length") \in Cells
  <1> DEFINE F == profile_format
             P == projection_format
             p == Pieces(F, v)
             d == The(v, "digests")
             f3 == Variant("digests", 0..2)
             f4 == When("digests", {1, 2}, Variant("kind1", {1, 2}))
             f5 == When("digests", {1, 2}, Variant("digest1", AnyCell))
             f6 == When("digests", {2}, Variant("kind2", {1, 2}))
             f7 == When("digests", {2}, Variant("digest2", AnyCell))
  <1>1. Range(unbound_fields) \subseteq Range(P) /\ Range(F) \subseteq Range(P)
    BY ProjectionSection
  <1>2. \A f \in Range(P) : f.codes \subseteq Cells
    BY ProjectionSection DEF Section
  <1>3. \A X, Y : X \subseteq Y => Seq(X) \subseteq Seq(Y)
    OBVIOUS
  <1>4. \A f \in Range(P) : v[f.name] \in Seq(Cells)
    <2> TAKE f \in Range(P)
    <2>1. v[f.name] \in Seq(f.codes)
      BY ReadIn
    <2>2. QED BY <1>2, <1>3, <2>1
  <1>5. Held(F, v, Cells) /\ Held(unbound_fields, v, Cells)
    BY <1>1, <1>4 DEF Held
  <1>6. Const("binding?", 0) \in Range(P) /\ Variant("profile_length", {3, 5, 7}) \in Range(P)
    BY <1>1, UnboundPart
  <1>7. v["binding?"] = <<0>>
    <2> DEFINE f == Const("binding?", 0)
    <2>1. f.name = "binding?"
      BY NamesSay
    <2>2. f.of = ""
      BY FreeForms
    <2>3. f.codes = {0}
      BY CodesSay
    <2> HIDE DEF f
    <2>4. The(v, f.name) \in f.codes /\ v[f.name] = <<The(v, f.name)>>
      BY <1>6, <2>2, ReadAlways DEF f
    <2>5. QED BY <2>1, <2>3, <2>4
  <1>8. v["profile_length"] = <<The(v, "profile_length")>> /\ The(v, "profile_length") \in Cells
    <2>1. v["profile_length"] = <<The(v, "profile_length")>> /\ The(v, "profile_length") \in {3, 5, 7}
      BY <1>6, ReadVariant
    <2>2. QED BY <2>1, CodesIn
  <1>9. /\ F[1] = Const("profile", 1) /\ F[2] = Field("variant", {1, 2}) /\ F[3] = f3 /\ F[4] = f4 /\ F[5] = f5
        /\ F[6] = f6 /\ F[7] = f7
    BY DEF profile_format
  <1>10. Len(F) = 7 /\ \A i \in 1..7 : F[i] \in Range(F)
    BY DEF profile_format, Range
  <1>11. /\ p \in Seq(Seq(Cells)) /\ Len(p) = 7 /\ Pieced(p)
         /\ \A i \in 1..7 : p[i] = v[F[i].name]
    <2>1. /\ p \in Seq(Seq(Cells)) /\ Len(p) = Len(F) /\ Pieced(p)
          /\ \A i \in 1..Len(F) : p[i] = v[F[i].name]
      BY <1>5, CommandParts, PiecesIn
    <2> HIDE DEF p, F
    <2>2. QED BY <1>10, <2>1
  <1>12. \A i \in 1..7 : Len(p[i]) = Extent(v, F[i])
    <2> TAKE i \in 1..7
    <2>1. F[i] \in Range(P)
      BY <1>1, <1>10
    <2>2. Len(v[F[i].name]) = Extent(v, F[i])
      BY <2>1, ReadIn
    <2>3. QED BY <1>11, <2>2
  <1>13. Has(v, "digests") /\ d \in 0..2
    <2>1. f3 \in Range(P)
      BY <1>1, <1>9, <1>10
    <2>2. QED BY <2>1, ReadVariant
  <1>14. F[1].of = "" /\ F[2].of = "" /\ F[3].of = ""
    <2>1. Const("profile", 1).of = "" /\ Field("variant", {1, 2}).of = "" /\ Variant("digests", 0..2).of = ""
      BY FreeForms
    <2> HIDE DEF F
    <2>2. QED BY <1>9, <2>1
  <1>15. Extent(v, F[1]) = 1 /\ Extent(v, F[2]) = 1 /\ Extent(v, F[3]) = 1
    BY <1>14 DEF Extent
  <1>16. F[4].of = "digests" /\ F[5].of = "digests" /\ F[6].of = "digests" /\ F[7].of = "digests"
    BY <1>9, BoundForms
  <1>17. F[4].when = {1, 2} /\ F[5].when = {1, 2} /\ F[6].when = {2} /\ F[7].when = {2}
    BY <1>9, WhensSay
  <1> HIDE DEF F, p, P, d
  <1>18. /\ Extent(v, F[4]) = (IF d \in {1, 2} THEN 1 ELSE 0) /\ Extent(v, F[5]) = (IF d \in {1, 2} THEN 1 ELSE 0)
         /\ Extent(v, F[6]) = (IF d \in {2} THEN 1 ELSE 0) /\ Extent(v, F[7]) = (IF d \in {2} THEN 1 ELSE 0)
    <2>1. "digests" # "" /\ {1, 2} # {} /\ {2} # {}
      OBVIOUS
    <2>2. QED BY <1>13, <1>16, <1>17, <2>1 DEF Extent, d
  <1>19. /\ Len(p[1]) = 1 /\ Len(p[2]) = 1 /\ Len(p[3]) = 1
         /\ Len(p[4]) = (IF d \in {1, 2} THEN 1 ELSE 0) /\ Len(p[5]) = (IF d \in {1, 2} THEN 1 ELSE 0)
         /\ Len(p[6]) = (IF d \in {2} THEN 1 ELSE 0) /\ Len(p[7]) = (IF d \in {2} THEN 1 ELSE 0)
    <2>1. 1 \in 1..7 /\ 2 \in 1..7 /\ 3 \in 1..7 /\ 4 \in 1..7 /\ 5 \in 1..7 /\ 6 \in 1..7 /\ 7 \in 1..7
      OBVIOUS
    <2>2. /\ Len(p[1]) = Extent(v, F[1]) /\ Len(p[2]) = Extent(v, F[2]) /\ Len(p[3]) = Extent(v, F[3])
          /\ Len(p[4]) = Extent(v, F[4]) /\ Len(p[5]) = Extent(v, F[5]) /\ Len(p[6]) = Extent(v, F[6])
          /\ Len(p[7]) = Extent(v, F[7])
      BY <1>12, <2>1
    <2>3. QED BY <1>15, <1>18, <2>2
  <1>20. Len(FlattenSeq(p)) = Len(p[1]) + Len(p[2]) + Len(p[3]) + Len(p[4]) + Len(p[5]) + Len(p[6]) + Len(p[7])
    BY <1>11, FlattenLen
  <1>21. Len(FlattenSeq(p)) = 3 + 2 * d
    <2>1. d = 0 \/ d = 1 \/ d = 2
      BY <1>13
    <2>2. QED BY <1>19, <1>20, <2>1
  <1>22. FlattenSeq(p) \in Seq(Cells)
    BY <1>11, FlattenJoin
  <1>23. QED BY <1>5, <1>7, <1>8, <1>21, <1>22 DEF F, p, P, d

\* The body is the profile, after its length.
LEMMA BodyFits ==
  ASSUME NEW u, NEW flat \in Seq(Cells), NEW k, k = Len(flat), k \in Cells,
         u["profile_body#"] = <<k>>, u["profile_body"] = flat
  PROVE  /\ Held(body_fields, u, Cells)
         /\ \A f \in Range(body_fields) : Fits(u, f)
         /\ FlattenSeq(Pieces(body_fields, u)) = <<k>> \o flat
  <1> DEFINE F == body_fields
             f1 == Length("profile_body#", "profile_body", AnyCell)
             f2 == Bytes("profile_body#", "profile_body", AnyCell)
             one == <<k>>
  <1>1. F = <<f1, f2>> /\ Range(F) = {f1, f2}
    BY BodyPart DEF body_fields
  <1>2. f1.name = "profile_body#" /\ f2.name = "profile_body"
    BY NamesSay
  <1>3. f1.codes = Cells /\ f2.codes = Cells
    BY CodesSay DEF AnyCell
  <1>4. f1.of = ""
    BY FreeForms
  <1>5. f2.of = "profile_body#" /\ f2.when = {}
    BY BoundForms, WhensSay
  <1>6. one \in Seq(Cells) /\ Len(one) = 1 /\ one[1] = k /\ one # <<>>
    OBVIOUS
  <1> HIDE DEF f1, f2, one, F
  <1>7. Extent(u, f1) = 1
    BY <1>4 DEF Extent
  <1>8. Extent(u, f2) = k
    <2>1. u[f2.of] = one /\ f2.of # ""
      BY <1>5 DEF one
    <2>2. QED BY <1>5, <1>6, <2>1 DEF Extent, Has, The
  <1>9. u[f1.name] = one /\ u[f2.name] = flat
    BY <1>2 DEF one
  <1>10. Fits(u, f1) /\ Fits(u, f2)
    BY <1>3, <1>6, <1>7, <1>8, <1>9 DEF Fits
  <1>11. Held(F, u, Cells)
    BY <1>1, <1>6, <1>9 DEF Held
  <1>12. Pieces(F, u) = <<one, flat>>
    BY <1>1, <1>9 DEF Pieces
  <1>13. FlattenSeq(Pieces(F, u)) = one \o flat
    BY <1>6, <1>12, FlattenTwo
  <1>14. QED BY <1>1, <1>10, <1>11, <1>13 DEF F, one

LEMMA PartTuple ==
  ASSUME NEW F, IsPart(F)
  PROVE  IsTuple(F)
  BY PartIs DEF IsTuple

\* The wire of an image's command is one the common codec reads.
LEMMA ReadsAsCommand ==
  ASSUME NEW w, NEW v, Opened(projection_format, w, v), The(v, "profile_length") = 3 + 2 * The(v, "digests")
  PROVE  Reading(command_format, w, as_command(v)) /\ Held(command_format, as_command(v), Cells)
  <1> DEFINE u == as_command(v)
             F == command_format
             C == command_common
             D == image_common
             E == binding_fields
             G == body_fields
             H == unbound_fields
             J == profile_format
             flat == FlattenSeq(Pieces(J, v))
             k == The(v, "profile_length")
             x == FlattenSeq(Pieces(D, v))
             zero == <<0>>
             one == <<k>>
  <1>1. /\ F = C \o E \o G /\ projection_format = D \o H \o J
        /\ IsPart(C) /\ IsPart(E) /\ IsPart(G) /\ IsPart(D) /\ IsPart(H) /\ IsPart(J)
        /\ IsPart(C \o E) /\ IsPart(D \o H)
    BY CommandParts
  <1>2. Held(D, v, Cells) /\ Held(C, u, Cells) /\ (\A f \in Range(C) : Fits(u, f)) /\ Pieces(C, u) = Pieces(D, v)
    BY CommonFits
  <1>3. /\ Held(J, v, Cells) /\ Held(H, v, Cells) /\ flat \in Seq(Cells) /\ Len(flat) = k
        /\ v["binding?"] = zero /\ v["profile_length"] = one /\ k \in Cells
    BY ProfileFlat
  <1>4. /\ DOMAIN u = NamesOf(F) /\ u["binding?"] = zero /\ u["profile_body#"] = one /\ u["profile_body"] = flat
        /\ \A n \in NamesOf(E) : n # "binding?" => u[n] = <<>>
    BY <1>3, CommandIs
  <1> HIDE DEF u
  <1>5. Held(E, u, Cells) /\ (\A f \in Range(E) : Fits(u, f)) /\ FlattenSeq(Pieces(E, u)) = zero
    BY <1>4, BindingFits
  <1>6. Held(G, u, Cells) /\ (\A f \in Range(G) : Fits(u, f)) /\ FlattenSeq(Pieces(G, u)) = one \o flat
    <2> HIDE DEF flat, k, E, F, zero
    <2>1. QED BY <1>3, <1>4, BodyFits
  <1>7. FlattenSeq(Pieces(H, v)) = zero \o one
    <2>1. H = <<Const("binding?", 0), Variant("profile_length", {3, 5, 7})>>
      BY DEF unbound_fields
    <2>2. Const("binding?", 0).name = "binding?" /\ Variant("profile_length", {3, 5, 7}).name = "profile_length"
      BY NamesSay
    <2>3. Pieces(H, v) = <<v["binding?"], v["profile_length"]>>
      BY <2>1, <2>2 DEF Pieces
    <2>4. zero \in Seq(Cells) /\ one \in Seq(Cells)
      BY <1>3, CodesIn
    <2> HIDE DEF zero, one, H
    <2>5. QED BY <1>3, <2>3, <2>4, FlattenTwo
  <1>8. Range(F) = Range(C) \cup Range(E) \cup Range(G)
    <2> HIDE DEF F, C, E, G
    <2>1. IsTuple(C) /\ IsTuple(E) /\ IsTuple(G) /\ IsTuple(C \o E)
      BY <1>1, PartTuple
    <2>2. Range(C \o E) = Range(C) \cup Range(E)
      BY <2>1, TupleJoin
    <2>3. Range((C \o E) \o G) = Range(C \o E) \cup Range(G)
      BY <2>1, TupleJoin
    <2>4. QED BY <1>1, <2>2, <2>3
  <1>9. \A f \in Range(F) : Fits(u, f)
    BY <1>2, <1>5, <1>6, <1>8
  <1>10. Held(F, u, Cells)
    BY <1>2, <1>5, <1>6, <1>8 DEF Held
  <1>11. zero \in Seq(Cells) /\ one \in Seq(Cells)
    BY <1>3, CodesIn
  <1> HIDE DEF F, C, D, E, G, H, J, flat, k, zero, one, x
  <1>12. Range(C \o E) = Range(C) \cup Range(E) /\ Range(D \o H) = Range(D) \cup Range(H)
    BY <1>1, PartTuple, TupleJoin
  <1>13. Held(C \o E, u, Cells) /\ Held(D \o H, v, Cells)
    BY <1>2, <1>3, <1>5, <1>12 DEF Held
  <1> DEFINE a == C \o E
             b == D \o H
  <1>a. IsPart(a) /\ IsPart(G) /\ Held(a, u, Cells) /\ Held(G, u, Cells) /\ F = a \o G
    BY <1>1, <1>6, <1>13
  <1>b. IsPart(b) /\ IsPart(J) /\ Held(b, v, Cells) /\ Held(J, v, Cells) /\ projection_format = b \o J
    BY <1>1, <1>3, <1>13
  <1>c. IsPart(C) /\ IsPart(E) /\ Held(C, u, Cells) /\ Held(E, u, Cells)
    BY <1>1, <1>2, <1>5
  <1>d. IsPart(D) /\ IsPart(H) /\ Held(D, v, Cells) /\ Held(H, v, Cells)
    BY <1>1, <1>2, <1>3
  <1>14. FlattenSeq(Pieces(F, u)) = (x \o zero) \o (one \o flat) /\ x \in Seq(Cells)
    <2>1. FlattenSeq(Pieces(F, u)) = FlattenSeq(Pieces(C \o E, u)) \o FlattenSeq(Pieces(G, u))
      <3> HIDE DEF a
      <3>1. FlattenSeq(Pieces(F, u)) = FlattenSeq(Pieces(a, u)) \o FlattenSeq(Pieces(G, u))
        BY <1>a, FlatJoin
      <3>2. QED BY <3>1 DEF a
    <2>2. /\ FlattenSeq(Pieces(C \o E, u)) = FlattenSeq(Pieces(C, u)) \o FlattenSeq(Pieces(E, u))
          /\ FlattenSeq(Pieces(C, u)) \in Seq(Cells)
      BY <1>c, FlatJoin
    <2>3. QED BY <1>2, <1>5, <1>6, <2>1, <2>2 DEF x
  <1>15. FlattenSeq(Pieces(projection_format, v)) = (x \o (zero \o one)) \o flat
    <2>1. FlattenSeq(Pieces(projection_format, v)) = FlattenSeq(Pieces(D \o H, v)) \o FlattenSeq(Pieces(J, v))
      <3> HIDE DEF b
      <3>1. FlattenSeq(Pieces(projection_format, v)) = FlattenSeq(Pieces(b, v)) \o FlattenSeq(Pieces(J, v))
        BY <1>b, FlatJoin
      <3>2. QED BY <3>1 DEF b
    <2>2. FlattenSeq(Pieces(D \o H, v)) = FlattenSeq(Pieces(D, v)) \o FlattenSeq(Pieces(H, v))
      BY <1>d, FlatJoin
    <2>3. QED BY <1>7, <2>1, <2>2 DEF x, flat
  <1>16. (x \o zero) \o (one \o flat) = (x \o (zero \o one)) \o flat
    <2> DEFINE y == x \o zero
    <2>1. y \in Seq(Cells)
      BY <1>11, <1>14, ConcatProperties
    <2>2. x \o (zero \o one) = y \o one
      BY <1>11, <1>14, JoinAssociates
    <2> HIDE DEF y
    <2>3. y \o (one \o flat) = (y \o one) \o flat
      <3>1. one \in Seq(Cells) /\ flat \in Seq(Cells)
        BY <1>3, <1>11
      <3>2. QED BY <2>1, <3>1, JoinAssociates
    <2>4. QED BY <2>2, <2>3 DEF y
  <1>17. FlattenSeq(Pieces(F, u)) = w
    <2>1. FlattenSeq(Pieces(projection_format, v)) = w
      BY DEF Opened, Reading
    <2>2. QED BY <1>14, <1>15, <1>16, <2>1
  <1>18. Section(F, {}, {Variant("retention", {1, 2})})
    BY CodecTables DEF F
  <1>19. NamesTo(F, Len(F)) = NamesOf(F) /\ Range(F) = {F[i] : i \in 1..Len(F)}
    BY <1>18, PartLen DEF Section
  <1>20. u \in [NamesTo(F, Len(F)) -> Seq(Nat)]
    <2>1. Cells \subseteq Nat
      BY WireAssumption DEF WireConstants
    <2>2. Seq(Cells) \subseteq Seq(Nat)
      <3>1. \A X, Y : X \subseteq Y => Seq(X) \subseteq Seq(Y)
        OBVIOUS
      <3>2. QED BY <2>1, <3>1
    <2>3. \A n \in NamesOf(F) : u[n] \in Seq(Cells)
      BY <1>10 DEF Held, NamesOf
    <2>4. u = [n \in NamesOf(F) |-> u[n]]
      BY <1>4 DEF u, as_command, F
    <2>5. QED BY <1>19, <2>2, <2>3, <2>4
  <1>21. Reading(F, w, u)
    BY <1>9, <1>17, <1>19, <1>20 DEF Reading
  <1>22. QED BY <1>10, <1>21 DEF u, F

\* The two codecs validate alike what they share.
LEMMA CommonValid ==
  ASSUME NEW v, NEW u, \A n \in NamesOf(image_common) : u[n] = v[n], validate_common(v)
  PROVE  validate_common(u)
  <1>1. /\ u["actor_kind"] = v["actor_kind"] /\ u["actor"] = v["actor"]
        /\ u["lookup.serial"] = v["lookup.serial"] /\ u["semantic.serial"] = v["semantic.serial"]
        /\ u["phase.serial"] = v["phase.serial"] /\ u["reservation.serial"] = v["reservation.serial"]
        /\ u["reservation.namespace"] = v["reservation.namespace"]
        /\ u["retention"] = v["retention"] /\ u["terminal_time"] = v["terminal_time"]
        /\ u["expires_at"] = v["expires_at"] /\ u["result"] = v["result"]
    <2>1. /\ "actor_kind" \in NamesOf(image_common) /\ "actor" \in NamesOf(image_common)
          /\ "lookup.serial" \in NamesOf(image_common) /\ "semantic.serial" \in NamesOf(image_common)
          /\ "phase.serial" \in NamesOf(image_common) /\ "reservation.serial" \in NamesOf(image_common)
          /\ "reservation.namespace" \in NamesOf(image_common)
          /\ "retention" \in NamesOf(image_common) /\ "terminal_time" \in NamesOf(image_common)
          /\ "expires_at" \in NamesOf(image_common) /\ "result" \in NamesOf(image_common)
      BY CommonNames DEF common_names
    <2>2. QED BY <2>1
  <1>2. valid_actor(u)
    BY <1>1 DEF validate_common, valid_actor, The
  <1>3. validate_retention(u)
    BY <1>1 DEF validate_common, validate_retention, The, Has
  <1>4. /\ DOMAIN Purposes = {"lookup", "semantic", "phase", "reservation"}
        /\ Purposes["lookup"].serial = "lookup.serial" /\ Purposes["semantic"].serial = "semantic.serial"
        /\ Purposes["phase"].serial = "phase.serial" /\ Purposes["reservation"].serial = "reservation.serial"
    BY DEF Purposes, Tag
  <1>5. \A purpose \in DOMAIN Purposes : u[Purposes[purpose].serial] = v[Purposes[purpose].serial]
    BY <1>1, <1>4
  <1>6. \A purpose \in DOMAIN Purposes : validate_tag(u, purpose)
    BY <1>1, <1>5 DEF validate_common, validate_tag, The
  <1>7. QED BY <1>2, <1>3, <1>6 DEF validate_common

\* What the journal image takes for a command, the common codec takes for the same
\* command.
LEMMA SameCommands ==
  ASSUME NEW w \in Seq(Nat), Decode("projection", w) # Invalid
  PROVE  LET image == Decode("projection", w)
             common == Decode("command", w)
         IN /\ common # Invalid
            /\ \A n \in DOMAIN common \cap DOMAIN image : common[n] = image[n]
            /\ ~Has(common, "source")
  <1> DEFINE image == Decode("projection", w)
             common == Decode("command", w)
             F == command_format
             P == projection_format
             v == ReadFields(P, w).value
             u == as_command(v)
  <1>1. Formats["projection"] = P /\ Formats["command"] = F /\ "projection" \in Codecs /\ "command" \in Codecs
    BY CodecsAre
  <1>2. Complete(ReadFields(P, w), w) /\ Valid("projection", v) /\ image = Meaning(P, v)
    BY <1>1, DecodeIs
  <1>3. Opened(P, w, v)
    BY <1>2, ProjectionSection, OpensTo
  <1>4. validate_projection(v)
    BY <1>2 DEF Valid
  <1>5. validate_common(v) /\ The(v, "profile_length") = 3 + 2 * The(v, "digests")
    BY <1>4 DEF validate_projection
  <1>6. v["binding?"] = <<0>>
    BY <1>3, ProfileFlat
  <1> HIDE DEF v
  <1>7. Reading(F, w, u) /\ Held(F, u, Cells)
    BY <1>3, <1>5, ReadsAsCommand
  <1>8. /\ DOMAIN u = NamesOf(F) /\ (\A n \in NamesOf(image_common) : u[n] = v[n])
        /\ u["binding?"] = <<0>> /\ u["source"] = <<>>
    <2>1. "source" \in NamesOf(binding_fields) /\ "source" # "binding?"
      BY CommandNames
    <2>2. QED BY <2>1, CommandIs
  <1>9. Section(F, {}, {Variant("retention", {1, 2})}) /\ Section(P, {}, projection_computed)
    BY CodecTables, ProjectionSection
  <1>10. ReadFields(F, w) = [ok |-> TRUE, at |-> Len(w), value |-> u]
    BY <1>7, <1>9, PartTable, ReadBack DEF Section
  <1> HIDE DEF u
  <1>11. validate_command(u)
    <2>1. validate_common(u)
      BY <1>5, <1>8, CommonValid
    <2>2. validate_target_binding(u)
      BY <1>8 DEF validate_target_binding, Has
    <2>3. QED BY <2>1, <2>2 DEF validate_command
  <1>12. Valid("command", u)
    BY <1>11 DEF Valid
  <1>13. common = Meaning(F, u)
    <2>1. Complete(ReadFields(F, w), w) /\ ReadFields(F, w).value = u
      BY <1>10 DEF Complete
    <2>2. QED BY <1>1, <1>12, <2>1, DecodeIs
  <1>14. Members(F) \subseteq NamesOf(F) /\ Members(P) \subseteq NamesOf(P)
    BY <1>9, MembersNamed
  <1>15. "kind1" \notin NamesOf(F) /\ "issuance" \notin NamesOf(F) /\ "confirmation" \notin NamesOf(F)
    BY CommandApart
  <1>16. NamesOf(F) \cap NamesOf(P) \subseteq NamesOf(image_common) \cup {"binding?"}
    BY CommandApart
  <1>17. common = [n \in Members(F) |-> u[n]]
    BY <1>8, <1>13, <1>15 DEF Meaning
  <1>18. common # Invalid
    <2>1. \A n \in Members(F) : u[n] \in Seq(Cells)
      BY <1>7, <1>14 DEF Held, NamesOf
    <2>2. common \in [Members(F) -> Seq(Cells)]
      BY <1>17, <2>1
    <2>3. Invalid \notin [Members(F) -> Seq(Cells)]
      BY <1>1, WireAssumption DEF WireConstants
    <2> HIDE DEF common
    <2>4. QED BY <2>2, <2>3
  <1>19. ASSUME NEW n \in DOMAIN common \cap DOMAIN image PROVE common[n] = image[n]
    <2>1. n \in Members(F) /\ n \in NamesOf(F) /\ common[n] = u[n]
      BY <1>14, <1>17
    <2>2. n \in Members(P) \cup {"issuance", "confirmation"}
      BY <1>2 DEF Meaning
    <2>3. n \in Members(P) /\ n \in NamesOf(P)
      BY <1>14, <1>15, <2>1, <2>2
    <2>4. image[n] = v[n]
      BY <1>2, <2>3, MeaningIs
    <2>5. n \in NamesOf(image_common) \cup {"binding?"}
      BY <1>16, <2>1, <2>3
    <2> HIDE DEF common, image
    <2>6. QED BY <1>6, <1>8, <2>1, <2>4, <2>5
  <1>20. ~Has(common, "source")
    <2>1. When("binding?", {1}, Field("source", AnyCell)) \in Range(F)
      BY BindingForms, CommandTable
    <2>2. Meaning(F, u)["source"] = u["source"]
      BY <1>9, <2>1, MeansRead
    <2> HIDE DEF common
    <2>3. QED BY <1>8, <1>13, <2>2 DEF Has
  <1>21. QED BY <1>18, <1>19, <1>20

\* A writer has the fields it has written, over cells; what was decoded is what
\* the wire, as it is now, decodes to.
WireInv ==
  /\ codec \in Codecs /\ wire \in Seq(Nat) /\ sent \in BOOLEAN
  /\ position \in 0..Len(Formats[codec])
  /\ filled \in [NamesTo(Formats[codec], position) -> Seq(Nat)]
  /\ decoded = IF sent THEN Decode(codec, wire) ELSE Invalid

LEMMA SubSeqIn ==
  ASSUME NEW A, NEW s \in Seq(A), NEW m \in Nat, NEW n \in Nat, m >= 1, n <= Len(s)
  PROVE  SubSeq(s, m, n) \in Seq(A)
  BY SubSeqProperties

\* A damaged wire is a wire.
LEMMA DamagedIn ==
  ASSUME NEW w \in Seq(Nat)
  PROVE  Damaged(w) \subseteq Seq(Nat)
  <1>0. EditCells \subseteq Nat
    BY WireAssumption DEF WireConstants
  <1>1. Len(w) \in Nat /\ DOMAIN w = 1..Len(w)
    BY LenProperties
  <1>2. ASSUME NEW i \in DOMAIN w, NEW c \in EditCells PROVE ReplaceAt(w, i, c) \in Seq(Nat)
    <2>1. ReplaceAt(w, i, c) = [w EXCEPT ![i] = c] /\ c \in Nat
      BY <1>0 DEF ReplaceAt
    <2>2. QED BY <1>1, <2>1
  <1>3. ASSUME NEW i \in DOMAIN w PROVE RemoveAt(w, i) \in Seq(Nat)
    <2> DEFINE a == SubSeq(w, 1, i - 1)
               b == SubSeq(w, i + 1, Len(w))
    <2>1. RemoveAt(w, i) = a \o b
      BY DEF RemoveAt
    <2>2. i - 1 \in Nat /\ i - 1 <= Len(w) /\ i + 1 \in Nat /\ i + 1 >= 1
      BY <1>1
    <2>3. a \in Seq(Nat) /\ b \in Seq(Nat)
      BY <1>1, <2>2, SubSeqIn
    <2> HIDE DEF a, b
    <2>4. QED BY <2>1, <2>3, ConcatProperties
  <1>4. ASSUME NEW i \in 1..(Len(w) + 1), NEW c \in EditCells PROVE InsertAt(w, i, c) \in Seq(Nat)
    <2> DEFINE a == SubSeq(w, 1, i - 1)
               b == SubSeq(w, i, Len(w))
               one == <<c>>
    <2>1. InsertAt(w, i, c) = (a \o one) \o b
      BY DEF InsertAt
    <2>2. i - 1 \in Nat /\ i - 1 <= Len(w) /\ i \in Nat /\ i >= 1
      BY <1>1
    <2>3. a \in Seq(Nat) /\ b \in Seq(Nat) /\ one \in Seq(Nat)
      BY <1>0, <1>1, <2>2, SubSeqIn
    <2> HIDE DEF a, b, one
    <2>4. a \o one \in Seq(Nat)
      BY <2>3, ConcatProperties
    <2>5. QED BY <2>1, <2>3, <2>4, ConcatProperties
  <1>5. QED BY <1>2, <1>3, <1>4 DEF Damaged

LEMMA WireBegins == WireInit => WireInv
  <1> SUFFICES ASSUME WireInit PROVE WireInv
    OBVIOUS
  <1>1. codec \in Codecs /\ wire = <<>> /\ filled = << >> /\ position = 0 /\ sent = FALSE /\ decoded = Invalid
    BY DEF WireInit
  <1>2. Len(Formats[codec]) \in Nat
    BY <1>1, CodecTable, PartLen DEF Section
  <1>3. NamesTo(Formats[codec], 0) = {}
    BY DEF NamesTo
  <1>4. filled \in [{} -> Seq(Nat)]
    BY <1>1
  <1>5. wire \in Seq(Nat)
    BY <1>1
  <1>6. position \in 0..Len(Formats[codec])
    BY <1>1, <1>2
  <1>7. filled \in [NamesTo(Formats[codec], position) -> Seq(Nat)]
    BY <1>1, <1>3, <1>4
  <1>8. sent \in BOOLEAN /\ decoded = IF sent THEN Decode(codec, wire) ELSE Invalid
    BY <1>1
  <1>9. QED BY <1>1, <1>5, <1>6, <1>7, <1>8 DEF WireInv

\* One more field is written.
LEMMA WriteFieldKeeps == WireInv /\ WriteField => WireInv'
  <1> SUFFICES ASSUME WireInv, WriteField PROVE WireInv'
    OBVIOUS
  <1> DEFINE F == Formats[codec]
             i == position + 1
             field == F[i]
  <1>1. /\ codec \in Codecs /\ wire \in Seq(Nat) /\ position \in 0..Len(F)
        /\ filled \in [NamesTo(F, position) -> Seq(Nat)]
        /\ ~sent /\ decoded = Invalid
    BY DEF WireInv, WriteField
  <1>2. PICK cells \in [1..Extent(filled, field) -> field.codes \cap Sample(codec, field)] :
          wire' = wire \o cells /\ filled' = Put(filled, field.name, cells)
    BY DEF WriteField
  <1>3. position < Len(F) /\ position' = i /\ codec' = codec /\ sent' = sent /\ decoded' = decoded
    BY DEF WriteField
  <1>4. PICK S : Section(F, {}, S)
    BY <1>1, CodecTable
  <1>5. Table(F) /\ Len(F) \in Nat
    BY <1>4, PartTable, PartLen DEF Section
  <1>6. i \in 1..Len(F) /\ i - 1 = position
    <2>1. position \in Nat /\ Len(F) \in Nat /\ position < Len(F)
      BY <1>1, <1>3, <1>5
    <2> HIDE DEF F
    <2>2. QED BY <2>1
  <1> HIDE DEF F, i, field
  <1>7. /\ NamesTo(F, i) = NamesTo(F, position) \cup {field.name}
        /\ field.of = "" \/ field.of \in NamesTo(F, position)
    BY <1>5, <1>6, FieldOf DEF field
  <1>8. Extent(filled, field) \in Nat
    <2>1. field.of = "" \/ (field.of \in DOMAIN filled /\ filled[field.of] \in Seq(Nat))
      BY <1>1, <1>7
    <2>2. QED BY <2>1, ExtentIs
  <1>9. field.codes \subseteq Nat
    <2>1. field \in Range(F)
      BY <1>4, <1>6, PartLen DEF Section, field
    <2>2. Cells \subseteq Nat
      BY WireAssumption DEF WireConstants
    <2>3. QED BY <1>4, <2>1, <2>2 DEF Section
  <1>10. cells \in Seq(Nat)
    <2> DEFINE n == Extent(filled, field)
    <2>1. n \in Nat
      BY <1>8
    <2> HIDE DEF n
    <2>2. cells \in [1..n -> Nat]
      BY <1>2, <1>9 DEF n
    <2>3. QED BY <2>1, <2>2
  <1>11. wire' \in Seq(Nat)
    BY <1>1, <1>2, <1>10, ConcatProperties
  <1>12. filled' \in [NamesTo(F, i) -> Seq(Nat)]
    BY <1>1, <1>2, <1>7, <1>10 DEF Put
  <1>13. i \in 0..Len(F)
    BY <1>5, <1>6
  <1>14. QED BY <1>1, <1>3, <1>11, <1>12, <1>13 DEF WireInv, F

\* Whatever happens, the wire is a sequence of cells and what was decoded is what it
\* decodes to.
LEMMA WireKeeps == WireInv /\ [WireNext]_wireVars => WireInv'
  <1> SUFFICES ASSUME WireInv, [WireNext]_wireVars PROVE WireInv'
    OBVIOUS
  <1>1. CASE WriteField
    BY <1>1, WriteFieldKeeps
  <1>2. CASE Send
    BY <1>2 DEF Send, WireInv
  <1>3. CASE Damage
    <2>1. wire' \in Seq(Nat)
      <3>1. wire' \in Damaged(wire) /\ wire \in Seq(Nat)
        BY <1>3 DEF Damage, WireInv
      <3>2. QED BY <3>1, DamagedIn
    <2>2. /\ sent /\ sent' = sent /\ codec' = codec /\ filled' = filled /\ position' = position
          /\ decoded' = Decode(codec, wire')
      BY <1>3 DEF Damage
    <2>3. QED BY <2>1, <2>2 DEF WireInv
  <1>4. CASE UNCHANGED wireVars
    BY <1>4 DEF wireVars, WireInv
  <1>5. QED BY <1>1, <1>2, <1>3, <1>4 DEF WireNext

LEMMA WireHolds == WireInv => WireSafety
  <1> SUFFICES ASSUME WireInv PROVE WireSafety
    OBVIOUS
  <1>1. codec \in Codecs /\ wire \in Seq(Nat) /\ (decoded # Invalid => decoded = Decode(codec, wire))
    BY DEF WireInv
  <1>2. Canonical
    BY <1>1, Encodes DEF Canonical
  <1>3. NoPrefixAccepted
    BY <1>1, PrefixRefused DEF NoPrefixAccepted
  <1>4. SameCommand
    BY <1>1, SameCommands DEF SameCommand
  <1>5. QED BY <1>2, <1>3, <1>4 DEF WireSafety

\* Whatever a decoder of the fixed root accepts, of what was written or of a damaged
\* wire, its encoder writes again from the value read, to the last presence, tag,
\* count and length; what a short read leaves of an accepted wire is refused; and
\* what decode_command_projection takes for a command decode_fixed_root_command takes
\* for the same command.
THEOREM Wires == WireSpec => []WireSafety
  <1>1. WireSpec => []WireInv
    BY WireBegins, WireKeeps, PTL DEF WireSpec
  <1>2. QED BY <1>1, WireHolds, PTL
=============================================================================
