--------------------------- MODULE RaftLogProofs ---------------------------
(***************************************************************************)
(* What the operators of RaftLog return, for logs over any set of entries. *)
(***************************************************************************)
EXTENDS RaftLog, SequenceTheorems, FiniteSetTheorems, WellFoundedInduction,
        TLAPS

\* Entries carry a term and an index, and anything else.
Indexed(E) == \A e \in E : e.index \in Nat /\ e.term \in Nat

\* The last index of a log is an index or -1 (LogStore.last_index).
LEMMA LastIndexType ==
  ASSUME NEW E, Indexed(E), NEW log \in Seq(E)
  PROVE  LastIndex(log) \in Nat \cup {-1}
  BY DEF LastIndex, Indexed

\* The last term of a log is a term (LogStore.last_term).
LEMMA LastTermType ==
  ASSUME NEW E, Indexed(E), NEW log \in Seq(E)
  PROVE  LastTerm(log) \in Nat
  BY DEF LastTerm, Indexed

\* The term at any index is a term (LogStore.term_at).
LEMMA TermAtType ==
  ASSUME NEW E, Indexed(E), NEW log \in Seq(E), NEW i \in Int
  PROVE  TermAt(log, i) \in Nat
  BY DEF TermAt, HasIndex, Indexed

\* A part of a log that starts and ends within it is a log.
LEMMA PartType ==
  ASSUME NEW E, NEW s \in Seq(E), NEW m \in Nat \ {0}, NEW n \in Int,
         n <= Len(s)
  PROVE  SubSeq(s, m, n) \in Seq(E)
  OBVIOUS

\* What is sent from any index on is a log (LogStore.entries_from).
LEMMA EntriesFromType ==
  ASSUME NEW E, NEW log \in Seq(E), NEW i \in Int
  PROVE  EntriesFrom(log, i) \in Seq(E)
  BY PartType DEF EntriesFrom

\* A cut log is a log (LogStore.truncate_from).
LEMMA TruncateFromType ==
  ASSUME NEW E, NEW log \in Seq(E), NEW i \in Nat
  PROVE  TruncateFrom(log, i) \in Seq(E)
  BY PartType DEF TruncateFrom

-----------------------------------------------------------------------------
(* The loops of the code stop at the first, or at the highest, index of a    *)
(* set of them; the model names it with CHOOSE.                              *)

\* A finite set that is not empty has a minimal element under any strict
\* order.
LEMMA MinimalExists ==
  ASSUME NEW S, IsFiniteSet(S), S # {}, NEW R,
         \A x \in S : <<x, x>> \notin R,
         \A x, y, z \in S : <<x, y>> \in R /\ <<y, z>> \in R => <<x, z>> \in R
  PROVE  \E x \in S : \A y \in S : <<y, x>> \notin R
<1> DEFINE Below(x) == {y \in S : y = x \/ <<y, x>> \in R}
           T == {Below(x) : x \in S}
<1>1. \A x \in S : Below(x) \in FiniteSubsetsOf(S)
  <2>1. SUFFICES ASSUME NEW x \in S PROVE Below(x) \in FiniteSubsetsOf(S)
    OBVIOUS
  <2>2. Below(x) \in SUBSET S
    OBVIOUS
  <2>3. IsFiniteSet(Below(x))
    <3> HIDE DEF Below
    <3> QED  BY <2>2, FS_Subset
  <2>4. QED
    BY <2>2, <2>3 DEF FiniteSubsetsOf
<1>2. T \subseteq FiniteSubsetsOf(S) /\ T # {}
  <2> HIDE DEF Below
  <2> QED  BY <1>1
<1>3. PICK B \in T : \A C \in T : ~(<<C, B>> \in StrictSubsetOrdering(S))
  <2> HIDE DEF T
  <2> QED  BY <1>2, FS_StrictSubsetOrderingWellFounded, WFMin
<1>4. PICK x \in S : B = Below(x)
  OBVIOUS
<1>5. ASSUME NEW y \in S, <<y, x>> \in R
      PROVE  FALSE
  <2>1. Below(y) \in T
    OBVIOUS
  <2>2. \A z \in S : z \in Below(y) => z \in B
    BY <1>4, <1>5
  <2>3. x \in B /\ x \notin Below(y)
    BY <1>4, <1>5
  <2>4. Below(y) \in SUBSET S /\ B \in SUBSET S
    BY <1>4
  <2>5. Below(y) \subseteq B /\ Below(y) # B
    BY <2>2, <2>3
  <2>6. <<Below(y), B>> \in StrictSubsetOrdering(S)
    <3> HIDE DEF Below
    <3> QED  BY <2>4, <2>5 DEF StrictSubsetOrdering
  <2>7. QED
    BY <1>3, <2>1, <2>6
<1>6. QED
  BY <1>5

\* A finite set of indices that is not empty has a least element.
LEMMA LeastExists ==
  ASSUME NEW S \in SUBSET Int, IsFiniteSet(S), S # {}
  PROVE  \E x \in S : \A y \in S : x <= y
<1> DEFINE R == {p \in S \X S : p[1] < p[2]}
<1>1. \A x, y \in S : <<x, y>> \in R <=> x < y
  OBVIOUS
<1> HIDE DEF R
<1>2. \E x \in S : \A y \in S : <<y, x>> \notin R
  <2>1. \A x \in S : <<x, x>> \notin R
    BY <1>1
  <2>2. \A x, y, z \in S : <<x, y>> \in R /\ <<y, z>> \in R => <<x, z>> \in R
    BY <1>1
  <2>3. QED
    BY <2>1, <2>2, MinimalExists
<1>3. \A x, y \in S : ~(y < x) => x <= y
  OBVIOUS
<1>4. QED
  BY <1>1, <1>2, <1>3

\* A finite set of indices that is not empty has a greatest element.
LEMMA GreatestExists ==
  ASSUME NEW S \in SUBSET Int, IsFiniteSet(S), S # {}
  PROVE  \E x \in S : \A y \in S : y <= x
<1> DEFINE R == {p \in S \X S : p[1] > p[2]}
<1>1. \A x, y \in S : <<x, y>> \in R <=> x > y
  OBVIOUS
<1> HIDE DEF R
<1>2. \E x \in S : \A y \in S : <<y, x>> \notin R
  <2>1. \A x \in S : <<x, x>> \notin R
    BY <1>1
  <2>2. \A x, y, z \in S : <<x, y>> \in R /\ <<y, z>> \in R => <<x, z>> \in R
    BY <1>1
  <2>3. QED
    BY <2>1, <2>2, MinimalExists
<1>3. \A x, y \in S : ~(y > x) => y <= x
  OBVIOUS
<1>4. QED
  BY <1>1, <1>2, <1>3

-----------------------------------------------------------------------------
(* Appending and merging give logs again.                                    *)

\* Appending to a log gives a log, overlapping or not (LogStore.append).
LEMMA AppendToType ==
  ASSUME NEW E, Indexed(E), NEW log \in Seq(E), NEW entries \in Seq(E)
  PROVE  AppendTo(log, entries) \in Seq(E)
<1>1. CASE \E k \in DOMAIN entries : Overlaps(log, entries, k)
  <2> DEFINE S == {k \in DOMAIN entries : Overlaps(log, entries, k)}
             k == CHOOSE j \in DOMAIN entries : IsFirstOverlap(log, entries, j)
  <2>1. S \in SUBSET Int /\ S # {} /\ IsFiniteSet(S)
    <3>1. S \in SUBSET (1 .. Len(entries)) /\ S # {}
      BY <1>1
    <3>2. IsFiniteSet(1 .. Len(entries))
      BY FS_Interval
    <3>3. QED
      BY <3>1, <3>2, FS_Subset
  <2>2. PICK j \in S : \A i \in S : j <= i
    <3> HIDE DEF S
    <3> QED  BY <2>1, LeastExists
  <2>3. IsFirstOverlap(log, entries, j)
    BY <2>2 DEF IsFirstOverlap
  <2>4. k \in DOMAIN entries
    BY <2>3
  <2>5. TruncateFrom(log, entries[k].index) \in Seq(E)
    <3> HIDE DEF k
    <3> QED  BY <2>4, TruncateFromType DEF Indexed
  <2>6. QED
    BY <1>1, <2>5 DEF AppendTo
<1>2. CASE ~\E k \in DOMAIN entries : Overlaps(log, entries, k)
  BY <1>2 DEF AppendTo
<1>3. QED
  BY <1>1, <1>2

\* Of the received entries that are new, one is the first.
LEMMA FirstNewExists ==
  ASSUME NEW E, NEW log \in Seq(E), NEW entries \in Seq(E),
         NEW i \in DOMAIN entries, IsNew(log, entries, i)
  PROVE  \E k \in DOMAIN entries : IsFirstNew(log, entries, k)
<1> DEFINE S == {k \in DOMAIN entries : IsNew(log, entries, k)}
<1>1. S \in SUBSET Int /\ S # {} /\ IsFiniteSet(S)
  <2>1. S \in SUBSET (1 .. Len(entries)) /\ S # {}
    OBVIOUS
  <2>2. IsFiniteSet(1 .. Len(entries))
    BY FS_Interval
  <2>3. QED
    BY <2>1, <2>2, FS_Subset
<1>2. PICK j \in S : \A k \in S : j <= k
  <2> HIDE DEF S
  <2> QED  BY <1>1, LeastExists
<1>3. IsFirstNew(log, entries, j)
  BY <1>2 DEF IsFirstNew
<1>4. QED
  BY <1>3

\* Merging received entries gives a log (RaftNode._handle_append_entries).
LEMMA MergeEntriesType ==
  ASSUME NEW E, Indexed(E), NEW log \in Seq(E), NEW entries \in Seq(E)
  PROVE  MergeEntries(log, entries) \in Seq(E)
<1>1. CASE \E i \in DOMAIN entries : IsNew(log, entries, i)
  <2> DEFINE k     == CHOOSE j \in DOMAIN entries : IsFirstNew(log, entries, j)
             clash == entries[k].index <= LastIndex(log)
             kept  == IF clash THEN TruncateFrom(log, entries[k].index) ELSE log
             rest  == SubSeq(entries, k, Len(entries))
  <2>1. k \in DOMAIN entries
    BY <1>1, FirstNewExists
  <2> HIDE DEF k
  <2>2. kept \in Seq(E)
    <3>1. entries[k] \in E
      BY <2>1
    <3>2. TruncateFrom(log, entries[k].index) \in Seq(E)
      BY <3>1, TruncateFromType DEF Indexed
    <3>3. QED
      BY <3>2
  <2>3. rest \in Seq(E)
    BY <2>1, PartType
  <2> HIDE DEF kept, rest
  <2>4. AppendTo(kept, rest) \in Seq(E)
    BY <2>2, <2>3, AppendToType
  <2>5. MergeEntries(log, entries) = AppendTo(kept, rest)
    BY <1>1 DEF MergeEntries, k, kept, rest
  <2>6. QED
    BY <2>4, <2>5
<1>2. CASE ~\E i \in DOMAIN entries : IsNew(log, entries, i)
  BY <1>2 DEF MergeEntries
<1>3. QED
  BY <1>1, <1>2

-----------------------------------------------------------------------------
(* What the merge comes to.                                                  *)

\* Every entry carries the index of its place.
Placed(log) == \A k \in DOMAIN log : log[k].index = k - 1

\* The entries are meant for the places after the first i of a log.
PlacedAfter(entries, i) ==
  \A k \in DOMAIN entries : entries[k].index = i + k - 1

\* Where the log holds an entry of the same term as a received one, it agrees
\* with what was received up to there: log matching, for this request.
Matching(log, i, entries) ==
  \A k \in DOMAIN entries :
    i + k <= Len(log) /\ log[i + k].term = entries[k].term
      => \A j \in 1 .. k : log[i + j] = entries[j]

\* The last index of a log whose entries are in their places.
LEMMA LastIndexOfPlaced ==
  ASSUME NEW E, NEW log \in Seq(E), Placed(log)
  PROVE  LastIndex(log) = Len(log) - 1
  BY DEF LastIndex, Placed

\* In such a log an entry is new beyond the end or against another term.
LEMMA NewWhenPlaced ==
  ASSUME NEW E, Indexed(E), NEW log \in Seq(E), NEW entries \in Seq(E),
         Placed(log), NEW i \in 0 .. Len(log), PlacedAfter(entries, i),
         NEW k \in DOMAIN entries
  PROVE  IsNew(log, entries, k)
           <=> (i + k <= Len(log) => log[i + k].term # entries[k].term)
<1>1. LastIndex(log) = Len(log) - 1
  BY LastIndexOfPlaced
<1>2. entries[k].index = i + k - 1 /\ k \in 1 .. Len(entries)
  BY DEF PlacedAfter
<1>3. i + k <= Len(log) => TermAt(log, i + k - 1) = log[i + k].term
  BY <1>2 DEF TermAt, HasIndex
<1>4. QED
  BY <1>1, <1>2, <1>3 DEF IsNew

\* Entries that start right behind a log are simply added to it.
LEMMA AppendBehind ==
  ASSUME NEW E, Indexed(E), NEW log \in Seq(E), NEW entries \in Seq(E),
         Placed(log), PlacedAfter(entries, Len(log))
  PROVE  AppendTo(log, entries) = log \o entries
<1>1. \A k \in DOMAIN entries : ~Overlaps(log, entries, k)
  BY LastIndexOfPlaced DEF Overlaps, PlacedAfter
<1>2. QED
  BY <1>1 DEF AppendTo

\* What is in the log before the first new entry is what was received.
LEMMA BeforeFirstNew ==
  ASSUME NEW E, Indexed(E), NEW log \in Seq(E), NEW entries \in Seq(E),
         Placed(log), NEW i \in 0 .. Len(log), PlacedAfter(entries, i),
         Matching(log, i, entries),
         NEW k \in DOMAIN entries, IsFirstNew(log, entries, k)
  PROVE  /\ i + k - 1 <= Len(log)
         /\ \A j \in 1 .. k - 1 : log[i + j] = entries[j]
<1>1. k \in 1 .. Len(entries)
  OBVIOUS
<1>2. CASE k = 1
  BY <1>1, <1>2
<1>3. CASE k > 1
  <2>1. k - 1 \in DOMAIN entries /\ ~IsNew(log, entries, k - 1)
    BY <1>1, <1>3 DEF IsFirstNew
  <2>2. /\ i + (k - 1) <= Len(log)
        /\ log[i + (k - 1)].term = entries[k - 1].term
    BY <2>1, NewWhenPlaced
  <2>3. \A j \in 1 .. k - 1 : log[i + j] = entries[j]
    BY <2>1, <2>2 DEF Matching
  <2>4. QED
    BY <1>1, <2>2, <2>3
<1>4. QED
  BY <1>1, <1>2, <1>3

\* A log that agrees with the received entries before the k-th, cut there and
\* continued with the rest, is the log before them followed by all of them.
LEMMA CutAndContinue ==
  ASSUME NEW E, NEW log \in Seq(E), NEW entries \in Seq(E),
         NEW i \in 0 .. Len(log), NEW k \in 1 .. Len(entries),
         i + k - 1 <= Len(log),
         \A j \in 1 .. k - 1 : log[i + j] = entries[j]
  PROVE  SubSeq(log, 1, i + k - 1) \o SubSeq(entries, k, Len(entries))
           = SubSeq(log, 1, i) \o entries
<1> DEFINE kept == SubSeq(log, 1, i + k - 1)
           rest == SubSeq(entries, k, Len(entries))
           pre  == SubSeq(log, 1, i)
<1>1. /\ kept \in Seq(E) /\ Len(kept) = i + k - 1
      /\ \A j \in 1 .. i + k - 1 : kept[j] = log[j]
  OBVIOUS
<1>2. /\ rest \in Seq(E) /\ Len(rest) = Len(entries) - k + 1
      /\ \A j \in 1 .. Len(entries) - k + 1 : rest[j] = entries[k + j - 1]
  OBVIOUS
<1>3. /\ pre \in Seq(E) /\ Len(pre) = i
      /\ \A j \in 1 .. i : pre[j] = log[j]
  OBVIOUS
<1> HIDE DEF kept, rest, pre
<1>4. /\ kept \o rest \in Seq(E) /\ pre \o entries \in Seq(E)
      /\ Len(kept \o rest) = i + Len(entries)
      /\ Len(pre \o entries) = i + Len(entries)
  <2>1. kept \o rest \in Seq(E) /\ pre \o entries \in Seq(E)
    BY <1>1, <1>2, <1>3
  <2>2. Len(kept \o rest) = Len(kept) + Len(rest)
    BY <1>1, <1>2, ConcatProperties
  <2>3. Len(pre \o entries) = Len(pre) + Len(entries)
    BY <1>3, ConcatProperties
  <2>4. QED
    BY <2>1, <2>2, <2>3, <1>1, <1>2, <1>3
<1>5. ASSUME NEW j \in 1 .. i + Len(entries)
      PROVE  (kept \o rest)[j] = (pre \o entries)[j]
  <2>1. CASE j <= i
    <3>1. (kept \o rest)[j] = kept[j] /\ kept[j] = log[j]
      BY <2>1, <1>1, <1>2
    <3>2. (pre \o entries)[j] = pre[j] /\ pre[j] = log[j]
      BY <2>1, <1>3
    <3>3. QED
      BY <3>1, <3>2
  <2>2. CASE i < j /\ j <= i + k - 1
    <3>1. (kept \o rest)[j] = log[j]
      BY <2>2, <1>1, <1>2
    <3>2. (pre \o entries)[j] = entries[j - i]
      BY SMTT(60), <2>2, <1>3
    <3>3. j - i \in 1 .. k - 1 /\ i + (j - i) = j
      BY <2>2
    <3>4. log[i + (j - i)] = entries[j - i]
      BY <3>3
    <3>5. QED
      BY <3>1, <3>2, <3>3, <3>4
  <2>3. CASE i + k - 1 < j
    <3>1. (kept \o rest)[j] = rest[j - (i + k - 1)]
      BY SMTT(60), <2>3, <1>1, <1>2
    <3>2. rest[j - (i + k - 1)] = entries[j - i]
      <4>1. j - (i + k - 1) \in 1 .. Len(entries) - k + 1
        BY <2>3
      <4>2. k + (j - (i + k - 1)) - 1 = j - i
        OBVIOUS
      <4>3. QED
        BY <4>1, <4>2, <1>2
    <3>3. (pre \o entries)[j] = entries[j - i]
      BY SMTT(60), <2>3, <1>3
    <3>4. QED
      BY <3>1, <3>2, <3>3
  <2>4. j <= i \/ (i < j /\ j <= i + k - 1) \/ i + k - 1 < j
    OBVIOUS
  <2>5. QED
    BY <2>1, <2>2, <2>3, <2>4, Zenon
<1>6. QED
  BY <1>4, <1>5, SeqEqual DEF kept, rest, pre

\* The merge of received entries that join the log, for every log and every
\* request under log matching: a log that holds them all is left as it is,
\* any other one is cut where they start and ends with them
\* (the loop of RaftNode._handle_append_entries).
THEOREM MergeCorrect ==
  ASSUME NEW E, Indexed(E), NEW log \in Seq(E), NEW entries \in Seq(E),
         Placed(log), NEW i \in 0 .. Len(log), PlacedAfter(entries, i),
         Matching(log, i, entries)
  PROVE  MergeEntries(log, entries) = MergeReference(log, i, entries)
<1>1. \A k \in DOMAIN entries :
        IsNew(log, entries, k)
          <=> ~(/\ HasIndex(log, entries[k].index)
                /\ TermAt(log, entries[k].index) = entries[k].term)
  <2> SUFFICES ASSUME NEW k \in DOMAIN entries
               PROVE  IsNew(log, entries, k)
                        <=> ~(/\ HasIndex(log, entries[k].index)
                              /\ TermAt(log, entries[k].index) = entries[k].term)
    OBVIOUS
  <2>1. entries[k].index = i + k - 1 /\ k \in 1 .. Len(entries)
    BY DEF PlacedAfter
  <2>2. LastIndex(log) = Len(log) - 1
    BY LastIndexOfPlaced
  <2>3. QED
    BY <2>1, <2>2 DEF IsNew, HasIndex
<1>2. CASE HoldsAll(log, entries)
  BY <1>1, <1>2 DEF MergeEntries, MergeReference, HoldsAll
<1>3. CASE ~HoldsAll(log, entries)
  <2> DEFINE k == CHOOSE j \in DOMAIN entries : IsFirstNew(log, entries, j)
  <2>1. \E j \in DOMAIN entries : IsNew(log, entries, j)
    BY <1>1, <1>3 DEF HoldsAll
  <2>2. k \in DOMAIN entries /\ IsFirstNew(log, entries, k)
    BY <2>1, FirstNewExists
  <2> HIDE DEF k
  <2> DEFINE clash == entries[k].index <= LastIndex(log)
             kept  == IF clash THEN TruncateFrom(log, entries[k].index) ELSE log
             rest  == SubSeq(entries, k, Len(entries))
  <2>3. MergeEntries(log, entries) = AppendTo(kept, rest)
    BY <2>1 DEF MergeEntries, k
  <2>4. /\ i + k - 1 <= Len(log) /\ k \in 1 .. Len(entries)
        /\ \A j \in 1 .. k - 1 : log[i + j] = entries[j]
        /\ entries[k].index = i + k - 1
    BY SMTT(60), <2>2, BeforeFirstNew DEF PlacedAfter
  <2>5. kept = SubSeq(log, 1, i + k - 1)
    <3>1. LastIndex(log) = Len(log) - 1
      BY LastIndexOfPlaced
    <3>2. CASE i + k - 1 < Len(log)
      BY <3>1, <3>2, <2>4 DEF TruncateFrom
    <3>3. CASE i + k - 1 = Len(log)
      <4>1. kept = log
        BY <3>1, <3>3, <2>4
      <4>2. log = SubSeq(log, 1, Len(log))
        OBVIOUS
      <4>3. QED
        BY <4>1, <4>2, <3>3
    <3>4. QED
      BY <3>2, <3>3, <2>4
  <2>6. /\ kept \in Seq(E) /\ Len(kept) = i + k - 1 /\ Placed(kept)
    <3>1. SubSeq(log, 1, i + k - 1) \in Seq(E)
      BY <2>4
    <3>2. Len(SubSeq(log, 1, i + k - 1)) = i + k - 1
      BY <2>4
    <3>3. \A j \in 1 .. i + k - 1 : SubSeq(log, 1, i + k - 1)[j] = log[j]
      BY <2>4
    <3>4. \A j \in 1 .. i + k - 1 : log[j].index = j - 1
      BY <2>4 DEF Placed
    <3>5. Placed(SubSeq(log, 1, i + k - 1))
      BY <3>1, <3>2, <3>3, <3>4 DEF Placed
    <3>6. QED
      BY <2>5, <3>1, <3>2, <3>5
  <2>7. rest \in Seq(E) /\ PlacedAfter(rest, i + k - 1)
    <3>1. rest \in Seq(E) /\ Len(rest) = Len(entries) - k + 1
      BY <2>4
    <3>2. ASSUME NEW j \in DOMAIN rest
          PROVE  rest[j].index = (i + k - 1) + j - 1
      <4>1. j \in 1 .. Len(entries) - k + 1
        BY <3>1
      <4>2. rest[j] = entries[k + j - 1] /\ k + j - 1 \in DOMAIN entries
        BY SMTT(60), <4>1, <2>4
      <4>3. entries[k + j - 1].index = i + (k + j - 1) - 1
        BY <4>2 DEF PlacedAfter
      <4>4. QED
        BY SMTT(60), <4>1, <4>2, <4>3, <2>4
    <3>3. QED
      BY <3>1, <3>2 DEF PlacedAfter
  <2> HIDE DEF kept, rest
  <2>8. AppendTo(kept, rest) = kept \o rest
    BY <2>6, <2>7, AppendBehind
  <2>9. kept \o rest = SubSeq(log, 1, i) \o entries
    BY <2>4, <2>5, CutAndContinue DEF rest
  <2>10. QED
    BY <1>3, <2>3, <2>8, <2>9 DEF MergeReference
<1>4. QED
  BY <1>2, <1>3
=============================================================================
