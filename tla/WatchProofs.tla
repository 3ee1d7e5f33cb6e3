---------------------------- MODULE WatchProofs ----------------------------
(***************************************************************************)
(* The store and those who watch it, for every log, every set of keys, any *)
(* number of watchers and every bound of the history.  The lemmas on lists *)
(* and finite sets of RaftLogProofs are used here too.                     *)
(***************************************************************************)
EXTENDS WatchProperties, RaftLogProofs

-----------------------------------------------------------------------------
(* Lists that are made step by step.                                        *)

\* Induction on an interval, by its least counterexample.
LEMMA Upwards ==
  ASSUME NEW L \in Nat, NEW S, 0 \in S,
         \A n \in 0 .. L - 1 : n \in S => n + 1 \in S
  PROVE  \A n \in 0 .. L : n \in S
<1> SUFFICES ASSUME NEW m \in 0 .. L, m \notin S
             PROVE  FALSE
  OBVIOUS
<1> DEFINE T == {n \in 0 .. L : n \notin S}
<1>1. T \in SUBSET Int /\ T # {} /\ IsFiniteSet(T)
  <2>1. T \in SUBSET (0 .. L) /\ m \in T
    OBVIOUS
  <2>2. IsFiniteSet(0 .. L)
    BY FS_Interval
  <2>3. IsFiniteSet(T)
    <3> HIDE DEF T
    <3> QED  BY <2>1, <2>2, FS_Subset
  <2>4. QED
    BY <2>1, <2>3
<1>2. PICK x \in T : \A y \in T : x <= y
  <2> HIDE DEF T
  <2> QED  BY <1>1, LeastExists
<1>3. x # 0 /\ x - 1 \in 0 .. L - 1 /\ x - 1 \notin T
  BY <1>2
<1>4. QED
  BY <1>3

\* One more event is selected, or is not.
Selects(filter, start, e) == e.key \in filter /\ e.revision >= start

\* kept holds, for each n, what is selected of the first n events.
Selection(kept, events, filter, start) ==
  kept = [i \in 0 .. Len(events) |->
            IF i = 0 THEN << >>
            ELSE IF Selects(filter, start, events[i])
            THEN Append(kept[i - 1], events[i])
            ELSE kept[i - 1]]

\* There is such a function for every list.
LEMMA SelectionExists ==
  ASSUME NEW E, NEW events \in Seq(E), NEW filter, NEW start
  PROVE  \E kept : Selection(kept, events, filter, start)
<1> DEFINE Part(kept, n) ==
      kept = [i \in 0 .. n |->
                IF i = 0 THEN << >>
                ELSE IF Selects(filter, start, events[i])
                THEN Append(kept[i - 1], events[i])
                ELSE kept[i - 1]]
    S == {n \in 0 .. Len(events) : \E kept : Part(kept, n)}
<1>1. 0 \in S
  <2>1. Part([i \in 0 .. 0 |-> << >>], 0)
    OBVIOUS
  <2>2. Len(events) \in Nat
    OBVIOUS
  <2>3. \E kept : Part(kept, 0)
    BY <2>1
  <2> HIDE DEF Part
  <2>4. QED
    BY <2>2, <2>3
<1>2. ASSUME NEW n \in 0 .. Len(events) - 1, n \in S
      PROVE  n + 1 \in S
  <2>1. PICK kept : Part(kept, n)
    BY <1>2
  <2> DEFINE more == [i \in 0 .. n + 1 |->
                        IF i <= n THEN kept[i]
                        ELSE IF Selects(filter, start, events[i])
                        THEN Append(kept[n], events[i])
                        ELSE kept[n]]
  <2>2. \A i \in 0 .. n : more[i] = kept[i]
    OBVIOUS
  <2>3. kept[0] = << >>
    BY <2>1
  <2>4. \A i \in 1 .. n :
          kept[i] = IF Selects(filter, start, events[i])
                    THEN Append(kept[i - 1], events[i]) ELSE kept[i - 1]
    <3>1. \A i \in 1 .. n : i \in 0 .. n /\ i # 0
      OBVIOUS
    <3>2. \A i \in 0 .. n :
            kept[i] = IF i = 0 THEN << >>
                      ELSE IF Selects(filter, start, events[i])
                      THEN Append(kept[i - 1], events[i])
                      ELSE kept[i - 1]
      BY <2>1, Zenon
    <3>3. QED
      BY <3>1, <3>2, Zenon
  <2>5. ASSUME NEW i \in 0 .. n + 1
        PROVE  more[i] = IF i = 0 THEN << >>
                         ELSE IF Selects(filter, start, events[i])
                         THEN Append(more[i - 1], events[i])
                         ELSE more[i - 1]
    BY <2>2, <2>3, <2>4
  <2>6. Part(more, n + 1)
    BY <2>5
  <2> HIDE DEF Part
  <2>7. n + 1 \in 0 .. Len(events)
    OBVIOUS
  <2>8. QED
    BY <2>6, <2>7
<1>3. Len(events) \in S
  <2>1. Len(events) \in Nat
    OBVIOUS
  <2> HIDE DEF S
  <2>2. \A n \in 0 .. Len(events) : n \in S
    BY <1>1, <1>2, <2>1, Upwards
  <2>3. QED
    BY <2>1, <2>2
<1>4. QED
  BY <1>3 DEF Selection

\* What Selected computes, one event at a time.
LEMMA SelectedIs ==
  ASSUME NEW E, NEW events \in Seq(E), NEW filter, NEW start
  PROVE  \E kept : /\ Selection(kept, events, filter, start)
                   /\ Selected(events, filter, start) = kept[Len(events)]
<1>1. PICK f : f = CHOOSE kept : Selection(kept, events, filter, start)
  OBVIOUS
<1>2. Selection(f, events, filter, start)
  BY <1>1, SelectionExists
<1>3. Selected(events, filter, start) = f[Len(events)]
  BY <1>1, Zenon DEF Selected, Selection, Selects
<1>4. QED
  BY <1>2, <1>3

\* What a selection holds after one more event.
Longer(part, filter, start, e) ==
  IF Selects(filter, start, e) THEN Append(part, e) ELSE part

\* The same place by place.
LEMMA SelectionSteps ==
  ASSUME NEW E, NEW events \in Seq(E), NEW filter, NEW start, NEW kept,
         Selection(kept, events, filter, start)
  PROVE  /\ kept[0] = << >>
         /\ \A i \in 1 .. Len(events) :
              kept[i] = Longer(kept[i - 1], filter, start, events[i])
<1>1. \A i \in 1 .. Len(events) : i \in 0 .. Len(events) /\ i # 0
  OBVIOUS
<1>2. 0 \in 0 .. Len(events)
  OBVIOUS
<1>3. \A i \in 0 .. Len(events) :
        kept[i] = IF i = 0 THEN << >>
                  ELSE IF Selects(filter, start, events[i])
                  THEN Append(kept[i - 1], events[i])
                  ELSE kept[i - 1]
  BY Zenon DEF Selection
<1>4. \A i \in 1 .. Len(events) :
        kept[i] = Longer(kept[i - 1], filter, start, events[i])
  BY <1>1, <1>3, Zenon DEF Longer
<1>5. kept[0] = << >>
  <2>1. kept[0] = IF 0 = 0 THEN << >>
                  ELSE IF Selects(filter, start, events[0])
                  THEN Append(kept[0 - 1], events[0])
                  ELSE kept[0 - 1]
    BY <1>2, <1>3, Zenon
  <2>2. QED
    BY <2>1
<1>6. QED
  BY <1>4, <1>5

\* Of no events none is selected.
LEMMA SelectedEmpty ==
  ASSUME NEW filter, NEW start
  PROVE  Selected(<< >>, filter, start) = << >>
<1>1. ASSUME NEW s \in Seq({}), Len(s) = 0
      PROVE  Selected(s, filter, start) = << >>
  <2>1. PICK kept : /\ Selection(kept, s, filter, start)
                    /\ Selected(s, filter, start) = kept[Len(s)]
    BY SelectedIs
  <2>2. kept[0] = << >>
    BY <2>1, SelectionSteps
  <2>3. QED
    BY <1>1, <2>1, <2>2
<1>2. << >> \in Seq({}) /\ Len(<< >>) = 0
  OBVIOUS
<1>3. QED
  BY <1>1, <1>2

\* What is selected after one more event.
LEMMA SelectedAppend ==
  ASSUME NEW E, NEW events \in Seq(E), NEW e \in E, NEW filter, NEW start
  PROVE  Selected(Append(events, e), filter, start)
           = Longer(Selected(events, filter, start), filter, start, e)
<1>1. PICK all : all = Append(events, e)
  OBVIOUS
<1>2. /\ all \in Seq(E) /\ Len(all) = Len(events) + 1 /\ Len(events) \in Nat
      /\ all[Len(events) + 1] = e
      /\ \A i \in 1 .. Len(events) : all[i] = events[i]
  BY <1>1
<1>3. PICK f : /\ Selection(f, events, filter, start)
               /\ Selected(events, filter, start) = f[Len(events)]
  BY SelectedIs
<1>4. PICK g : /\ Selection(g, all, filter, start)
               /\ Selected(all, filter, start) = g[Len(all)]
  BY <1>2, SelectedIs
<1>5. /\ f[0] = << >>
      /\ \A i \in 1 .. Len(events) :
           f[i] = Longer(f[i - 1], filter, start, events[i])
  BY <1>3, SelectionSteps
<1>6. /\ g[0] = << >>
      /\ \A i \in 1 .. Len(all) : g[i] = Longer(g[i - 1], filter, start, all[i])
  BY <1>2, <1>4, SelectionSteps
<1> DEFINE S == {i \in 0 .. Len(events) : f[i] = g[i]}
<1>7. 0 \in S
  BY <1>2, <1>5, <1>6
<1>8. ASSUME NEW n \in 0 .. Len(events) - 1, n \in S
      PROVE  n + 1 \in S
  <2>1. /\ n + 1 \in 1 .. Len(events) /\ n + 1 \in 1 .. Len(all)
        /\ n + 1 \in 0 .. Len(events) /\ (n + 1) - 1 = n
    BY <1>2
  <2>2. f[n + 1] = Longer(f[n], filter, start, events[n + 1])
    BY <1>5, <2>1
  <2>3. g[n + 1] = Longer(g[n], filter, start, all[n + 1])
    BY <1>6, <2>1
  <2>4. f[n] = g[n] /\ all[n + 1] = events[n + 1]
    BY <1>2, <1>8, <2>1
  <2>5. QED
    BY <2>1, <2>2, <2>3, <2>4
<1>9. Len(events) \in S
  <2> HIDE DEF S
  <2>1. \A n \in 0 .. Len(events) : n \in S
    BY <1>2, <1>7, <1>8, Upwards
  <2>2. QED
    BY <1>2, <2>1
<1>10. g[Len(events) + 1] = Longer(g[Len(events)], filter, start, e)
  <2>1. Len(events) + 1 \in 1 .. Len(all) /\ (Len(events) + 1) - 1 = Len(events)
    BY <1>2
  <2>2. QED
    BY <1>2, <1>6, <2>1
<1>11. QED
  BY <1>1, <1>2, <1>3, <1>4, <1>9, <1>10

-----------------------------------------------------------------------------
(* What follows from it, by induction on lists.                             *)

\* A list up to the next event.
LEMMA PrefixStep ==
  ASSUME NEW E, NEW s \in Seq(E), NEW n \in 0 .. Len(s) - 1
  PROVE  SubSeq(s, 1, n + 1) = Append(SubSeq(s, 1, n), s[n + 1])
<1>1. n + 1 \in 1 .. Len(s) /\ n \in Nat /\ Len(s) \in Nat
  OBVIOUS
<1>2. /\ s[n + 1] \in E /\ SubSeq(s, 1, n) \in Seq(E)
      /\ SubSeq(s, 1, n + 1) \in Seq(E)
  BY <1>1
<1>3. QED
  BY <1>1, <1>2

\* What is selected of the second of two lists follows what is of the first.
LEMMA ConcatLonger ==
  ASSUME NEW E, NEW a \in Seq(E), NEW b \in Seq(E), NEW e \in E,
         NEW filter, NEW start
  PROVE  Longer(a \o b, filter, start, e) = a \o Longer(b, filter, start, e)
<1>1. Append(a \o b, e) = a \o Append(b, e)
  OBVIOUS
<1>2. QED
  BY <1>1, Zenon DEF Longer

\* What holds of no events, and of one more whenever it holds, holds of all
\* lists.
LEMMA ListsFollow ==
  ASSUME NEW E, NEW T \in SUBSET Seq(E), << >> \in T,
         \A u \in T : \A e \in E : Append(u, e) \in T,
         NEW s \in Seq(E)
  PROVE  s \in T
<1> DEFINE S == {n \in 0 .. Len(s) : SubSeq(s, 1, n) \in T}
<1>1. Len(s) \in Nat /\ SubSeq(s, 1, 0) = << >> /\ SubSeq(s, 1, Len(s)) = s
  BY SubSeqEmpty, SubSeqFull
<1>2. 0 \in S
  <2>1. 0 \in 0 .. Len(s)
    BY <1>1
  <2>2. SubSeq(s, 1, 0) \in T
    BY <1>1, Zenon
  <2>3. QED
    BY <2>1, <2>2
<1>3. ASSUME NEW n \in 0 .. Len(s) - 1, n \in S
      PROVE  n + 1 \in S
  <2>1. n + 1 \in 1 .. Len(s) /\ n + 1 \in 0 .. Len(s) /\ n \in Nat
    BY <1>1
  <2>2. PICK u, e : u = SubSeq(s, 1, n) /\ e = s[n + 1]
    OBVIOUS
  <2>3. u \in T /\ e \in E
    BY <1>1, <1>3, <2>1, <2>2
  <2>4. SubSeq(s, 1, n + 1) = Append(u, e)
    <3>1. SubSeq(s, 1, n + 1) = Append(SubSeq(s, 1, n), s[n + 1])
      BY PrefixStep
    <3>2. QED
      BY <2>2, <3>1
  <2>5. QED
    BY <2>1, <2>3, <2>4
<1>4. Len(s) \in S
  <2> HIDE DEF S
  <2>1. \A n \in 0 .. Len(s) : n \in S
    BY <1>1, <1>2, <1>3, Upwards
  <2>2. QED
    BY <1>1, <2>1
<1>5. QED
  BY <1>1, <1>4

\* What is selected are events that match.
LEMMA SelectedMatch ==
  ASSUME NEW E, NEW s \in Seq(E), NEW filter, NEW start
  PROVE  Selected(s, filter, start)
           \in Seq({e \in E : Selects(filter, start, e)})
<1> DEFINE M == {e \in E : Selects(filter, start, e)}
           T == {u \in Seq(E) : Selected(u, filter, start) \in Seq(M)}
<1>1. << >> \in T
  <2>1. << >> \in Seq(E) /\ << >> \in Seq(M)
    OBVIOUS
  <2>2. QED
    BY <2>1, SelectedEmpty
<1>2. ASSUME NEW u \in T, NEW e \in E
      PROVE  Append(u, e) \in T
  <2>1. Selected(Append(u, e), filter, start)
          = Longer(Selected(u, filter, start), filter, start, e)
    BY SelectedAppend
  <2>2. PICK part \in Seq(M) : part = Selected(u, filter, start)
    OBVIOUS
  <2>3. Longer(part, filter, start, e) \in Seq(M)
    BY DEF Longer
  <2>4. QED
    BY <2>1, <2>2, <2>3
<1>3. s \in T
  <2>1. T \in SUBSET Seq(E)
    OBVIOUS
  <2> HIDE DEF T
  <2>2. QED
    BY <1>1, <1>2, <2>1, ListsFollow
<1>4. QED
  BY <1>3

\* Selecting makes no new events.
LEMMA SelectedList ==
  ASSUME NEW E, NEW s \in Seq(E), NEW filter, NEW start
  PROVE  Selected(s, filter, start) \in Seq(E)
<1>1. Selected(s, filter, start) \in Seq({e \in E : Selects(filter, start, e)})
  BY SelectedMatch
<1>2. QED
  BY <1>1

\* Events that all match are all selected.
LEMMA SelectedAll ==
  ASSUME NEW E, NEW s \in Seq(E), NEW filter, NEW start,
         \A e \in E : Selects(filter, start, e)
  PROVE  Selected(s, filter, start) = s
<1> DEFINE T == {u \in Seq(E) : Selected(u, filter, start) = u}
<1>1. << >> \in T
  BY SelectedEmpty
<1>2. ASSUME NEW u \in T, NEW e \in E
      PROVE  Append(u, e) \in T
  <2>1. Selected(Append(u, e), filter, start)
          = Longer(Selected(u, filter, start), filter, start, e)
    BY SelectedAppend
  <2>2. QED
    BY <2>1 DEF Longer
<1>3. s \in T
  <2>1. T \in SUBSET Seq(E)
    OBVIOUS
  <2> HIDE DEF T
  <2>2. QED
    BY <1>1, <1>2, <2>1, ListsFollow
<1>4. QED
  BY <1>3

\* Of events none of which matches none is selected.
LEMMA SelectedNone ==
  ASSUME NEW E, NEW s \in Seq(E), NEW filter, NEW start,
         \A e \in E : ~Selects(filter, start, e)
  PROVE  Selected(s, filter, start) = << >>
<1> DEFINE T == {u \in Seq(E) : Selected(u, filter, start) = << >>}
<1>1. << >> \in T
  BY SelectedEmpty
<1>2. ASSUME NEW u \in T, NEW e \in E
      PROVE  Append(u, e) \in T
  <2>1. Selected(Append(u, e), filter, start)
          = Longer(Selected(u, filter, start), filter, start, e)
    BY SelectedAppend
  <2>2. QED
    BY <2>1 DEF Longer
<1>3. s \in T
  <2>1. T \in SUBSET Seq(E)
    OBVIOUS
  <2> HIDE DEF T
  <2>2. QED
    BY <1>1, <1>2, <2>1, ListsFollow
<1>4. QED
  BY <1>3

\* What is selected of two lists, one after the other.
LEMMA SelectedConcat ==
  ASSUME NEW E, NEW s \in Seq(E), NEW t \in Seq(E), NEW filter, NEW start
  PROVE  Selected(s \o t, filter, start)
           = Selected(s, filter, start) \o Selected(t, filter, start)
<1> DEFINE chosen(u) == Selected(u, filter, start)
           T == {u \in Seq(E) : chosen(s \o u) = chosen(s) \o chosen(u)}
<1>1. \A u \in Seq(E) : chosen(u) \in Seq(E)
  BY SelectedList
<1>2. << >> \in T
  <2>1. chosen(<< >>) = << >> /\ chosen(s) \in Seq(E)
    BY <1>1, SelectedEmpty
  <2> HIDE DEF chosen
  <2>2. s \o << >> = s /\ chosen(s) \o << >> = chosen(s) /\ << >> \in Seq(E)
    BY <2>1
  <2>3. QED
    BY <2>1, <2>2
<1>3. ASSUME NEW u \in T, NEW e \in E
      PROVE  Append(u, e) \in T
  <2>1. chosen(Append(u, e)) = Longer(chosen(u), filter, start, e)
    BY SelectedAppend
  <2>2. PICK v : v = s \o u
    OBVIOUS
  <2>3. u \in Seq(E) /\ v \in Seq(E) /\ s \o Append(u, e) = Append(v, e)
    BY <2>2
  <2>4. chosen(Append(v, e)) = Longer(chosen(v), filter, start, e)
    BY <2>3, SelectedAppend
  <2>5. /\ chosen(v) = chosen(s) \o chosen(u)
        /\ chosen(s) \in Seq(E) /\ chosen(u) \in Seq(E)
    BY <1>1, <2>2, <2>3
  <2> HIDE DEF chosen
  <2>6. Longer(chosen(s) \o chosen(u), filter, start, e)
          = chosen(s) \o Longer(chosen(u), filter, start, e)
    BY <1>3, <2>5, ConcatLonger
  <2>7. Append(u, e) \in Seq(E)
    BY <2>3
  <2>8. QED
    BY <2>1, <2>3, <2>4, <2>5, <2>6, <2>7
<1>4. t \in T
  <2>1. T \in SUBSET Seq(E)
    OBVIOUS
  <2> HIDE DEF T
  <2>2. QED
    BY <1>2, <1>3, <2>1, ListsFollow
<1>5. QED
  BY <1>4

-----------------------------------------------------------------------------
(* Events and the data they tell of.                                        *)

\* f holds the data before the first event and after each of them; each event
\* says what the value was before it.
Tells(f, events) ==
  \A i \in 1 .. Len(events) :
    /\ f[i] = Replayed(f[i - 1], events[i])
    /\ events[i].prev = EntryOf(f[i - 1], events[i].key).value

Story(events, before, after) ==
  \E f : f[0] = before /\ f[Len(events)] = after /\ Tells(f, events)

\* No events tell of no change.
LEMMA StoryEmpty ==
  ASSUME NEW d
  PROVE  Story(<< >>, d, d)
<1>1. PICK f : f = [i \in {0} |-> d]
  OBVIOUS
<1>2. f[0] = d /\ Len(<< >>) = 0
  BY <1>1
<1>3. QED
  BY <1>2 DEF Story, Tells

\* One event tells of one change.
LEMMA StoryOne ==
  ASSUME NEW d, NEW e, e.prev = EntryOf(d, e.key).value
  PROVE  Story(<< e >>, d, Replayed(d, e))
<1>1. PICK f : f = [i \in {0, 1} |-> IF i = 0 THEN d ELSE Replayed(d, e)]
  OBVIOUS
<1>2. f[0] = d /\ f[1] = Replayed(d, e) /\ Len(<< e >>) = 1 /\ << e >>[1] = e
  BY <1>1
<1>3. Tells(f, << e >>)
  BY <1>2 DEF Tells
<1>4. QED
  BY <1>2, <1>3 DEF Story

\* One story goes on where the other ends.
LEMMA StoryConcat ==
  ASSUME NEW E, NEW s \in Seq(E), NEW t \in Seq(E), NEW a, NEW b, NEW c,
         Story(s, a, b), Story(t, b, c)
  PROVE  Story(s \o t, a, c)
<1>1. PICK f : f[0] = a /\ f[Len(s)] = b /\ Tells(f, s)
  BY DEF Story
<1>2. PICK g : g[0] = b /\ g[Len(t)] = c /\ Tells(g, t)
  BY DEF Story
<1>3. PICK m, n, all : m = Len(s) /\ n = Len(t) /\ all = s \o t
  OBVIOUS
<1>4. /\ m \in Nat /\ n \in Nat /\ Len(all) = m + n
      /\ \A i \in 1 .. m : all[i] = s[i]
      /\ \A i \in m + 1 .. m + n : all[i] = t[i - m]
  BY <1>3
<1>5. PICK h : h = [i \in 0 .. m + n |-> IF i <= m THEN f[i] ELSE g[i - m]]
  OBVIOUS
<1>6. /\ \A i \in 0 .. m : h[i] = f[i]
      /\ \A i \in m + 1 .. m + n : h[i] = g[i - m]
  BY <1>4, <1>5
<1>7. h[m] = g[0]
  BY <1>1, <1>2, <1>3, <1>4, <1>6
<1>8. ASSUME NEW i \in 1 .. Len(all)
      PROVE  /\ h[i] = Replayed(h[i - 1], all[i])
             /\ all[i].prev = EntryOf(h[i - 1], all[i].key).value
  <2>1. CASE i \in 1 .. m
    <3>1. h[i] = f[i] /\ h[i - 1] = f[i - 1] /\ all[i] = s[i]
      BY <1>4, <1>6, <2>1
    <3>2. QED
      BY <1>1, <1>3, <2>1, <3>1 DEF Tells
  <2>2. CASE i \in m + 1 .. m + n
    <3>1. PICK j : j = i - m
      OBVIOUS
    <3>2. j \in 1 .. n /\ i - 1 = (j - 1) + m /\ (i - 1) - m = j - 1
      BY <1>4, <2>2, <3>1
    <3>3. h[i] = g[j] /\ all[i] = t[j]
      BY <1>4, <1>6, <2>2, <3>1
    <3>4. h[i - 1] = g[j - 1]
      <4>1. CASE j = 1
        BY <1>4, <1>7, <3>2, <4>1
      <4>2. CASE j # 1
        <5>1. i - 1 \in m + 1 .. m + n
          BY <1>4, <3>2, <4>2
        <5>2. QED
          BY <1>6, <3>2, <5>1
      <4>3. QED
        BY <4>1, <4>2
    <3>5. QED
      BY <1>2, <1>3, <3>2, <3>3, <3>4 DEF Tells
  <2>3. QED
    BY <1>4, <2>1, <2>2
<1>9. h[0] = a
  BY <1>1, <1>4, <1>6
<1>10. h[m + n] = c
  <2>1. CASE n = 0
    BY <1>2, <1>3, <1>4, <1>7, <2>1
  <2>2. CASE n # 0
    <3>1. m + n \in m + 1 .. m + n /\ (m + n) - m = n
      BY <1>4, <2>2
    <3>2. h[m + n] = g[n]
      BY <1>6, <3>1
    <3>3. QED
      BY <1>2, <1>3, <3>2
  <2>3. QED
    BY <2>1, <2>2
<1>11. QED
  BY <1>3, <1>4, <1>8, <1>9, <1>10, ZenonT(60) DEF Story, Tells

\* Who replays the events comes to the data they tell of.
LEMMA ReplayIs ==
  ASSUME NEW events, Len(events) \in Nat, NEW f, f[0] = << >>,
         \A i \in 1 .. Len(events) : f[i] = Replayed(f[i - 1], events[i])
  PROVE  Replay(events) = f[Len(events)]
<1> DEFINE Fills(g) ==
      g = [i \in 0 .. Len(events) |->
             IF i = 0 THEN << >> ELSE Replayed(g[i - 1], events[i])]
<1>1. \E g : Fills(g)
  <2>1. PICK g : g = [i \in 0 .. Len(events) |-> f[i]]
    OBVIOUS
  <2>2. \A i \in 0 .. Len(events) : g[i] = f[i]
    BY <2>1
  <2>3. ASSUME NEW i \in 0 .. Len(events)
        PROVE  f[i] = IF i = 0 THEN << >> ELSE Replayed(g[i - 1], events[i])
    <3>1. CASE i = 0
      BY <3>1
    <3>2. CASE i # 0
      <4>1. i \in 1 .. Len(events) /\ i - 1 \in 0 .. Len(events)
        BY <3>2
      <4>2. QED
        BY <2>2, <3>2, <4>1
    <3>3. QED
      BY <3>1, <3>2
  <2>4. Fills(g)
    BY <2>1, <2>3
  <2>5. QED
    BY <2>4
<1>2. PICK h : h = CHOOSE g : Fills(g)
  OBVIOUS
<1>3. Fills(h)
  BY <1>1, <1>2
<1>4. Replay(events) = h[Len(events)]
  BY <1>2, Zenon DEF Replay
<1>5. \A i \in 0 .. Len(events) :
        h[i] = IF i = 0 THEN << >> ELSE Replayed(h[i - 1], events[i])
  BY <1>3, Zenon
<1> HIDE DEF Fills
<1> DEFINE S == {i \in 0 .. Len(events) : h[i] = f[i]}
<1>6. 0 \in S
  <2>1. 0 \in 0 .. Len(events)
    OBVIOUS
  <2>2. h[0] = IF 0 = 0 THEN << >> ELSE Replayed(h[0 - 1], events[0])
    BY <1>5, <2>1, Zenon
  <2>3. QED
    BY <2>1, <2>2
<1>7. ASSUME NEW n \in 0 .. Len(events) - 1, n \in S
      PROVE  n + 1 \in S
  <2>1. PICK i : i = n + 1
    OBVIOUS
  <2>2. /\ i \in 1 .. Len(events) /\ i \in 0 .. Len(events) /\ i # 0
        /\ i - 1 = n
    BY <2>1
  <2>3. h[i] = Replayed(h[i - 1], events[i])
    BY <1>5, <2>2, Zenon
  <2>4. f[i] = Replayed(f[i - 1], events[i])
    BY <2>2
  <2>5. QED
    BY <1>7, <2>1, <2>2, <2>3, <2>4
<1>8. Len(events) \in S
  <2> HIDE DEF S
  <2>1. \A n \in 0 .. Len(events) : n \in S
    BY <1>6, <1>7, Upwards
  <2>2. QED
    BY <2>1
<1>9. QED
  BY <1>4, <1>8

\* A story from the start is what DataFollowsEvents and PrevIsTrue say.
LEMMA StoryReplays ==
  ASSUME NEW E, NEW events \in Seq(E), NEW d, Story(events, << >>, d)
  PROVE  /\ Replay(events) = d
         /\ \A i \in DOMAIN events :
              events[i].prev = EntryOf(Replay(SubSeq(events, 1, i - 1)),
                                       events[i].key).value
<1>1. PICK f : f[0] = << >> /\ f[Len(events)] = d /\ Tells(f, events)
  BY DEF Story
<1>2. Len(events) \in Nat /\ DOMAIN events = 1 .. Len(events)
  OBVIOUS
<1>3. Replay(events) = d
  BY <1>1, <1>2, ReplayIs DEF Tells
<1>4. ASSUME NEW i \in DOMAIN events
      PROVE  events[i].prev = EntryOf(Replay(SubSeq(events, 1, i - 1)),
                                      events[i].key).value
  <2>1. PICK part : part = SubSeq(events, 1, i - 1)
    OBVIOUS
  <2>2. /\ Len(part) = i - 1 /\ i - 1 \in Nat /\ i \in 1 .. Len(events)
        /\ \A j \in 1 .. i - 1 : part[j] = events[j] /\ j \in 1 .. Len(events)
    BY <1>2, <2>1
  <2>3. \A j \in 1 .. Len(part) : f[j] = Replayed(f[j - 1], part[j])
    BY <1>1, <2>2 DEF Tells
  <2>4. Replay(part) = f[i - 1]
    BY <1>1, <2>2, <2>3, ReplayIs
  <2>5. QED
    BY <1>1, <2>1, <2>2, <2>4 DEF Tells
<1>5. QED
  BY <1>3, <1>4

-----------------------------------------------------------------------------
(* What a command makes of the data, and the events that tell of it.        *)

\* The data as events can tell of it, without the leases.
Bare(d) == [k \in DOMAIN d |-> [d[k] EXCEPT !.lease = NoLease]]

IsEntry(x) ==
  /\ x = [value |-> x.value, version |-> x.version, lease |-> x.lease,
          created |-> x.created, modified |-> x.modified]
  /\ x.value \in Value \cup {None}

IsData(d) ==
  /\ d = [k \in DOMAIN d |-> d[k]]
  /\ DOMAIN d \subseteq Key
  /\ \A k \in DOMAIN d : IsEntry(d[k])

\* The events that the store raises, and those of one revision.
StoreEvent  == {e \in Event : e.type # "COMPACTED" /\ e.key \in Key}
Raised(rev) == {e \in StoreEvent : e.revision = rev}

\* What an operation or a command returns.
IsResult(r) ==
  r = [ok |-> r.ok, data |-> r.data, events |-> r.events,
       prevLease |-> r.prevLease]

\* The events of a result tell how the data became what it is.
Explains(r, d, rev) ==
  /\ IsResult(r)
  /\ r.ok \in BOOLEAN
  /\ IsData(r.data)
  /\ r.events \in Seq(Raised(rev))
  /\ Story(r.events, Bare(d), Bare(r.data))

\* The bare data has the keys of the data, and its entries but for the lease.
LEMMA BareEntries ==
  ASSUME NEW d, IsData(d)
  PROVE  /\ DOMAIN Bare(d) = DOMAIN d
         /\ \A k \in DOMAIN d :
              Bare(d)[k] = [value |-> d[k].value, version |-> d[k].version,
                            lease |-> NoLease, created |-> d[k].created,
                            modified |-> d[k].modified]
<1>1. DOMAIN Bare(d) = DOMAIN d
  BY DEF Bare
<1>2. ASSUME NEW k \in DOMAIN d
      PROVE  Bare(d)[k] = [value |-> d[k].value, version |-> d[k].version,
                           lease |-> NoLease, created |-> d[k].created,
                           modified |-> d[k].modified]
  <2>1. Bare(d)[k] = [d[k] EXCEPT !.lease = NoLease]
    BY DEF Bare
  <2>2. IsEntry(d[k])
    BY DEF IsData
  <2>3. QED
    BY <2>1, <2>2 DEF IsEntry
<1>3. QED
  BY <1>1, <1>2

\* No event carries the lease of a key: the entry looks the same without it.
LEMMA BareEntryOf ==
  ASSUME NEW d, IsData(d), NEW k
  PROVE  /\ EntryOf(Bare(d), k).value = EntryOf(d, k).value
         /\ EntryOf(Bare(d), k).version = EntryOf(d, k).version
         /\ EntryOf(Bare(d), k).created = EntryOf(d, k).created
         /\ EntryOf(d, k).value \in Value \cup {None}
<1>1. CASE k \in DOMAIN d
  <2>1. EntryOf(d, k) = d[k] /\ EntryOf(Bare(d), k) = Bare(d)[k]
    BY <1>1, BareEntries DEF EntryOf
  <2>2. d[k].value \in Value \cup {None}
    BY <1>1 DEF IsData, IsEntry
  <2>3. PICK x, y : x = d[k] /\ y = Bare(d)[k]
    OBVIOUS
  <2>4. y = [value |-> x.value, version |-> x.version, lease |-> NoLease,
             created |-> x.created, modified |-> x.modified]
    BY <1>1, <2>3, BareEntries
  <2>5. y.value = x.value /\ y.version = x.version /\ y.created = x.created
    BY <2>4
  <2>6. QED
    BY <2>1, <2>2, <2>3, <2>5
<1>2. CASE k \notin DOMAIN d
  <2>1. EntryOf(d, k) = NoEntry /\ EntryOf(Bare(d), k) = NoEntry
    BY <1>2, BareEntries DEF EntryOf
  <2>2. NoEntry.value \in Value \cup {None}
    BY DEF NoEntry
  <2>3. QED
    BY <2>1, <2>2
<1>3. QED
  BY <1>1, <1>2

\* A put of an entry, and its event.
LEMMA BareBind ==
  ASSUME NEW d, IsData(d), NEW k \in Key, NEW x, IsEntry(x)
  PROVE  /\ IsData(Bind(d, k, x))
         /\ Bare(Bind(d, k, x))
              = Bind(Bare(d), k, [x EXCEPT !.lease = NoLease])
<1>1. PICK b : b = Bind(d, k, x)
  OBVIOUS
<1>2. /\ b = [y \in DOMAIN d \cup {k} |-> IF y = k THEN x ELSE d[y]]
      /\ DOMAIN b = DOMAIN d \cup {k}
  BY <1>1 DEF Bind
<1>3. \A y \in DOMAIN b : b[y] = IF y = k THEN x ELSE d[y]
  BY <1>2
<1>4. IsData(b)
  <2>1. \A y \in DOMAIN b : IsEntry(b[y])
    BY <1>2, <1>3 DEF IsData
  <2>2. DOMAIN b \subseteq Key
    BY <1>2 DEF IsData
  <2>3. b = [y \in DOMAIN b |-> b[y]]
    BY <1>2
  <2>4. QED
    BY <2>1, <2>2, <2>3 DEF IsData
<1>5. Bare(b) = Bind(Bare(d), k, [x EXCEPT !.lease = NoLease])
  <2> DEFINE bare == [x EXCEPT !.lease = NoLease]
  <2>1. PICK c : c = Bare(d)
    OBVIOUS
  <2>2. DOMAIN c = DOMAIN d
    BY <2>1 DEF Bare
  <2>3. \A y \in DOMAIN d : c[y] = [d[y] EXCEPT !.lease = NoLease]
    BY <2>1 DEF Bare
  <2>4. \A y \in DOMAIN b :
          [b[y] EXCEPT !.lease = NoLease] = IF y = k THEN bare ELSE c[y]
    BY <1>2, <1>3, <2>3
  <2>5. Bare(b) = [y \in DOMAIN b |-> IF y = k THEN bare ELSE c[y]]
    <3> HIDE DEF bare
    <3> QED  BY <2>4, Zenon DEF Bare
  <2>6. QED
    BY <1>2, <2>1, <2>2, <2>5 DEF Bind
<1>6. QED
  BY <1>1, <1>4, <1>5

\* The same of a key that is dropped.
LEMMA BareUnbind ==
  ASSUME NEW d, IsData(d), NEW k
  PROVE  IsData(Unbind(d, k)) /\ Bare(Unbind(d, k)) = Unbind(Bare(d), k)
<1>1. PICK b : b = Unbind(d, k)
  OBVIOUS
<1>2. b = [y \in DOMAIN d \ {k} |-> d[y]] /\ DOMAIN b = DOMAIN d \ {k}
  BY <1>1 DEF Unbind
<1>3. \A y \in DOMAIN b : b[y] = d[y] /\ y \in DOMAIN d
  BY <1>2
<1>4. IsData(b)
  BY <1>2, <1>3 DEF IsData
<1>5. Bare(b) = Unbind(Bare(d), k)
  <2>1. PICK c : c = Bare(d)
    OBVIOUS
  <2>2. DOMAIN c = DOMAIN d
    BY <2>1 DEF Bare
  <2>3. \A y \in DOMAIN d : c[y] = [d[y] EXCEPT !.lease = NoLease]
    BY <2>1 DEF Bare
  <2>4. Bare(b) = [y \in DOMAIN b |-> c[y]]
    BY <1>3, <2>3, Zenon DEF Bare
  <2>5. QED
    BY <1>2, <2>1, <2>2, <2>4 DEF Unbind
<1>6. QED
  BY <1>1, <1>4, <1>5

\* A command that changes nothing needs no event.
LEMMA AnswerExplains ==
  ASSUME NEW d, IsData(d), NEW ok \in BOOLEAN, NEW rev
  PROVE  Explains(Answer(ok, d), d, rev) /\ Answer(ok, d).ok = ok
<1>1. PICK r : r = Answer(ok, d)
  OBVIOUS
<1>2. r = [ok |-> ok, data |-> d, events |-> << >>, prevLease |-> NoLease]
  BY <1>1 DEF Answer
<1>3. r.ok = ok /\ r.data = d /\ r.events = << >> /\ r.prevLease = NoLease
  BY <1>2
<1>4. << >> \in Seq(Raised(rev))
  OBVIOUS
<1>5. Story(r.events, Bare(d), Bare(r.data))
  BY <1>3, StoryEmpty
<1>6. IsResult(r)
  BY <1>2, <1>3 DEF IsResult
<1>7. QED
  BY <1>1, <1>3, <1>4, <1>5, <1>6 DEF Explains

\* A put raises one event, which tells what it does.
LEMMA PutExplains ==
  ASSUME NEW d, IsData(d), NEW c, IsOperation(c), NEW rev \in 0 .. MaxRevision
  PROVE  Explains(DoPut(d, c, rev), d, rev)
<1>1. PICK k, v, r, old : /\ k = c.key /\ v = c.value
                          /\ r = DoPut(d, c, rev) /\ old = EntryOf(d, k)
  OBVIOUS
<1>2. PICK x : x = [value |-> v, version |-> old.version + 1,
                    lease |-> KeptLease(old, c.lease),
                    created |-> IF k \in DOMAIN d THEN old.created ELSE rev,
                    modified |-> rev]
  OBVIOUS
<1>3. PICK e : e = [type |-> "PUT", key |-> k, value |-> v,
                    prev |-> old.value, revision |-> rev]
  OBVIOUS
<1>4. r = [ok |-> TRUE, data |-> Bind(d, k, x), prevLease |-> old.lease,
           events |-> << e >>]
  BY <1>1, <1>2, <1>3 DEF DoPut
<1>5. k \in Key /\ v \in Value \cup {None}
  BY <1>1 DEF IsOperation
<1>6. /\ r.ok = TRUE /\ r.data = Bind(d, k, x) /\ r.events = << e >>
      /\ r.prevLease = old.lease
  BY <1>4
<1>7. IsEntry(x)
  BY <1>2, <1>5 DEF IsEntry
<1>8. old.value \in Value \cup {None}
  BY <1>1, BareEntryOf
<1>9. e \in Raised(rev)
  <2>1. e \in Event
    BY <1>3, <1>5, <1>8 DEF Event
  <2>2. e.type # "COMPACTED" /\ e.key \in Key /\ e.revision = rev
    BY <1>3, <1>5
  <2>3. QED
    BY <2>1, <2>2 DEF Raised, StoreEvent
<1>10. PICK b : b = Bare(d)
  OBVIOUS
<1>11. /\ EntryOf(b, k).value = old.value
       /\ EntryOf(b, k).version = old.version
       /\ EntryOf(b, k).created = old.created
       /\ DOMAIN b = DOMAIN d
  BY <1>1, <1>10, BareEntryOf, BareEntries
<1>12. /\ e.type = "PUT" /\ e.key = k /\ e.value = v /\ e.prev = old.value
       /\ e.revision = rev
  BY <1>3
<1>13. Replayed(b, e) = Bind(b, k, [x EXCEPT !.lease = NoLease])
  <2>1. PICK y : y = [value |-> v, version |-> old.version + 1,
                      lease |-> NoLease,
                      created |-> IF k \in DOMAIN d THEN old.created ELSE rev,
                      modified |-> rev]
    OBVIOUS
  <2>2. [x EXCEPT !.lease = NoLease] = y
    BY <1>2, <2>1
  <2>3. Replayed(b, e) = Bind(b, k, y)
    BY <1>11, <1>12, <2>1, Zenon DEF Replayed
  <2>4. QED
    BY <2>2, <2>3
<1>14. IsData(r.data) /\ Bare(r.data) = Replayed(b, e)
  BY <1>5, <1>6, <1>7, <1>10, <1>13, BareBind
<1>15. Story(r.events, b, Bare(r.data))
  <2>1. e.prev = EntryOf(b, e.key).value
    BY <1>11, <1>12
  <2>2. QED
    BY <1>6, <1>14, <2>1, StoryOne
<1>16. r.events \in Seq(Raised(rev))
  BY <1>6, <1>9
<1>17. IsResult(r)
  BY <1>4, <1>6 DEF IsResult
<1>18. QED
  BY <1>1, <1>6, <1>10, <1>14, <1>15, <1>16, <1>17 DEF Explains

\* So does a delete of a key that exists; there is none for any other.
LEMMA DeleteExplains ==
  ASSUME NEW d, IsData(d), NEW c, IsOperation(c), NEW rev \in 0 .. MaxRevision
  PROVE  Explains(DoDelete(d, c, rev), d, rev)
<1>1. CASE c.key \notin DOMAIN d
  BY <1>1, AnswerExplains DEF DoDelete
<1>2. CASE c.key \in DOMAIN d
  <2>1. PICK k, r, old : k = c.key /\ r = DoDelete(d, c, rev) /\ old = d[k]
    OBVIOUS
  <2>2. PICK e : e = [type |-> "DELETE", key |-> k, value |-> None,
                      prev |-> old.value, revision |-> rev]
    OBVIOUS
  <2>3. r = [ok |-> TRUE, data |-> Unbind(d, k), prevLease |-> old.lease,
             events |-> << e >>]
    BY <1>2, <2>1, <2>2 DEF DoDelete
  <2>4. /\ r.ok = TRUE /\ r.data = Unbind(d, k) /\ r.events = << e >>
        /\ r.prevLease = old.lease
    BY <2>3
  <2>5. k \in Key /\ EntryOf(d, k) = old
    BY <1>2, <2>1 DEF IsOperation, EntryOf
  <2>6. old.value \in Value \cup {None}
    BY <2>5, BareEntryOf
  <2>7. e \in Raised(rev)
    <3>1. e \in Event
      BY <2>2, <2>5, <2>6 DEF Event
    <3>2. e.type # "COMPACTED" /\ e.key \in Key /\ e.revision = rev
      BY <2>2, <2>5
    <3>3. QED
      BY <3>1, <3>2 DEF Raised, StoreEvent
  <2>8. PICK b : b = Bare(d)
    OBVIOUS
  <2>9. e.type # "PUT" /\ e.key = k /\ e.prev = old.value
    BY <2>2
  <2>10. Replayed(b, e) = Unbind(b, k)
    BY <2>9, Zenon DEF Replayed
  <2>11. IsData(r.data) /\ Bare(r.data) = Replayed(b, e)
    BY <2>4, <2>8, <2>10, BareUnbind
  <2>12. Story(r.events, b, Bare(r.data))
    <3>1. e.prev = EntryOf(b, e.key).value
      BY <2>5, <2>8, <2>9, BareEntryOf
    <3>2. QED
      BY <2>4, <2>11, <3>1, StoryOne
  <2>13. r.events \in Seq(Raised(rev))
    BY <2>4, <2>7
  <2>14. IsResult(r)
    BY <2>3, <2>4 DEF IsResult
  <2>15. QED
    BY <2>1, <2>4, <2>8, <2>11, <2>12, <2>13, <2>14 DEF Explains
<1>3. QED
  BY <1>1, <1>2

\* An operation of any type raises the events that tell what it does.
LEMMA OpExplains ==
  ASSUME NEW d, IsData(d), NEW c, IsOperation(c), NEW rev \in 0 .. MaxRevision
  PROVE  Explains(DoOp(d, c, rev), d, rev)
<1>1. Explains(DoPut(d, c, rev), d, rev)
  BY PutExplains
<1>2. Explains(Answer(FALSE, d), d, rev)
  BY AnswerExplains
<1>3. Explains(DoDelete(d, c, rev), d, rev)
  BY DeleteExplains
<1>4. Explains(DoPutIfAbsent(d, c, rev), d, rev)
  BY <1>1, <1>2 DEF DoPutIfAbsent
<1>5. Explains(DoCas(d, c, rev), d, rev)
  BY <1>1, <1>2 DEF DoCas
<1>6. \/ DoOp(d, c, rev) = DoPut(d, c, rev)
      \/ DoOp(d, c, rev) = DoDelete(d, c, rev)
      \/ DoOp(d, c, rev) = DoPutIfAbsent(d, c, rev)
      \/ DoOp(d, c, rev) = DoCas(d, c, rev)
      \/ DoOp(d, c, rev) = Answer(FALSE, d)
  BY DEF DoOp
<1>7. QED
  BY <1>1, <1>2, <1>3, <1>4, <1>5, <1>6

\* One more operation of a transaction: none after one that failed.
Stepped(before, op, rev) ==
  IF ~before.ok THEN before
  ELSE LET r == DoOp(before.data, op, rev)
       IN  [r EXCEPT !.events = before.events \o @, !.prevLease = NoLease]

\* steps holds what the first n operations come to.
Stepwise(steps, n, d, ops, rev) ==
  steps = [i \in 0 .. n |-> IF i = 0 THEN Answer(TRUE, d)
                            ELSE Stepped(steps[i - 1], ops[i], rev)]

\* There is such a function for every list of operations.
LEMMA StepsExist ==
  ASSUME NEW d, NEW ops, Len(ops) \in Nat, NEW rev
  PROVE  \E steps : Stepwise(steps, Len(ops), d, ops, rev)
<1> DEFINE S == {n \in 0 .. Len(ops) :
                   \E steps : Stepwise(steps, n, d, ops, rev)}
<1>1. 0 \in S
  <2>1. PICK steps : steps = [i \in 0 .. 0 |-> Answer(TRUE, d)]
    OBVIOUS
  <2>2. Stepwise(steps, 0, d, ops, rev)
    BY <2>1 DEF Stepwise
  <2>3. QED
    BY <2>2
<1>2. ASSUME NEW n \in 0 .. Len(ops) - 1, n \in S
      PROVE  n + 1 \in S
  <2>1. PICK steps : Stepwise(steps, n, d, ops, rev)
    BY <1>2
  <2>2. \A i \in 0 .. n :
          steps[i] = IF i = 0 THEN Answer(TRUE, d)
                     ELSE Stepped(steps[i - 1], ops[i], rev)
    BY <2>1, Zenon DEF Stepwise
  <2>3. PICK more : more = [i \in 0 .. n + 1 |->
                              IF i <= n THEN steps[i]
                              ELSE Stepped(steps[n], ops[i], rev)]
    OBVIOUS
  <2>4. ASSUME NEW i \in 0 .. n + 1
        PROVE  more[i] = IF i = 0 THEN Answer(TRUE, d)
                         ELSE Stepped(more[i - 1], ops[i], rev)
    <3>1. CASE i = 0
      <4>1. 0 \in 0 .. n /\ 0 <= n
        OBVIOUS
      <4>2. more[0] = steps[0]
        BY <2>3, <4>1
      <4>3. steps[0] = Answer(TRUE, d)
        BY <2>2, <4>1, Zenon
      <4>4. QED
        BY <3>1, <4>2, <4>3
    <3>2. CASE i \in 1 .. n
      <4>1. i \in 0 .. n /\ i # 0 /\ i - 1 \in 0 .. n
        BY <3>2
      <4>2. more[i] = steps[i] /\ more[i - 1] = steps[i - 1]
        BY <2>3, <4>1
      <4>3. steps[i] = Stepped(steps[i - 1], ops[i], rev)
        BY <2>2, <4>1, Zenon
      <4>4. QED
        BY <4>1, <4>2, <4>3
    <3>3. CASE i = n + 1
      <4>1. ~(i <= n) /\ i # 0 /\ i - 1 = n /\ n \in 0 .. n + 1 /\ n <= n
        BY <3>3
      <4>2. more[i] = Stepped(steps[n], ops[i], rev) /\ more[n] = steps[n]
        BY <2>3, <4>1
      <4>3. more[i] = Stepped(more[i - 1], ops[i], rev)
        BY <4>1, <4>2, Zenon
      <4>4. QED
        BY <4>1, <4>3
    <3>4. i = 0 \/ i \in 1 .. n \/ i = n + 1
      OBVIOUS
    <3>5. QED
      BY <3>1, <3>2, <3>3, <3>4, Zenon
  <2>5. Stepwise(more, n + 1, d, ops, rev)
    BY <2>3, <2>4 DEF Stepwise
  <2>6. n + 1 \in 0 .. Len(ops)
    OBVIOUS
  <2>7. QED
    BY <2>5, <2>6
<1>3. Len(ops) \in S
  <2> HIDE DEF S
  <2>1. \A n \in 0 .. Len(ops) : n \in S
    BY <1>1, <1>2, Upwards
  <2>2. QED
    BY <2>1
<1>4. QED
  BY <1>3

\* What Steps computes, one operation at a time.
LEMMA StepsAre ==
  ASSUME NEW d, NEW ops, Len(ops) \in Nat, NEW rev
  PROVE  LET steps == Steps(d, ops, rev)
         IN  /\ steps[0] = Answer(TRUE, d)
             /\ \A i \in 1 .. Len(ops) :
                  steps[i] = Stepped(steps[i - 1], ops[i], rev)
<1>1. PICK g : g = CHOOSE steps : Stepwise(steps, Len(ops), d, ops, rev)
  OBVIOUS
<1>2. Stepwise(g, Len(ops), d, ops, rev)
  BY <1>1, StepsExist
<1>3. Steps(d, ops, rev) = g
  BY <1>1, Zenon DEF Steps, Stepwise, Stepped
<1>4. \A i \in 0 .. Len(ops) :
        g[i] = IF i = 0 THEN Answer(TRUE, d)
               ELSE Stepped(g[i - 1], ops[i], rev)
  BY <1>2, Zenon DEF Stepwise
<1>5. g[0] = Answer(TRUE, d)
  <2>1. 0 \in 0 .. Len(ops)
    OBVIOUS
  <2>2. QED
    BY <1>4, <2>1, Zenon
<1>6. ASSUME NEW i \in 1 .. Len(ops)
      PROVE  g[i] = Stepped(g[i - 1], ops[i], rev)
  <2>1. i \in 0 .. Len(ops) /\ i # 0
    OBVIOUS
  <2>2. QED
    BY <1>4, <2>1, Zenon
<1>7. QED
  BY <1>3, <1>5, <1>6

\* Whatever the transaction has done so far, its events tell of it.
LEMMA StepExplains ==
  ASSUME NEW d, NEW before, NEW op, IsOperation(op),
         NEW rev \in 0 .. MaxRevision, Explains(before, d, rev)
  PROVE  Explains(Stepped(before, op, rev), d, rev)
<1>1. CASE ~before.ok
  BY <1>1 DEF Stepped
<1>2. CASE before.ok
  <2>1. PICK r, both, new : /\ r = DoOp(before.data, op, rev)
                            /\ both = before.events \o r.events
                            /\ new = Stepped(before, op, rev)
    OBVIOUS
  <2>2. Explains(r, before.data, rev)
    BY <2>1, OpExplains DEF Explains
  <2>3. new = [r EXCEPT !.events = both, !.prevLease = NoLease]
    BY <1>2, <2>1 DEF Stepped
  <2>4. r = [ok |-> r.ok, data |-> r.data, events |-> r.events,
             prevLease |-> r.prevLease]
    BY <2>2 DEF Explains, IsResult
  <2>5. /\ new = [ok |-> r.ok, data |-> r.data, events |-> both,
                  prevLease |-> NoLease]
        /\ new.ok = r.ok /\ new.data = r.data /\ new.events = both
        /\ new.prevLease = NoLease
    BY <2>3, <2>4
  <2>6. IsResult(new)
    BY <2>5 DEF IsResult
  <2>7. before.events \in Seq(Raised(rev)) /\ r.events \in Seq(Raised(rev))
    BY <2>2 DEF Explains
  <2>8. both \in Seq(Raised(rev))
    BY <2>1, <2>7
  <2>9. Story(both, Bare(d), Bare(r.data))
    <3>1. /\ Story(before.events, Bare(d), Bare(before.data))
          /\ Story(r.events, Bare(before.data), Bare(r.data))
      BY <2>2 DEF Explains
    <3>2. QED
      BY <2>1, <2>7, <3>1, StoryConcat
  <2>10. r.ok \in BOOLEAN /\ IsData(r.data)
    BY <2>2 DEF Explains
  <2>11. Explains(new, d, rev)
    BY <2>5, <2>6, <2>8, <2>9, <2>10 DEF Explains
  <2>12. QED
    BY <2>1, <2>11
<1>3. QED
  BY <1>1, <1>2

\* A transaction that fails raises nothing and changes nothing.
LEMMA TxnExplains ==
  ASSUME NEW d, IsData(d), NEW ops, Len(ops) \in Nat,
         \A i \in 1 .. Len(ops) : IsOperation(ops[i]),
         NEW rev \in 0 .. MaxRevision
  PROVE  Explains(DoTxn(d, ops, rev), d, rev)
<1>1. PICK steps : steps = Steps(d, ops, rev)
  OBVIOUS
<1>2. /\ steps[0] = Answer(TRUE, d)
      /\ \A i \in 1 .. Len(ops) : steps[i] = Stepped(steps[i - 1], ops[i], rev)
  BY <1>1, StepsAre, ZenonT(60)
<1> DEFINE S == {n \in 0 .. Len(ops) : Explains(steps[n], d, rev)}
<1>3. 0 \in S
  <2>1. Explains(steps[0], d, rev)
    BY <1>2, AnswerExplains
  <2>2. QED
    BY <2>1
<1>4. ASSUME NEW n \in 0 .. Len(ops) - 1, n \in S
      PROVE  n + 1 \in S
  <2>1. PICK i : i = n + 1
    OBVIOUS
  <2>2. i \in 1 .. Len(ops) /\ i \in 0 .. Len(ops) /\ i - 1 = n
    BY <2>1
  <2>3. steps[i] = Stepped(steps[n], ops[i], rev)
    BY <1>2, <2>2
  <2>4. Explains(steps[n], d, rev)
    BY <1>4
  <2>5. IsOperation(ops[i])
    BY <2>2
  <2>6. Explains(steps[i], d, rev)
    BY <2>3, <2>4, <2>5, StepExplains
  <2>7. QED
    BY <2>1, <2>2, <2>6
<1>5. Len(ops) \in S
  <2> HIDE DEF S
  <2>1. \A n \in 0 .. Len(ops) : n \in S
    BY <1>3, <1>4, Upwards
  <2>2. QED
    BY <2>1
<1>6. QED
  BY <1>1, <1>5, AnswerExplains DEF DoTxn

\* Every command of the log raises the events that tell what it does.
LEMMA ExecuteExplains ==
  ASSUME NEW d, IsData(d), NEW c \in Commands, NEW rev \in 0 .. MaxRevision
  PROVE  Explains(Execute(d, c, rev), d, rev)
<1>1. CASE c.type = "txn"
  <2>1. Len(c.ops) \in Nat /\ \A i \in 1 .. Len(c.ops) : IsOperation(c.ops[i])
    BY <1>1, CommandsAssumption
  <2>2. QED
    BY <1>1, <2>1, TxnExplains DEF Execute
<1>2. CASE c.type # "txn"
  <2>1. IsOperation(c)
    BY <1>2, CommandsAssumption
  <2>2. QED
    BY <1>2, <2>1, OpExplains DEF Execute
<1>3. QED
  BY <1>1, <1>2

-----------------------------------------------------------------------------
(* Parts of lists.                                                          *)

\* A part falls into two at any place.
LEMMA PartsJoin ==
  ASSUME NEW E, NEW s \in Seq(E), NEW j \in 0 .. Len(s), NEW k \in j .. Len(s),
         NEW i \in 1 .. j + 1
  PROVE  SubSeq(s, i, k) = SubSeq(s, i, j) \o SubSeq(s, j + 1, k)
<1>1. PICK a, b, c : /\ a = SubSeq(s, i, k) /\ b = SubSeq(s, i, j)
                     /\ c = SubSeq(s, j + 1, k)
  OBVIOUS
<1>2. a \in Seq(E) /\ b \in Seq(E) /\ c \in Seq(E) /\ b \o c \in Seq(E)
  BY <1>1, PartType
<1>3. /\ Len(a) = k - i + 1 /\ Len(b) = j - i + 1 /\ Len(c) = k - j
      /\ Len(b \o c) = k - i + 1
  BY <1>1, <1>2
<1>4. /\ \A n \in 1 .. k - i + 1 : a[n] = s[n + i - 1]
      /\ \A n \in 1 .. j - i + 1 : b[n] = s[n + i - 1]
      /\ \A n \in 1 .. k - j : c[n] = s[n + j]
  <2>1. \A n \in 1 .. k - i + 1 : a[n] = s[n + i - 1]
    BY <1>1, SMTT(60)
  <2>2. \A n \in 1 .. j - i + 1 : b[n] = s[n + i - 1]
    BY <1>1, SMTT(60)
  <2>3. \A n \in 1 .. k - j : c[n] = s[n + j]
    BY <1>1, SMTT(60)
  <2>4. QED
    BY <2>1, <2>2, <2>3
<1>5. ASSUME NEW n \in 1 .. k - i + 1
      PROVE  a[n] = (b \o c)[n]
  <2>1. CASE n <= j - i + 1
    BY <1>2, <1>3, <1>4, <2>1
  <2>2. CASE n > j - i + 1
    <3>1. PICK m : m = n - (j - i + 1)
      OBVIOUS
    <3>2. m \in 1 .. k - j /\ m + j = n + i - 1
      BY <2>2, <3>1
    <3>3. (b \o c)[n] = c[m]
      BY <1>2, <1>3, <2>2, <3>1, SMTT(60)
    <3>4. QED
      BY <1>4, <3>2, <3>3
  <2>3. n <= j - i + 1 \/ n > j - i + 1
    OBVIOUS
  <2>4. QED
    BY <2>1, <2>2, <2>3
<1>6. a = b \o c
  BY <1>2, <1>3, <1>5, SeqEqual
<1>7. QED
  BY <1>1, <1>6

\* A part that ends before it starts is empty.
LEMMA NoPart ==
  ASSUME NEW E, NEW s \in Seq(E), NEW n \in 0 .. Len(s)
  PROVE  SubSeq(s, n + 1, n) = << >>
  OBVIOUS

\* A longer list has the same parts, and one that reaches its end is longer too.
LEMMA PartsOfLonger ==
  ASSUME NEW E, NEW s \in Seq(E), NEW e \in E, NEW i \in 1 .. Len(s) + 1,
         NEW k \in 0 .. Len(s)
  PROVE  /\ SubSeq(Append(s, e), i, k) = SubSeq(s, i, k)
         /\ SubSeq(Append(s, e), i, Len(Append(s, e)))
              = Append(SubSeq(s, i, Len(s)), e)
<1>1. SubSeq(Append(s, e), i, k) = SubSeq(s, i, k)
  OBVIOUS
<1>2. SubSeq(Append(s, e), i, Len(Append(s, e)))
        = Append(SubSeq(s, i, Len(s)), e)
  <2>1. PICK all, a, b : /\ all = Append(s, e) /\ a = SubSeq(all, i, Len(all))
                         /\ b = SubSeq(s, i, Len(s))
    OBVIOUS
  <2>2. /\ all \in Seq(E) /\ Len(all) = Len(s) + 1 /\ Len(s) \in Nat
        /\ all[Len(s) + 1] = e /\ \A n \in 1 .. Len(s) : all[n] = s[n]
    BY <2>1
  <2>3. /\ a \in Seq(E) /\ Len(a) = Len(s) - i + 2
        /\ \A n \in 1 .. Len(s) - i + 2 : a[n] = all[n + i - 1]
    <3>1. i \in 1 .. Len(all) + 1 /\ a = SubSeq(all, i, Len(all))
      BY <2>1, <2>2
    <3>2. a \in Seq(E) /\ Len(a) = Len(s) - i + 2
      BY <2>2, <3>1, SMTT(60)
    <3>3. \A n \in 1 .. Len(s) - i + 2 : a[n] = all[n + i - 1]
      BY <2>2, <3>1, SMTT(60)
    <3>4. QED
      BY <3>2, <3>3
  <2>4. /\ b \in Seq(E) /\ Len(b) = Len(s) - i + 1
        /\ \A n \in 1 .. Len(s) - i + 1 : b[n] = s[n + i - 1]
    BY <2>1, <2>2, SMTT(60)
  <2>5. PICK c : c = Append(b, e)
    OBVIOUS
  <2>6. /\ c \in Seq(E) /\ Len(c) = Len(s) - i + 2
        /\ c[Len(s) - i + 2] = e
        /\ \A n \in 1 .. Len(s) - i + 1 : c[n] = b[n]
    BY <2>4, <2>5
  <2>7. ASSUME NEW n \in 1 .. Len(s) - i + 2
        PROVE  a[n] = c[n]
    <3>1. CASE n = Len(s) - i + 2
      <4>1. a[n] = all[n + i - 1] /\ n + i - 1 = Len(s) + 1
        BY <2>2, <2>3, <3>1
      <4>2. QED
        BY <2>2, <2>6, <3>1, <4>1
    <3>2. CASE n \in 1 .. Len(s) - i + 1
      <4>1. n + i - 1 \in 1 .. Len(s)
        BY <2>2, <3>2
      <4>2. a[n] = all[n + i - 1] /\ all[n + i - 1] = s[n + i - 1]
        BY <2>2, <2>3, <4>1
      <4>3. c[n] = b[n] /\ b[n] = s[n + i - 1]
        BY <2>4, <2>6, <3>2
      <4>4. QED
        BY <4>2, <4>3
    <3>3. n = Len(s) - i + 2 \/ n \in 1 .. Len(s) - i + 1
      BY <2>2
    <3>4. QED
      BY <3>1, <3>2, <3>3
  <2>8. a = c
    BY <2>3, <2>6, <2>7, SeqEqual
  <2>9. QED
    BY <2>1, <2>5, <2>8
<1>3. QED
  BY <1>1, <1>2

\* Who takes the first of a queue and puts it behind has both together still.
LEMMA HandOver ==
  ASSUME NEW E, NEW s \in Seq(E), NEW t \in Seq(E), t # << >>
  PROVE  /\ Head(t) \in E /\ Tail(t) \in Seq(E) /\ Append(s, Head(t)) \in Seq(E)
         /\ Append(s, Head(t)) \o Tail(t) = s \o t
<1>1. /\ Head(t) \in E /\ Tail(t) \in Seq(E) /\ Append(s, Head(t)) \in Seq(E)
      /\ Len(Tail(t)) = Len(t) - 1 /\ Len(t) \in Nat \ {0}
  OBVIOUS
<1>2. PICK a, b : a = Append(s, Head(t)) \o Tail(t) /\ b = s \o t
  OBVIOUS
<1>3. a \in Seq(E) /\ b \in Seq(E) /\ Len(a) = Len(b)
  BY <1>1, <1>2
<1>4. ASSUME NEW i \in 1 .. Len(b)
      PROVE  a[i] = b[i]
  BY <1>1, <1>2
<1>5. QED
  BY <1>1, <1>2, <1>3, <1>4, SMTT(60)

\* A list is at the end of every list it is joined to.
LEMMA SuffixOfJoined ==
  ASSUME NEW E, NEW s \in Seq(E), NEW t \in Seq(E)
  PROVE  IsSuffix(t, s \o t)
<1>1. PICK a, b, all : all = s \o t /\ a = Reverse(t) /\ b = Reverse(all)
  OBVIOUS
<1>2. /\ all \in Seq(E) /\ Len(all) = Len(s) + Len(t)
      /\ Len(s) \in Nat /\ Len(t) \in Nat
  BY <1>1
<1>3. a = [i \in 1 .. Len(t) |-> t[(Len(t) - i) + 1]]
  BY <1>1 DEF Reverse
<1>4. b = [i \in 1 .. Len(all) |-> all[(Len(all) - i) + 1]]
  BY <1>1 DEF Reverse
<1>5. a \in Seq(E) /\ Len(a) = Len(t)
  BY <1>2, <1>3
<1>6. b \in Seq(E) /\ Len(b) = Len(s) + Len(t)
  BY <1>2, <1>4
<1>7. ASSUME NEW i \in 1 .. Len(t)
      PROVE  a[i] = b[i]
  <2>1. PICK n : n = (Len(t) - i) + 1
    OBVIOUS
  <2>2. n \in 1 .. Len(t) /\ (Len(all) - i) + 1 = Len(s) + n
    BY <1>2, <2>1
  <2>3. all[Len(s) + n] = t[n]
    BY <1>1, <1>2, <2>2
  <2>4. i \in 1 .. Len(all)
    BY <1>2
  <2>5. QED
    BY <1>3, <1>4, <2>1, <2>2, <2>3, <2>4
<1>8. SubSeq(a, 1, Len(a)) = SubSeq(b, 1, Len(a))
  BY <1>2, <1>5, <1>6, <1>7
<1>9. QED
  BY <1>1, <1>2, <1>5, <1>6, <1>8 DEF IsSuffix, IsPrefix

-----------------------------------------------------------------------------
(* What a watcher is told, as a function of the events handed over.         *)

\* What it is given of the events between the j-th and its subscription, and
\* of those that follow.
Caught(w, s, j) == Selected(SubSeq(s, j + 1, w.since), w.filter, w.start)
After(w, s)     == Selected(SubSeq(s, w.since + 1, Len(s)), w.filter, 0)

\* Without a notice it asked for nothing earlier, or the history reached back
\* to the first event, or as far as its start revision.
Complete(w, s, j) ==
  /\ w.start = 0 => j = w.since
  /\ w.start # 0 /\ MaxHistory # 0 =>
       j = 0 \/ (j < w.since /\ s[j + 1].revision <= w.start)

\* It is told of the events from the (j + 1)-th on, with or without a notice.
ToldFrom(got, w, s, j) ==
  LET both == Caught(w, s, j) \o After(w, s)
  IN  \/ got = both /\ Complete(w, s, j)
      \/ /\ got = << Compacted(s[j + 1].revision) >> \o both
         /\ w.start # 0 /\ j < w.since /\ s[j + 1].revision > w.start

\* The fields of a watcher, s being the events handed over.
IsWatcher(w, s) ==
  /\ w = [filter |-> w.filter, start |-> w.start, queue |-> w.queue,
          since |-> w.since]
  /\ w.start \in 0 .. MaxRevision
  /\ w.queue \in Seq(Event)
  /\ w.since \in 0 .. Len(s)

Told(got, w, s) ==
  /\ IsWatcher(w, s)
  /\ \E j \in 0 .. w.since : ToldFrom(got, w, s, j)

\* The lists that ToldFrom speaks of hold events of the store.
LEMMA ToldLists ==
  ASSUME NEW s \in Seq(StoreEvent), NEW w, IsWatcher(w, s),
         NEW j \in 0 .. w.since
  PROVE  /\ SubSeq(s, j + 1, w.since) \in Seq(StoreEvent)
         /\ SubSeq(s, w.since + 1, Len(s)) \in Seq(StoreEvent)
         /\ Caught(w, s, j) \in Seq(StoreEvent)
         /\ After(w, s) \in Seq(StoreEvent)
<1>1. w.since \in 0 .. Len(s) /\ Len(s) \in Nat
  BY DEF IsWatcher
<1>2. /\ SubSeq(s, j + 1, w.since) \in Seq(StoreEvent)
      /\ SubSeq(s, w.since + 1, Len(s)) \in Seq(StoreEvent)
  BY <1>1, PartType
<1>3. QED
  BY <1>2, SelectedList DEF Caught, After

\* A notice names a revision.
LEMMA NoticeIsEvent ==
  ASSUME NEW e \in Event
  PROVE  Compacted(e.revision) \in Event
  BY DEF Compacted, Event

\* Events that follow are appended to what it is told, those that match.
LEMMA ToldOfLonger ==
  ASSUME NEW s \in Seq(StoreEvent), NEW e \in StoreEvent, NEW w,
         IsWatcher(w, s), NEW j \in 0 .. w.since, NEW got,
         ToldFrom(got, w, s, j)
  PROVE  ToldFrom(Longer(got, w.filter, 0, e), w, Append(s, e), j)
<1>1. PICK all, a, b, c : /\ all = Append(s, e) /\ a = Caught(w, s, j)
                          /\ b = After(w, s) /\ c = Longer(b, w.filter, 0, e)
  OBVIOUS
<1>2. /\ SubSeq(s, j + 1, w.since) \in Seq(StoreEvent)
      /\ SubSeq(s, w.since + 1, Len(s)) \in Seq(StoreEvent)
      /\ a \in Seq(StoreEvent) /\ b \in Seq(StoreEvent)
  BY <1>1, ToldLists
<1>3. w.since \in 0 .. Len(s) /\ Len(s) \in Nat
  BY DEF IsWatcher
<1>4. Caught(w, all, j) = a
  <2>1. SubSeq(all, j + 1, w.since) = SubSeq(s, j + 1, w.since)
    BY <1>1, <1>3, PartsOfLonger
  <2>2. QED
    BY <1>1, <2>1 DEF Caught
<1>5. After(w, all) = c
  <2>1. SubSeq(all, w.since + 1, Len(all))
          = Append(SubSeq(s, w.since + 1, Len(s)), e)
    <3>1. w.since + 1 \in 1 .. Len(s) + 1 /\ 0 \in 0 .. Len(s)
      BY <1>3
    <3>2. QED
      BY <1>1, <3>1, PartsOfLonger
  <2>2. Selected(Append(SubSeq(s, w.since + 1, Len(s)), e), w.filter, 0)
          = Longer(Selected(SubSeq(s, w.since + 1, Len(s)), w.filter, 0),
                   w.filter, 0, e)
    BY <1>2, SelectedAppend, ZenonT(60)
  <2>3. QED
    BY <1>1, <2>1, <2>2, Zenon DEF After
<1>6. Longer(a \o b, w.filter, 0, e) = a \o c
  <2>1. PICK E : E = StoreEvent
    OBVIOUS
  <2>2. a \in Seq(E) /\ b \in Seq(E) /\ e \in E
    BY <1>2, <2>1
  <2>3. Longer(a \o b, w.filter, 0, e) = a \o Longer(b, w.filter, 0, e)
    BY <2>2, ConcatLonger
  <2>4. QED
    BY <1>1, <2>3
<1>7. j < w.since => all[j + 1] = s[j + 1]
  BY <1>1, <1>3
<1>8. Complete(w, s, j) => Complete(w, all, j)
  BY <1>7 DEF Complete
<1>9. CASE got = a \o b /\ Complete(w, s, j)
  BY <1>1, <1>4, <1>5, <1>6, <1>8, <1>9 DEF ToldFrom
<1>10. CASE /\ got = << Compacted(s[j + 1].revision) >> \o (a \o b)
            /\ w.start # 0 /\ j < w.since /\ s[j + 1].revision > w.start
  <2>1. s[j + 1] \in StoreEvent
    BY <1>3, <1>10
  <2>2. PICK n : n = << Compacted(s[j + 1].revision) >>
    OBVIOUS
  <2>3. n \in Seq(Event) /\ a \o b \in Seq(Event) /\ e \in Event
    <3>1. Compacted(s[j + 1].revision) \in Event
      BY <2>1, NoticeIsEvent DEF StoreEvent
    <3>2. a \o b \in Seq(StoreEvent)
      BY <1>2
    <3>3. QED
      BY <2>2, <3>1, <3>2 DEF StoreEvent
  <2>4. Longer(n \o (a \o b), w.filter, 0, e)
          = n \o Longer(a \o b, w.filter, 0, e)
    <3>1. PICK E, ab : E = Event /\ ab = a \o b
      OBVIOUS
    <3>2. n \in Seq(E) /\ ab \in Seq(E) /\ e \in E
      BY <2>3, <3>1
    <3>3. Longer(n \o ab, w.filter, 0, e) = n \o Longer(ab, w.filter, 0, e)
      BY <3>2, ConcatLonger
    <3>4. QED
      BY <3>1, <3>3
  <2>5. Longer(got, w.filter, 0, e)
          = << Compacted(all[j + 1].revision) >> \o (a \o c)
    BY <1>6, <1>7, <1>10, <2>2, <2>4
  <2>6. QED
    BY <1>1, <1>4, <1>5, <1>7, <1>10, <2>5 DEF ToldFrom
<1>11. QED
  BY <1>1, <1>9, <1>10 DEF ToldFrom

\* The history: the last events handed over, none only if there was none or
\* it may hold none.
Remembers(h, s) ==
  /\ h \in Seq(StoreEvent)
  /\ Len(h) <= Len(s)
  /\ Len(h) <= MaxHistory
  /\ h = SubSeq(s, Len(s) - Len(h) + 1, Len(s))
  /\ MaxHistory # 0 /\ s # << >> => h # << >>

\* An event is remembered, in the place of the oldest if need be.
LEMMA RemembersLonger ==
  ASSUME NEW s \in Seq(StoreEvent), NEW e \in StoreEvent, NEW h, Remembers(h, s)
  PROVE  Remembers(Remembered(h, e), Append(s, e))
<1>1. PICK E : E = StoreEvent
  OBVIOUS
<1>2. PICK all, longer, new : /\ all = Append(s, e) /\ longer = Append(h, e)
                              /\ new = Remembered(h, e)
  OBVIOUS
<1>3. /\ h \in Seq(E) /\ s \in Seq(E) /\ e \in E
      /\ Len(h) <= Len(s) /\ Len(h) <= MaxHistory
      /\ h = SubSeq(s, Len(s) - Len(h) + 1, Len(s))
  BY <1>1 DEF Remembers
<1>4. /\ all \in Seq(E) /\ Len(all) = Len(s) + 1 /\ all # << >>
      /\ longer \in Seq(E) /\ Len(longer) = Len(h) + 1 /\ longer # << >>
      /\ Len(s) \in Nat /\ Len(h) \in Nat
  BY <1>2, <1>3
<1>5. longer = SubSeq(all, Len(s) - Len(h) + 1, Len(all))
  <2>1. Len(s) - Len(h) + 1 \in 1 .. Len(s) + 1 /\ 0 \in 0 .. Len(s)
    BY <1>3, <1>4
  <2>2. QED
    BY <1>2, <1>3, <2>1, PartsOfLonger, ZenonT(60)
<1>6. CASE Len(longer) <= MaxHistory
  <2>1. new = longer
    BY <1>2, <1>4, <1>6, BoundsAssumption DEF Remembered
  <2>2. Len(all) - Len(longer) + 1 = Len(s) - Len(h) + 1
    BY <1>4
  <2>3. longer = SubSeq(all, Len(all) - Len(longer) + 1, Len(all))
    BY <1>5, <2>2
  <2>4. Len(longer) <= Len(all)
    BY <1>3, <1>4
  <2>5. Remembers(longer, all)
    BY <1>1, <1>4, <1>6, <2>3, <2>4 DEF Remembers
  <2>6. QED
    BY <1>2, <2>1, <2>5
<1>7. CASE Len(longer) > MaxHistory
  <2>1. new = Tail(longer)
    BY <1>2, <1>7 DEF Remembered
  <2>2. new \in Seq(E) /\ Len(new) = Len(h) /\ Len(h) = MaxHistory
    <3>1. new \in Seq(E) /\ Len(new) = Len(longer) - 1
      BY <1>4, <2>1
    <3>2. Len(h) = MaxHistory
      <4>1. Len(h) <= MaxHistory
        BY <1>3
      <4>2. QED
        BY <1>4, <1>7, <4>1, BoundsAssumption
    <3>3. QED
      BY <1>4, <3>1, <3>2
  <2>3. new = SubSeq(all, Len(all) - Len(new) + 1, Len(all))
    <3>1. PICK m, b : /\ m = Len(s) - Len(h) + 1
                      /\ b = SubSeq(all, m + 1, Len(all))
      OBVIOUS
    <3>2. m \in 1 .. Len(all) /\ Len(all) - Len(new) + 1 = m + 1
      <4>1. Len(h) <= Len(s)
        BY <1>3
      <4>2. m \in 1 .. Len(all)
        BY <1>4, <3>1, <4>1
      <4>3. Len(all) - Len(new) + 1 = m + 1
        BY <1>4, <2>2, <3>1
      <4>4. QED
        BY <4>2, <4>3
    <3>3. /\ b \in Seq(E) /\ Len(b) = Len(h)
          /\ \A i \in 1 .. Len(h) : b[i] = all[i + m]
      BY <1>4, <3>1, <3>2
    <3>4. \A i \in 1 .. Len(h) : new[i] = longer[i + 1]
      BY <1>4, <2>1, <2>2
    <3>5. \A i \in 1 .. Len(h) + 1 : longer[i] = all[i + m - 1]
      BY <1>4, <1>5, <3>1, <3>2
    <3>6. ASSUME NEW i \in 1 .. Len(h)
          PROVE  new[i] = b[i]
      <4>1. i + 1 \in 1 .. Len(h) + 1 /\ (i + 1) + m - 1 = i + m
        BY <1>4, <3>2
      <4>2. QED
        BY <3>3, <3>4, <3>5, <4>1
    <3>7. new = b
      BY <2>2, <3>3, <3>6, SeqEqual
    <3>8. QED
      BY <3>1, <3>2, <3>7
  <2>4. MaxHistory # 0 => new # << >>
    BY <2>2
  <2>5. Len(new) <= Len(all) /\ Len(new) <= MaxHistory
    <3>1. Len(h) <= Len(s)
      BY <1>3
    <3>2. QED
      BY <1>4, <2>2, <3>1, BoundsAssumption
  <2>6. Remembers(new, all)
    BY <1>1, <2>2, <2>3, <2>4, <2>5 DEF Remembers
  <2>7. QED
    BY <1>2, <2>6
<1>8. Len(longer) <= MaxHistory \/ Len(longer) > MaxHistory
  BY <1>4, BoundsAssumption
<1>9. QED
  BY <1>6, <1>7, <1>8

\* A new watcher is told of what the history holds.
LEMMA ToldAtStart ==
  ASSUME notified \in Seq(StoreEvent), Remembers(eventHistory, notified),
         NEW filter, NEW start \in 0 .. MaxRevision, NEW w,
         w = [filter |-> filter, start |-> start,
              queue |-> CatchUp(filter, start), since |-> Len(notified)]
  PROVE  Told(w.queue, w, notified)
<1>1. PICK s, h, got, E : /\ s = notified /\ h = eventHistory
                          /\ got = CatchUp(filter, start) /\ E = StoreEvent
  OBVIOUS
<1>2. /\ w.filter = filter /\ w.start = start /\ w.queue = got
      /\ w.since = Len(s)
  BY <1>1
<1>3. /\ s \in Seq(E) /\ h \in Seq(E) /\ Len(s) \in Nat /\ Len(h) \in Nat
      /\ Len(h) <= Len(s) /\ h = SubSeq(s, Len(s) - Len(h) + 1, Len(s))
      /\ MaxHistory # 0 /\ s # << >> => h # << >>
  BY <1>1 DEF Remembers
<1>4. After(w, s) = << >>
  <2>1. SubSeq(s, Len(s) + 1, Len(s)) = << >>
    BY <1>3, NoPart
  <2>2. QED
    BY <1>2, <2>1, SelectedEmpty DEF After
<1>5. ASSUME NEW j \in 0 .. Len(s)
      PROVE  /\ Caught(w, s, j) \in Seq(E)
             /\ Caught(w, s, j) \o After(w, s) = Caught(w, s, j)
  <2>1. SubSeq(s, j + 1, Len(s)) \in Seq(E)
    BY <1>3, <1>5, PartType
  <2>2. Caught(w, s, j) \in Seq(E)
    BY <1>2, <2>1, SelectedList DEF Caught
  <2>3. QED
    BY <1>4, <2>2
<1>6. CASE start = 0 \/ h = << >>
  <2>1. got = << >>
    BY <1>1, <1>6 DEF CatchUp
  <2>2. Caught(w, s, Len(s)) = << >>
    <3>1. SubSeq(s, Len(s) + 1, Len(s)) = << >>
      BY <1>3, NoPart
    <3>2. QED
      BY <1>2, <3>1, SelectedEmpty DEF Caught
  <2>3. Complete(w, s, Len(s))
    BY <1>2, <1>3, <1>6 DEF Complete
  <2>4. Len(s) \in 0 .. w.since /\ Len(s) \in 0 .. Len(s)
    BY <1>2, <1>3
  <2>5. ToldFrom(got, w, s, Len(s))
    BY <1>5, <2>1, <2>2, <2>3, <2>4 DEF ToldFrom
  <2>6. IsWatcher(w, s)
    BY <1>2, <1>3, <2>1 DEF IsWatcher
  <2>7. QED
    BY <1>1, <1>2, <2>4, <2>5, <2>6 DEF Told
<1>7. CASE start # 0 /\ h # << >>
  <2>1. PICK j : j = Len(s) - Len(h)
    OBVIOUS
  <2>2. /\ j \in 0 .. Len(s) - 1 /\ j \in 0 .. Len(s) /\ j < Len(s)
        /\ h = SubSeq(s, j + 1, Len(s)) /\ h[1] = s[j + 1]
    <3>1. Len(h) # 0
      BY <1>3, <1>7
    <3>2. j \in 0 .. Len(s) - 1 /\ j \in 0 .. Len(s) /\ j < Len(s)
      BY <1>3, <2>1, <3>1
    <3>3. h = SubSeq(s, j + 1, Len(s))
      BY <1>3, <2>1
    <3>4. h[1] = s[j + 1]
      BY <1>3, <3>2, <3>3
    <3>5. QED
      BY <3>2, <3>3, <3>4
  <2>3. s[j + 1] \in StoreEvent /\ s[j + 1] \in Event
        /\ s[j + 1].revision \in Int
    <3>1. s[j + 1] \in StoreEvent
      BY <1>1, <1>3, <2>2
    <3>2. QED
      BY <3>1 DEF StoreEvent, Event
  <2>4. PICK c, n : /\ c = Caught(w, s, j)
                    /\ n = << Compacted(s[j + 1].revision) >>
    OBVIOUS
  <2>5. Selected(h, filter, start) = c
    BY <1>2, <2>2, <2>4 DEF Caught
  <2>6. c \in Seq(Event) /\ n \in Seq(Event) /\ c \o After(w, s) = c
    <3>1. c \in Seq(E) /\ c \o After(w, s) = c
      BY <1>5, <2>2, <2>4
    <3>2. Compacted(s[j + 1].revision) \in Event
      BY <2>3, NoticeIsEvent
    <3>3. QED
      BY <1>1, <2>4, <3>1, <3>2 DEF StoreEvent
  <2>7. j \in 0 .. w.since
    BY <1>2, <2>2
  <2>8. CASE Evicted(h, start)
    <3>1. got = n \o c
      BY <1>1, <1>7, <2>2, <2>4, <2>5, <2>8 DEF CatchUp
    <3>2. s[j + 1].revision > start
      BY <2>2, <2>3, <2>8 DEF Evicted
    <3>3. ToldFrom(got, w, s, j)
      BY <1>2, <1>7, <2>2, <2>4, <2>6, <3>1, <3>2 DEF ToldFrom
    <3>4. got \in Seq(Event)
      BY <2>6, <3>1
    <3>5. IsWatcher(w, s)
      BY <1>2, <1>3, <3>4 DEF IsWatcher
    <3>6. QED
      BY <1>1, <1>2, <2>7, <3>3, <3>5 DEF Told
  <2>9. CASE ~Evicted(h, start)
    <3>1. got = c
      <4>1. got = << >> \o c
        BY <1>1, <1>7, <2>5, <2>9 DEF CatchUp
      <4>2. QED
        BY <2>6, <4>1
    <3>2. s[j + 1].revision <= start
      BY <2>2, <2>3, <2>9 DEF Evicted
    <3>3. Complete(w, s, j)
      BY <1>2, <1>7, <2>2, <3>2 DEF Complete
    <3>4. ToldFrom(got, w, s, j)
      BY <2>4, <2>6, <3>1, <3>3 DEF ToldFrom
    <3>5. IsWatcher(w, s)
      BY <1>2, <1>3, <2>6, <3>1 DEF IsWatcher
    <3>6. QED
      BY <1>1, <1>2, <2>7, <3>4, <3>5 DEF Told
  <2>10. QED
    BY <2>8, <2>9
<1>8. QED
  BY <1>6, <1>7

-----------------------------------------------------------------------------
(* What follows for a watcher that has been told.                           *)

\* The events of a list are selected when every key is asked for.
LEMMA EveryKey ==
  ASSUME NEW s \in Seq(StoreEvent)
  PROVE  Selected(s, Key, 0) = s
<1>1. PICK E : E = StoreEvent
  OBVIOUS
<1>2. \A e \in E : Selects(Key, 0, e)
  BY <1>1 DEF StoreEvent, Event, Selects
<1>3. QED
  BY <1>1, <1>2, SelectedAll

\* A notice is not, as it has no key.
LEMMA NoticeHasNoKey ==
  ASSUME NEW rev
  PROVE  Selected(<< Compacted(rev) >>, Key, 0) = << >>
<1>1. PICK E : E = {Compacted(rev)}
  OBVIOUS
<1>2. \A e \in E : ~Selects(Key, 0, e)
  BY <1>1, KeyAssumption DEF Compacted, Selects
<1>3. << Compacted(rev) >> \in Seq(E)
  BY <1>1
<1>4. QED
  BY <1>2, <1>3, SelectedNone

\* The events it got are those that ToldFrom speaks of.
LEMMA ToldEvents ==
  ASSUME NEW s \in Seq(StoreEvent), NEW w, IsWatcher(w, s),
         NEW j \in 0 .. w.since, NEW got, ToldFrom(got, w, s, j)
  PROVE  Selected(got, Key, 0) = Caught(w, s, j) \o After(w, s)
<1>1. PICK both : both = Caught(w, s, j) \o After(w, s)
  OBVIOUS
<1>2. both \in Seq(StoreEvent)
  BY <1>1, ToldLists
<1>3. Selected(both, Key, 0) = both
  BY <1>2, EveryKey
<1>4. CASE got = both
  BY <1>1, <1>3, <1>4
<1>5. CASE got = << Compacted(s[j + 1].revision) >> \o both /\ j < w.since
  <2>1. s[j + 1] \in Event
    <3>1. w.since \in 0 .. Len(s) /\ Len(s) \in Nat
      BY DEF IsWatcher
    <3>2. j + 1 \in 1 .. Len(s)
      BY <1>5, <3>1
    <3>3. QED
      BY <3>2 DEF StoreEvent
  <2>2. PICK E, n : E = Event /\ n = << Compacted(s[j + 1].revision) >>
    OBVIOUS
  <2>3. n \in Seq(E)
    BY <2>1, <2>2, NoticeIsEvent
  <2>4. both \in Seq(E)
    BY <1>2, <2>2 DEF StoreEvent
  <2>5. Selected(n \o both, Key, 0)
          = Selected(n, Key, 0) \o Selected(both, Key, 0)
    BY <2>3, <2>4, SelectedConcat
  <2>6. Selected(n, Key, 0) = << >>
    BY <2>2, NoticeHasNoKey
  <2>7. << >> \o both = both
    BY <1>2
  <2>8. QED
    BY <1>1, <1>3, <1>5, <2>2, <2>5, <2>6, <2>7
<1>6. QED
  BY <1>1, <1>4, <1>5 DEF ToldFrom

\* What it asked for and was handed over before it subscribed.
Due(w, s) ==
  IF w.start = 0 THEN << >>
  ELSE Selected(SubSeq(s, 1, w.since), w.filter, w.start)

\* Of that the part before the j-th event is missing.
Missed(w, s, j) == Selected(SubSeq(s, 1, j), w.filter, w.start)

\* What was due is what is missing and what it got, if it asked for anything.
LEMMA DueInParts ==
  ASSUME NEW s \in Seq(StoreEvent), NEW w, IsWatcher(w, s), w.start # 0,
         NEW j \in 0 .. w.since
  PROVE  /\ Missed(w, s, j) \in Seq(StoreEvent)
         /\ SubSeq(s, 1, j) \in Seq(StoreEvent)
         /\ Due(w, s) = Missed(w, s, j) \o Caught(w, s, j)
<1>1. PICK E : E = StoreEvent
  OBVIOUS
<1>2. w.since \in 0 .. Len(s) /\ Len(s) \in Nat /\ s \in Seq(E)
  BY <1>1 DEF IsWatcher
<1>3. j \in 0 .. Len(s) /\ w.since \in j .. Len(s) /\ 1 \in 1 .. j + 1
  BY <1>2
<1>4. PICK a, b : a = SubSeq(s, 1, j) /\ b = SubSeq(s, j + 1, w.since)
  OBVIOUS
<1>5. a \in Seq(E) /\ b \in Seq(E)
  BY <1>2, <1>3, <1>4, PartType
<1>6. SubSeq(s, 1, w.since) = a \o b
  BY <1>2, <1>3, <1>4, PartsJoin
<1>7. Selected(a \o b, w.filter, w.start)
        = Selected(a, w.filter, w.start) \o Selected(b, w.filter, w.start)
  BY <1>5, SelectedConcat
<1>8. Due(w, s) = Missed(w, s, j) \o Caught(w, s, j)
  BY <1>4, <1>6, <1>7 DEF Due, Missed, Caught
<1>9. Missed(w, s, j) \in Seq(E)
  BY <1>4, <1>5, SelectedList DEF Missed
<1>10. QED
  BY <1>1, <1>4, <1>5, <1>8, <1>9

\* It got all that follows its subscription, and before that an unbroken part.
LEMMA ToldKeepsUp ==
  ASSUME NEW s \in Seq(StoreEvent), NEW w, NEW got, Told(got, w, s)
  PROVE  /\ IsSuffix(After(w, s), Selected(got, Key, 0))
         /\ IsSuffix(Selected(got, Key, 0), Due(w, s) \o After(w, s))
<1>1. PICK j \in 0 .. w.since : ToldFrom(got, w, s, j)
  BY DEF Told
<1>2. IsWatcher(w, s)
  BY DEF Told
<1>3. PICK E, a, b : E = StoreEvent /\ a = Caught(w, s, j) /\ b = After(w, s)
  OBVIOUS
<1>4. Selected(got, Key, 0) = a \o b
  BY <1>1, <1>2, <1>3, ToldEvents
<1>5. a \in Seq(E) /\ b \in Seq(E) /\ a \o b \in Seq(E)
  BY <1>1, <1>2, <1>3, ToldLists
<1>6. IsSuffix(b, a \o b)
  BY <1>5, SuffixOfJoined
<1>7. IsSuffix(a \o b, Due(w, s) \o b)
  <2>1. CASE w.start # 0
    <3>1. PICK m : m = Missed(w, s, j)
      OBVIOUS
    <3>2. Due(w, s) = m \o a /\ m \in Seq(E)
      BY <1>1, <1>2, <1>3, <2>1, <3>1, DueInParts
    <3>3. (m \o a) \o b = m \o (a \o b)
      BY <1>5, <3>2, SMTT(60)
    <3>4. IsSuffix(a \o b, m \o (a \o b))
      BY <1>5, <3>2, SuffixOfJoined
    <3>5. QED
      BY <3>2, <3>3, <3>4
  <2>2. CASE w.start = 0
    <3>1. j = w.since
      BY <1>1, <2>2 DEF ToldFrom, Complete
    <3>2. w.since \in 0 .. Len(s)
      BY <1>2 DEF IsWatcher
    <3>3. SubSeq(s, j + 1, w.since) = << >>
      BY <3>1, <3>2, NoPart
    <3>4. a = << >>
      BY <1>3, <3>3, SelectedEmpty DEF Caught
    <3>5. Due(w, s) = << >>
      BY <2>2 DEF Due
    <3>6. << >> \in Seq(E) /\ a \o b \in Seq(E) /\ << >> \o b = a \o b
      BY <1>5, <3>4
    <3>7. << >> \o (a \o b) = a \o b
      BY <1>5
    <3>8. IsSuffix(a \o b, << >> \o (a \o b))
      BY <3>6, SuffixOfJoined
    <3>9. QED
      BY <3>5, <3>6, <3>7, <3>8
  <2>3. QED
    BY <2>1, <2>2
<1>8. QED
  BY <1>3, <1>4, <1>6, <1>7

\* Later events do not have lower revisions.
Ordered(s) ==
  \A m, n \in 1 .. Len(s) : m <= n => s[m].revision <= s[n].revision

\* A part of an ordered list holds no revision lower than its first.
LEMMA PartFrom ==
  ASSUME NEW s \in Seq(StoreEvent), Ordered(s), NEW j \in 0 .. Len(s) - 1,
         NEW i \in j + 1 .. Len(s) + 1, NEW k \in i - 1 .. Len(s)
  PROVE  SubSeq(s, i, k)
           \in Seq({e \in StoreEvent : e.revision >= s[j + 1].revision})
<1>1. PICK E, a, M : /\ E = StoreEvent /\ a = SubSeq(s, i, k)
                     /\ M = {e \in StoreEvent : e.revision >= s[j + 1].revision}
  OBVIOUS
<1>2. Len(s) \in Nat /\ s \in Seq(E)
  BY <1>1
<1>3. a \in Seq(E) /\ Len(a) = k - i + 1 /\ Len(a) \in Nat
      /\ \A n \in 1 .. Len(a) : a[n] = s[n + i - 1]
  BY <1>1, <1>2
<1>4. ASSUME NEW n \in 1 .. Len(a)
      PROVE  a[n] \in M
  <2>1. n + i - 1 \in 1 .. Len(s) /\ j + 1 \in 1 .. Len(s) /\ j + 1 <= n + i - 1
    BY <1>2, <1>3
  <2>2. s[j + 1] \in E /\ s[n + i - 1] \in E
    BY <1>2, <2>1
  <2>3. s[j + 1].revision \in Int /\ s[n + i - 1].revision \in Int
    BY <1>1, <2>2, SMTT(60) DEF StoreEvent, Event
  <2>4. s[j + 1].revision <= s[n + i - 1].revision
    BY <2>1 DEF Ordered
  <2>5. s[n + i - 1].revision >= s[j + 1].revision
    BY <2>3, <2>4
  <2>6. QED
    BY <1>1, <1>3, <2>2, <2>5
<1>5. a \in Seq(M)
  BY <1>3, <1>4
<1>6. QED
  BY <1>1, <1>5

\* A notice comes first, and names the revision that the events start from.
LEMMA ToldNotice ==
  ASSUME NEW s \in Seq(StoreEvent), Ordered(s), NEW w, NEW got,
         Told(got, w, s), NEW i \in DOMAIN got, IsNotice(got[i])
  PROVE  /\ i = 1
         /\ got[1].revision > w.start
         /\ \A e \in ToSet(Selected(got, Key, 0)) :
              e.revision >= got[1].revision
<1>1. PICK j \in 0 .. w.since : ToldFrom(got, w, s, j)
  BY DEF Told
<1>2. IsWatcher(w, s)
  BY DEF Told
<1>3. PICK E, a, b, both : /\ E = StoreEvent /\ a = Caught(w, s, j)
                           /\ b = After(w, s) /\ both = a \o b
  OBVIOUS
<1>4. Selected(got, Key, 0) = both
  BY <1>1, <1>2, <1>3, ToldEvents
<1>5. both \in Seq(E) /\ Len(both) \in Nat
  BY <1>1, <1>2, <1>3, ToldLists
<1>6. \A n \in 1 .. Len(both) : ~IsNotice(both[n])
  BY <1>3, <1>5 DEF StoreEvent, IsNotice
<1>7. CASE got = both
  BY <1>5, <1>6, <1>7
<1>8. CASE /\ got = << Compacted(s[j + 1].revision) >> \o both
           /\ j < w.since /\ s[j + 1].revision > w.start
  <2>1. PICK c : c = Compacted(s[j + 1].revision)
    OBVIOUS
  <2>2. /\ DOMAIN got = 1 .. Len(both) + 1 /\ got[1] = c
        /\ \A n \in 2 .. Len(both) + 1 : got[n] = both[n - 1]
    BY <1>5, <1>8, <2>1
  <2>3. i = 1
    <3>1. ASSUME i # 1
          PROVE  FALSE
      <4>1. i \in 2 .. Len(both) + 1 /\ i - 1 \in 1 .. Len(both)
        BY <1>5, <2>2, <3>1
      <4>2. QED
        BY <1>6, <2>2, <4>1
    <3>2. QED
      BY <3>1
  <2>4. c.revision = s[j + 1].revision
    BY <2>1 DEF Compacted
  <2>5. PICK M : M = {e \in StoreEvent : e.revision >= s[j + 1].revision}
    OBVIOUS
  <2>6. w.since \in 0 .. Len(s) /\ Len(s) \in Nat
    BY <1>2 DEF IsWatcher
  <2>7. /\ j \in 0 .. Len(s) - 1 /\ j + 1 \in j + 1 .. Len(s) + 1
        /\ w.since \in (j + 1) - 1 .. Len(s)
        /\ w.since + 1 \in j + 1 .. Len(s) + 1
        /\ Len(s) \in (w.since + 1) - 1 .. Len(s)
    BY <1>8, <2>6
  <2>8. SubSeq(s, j + 1, w.since) \in Seq(M)
    BY <2>5, <2>7, PartFrom
  <2>9. SubSeq(s, w.since + 1, Len(s)) \in Seq(M)
    BY <2>5, <2>7, PartFrom
  <2>10. a \in Seq(M) /\ b \in Seq(M)
    BY <1>3, <2>8, <2>9, SelectedList DEF Caught, After
  <2>11. both \in Seq(M)
    BY <1>3, <2>10
  <2>12. \A e \in ToSet(both) : e \in M
    BY <2>11 DEF ToSet
  <2>13. QED
    BY <1>4, <1>8, <2>2, <2>3, <2>4, <2>5, <2>12
<1>9. QED
  BY <1>1, <1>3, <1>7, <1>8 DEF ToldFrom

\* A finite set with two elements has more than one.
LEMMA MoreThanOne ==
  ASSUME NEW T, IsFiniteSet(T), NEW x \in T, NEW y \in T, x # y
  PROVE  Cardinality(T) > 1
<1>1. PICK S, P : S = {x} /\ P = S \cup {y}
  OBVIOUS
<1>2. IsFiniteSet(S) /\ Cardinality(S) = 1
  BY <1>1, FS_Singleton
<1>3. IsFiniteSet(P) /\ Cardinality(P) = 2
  BY <1>1, <1>2, FS_AddElement
<1>4. P \in SUBSET T
  BY <1>1
<1>5. Cardinality(P) <= Cardinality(T) /\ Cardinality(T) \in Nat
  BY <1>4, FS_Subset, FS_CardinalityType
<1>6. QED
  BY <1>3, <1>5

\* Without a notice all is there, or what is missing is of the start revision
\* and the history kept another event of it.
LEMMA ToldGaps ==
  ASSUME MaxHistory # 0, NEW s \in Seq(StoreEvent), Ordered(s), NEW w, NEW got,
         Told(got, w, s), \A e \in ToSet(got) : ~IsNotice(e)
  PROVE  LET events == Selected(got, Key, 0)
             due    == Due(w, s) \o After(w, s)
         IN  \/ events = due
             \/ /\ Cardinality({i \in DOMAIN s : s[i].revision = w.start}) > 1
                /\ Selected(events, Key, w.start + 1)
                     = Selected(due, Key, w.start + 1)
<1>1. PICK j \in 0 .. w.since : ToldFrom(got, w, s, j)
  BY DEF Told
<1>2. IsWatcher(w, s)
  BY DEF Told
<1>3. PICK E, a, b, both, m : /\ E = StoreEvent /\ a = Caught(w, s, j)
                              /\ b = After(w, s) /\ both = a \o b
                              /\ m = Missed(w, s, j)
  OBVIOUS
<1>4. Selected(got, Key, 0) = both
  BY <1>1, <1>2, <1>3, ToldEvents
<1>5. /\ both \in Seq(E) /\ a \in Seq(E) /\ b \in Seq(E)
      /\ s \in Seq(E) /\ Len(s) \in Nat /\ DOMAIN s = 1 .. Len(s)
      /\ w.since \in 0 .. Len(s) /\ w.start \in Nat
  <2>1. both \in Seq(E) /\ a \in Seq(E) /\ b \in Seq(E)
    BY <1>1, <1>2, <1>3, ToldLists
  <2>2. s \in Seq(E) /\ Len(s) \in Nat /\ DOMAIN s = 1 .. Len(s)
    BY <1>3
  <2>3. w.since \in 0 .. Len(s) /\ w.start \in Nat
    BY <1>2, BoundsAssumption DEF IsWatcher
  <2>4. QED
    BY <2>1, <2>2, <2>3
<1>6. Complete(w, s, j)
  <2>1. got # << Compacted(s[j + 1].revision) >> \o both
    <3>1. ASSUME got = << Compacted(s[j + 1].revision) >> \o both
          PROVE  FALSE
      <4>1. PICK c : c = Compacted(s[j + 1].revision)
        OBVIOUS
      <4>2. 1 \in DOMAIN got /\ got[1] = c
        BY <1>5, <3>1, <4>1
      <4>3. c \in ToSet(got)
        BY <4>2 DEF ToSet
      <4>4. QED
        BY <4>1, <4>3 DEF Compacted, IsNotice
    <3>2. QED
      BY <3>1
  <2>2. QED
    BY <1>1, <1>3, <2>1 DEF ToldFrom
<1>7. CASE w.start = 0
  <2>1. j = w.since
    BY <1>6, <1>7 DEF Complete
  <2>2. SubSeq(s, j + 1, w.since) = << >>
    BY <1>5, <2>1, NoPart
  <2>3. a = << >> /\ Due(w, s) = << >>
    BY <1>3, <1>7, <2>2, SelectedEmpty DEF Caught, Due
  <2>4. QED
    BY <1>3, <1>4, <2>3
<1>8. CASE w.start # 0
  <2>1. m \in Seq(E) /\ Due(w, s) = m \o a /\ SubSeq(s, 1, j) \in Seq(E)
    BY <1>1, <1>2, <1>3, <1>8, DueInParts
  <2>2. (m \o a) \o b = m \o both
    BY <1>3, <1>5, <2>1, SMTT(60)
  <2>3. CASE m = << >>
    <3>1. m \o both = both
      BY <1>5, <2>3
    <3>2. QED
      BY <1>3, <1>4, <2>1, <2>2, <3>1
  <2>4. CASE m # << >>
    <3>1. j # 0
      <4>1. ASSUME j = 0
            PROVE  FALSE
        <5>1. 0 \in 0 .. Len(s) /\ 0 + 1 = 1
          BY <1>5
        <5>2. SubSeq(s, 1, 0) = << >>
          BY <1>5, SubSeqEmpty
        <5>3. m = << >>
          BY <1>3, <4>1, <5>2, SelectedEmpty DEF Missed
        <5>4. QED
          BY <2>4, <5>3
      <4>2. QED
        BY <4>1
    <3>2. j < w.since /\ s[j + 1].revision <= w.start
      BY <1>6, <1>8, <3>1 DEF Complete
    <3>3. PICK D, M : /\ D = {s[n] : n \in 1 .. j}
                      /\ M = {e \in D : Selects(w.filter, w.start, e)}
      OBVIOUS
    <3>4. m \in Seq(M)
      <4>1. SubSeq(s, 1, j) \in Seq(D)
        <5>1. PICK p : p = SubSeq(s, 1, j)
          OBVIOUS
        <5>2. p \in Seq(E) /\ Len(p) = j /\ \A n \in 1 .. j : p[n] = s[n]
          BY <1>5, <3>2, <5>1
        <5>3. \A n \in 1 .. Len(p) : p[n] \in D
          BY <3>3, <5>2
        <5>4. p \in Seq(D)
          BY <5>2, <5>3
        <5>5. QED
          BY <5>1, <5>4
      <4>2. PICK p, f, n : p = SubSeq(s, 1, j) /\ f = w.filter /\ n = w.start
        OBVIOUS
      <4>3. Selected(p, f, n) \in Seq({e \in D : Selects(f, n, e)})
        BY <4>1, <4>2, SelectedMatch, ZenonT(60)
      <4>4. QED
        BY <1>3, <3>3, <4>2, <4>3, Zenon DEF Missed
    <3>5. ASSUME NEW e \in M
          PROVE  \E n \in 1 .. j : /\ s[n] = e /\ e.revision = w.start
                                  /\ s[j + 1].revision = w.start
      <4>1. PICK n \in 1 .. j : e = s[n]
        BY <3>3, <3>5
      <4>2. s[n].revision >= w.start
        BY <3>3, <3>5, <4>1 DEF Selects
      <4>3. n \in 1 .. Len(s) /\ j + 1 \in 1 .. Len(s) /\ n <= j + 1
        BY <1>5, <3>2, <4>1
      <4>4. s[n].revision <= s[j + 1].revision
        BY <4>3 DEF Ordered
      <4>5. s[n].revision \in Int /\ s[j + 1].revision \in Int
        <5>1. s[n] \in E /\ s[j + 1] \in E
          BY <1>5, <4>3
        <5>2. QED
          BY <1>3, <5>1 DEF StoreEvent, Event
      <4>6. s[n].revision = w.start /\ s[j + 1].revision = w.start
        BY <1>5, <3>2, <4>2, <4>4, <4>5, SMTT(60)
      <4>7. QED
        BY <4>1, <4>6
    <3>6. PICK T : T = {i \in DOMAIN s : s[i].revision = w.start}
      OBVIOUS
    <3>7. Cardinality(T) > 1
      <4>1. m[1] \in M
        BY <2>4, <3>4
      <4>2. PICK n \in 1 .. j : /\ s[n].revision = w.start
                                /\ s[j + 1].revision = w.start
        BY <3>5, <4>1
      <4>3. n \in 1 .. Len(s) /\ j + 1 \in 1 .. Len(s) /\ n # j + 1
        BY <1>5, <3>2, <4>2
      <4>4. n \in T /\ j + 1 \in T
        BY <1>5, <3>6, <4>2, <4>3
      <4>5. IsFiniteSet(T)
        <5>1. T \in SUBSET (1 .. Len(s))
          BY <1>5, <3>6
        <5>2. IsFiniteSet(1 .. Len(s))
          BY <1>5, FS_Interval
        <5>3. QED
          BY <5>1, <5>2, FS_Subset
      <4>6. QED
        <5>1. PICK x, y : x = n /\ y = j + 1
          OBVIOUS
        <5>2. x \in T /\ y \in T /\ x # y
          BY <4>3, <4>4, <5>1
        <5>3. QED
          BY <4>5, <5>2, MoreThanOne
    <3>8. Selected(m, Key, w.start + 1) = << >>
      <4>1. \A e \in M : ~Selects(Key, w.start + 1, e)
        BY <1>5, <3>5 DEF Selects
      <4>2. QED
        BY <3>4, <4>1, SelectedNone
    <3>9. Selected(m \o both, Key, w.start + 1)
            = Selected(m, Key, w.start + 1) \o Selected(both, Key, w.start + 1)
      <4>1. PICK n : n = w.start + 1
        OBVIOUS
      <4>2. Selected(m \o both, Key, n)
              = Selected(m, Key, n) \o Selected(both, Key, n)
        <5>1. m \in Seq(E) /\ both \in Seq(E)
          BY <1>5, <2>1
        <5>2. QED
          BY <5>1, SelectedConcat
      <4>3. QED
        BY <4>1, <4>2
    <3>10. << >> \o Selected(both, Key, w.start + 1)
             = Selected(both, Key, w.start + 1)
      <4>1. Selected(both, Key, w.start + 1) \in Seq(E)
        BY <1>5, SelectedList
      <4>2. QED
        BY <4>1
    <3>11. QED
      BY <1>3, <1>4, <2>1, <2>2, <3>6, <3>7, <3>8, <3>9, <3>10
  <2>5. QED
    BY <2>3, <2>4
<1>9. QED
  BY <1>7, <1>8

-----------------------------------------------------------------------------
(* The inductive invariant.                                                 *)

\* The store: all events together tell how its data came to be, those still
\* to be handed over are of its revision, and no earlier one is of a later.
StoreInv ==
  /\ IsData(data)
  /\ revision \in 0 .. MaxRevision
  /\ notified \in Seq(StoreEvent)
  /\ pending \in Seq(Raised(revision))
  /\ Ordered(notified)
  /\ \A i \in 1 .. Len(notified) : notified[i].revision <= revision
  /\ Story(notified \o pending, << >>, Bare(data))

\* The watchers: each has been told of the events handed over.
WatchInv ==
  /\ Remembers(eventHistory, notified)
  /\ nextWatchId \in Nat
  /\ DOMAIN polled = 0 .. nextWatchId - 1
  /\ DOMAIN watchers \subseteq DOMAIN polled
  /\ \A id \in DOMAIN watchers :
       polled[id] \in Seq(Event) /\ Told(Got(id), watchers[id], notified)

\* Of no data nothing is told.
LEMMA EmptyData == IsData(<< >>) /\ Bare(<< >>) = << >>
<1>1. ASSUME NEW s \in Seq({}), Len(s) = 0
      PROVE  IsData(s) /\ Bare(s) = s
  <2>1. DOMAIN s = {} /\ s = [i \in 1 .. 0 |-> s[i]]
    BY <1>1
  <2>2. \A i \in DOMAIN s : [s[i] EXCEPT !.lease = NoLease] = s[i]
    BY <2>1
  <2>3. s = [i \in DOMAIN s |-> s[i]]
    OBVIOUS
  <2>4. Bare(s) = s
    BY <2>2, <2>3, Zenon DEF Bare
  <2>5. IsData(s)
    BY <2>1, <2>3 DEF IsData
  <2>6. QED
    BY <2>4, <2>5
<1>2. << >> \in Seq({}) /\ Len(<< >>) = 0
  OBVIOUS
<1>3. QED
  BY <1>1, <1>2

\* It holds in the beginning.
LEMMA InvInit == Init => StoreInv /\ WatchInv
<1> SUFFICES ASSUME Init
             PROVE  StoreInv /\ WatchInv
  OBVIOUS
<1> USE DEF Init
<1>1. IsData(data) /\ Bare(data) = << >>
  BY EmptyData
<1>2. revision \in 0 .. MaxRevision
  BY BoundsAssumption
<1>3. /\ notified \in Seq(StoreEvent) /\ Len(notified) = 0
      /\ pending \in Seq(Raised(revision)) /\ notified \o pending = << >>
  OBVIOUS
<1>4. Story(notified \o pending, << >>, Bare(data))
  BY <1>1, <1>3, StoryEmpty
<1>5. StoreInv
  BY <1>1, <1>2, <1>3, <1>4 DEF StoreInv, Ordered
<1>6. Remembers(eventHistory, notified)
  <2>1. ASSUME NEW s \in Seq(StoreEvent), s = << >>, Len(s) = 0
        PROVE  Remembers(s, s)
    <3>1. SubSeq(s, 1, 0) = s
      BY <2>1
    <3>2. QED
      BY <2>1, <3>1, BoundsAssumption DEF Remembers
  <2>2. QED
    BY <1>3, <2>1
<1>7. DOMAIN watchers = {} /\ DOMAIN polled = 0 .. nextWatchId - 1
  <2>1. ASSUME NEW s \in Seq({}), Len(s) = 0
        PROVE  DOMAIN s = {}
    BY <2>1
  <2>2. DOMAIN watchers = {} /\ DOMAIN polled = {}
    BY <2>1
  <2>3. 0 .. nextWatchId - 1 = {}
    OBVIOUS
  <2>4. QED
    BY <2>2, <2>3
<1>8. WatchInv
  BY <1>6, <1>7 DEF WatchInv
<1>9. QED
  BY <1>5, <1>8

\* A command adds to the story what it does.
LEMMA StoreApply ==
  ASSUME StoreInv, NEW c \in Commands, Apply(c)
  PROVE  StoreInv'
<1>1. PICK r : r = Execute(data, c, revision + 1)
  OBVIOUS
<1>2. /\ pending = << >> /\ revision < MaxRevision
      /\ revision' = revision + 1 /\ data' = r.data /\ pending' = r.events
      /\ notified' = notified
  BY <1>1 DEF Apply
<1>3. /\ IsData(data) /\ revision \in 0 .. MaxRevision
      /\ notified \in Seq(StoreEvent) /\ Ordered(notified)
      /\ \A i \in 1 .. Len(notified) : notified[i].revision <= revision
      /\ Story(notified \o pending, << >>, Bare(data))
  BY DEF StoreInv
<1>4. revision' \in 0 .. MaxRevision
  BY <1>2, <1>3, BoundsAssumption
<1>5. Explains(r, data, revision')
  BY <1>1, <1>2, <1>3, <1>4, ExecuteExplains
<1>6. IsData(data') /\ pending' \in Seq(Raised(revision'))
  BY <1>2, <1>5 DEF Explains
<1>7. Story(notified' \o pending', << >>, Bare(data'))
  <2>1. notified \o pending = notified
    BY <1>2, <1>3
  <2>2. Story(notified, << >>, Bare(data))
    BY <1>3, <2>1
  <2>3. Story(r.events, Bare(data), Bare(data'))
    BY <1>2, <1>5 DEF Explains
  <2>4. r.events \in Seq(StoreEvent)
    BY <1>2, <1>6 DEF Raised
  <2>5. Story(notified \o r.events, << >>, Bare(data'))
    BY <1>3, <2>2, <2>3, <2>4, StoryConcat
  <2>6. QED
    BY <1>2, <2>5
<1>8. \A i \in 1 .. Len(notified') : notified'[i].revision <= revision'
  <2>1. ASSUME NEW i \in 1 .. Len(notified)
        PROVE  notified[i].revision <= revision + 1
    <3>1. notified[i] \in StoreEvent
      BY <1>3
    <3>2. notified[i].revision \in Int
      BY <3>1 DEF StoreEvent, Event
    <3>3. QED
      BY <1>3, <3>2
  <2>2. QED
    BY <1>2, <2>1
<1>9. QED
  BY <1>2, <1>3, <1>4, <1>6, <1>7, <1>8 DEF StoreInv

\* An event that is handed over takes its place behind the others.
LEMMA StoreOnEvent ==
  ASSUME StoreInv, OnEvent
  PROVE  StoreInv' /\ Head(pending) \in StoreEvent
<1>1. PICK e, E : e = Head(pending) /\ E = StoreEvent
  OBVIOUS
<1>2. /\ pending # << >> /\ pending' = Tail(pending)
      /\ notified' = Append(notified, e) /\ data' = data /\ revision' = revision
  BY <1>1 DEF OnEvent, store
<1>3. /\ IsData(data) /\ revision \in 0 .. MaxRevision
      /\ notified \in Seq(E) /\ pending \in Seq(Raised(revision))
      /\ Ordered(notified)
      /\ \A i \in 1 .. Len(notified) : notified[i].revision <= revision
      /\ Story(notified \o pending, << >>, Bare(data))
  BY <1>1 DEF StoreInv
<1>4. /\ e \in Raised(revision) /\ Tail(pending) \in Seq(Raised(revision))
  <2>1. PICK R : R = Raised(revision)
    OBVIOUS
  <2>2. pending \in Seq(R)
    BY <1>3, <2>1
  <2>3. Head(pending) \in R /\ Tail(pending) \in Seq(R)
    BY <1>2, <2>2
  <2>4. QED
    BY <1>1, <2>1, <2>3
<1>5. e \in E /\ e.revision = revision
  BY <1>1, <1>4 DEF Raised
<1>6. pending \in Seq(E)
  BY <1>1, <1>3 DEF Raised
<1>7. notified' \in Seq(E) /\ notified' \o pending' = notified \o pending
  BY <1>1, <1>2, <1>3, <1>6, HandOver
<1>8. /\ Len(notified') = Len(notified) + 1 /\ Len(notified) \in Nat
      /\ notified'[Len(notified) + 1] = e
      /\ \A i \in 1 .. Len(notified) : notified'[i] = notified[i]
  BY <1>2, <1>3
<1>9. \A i \in 1 .. Len(notified') : notified'[i].revision <= revision
  <2>1. ASSUME NEW i \in 1 .. Len(notified')
        PROVE  notified'[i].revision <= revision
    <3>1. CASE i = Len(notified) + 1
      BY <1>3, <1>5, <1>8, <3>1
    <3>2. CASE i \in 1 .. Len(notified)
      BY <1>3, <1>8, <3>2
    <3>3. i = Len(notified) + 1 \/ i \in 1 .. Len(notified)
      BY <1>8
    <3>4. QED
      BY <3>1, <3>2, <3>3
  <2>2. QED
    BY <2>1
<1>10. Ordered(notified')
  <2>1. ASSUME NEW m \in 1 .. Len(notified'), NEW n \in 1 .. Len(notified'),
               m <= n
        PROVE  notified'[m].revision <= notified'[n].revision
    <3>1. CASE n = Len(notified) + 1
      BY <1>5, <1>8, <1>9, <3>1
    <3>2. CASE n \in 1 .. Len(notified)
      <4>1. m \in 1 .. Len(notified)
        BY <1>8, <2>1, <3>2
      <4>2. notified[m].revision <= notified[n].revision
        BY <1>3, <2>1, <3>2, <4>1 DEF Ordered
      <4>3. QED
        BY <1>8, <3>2, <4>1, <4>2
    <3>3. n = Len(notified) + 1 \/ n \in 1 .. Len(notified)
      BY <1>8
    <3>4. QED
      BY <3>1, <3>2, <3>3
  <2>2. QED
    BY <2>1 DEF Ordered
<1>11. StoreInv'
  BY <1>1, <1>2, <1>3, <1>4, <1>7, <1>9, <1>10 DEF StoreInv
<1>12. QED
  BY <1>1, <1>5, <1>11

\* What a watcher is told of does not depend on what is still in its queue.
LEMMA SameWatcher ==
  ASSUME NEW w, NEW v, v.filter = w.filter, v.start = w.start,
         v.since = w.since, NEW s, NEW j, NEW got, ToldFrom(got, w, s, j)
  PROVE  ToldFrom(got, v, s, j)
<1>1. Caught(v, s, j) = Caught(w, s, j) /\ After(v, s) = After(w, s)
  BY DEF Caught, After
<1>2. Complete(w, s, j) => Complete(v, s, j)
  BY DEF Complete
<1>3. QED
  BY <1>1, <1>2 DEF ToldFrom

\* A watcher that is given an event, or not, has been told of it.
LEMMA DeliveredTold ==
  ASSUME NEW s \in Seq(StoreEvent), NEW e \in StoreEvent, NEW w,
         NEW said \in Seq(Event), Told(said \o w.queue, w, s)
  PROVE  Told(said \o Delivered(w, e).queue, Delivered(w, e), Append(s, e))
<1>1. PICK v, q, all, E : /\ v = Delivered(w, e) /\ all = Append(s, e)
                          /\ q = Longer(w.queue, w.filter, 0, e) /\ E = Event
  OBVIOUS
<1>2. IsWatcher(w, s)
  BY DEF Told
<1>3. /\ w = [filter |-> w.filter, start |-> w.start, queue |-> w.queue,
              since |-> w.since]
      /\ w.start \in 0 .. MaxRevision /\ w.queue \in Seq(E)
      /\ w.since \in 0 .. Len(s) /\ Len(s) \in Nat /\ e \in E /\ said \in Seq(E)
  BY <1>1, <1>2 DEF IsWatcher, StoreEvent
<1>4. Selects(w.filter, 0, e) <=> e.key \in w.filter
  <2>1. e.revision >= 0
    BY DEF StoreEvent, Event
  <2>2. QED
    BY <2>1 DEF Selects
<1>5. /\ v = [filter |-> w.filter, start |-> w.start, queue |-> q,
              since |-> w.since]
      /\ v.filter = w.filter /\ v.start = w.start /\ v.queue = q
      /\ v.since = w.since
  <2>1. CASE e.key \in w.filter
    <3>1. q = Append(w.queue, e)
      BY <1>1, <1>4, <2>1 DEF Longer
    <3>2. v = [w EXCEPT !.queue = q]
      BY <1>1, <2>1, <3>1 DEF Delivered
    <3>3. QED
      BY <1>3, <3>2
  <2>2. CASE e.key \notin w.filter
    <3>1. q = w.queue
      BY <1>1, <1>4, <2>2 DEF Longer
    <3>2. v = w
      BY <1>1, <2>2 DEF Delivered
    <3>3. QED
      BY <1>3, <3>1, <3>2
  <2>3. QED
    BY <2>1, <2>2
<1>6. q \in Seq(E)
  BY <1>1, <1>3 DEF Longer
<1>7. Len(all) = Len(s) + 1
  BY <1>1
<1>8. IsWatcher(v, all)
  <2>1. v.since \in 0 .. Len(all)
    BY <1>3, <1>5, <1>7
  <2>2. QED
    BY <1>1, <1>3, <1>5, <1>6, <2>1 DEF IsWatcher
<1>9. PICK j \in 0 .. w.since : ToldFrom(said \o w.queue, w, s, j)
  BY DEF Told
<1>10. said \o q = Longer(said \o w.queue, w.filter, 0, e)
  <2>1. PICK p, f : p = w.queue /\ f = w.filter
    OBVIOUS
  <2>2. said \in Seq(E) /\ p \in Seq(E) /\ e \in E
    BY <1>3, <2>1
  <2>3. Longer(said \o p, f, 0, e) = said \o Longer(p, f, 0, e)
    BY <2>2, ConcatLonger
  <2>4. QED
    BY <1>1, <2>1, <2>3
<1>11. ToldFrom(said \o q, w, all, j)
  BY <1>1, <1>2, <1>9, <1>10, ToldOfLonger
<1>12. ToldFrom(said \o q, v, all, j)
  BY <1>5, <1>11, SameWatcher
<1>13. Told(said \o q, v, all)
  BY <1>5, <1>8, <1>9, <1>12 DEF Told
<1>14. QED
  BY <1>1, <1>5, <1>13

\* A watcher that polls has got what it got before.
LEMMA PolledTold ==
  ASSUME NEW s \in Seq(StoreEvent), NEW w, NEW said \in Seq(Event),
         Told(said \o w.queue, w, s), w.queue # << >>, NEW v,
         v = [w EXCEPT !.queue = Tail(@)]
  PROVE  /\ Append(said, Head(w.queue)) \in Seq(Event)
         /\ Told(Append(said, Head(w.queue)) \o v.queue, v, s)
<1>1. IsWatcher(w, s)
  BY DEF Told
<1>2. PICK q, E : q = w.queue /\ E = Event
  OBVIOUS
<1>3. /\ w = [filter |-> w.filter, start |-> w.start, queue |-> q,
              since |-> w.since]
      /\ w.start \in 0 .. MaxRevision /\ q \in Seq(E) /\ w.since \in 0 .. Len(s)
  BY <1>1, <1>2 DEF IsWatcher
<1>4. /\ v = [filter |-> w.filter, start |-> w.start, queue |-> Tail(q),
              since |-> w.since]
      /\ v.filter = w.filter /\ v.start = w.start /\ v.queue = Tail(q)
      /\ v.since = w.since
  BY <1>2, <1>3
<1>5. /\ Tail(q) \in Seq(E) /\ Append(said, Head(q)) \in Seq(E)
      /\ Append(said, Head(q)) \o Tail(q) = said \o q
  <2>1. q \in Seq(E) /\ said \in Seq(E) /\ q # << >>
    BY <1>2, <1>3
  <2>2. QED
    BY <2>1, HandOver
<1>6. IsWatcher(v, s)
  BY <1>2, <1>3, <1>4, <1>5 DEF IsWatcher
<1>7. PICK j \in 0 .. w.since : ToldFrom(said \o q, w, s, j)
  BY <1>2 DEF Told
<1>8. ToldFrom(said \o q, v, s, j)
  BY <1>4, <1>7, SameWatcher
<1>9. Told(said \o q, v, s)
  BY <1>4, <1>6, <1>7, <1>8 DEF Told
<1>10. QED
  BY <1>2, <1>4, <1>5, <1>9

\* An event that is handed over reaches the history and the watchers.
LEMMA WatchOnEvent ==
  ASSUME StoreInv, WatchInv, OnEvent
  PROVE  WatchInv'
<1>1. PICK e : e = Head(pending)
  OBVIOUS
<1>2. /\ eventHistory' = Remembered(eventHistory, e)
      /\ watchers' = [id \in DOMAIN watchers |-> Delivered(watchers[id], e)]
      /\ notified' = Append(notified, e)
      /\ nextWatchId' = nextWatchId /\ polled' = polled
  BY <1>1 DEF OnEvent
<1>3. e \in StoreEvent /\ notified \in Seq(StoreEvent)
  BY <1>1, StoreOnEvent DEF StoreInv
<1>4. Remembers(eventHistory', notified')
  BY <1>2, <1>3, RemembersLonger DEF WatchInv
<1>5. DOMAIN watchers' = DOMAIN watchers
  BY <1>2
<1>6. ASSUME NEW id \in DOMAIN watchers
      PROVE  /\ polled'[id] \in Seq(Event)
             /\ Told(polled'[id] \o watchers'[id].queue, watchers'[id],
                     notified')
  <2>1. PICK w, said : w = watchers[id] /\ said = polled[id]
    OBVIOUS
  <2>2. said \in Seq(Event) /\ Told(said \o w.queue, w, notified)
    BY <1>6, <2>1 DEF WatchInv, Got
  <2>3. watchers'[id] = Delivered(w, e)
    BY <1>2, <1>6, <2>1
  <2>4. Told(said \o Delivered(w, e).queue, Delivered(w, e), notified')
    BY <1>2, <1>3, <2>2, DeliveredTold
  <2>5. QED
    BY <1>2, <2>1, <2>2, <2>3, <2>4
<1>7. QED
  BY <1>2, <1>4, <1>5, <1>6 DEF WatchInv, Got

\* A client that subscribes gets a new id.
LEMMA WatchSubscribe ==
  ASSUME StoreInv, WatchInv, NEW filter, NEW start \in 0 .. MaxRevision,
         Subscribe(filter, start)
  PROVE  WatchInv'
<1>1. PICK n, w : /\ n = nextWatchId
                  /\ w = [filter |-> filter, start |-> start,
                          queue |-> CatchUp(filter, start),
                          since |-> Len(notified)]
  OBVIOUS
<1>2. /\ nextWatchId' = n + 1 /\ watchers' = Bind(watchers, n, w)
      /\ polled' = Bind(polled, n, << >>)
      /\ eventHistory' = eventHistory /\ notified' = notified
  BY <1>1 DEF Subscribe
<1>3. /\ Remembers(eventHistory, notified) /\ n \in Nat
      /\ DOMAIN polled = 0 .. n - 1 /\ DOMAIN watchers \subseteq DOMAIN polled
      /\ notified \in Seq(StoreEvent)
  BY <1>1 DEF WatchInv, StoreInv
<1>4. Told(w.queue, w, notified)
  BY <1>1, <1>3, ToldAtStart
<1>5. /\ DOMAIN watchers' = DOMAIN watchers \cup {n}
      /\ DOMAIN polled' = DOMAIN polled \cup {n}
      /\ watchers'[n] = w /\ polled'[n] = << >>
      /\ \A id \in DOMAIN watchers \ {n} : watchers'[id] = watchers[id]
      /\ \A id \in DOMAIN polled \ {n} : polled'[id] = polled[id]
  BY <1>2 DEF Bind
<1>6. DOMAIN polled' = 0 .. nextWatchId' - 1
  <2>1. (0 .. n - 1) \cup {n} = 0 .. (n + 1) - 1
    BY <1>3
  <2>2. QED
    BY <1>2, <1>3, <1>5, <2>1
<1>7. ASSUME NEW id \in DOMAIN watchers'
      PROVE  /\ polled'[id] \in Seq(Event)
             /\ Told(polled'[id] \o watchers'[id].queue, watchers'[id],
                     notified)
  <2>1. CASE id = n
    <3>1. w.queue \in Seq(Event)
      BY <1>4 DEF Told, IsWatcher
    <3>2. << >> \o w.queue = w.queue /\ << >> \in Seq(Event)
      BY <3>1
    <3>3. QED
      BY <1>4, <1>5, <2>1, <3>2
  <2>2. CASE id # n
    <3>1. id \in DOMAIN watchers /\ id \in DOMAIN polled
      BY <1>3, <1>5, <1>7, <2>2
    <3>2. watchers'[id] = watchers[id] /\ polled'[id] = polled[id]
      BY <1>5, <2>2, <3>1
    <3>3. polled[id] \in Seq(Event)
          /\ Told(polled[id] \o watchers[id].queue, watchers[id], notified)
      BY <3>1 DEF WatchInv, Got
    <3>4. QED
      BY <3>2, <3>3
  <2>3. QED
    BY <2>1, <2>2
<1>8. nextWatchId' \in Nat /\ DOMAIN watchers' \subseteq DOMAIN polled'
  BY <1>2, <1>3, <1>5
<1>9. QED
  BY <1>2, <1>3, <1>6, <1>7, <1>8 DEF WatchInv, Got

\* A watcher that leaves does not change what the others got.
LEMMA WatchUnwatch ==
  ASSUME WatchInv, NEW id, Unwatch(id)
  PROVE  WatchInv'
<1>1. /\ watchers' = Unbind(watchers, id)
      /\ UNCHANGED <<eventHistory, nextWatchId, notified, polled>>
  BY DEF Unwatch
<1>2. /\ DOMAIN watchers' \subseteq DOMAIN watchers
      /\ \A i \in DOMAIN watchers' : watchers'[i] = watchers[i]
  BY <1>1 DEF Unbind
<1>3. QED
  BY <1>1, <1>2 DEF WatchInv, Got

\* A watcher that polls does not change what it, or any other, got.
LEMMA WatchPoll ==
  ASSUME StoreInv, WatchInv, NEW id, Poll(id)
  PROVE  WatchInv'
<1>1. PICK w, said : w = watchers[id] /\ said = polled[id]
  OBVIOUS
<1>2. /\ id \in DOMAIN watchers /\ w.queue # << >>
      /\ watchers' = [watchers EXCEPT ![id].queue = Tail(@)]
      /\ polled' = [polled EXCEPT ![id] = Append(@, Head(w.queue))]
      /\ UNCHANGED <<eventHistory, nextWatchId, notified>>
  BY <1>1 DEF Poll
<1>3. /\ DOMAIN watchers \subseteq DOMAIN polled
      /\ said \in Seq(Event) /\ Told(said \o w.queue, w, notified)
      /\ notified \in Seq(StoreEvent)
  BY <1>1, <1>2 DEF WatchInv, StoreInv, Got
<1>4. PICK v : v = [w EXCEPT !.queue = Tail(@)]
  OBVIOUS
<1>5. /\ DOMAIN watchers' = DOMAIN watchers /\ DOMAIN polled' = DOMAIN polled
      /\ watchers'[id] = v /\ polled'[id] = Append(said, Head(w.queue))
      /\ \A i \in DOMAIN watchers \ {id} :
           watchers'[i] = watchers[i] /\ polled'[i] = polled[i]
  BY <1>1, <1>2, <1>3, <1>4
<1>6. /\ Append(said, Head(w.queue)) \in Seq(Event)
      /\ Told(Append(said, Head(w.queue)) \o v.queue, v, notified)
  BY <1>2, <1>3, <1>4, PolledTold
<1>7. ASSUME NEW i \in DOMAIN watchers
      PROVE  /\ polled'[i] \in Seq(Event)
             /\ Told(polled'[i] \o watchers'[i].queue, watchers'[i], notified)
  <2>1. CASE i = id
    BY <1>5, <1>6, <2>1
  <2>2. CASE i # id
    <3>1. watchers'[i] = watchers[i] /\ polled'[i] = polled[i]
      BY <1>5, <1>7, <2>2
    <3>2. polled[i] \in Seq(Event)
          /\ Told(polled[i] \o watchers[i].queue, watchers[i], notified)
      BY <1>7 DEF WatchInv, Got
    <3>3. QED
      BY <3>1, <3>2
  <2>3. QED
    BY <2>1, <2>2
<1>8. QED
  BY <1>2, <1>5, <1>7 DEF WatchInv, Got

\* No step breaks the invariant.
LEMMA InvStep == StoreInv /\ WatchInv /\ [Next]_vars => StoreInv' /\ WatchInv'
<1> SUFFICES ASSUME StoreInv, WatchInv, [Next]_vars
             PROVE  StoreInv' /\ WatchInv'
  OBVIOUS
<1>1. ASSUME NEW c \in Commands, Apply(c)
      PROVE  StoreInv' /\ WatchInv'
  <2>1. StoreInv'
    BY <1>1, StoreApply
  <2>2. UNCHANGED <<eventHistory, watchers, nextWatchId, notified, polled>>
    BY <1>1 DEF Apply
  <2>3. WatchInv'
    BY <2>2 DEF WatchInv, Got
  <2>4. QED
    BY <2>1, <2>3
<1>2. CASE OnEvent
  BY <1>2, StoreOnEvent, WatchOnEvent
<1>3. ASSUME UNCHANGED <<store, pending, notified>>
      PROVE  StoreInv'
  BY <1>3 DEF StoreInv, store
<1>4. ASSUME NEW f \in Filters, NEW start \in 0 .. MaxRevision,
             Subscribe(f, start)
      PROVE  StoreInv' /\ WatchInv'
  <2>1. UNCHANGED <<store, pending, notified>>
    BY <1>4 DEF Subscribe
  <2>2. QED
    BY <1>3, <1>4, <2>1, WatchSubscribe
<1>5. ASSUME NEW id, Unwatch(id)
      PROVE  StoreInv' /\ WatchInv'
  <2>1. UNCHANGED <<store, pending, notified>>
    BY <1>5 DEF Unwatch
  <2>2. QED
    BY <1>3, <1>5, <2>1, WatchUnwatch
<1>6. ASSUME NEW id, Poll(id)
      PROVE  StoreInv' /\ WatchInv'
  <2>1. UNCHANGED <<store, pending, notified>>
    BY <1>6 DEF Poll
  <2>2. QED
    BY <1>3, <1>6, <2>1, WatchPoll
<1>7. CASE UNCHANGED vars
  <2>1. UNCHANGED <<store, pending, notified>>
    BY <1>7 DEF vars
  <2>2. WatchInv'
    BY <1>7 DEF WatchInv, Got, vars
  <2>3. QED
    BY <1>3, <2>1, <2>2
<1>8. QED
  BY <1>1, <1>2, <1>4, <1>5, <1>6, <1>7 DEF Next

\* It always holds.
LEMMA InvAlways == Spec => [](StoreInv /\ WatchInv)
<1>1. Init => StoreInv /\ WatchInv
  BY InvInit
<1>2. (StoreInv /\ WatchInv) /\ [Next]_vars => (StoreInv /\ WatchInv)'
  BY InvStep
<1>3. QED
  BY <1>1, <1>2, PTL DEF Spec

-----------------------------------------------------------------------------
(* What the runs check, for every value of the constants.                   *)

\* The type invariant; the history never outgrows its bound.
THEOREM WatchTypeCorrect == Spec => []TypeOK
<1>1. StoreInv /\ WatchInv => TypeOK
  <2> SUFFICES ASSUME StoreInv, WatchInv
               PROVE  TypeOK
    OBVIOUS
  <2>1. DOMAIN data \subseteq Key /\ revision \in 0 .. MaxRevision
    BY DEF StoreInv, IsData
  <2>2. Len(eventHistory) <= MaxHistory
    BY DEF WatchInv, Remembers
  <2>3. /\ DOMAIN watchers = DOMAIN polled \cap DOMAIN watchers
        /\ DOMAIN polled = 0 .. nextWatchId - 1
    BY DEF WatchInv
  <2>4. ASSUME NEW e \in ToSet(pending) \cup ToSet(eventHistory)
                          \cup ToSet(notified)
        PROVE  e \in Event /\ e.type # "COMPACTED"
    <3>1. /\ pending \in Seq(StoreEvent) /\ eventHistory \in Seq(StoreEvent)
          /\ notified \in Seq(StoreEvent)
      BY DEF StoreInv, WatchInv, Remembers, Raised
    <3>2. e \in StoreEvent
      BY <2>4, <3>1 DEF ToSet
    <3>3. QED
      BY <3>2 DEF StoreEvent
  <2>5. ASSUME NEW id \in DOMAIN watchers
        PROVE  ToSet(watchers[id].queue) \subseteq Event
    <3>1. PICK q : q = watchers[id].queue
      OBVIOUS
    <3>2. q \in Seq(Event)
      BY <2>5, <3>1 DEF WatchInv, Told, IsWatcher
    <3>3. QED
      BY <3>1, <3>2 DEF ToSet
  <2>6. QED
    BY <2>1, <2>2, <2>3, <2>4, <2>5 DEF TypeOK
<1>2. QED
  BY <1>1, InvAlways, PTL

\* Whoever replays the events of the store has its data, whichever commands and
\* transactions came, succeeded or failed (KVStore.apply).
THEOREM EventsTellData == Spec => []DataFollowsEvents
<1>1. StoreInv => DataFollowsEvents
  <2> SUFFICES ASSUME StoreInv
               PROVE  DataFollowsEvents
    OBVIOUS
  <2>1. /\ notified \o pending \in Seq(StoreEvent)
        /\ Story(notified \o pending, << >>, Bare(data))
    BY DEF StoreInv, Raised
  <2>2. Replay(notified \o pending) = Bare(data)
    BY <2>1, StoryReplays
  <2>3. QED
    BY <2>2 DEF DataFollowsEvents, Bare
<1>2. QED
  BY <1>1, InvAlways, PTL

\* Every event says what the value was before it, also within a transaction.
THEOREM EventsTellPrev == Spec => []PrevIsTrue
<1>1. StoreInv => PrevIsTrue
  <2> SUFFICES ASSUME StoreInv
               PROVE  PrevIsTrue
    OBVIOUS
  <2>1. PICK all : all = notified \o pending
    OBVIOUS
  <2>2. all \in Seq(StoreEvent) /\ Story(all, << >>, Bare(data))
    BY <2>1 DEF StoreInv, Raised
  <2>3. \A i \in DOMAIN all :
          all[i].prev = EntryOf(Replay(SubSeq(all, 1, i - 1)), all[i].key).value
    BY <2>2, StoryReplays
  <2>4. QED
    BY <2>1, <2>3, Zenon DEF PrevIsTrue
<1>2. QED
  BY <1>1, InvAlways, PTL

\* Each watcher gets what follows its subscription once and in order, and of
\* what it asked for an unbroken part up to there (WatchManager.watch).
THEOREM WatchersKeepUp == Spec => []KeepsUp
<1>1. StoreInv /\ WatchInv => KeepsUp
  <2> SUFFICES ASSUME StoreInv, WatchInv, NEW id \in DOMAIN watchers
               PROVE  /\ IsSuffix(Later(watchers[id]), Events(id))
                      /\ IsSuffix(Events(id), Earlier(watchers[id])
                                                \o Later(watchers[id]))
    BY DEF KeepsUp
  <2>1. PICK w : w = watchers[id]
    OBVIOUS
  <2>2. /\ notified \in Seq(StoreEvent) /\ Told(Got(id), w, notified)
    BY <2>1 DEF StoreInv, WatchInv
  <2>3. /\ Later(w) = After(w, notified) /\ Earlier(w) = Due(w, notified)
        /\ Events(id) = Selected(Got(id), Key, 0)
    BY DEF Later, After, Earlier, Due, Events
  <2>4. QED
    BY <2>1, <2>2, <2>3, ToldKeepsUp
<1>2. QED
  BY <1>1, InvAlways, PTL

\* A COMPACTED comes first, at most once, and names the revision from which on
\* the watcher is told (WatchManager._catch_up_watcher).
THEOREM NoticesComeFirst == Spec => []NoticeFirst
<1>1. StoreInv /\ WatchInv => NoticeFirst
  <2> SUFFICES ASSUME StoreInv, WatchInv, NEW id \in DOMAIN watchers,
                      NEW i \in DOMAIN Got(id), IsNotice(Got(id)[i])
               PROVE  /\ i = 1
                      /\ Got(id)[1].revision > watchers[id].start
                      /\ \A e \in ToSet(Events(id)) :
                           e.revision >= Got(id)[1].revision
    BY DEF NoticeFirst
  <2>1. /\ notified \in Seq(StoreEvent) /\ Ordered(notified)
        /\ Told(Got(id), watchers[id], notified)
    BY DEF StoreInv, WatchInv
  <2>2. QED
    BY <2>1, ToldNotice DEF Events
<1>2. QED
  BY <1>1, InvAlways, PTL

\* With a history that holds anything, a watcher that is not told of a gap
\* misses at most events of its start revision, one of a transaction with
\* several events; with max_history = 0 no gap is ever told.
THEOREM GapsAreTold == ASSUME MaxHistory # 0 PROVE Spec => []GapsToldButInTxn
<1>1. StoreInv /\ WatchInv => GapsToldButInTxn
  <2> SUFFICES ASSUME StoreInv, WatchInv
               PROVE  GapsToldButInTxn
    OBVIOUS
  <2>1. ASSUME NEW id \in DOMAIN watchers, ~Warned(id)
        PROVE  LET w == watchers[id]
                   due == Earlier(w) \o Later(w)
               IN  \/ Events(id) = due
                   \/ /\ Cardinality({i \in DOMAIN notified :
                                        notified[i].revision = w.start}) > 1
                      /\ Selected(Events(id), Key, w.start + 1)
                           = Selected(due, Key, w.start + 1)
    <3>1. PICK w, got : w = watchers[id] /\ got = Got(id)
      OBVIOUS
    <3>2. /\ notified \in Seq(StoreEvent) /\ Ordered(notified)
          /\ Told(got, w, notified)
      BY <2>1, <3>1 DEF StoreInv, WatchInv
    <3>3. \A e \in ToSet(got) : ~IsNotice(e)
      BY <2>1, <3>1 DEF Warned
    <3>4. /\ Later(w) = After(w, notified) /\ Earlier(w) = Due(w, notified)
          /\ Events(id) = Selected(got, Key, 0)
      BY <3>1 DEF Later, After, Earlier, Due, Events
    <3>5. QED
      BY <3>1, <3>2, <3>3, <3>4, ToldGaps
  <2>2. QED
    BY <2>1, Zenon DEF GapsToldButInTxn
<1>2. QED
  BY <1>1, InvAlways, PTL
=============================================================================
