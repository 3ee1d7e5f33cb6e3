------------------------------ MODULE RaftLog ------------------------------
(***************************************************************************)
(* The log of one Raft node: LogStore of src/raft/log.py, and the merge of *)
(* received entries that RaftNode._handle_append_entries performs on it.   *)
(*                                                                         *)
(* A log is a sequence of entries [term, index, command].  Indices are the *)
(* ones of the code: the first entry has index 0 and -1 stands for "before *)
(* the first entry", so the entry with index i is log[i + 1].              *)
(***************************************************************************)
EXTENDS Integers, Sequences

\* LogStore.last_index: the index the last entry carries, -1 if there is none.
LastIndex(log) == IF log = << >> THEN -1 ELSE log[Len(log)].index

\* LogStore.last_term: the term of the last entry, 0 if there is none.
LastTerm(log) == IF log = << >> THEN 0 ELSE log[Len(log)].term

\* LogStore.get returns an entry for these indices and None for all others.
HasIndex(log, i) == 0 <= i /\ i < Len(log)

\* LogStore.term_at: 0 for an index outside the log.
TermAt(log, i) == IF HasIndex(log, i) THEN log[i + 1].term ELSE 0

\* LogStore.entries_from: everything from index i on.
EntriesFrom(log, i) == IF i < 0 THEN log ELSE SubSeq(log, i + 1, Len(log))

\* LogStore.truncate_from: drop the entries from index i on.
TruncateFrom(log, i) == IF i < Len(log) THEN SubSeq(log, 1, i) ELSE log

\* LogStore.append: the log is cut at the first entry that overlaps it, then
\* all of the entries are added.
Overlaps(log, entries, k) == entries[k].index <= LastIndex(log)

IsFirstOverlap(log, entries, k) ==
  Overlaps(log, entries, k)
    /\ \A j \in 1 .. k - 1 : ~Overlaps(log, entries, j)

AppendTo(log, entries) ==
  IF \E k \in DOMAIN entries : Overlaps(log, entries, k)
  THEN LET k == CHOOSE j \in DOMAIN entries : IsFirstOverlap(log, entries, j)
       IN  TruncateFrom(log, entries[k].index) \o entries
  ELSE log \o entries

-----------------------------------------------------------------------------
(* The loop over the received entries in RaftNode._handle_append_entries.   *)

\* Mutant of IsNew: the terms are not compared.
IsNew_BeyondEnd(log, entries, k) == entries[k].index > LastIndex(log)

\* The k-th received entry is one the log does not hold yet: it lies beyond
\* the end of the log, or the log holds an entry of another term in its place.
IsNew(log, entries, k) ==
  \/ entries[k].index > LastIndex(log)
  \/ TermAt(log, entries[k].index) # entries[k].term

IsFirstNew(log, entries, k) ==
  IsNew(log, entries, k) /\ \A j \in 1 .. k - 1 : ~IsNew(log, entries, j)

\* Entries the log already holds are skipped; at the first other one the log
\* is cut if that entry contradicts it, and the rest is appended.
MergeEntries(log, entries) ==
  IF \E k \in DOMAIN entries : IsNew(log, entries, k)
  THEN LET k     == CHOOSE j \in DOMAIN entries : IsFirstNew(log, entries, j)
           clash == entries[k].index <= LastIndex(log)
           kept  == IF clash THEN TruncateFrom(log, entries[k].index) ELSE log
       IN  AppendTo(kept, SubSeq(entries, k, Len(entries)))
  ELSE log

-----------------------------------------------------------------------------
(* What the merge of entries that follow the first i ones of a log must come *)
(* to: a log that holds them all stays as it is, however much longer it is,  *)
(* and any other one ends with them.                                         *)

HoldsAll(log, entries) ==
  \A k \in DOMAIN entries :
    /\ HasIndex(log, entries[k].index)
    /\ TermAt(log, entries[k].index) = entries[k].term

MergeReference(log, i, entries) ==
  IF HoldsAll(log, entries) THEN log ELSE SubSeq(log, 1, i) \o entries
=============================================================================
