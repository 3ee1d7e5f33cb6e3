------------------------------- MODULE Watch -------------------------------
(***************************************************************************)
(* A KVStore and the WatchManager that listens to it (src/kvstore/watch.py *)
(* on src/kvstore/kvstore.py) on one replica.                              *)
(*                                                                         *)
(* KVStore.apply holds the store's lock until every event of the command   *)
(* has been handed over, but each event takes the lock of the WatchManager *)
(* on its own: clients subscribe, unsubscribe and poll between two events  *)
(* of one transaction.  A blocking poll is a Poll that comes late.         *)
(***************************************************************************)
EXTENDS KVStore, FiniteSets

CONSTANTS
  Key,         \* the keys
  Value,       \* what a key may be bound to
  Commands,    \* the commands the log may hold
  Filters,     \* what a client may ask for: the set of keys it matches
  MaxHistory,  \* max_history
  MaxRevision, \* bound: the number of commands applied
  MaxWatchId   \* bound: the number of subscriptions

\* What an operation needs, whatever its type; a transaction is a list of them.
IsOperation(c) == c.key \in Key /\ c.value \in Value \cup {None}

ASSUME CommandsAssumption ==
  \A c \in Commands :
    IF c.type = "txn"
    THEN Len(c.ops) \in Nat /\ \A i \in 1 .. Len(c.ops) : IsOperation(c.ops[i])
    ELSE IsOperation(c)
ASSUME KeyAssumption == None \notin Key
ASSUME BoundsAssumption ==
  MaxHistory \in Nat /\ MaxRevision \in Nat /\ MaxWatchId \in Nat

VARIABLES
  data, revision,  \* _data and _revision of the store
  pending,         \* the events of the command being applied, still to be
                   \* handed over; the store is locked while there are any
  eventHistory,    \* _event_history
  watchers,        \* _watchers: from watch ids to subscriptions
  nextWatchId,     \* _next_watch_id
  notified,        \* history: all events handed over so far
  polled           \* history: what each watcher has polled

store == <<data, revision>>
vars ==
  <<store, pending, eventHistory, watchers, nextWatchId, notified, polled>>

Init ==
  /\ data = << >> /\ revision = 0
  /\ pending = << >>
  /\ eventHistory = << >>
  /\ watchers = << >>
  /\ nextWatchId = 0
  /\ notified = << >>
  /\ polled = << >>

-----------------------------------------------------------------------------
(* The store.                                                               *)

Apply(c) ==
  LET r == Execute(data, c, revision + 1)
  IN  /\ pending = << >>
      /\ revision < MaxRevision
      /\ revision' = revision + 1
      /\ data' = r.data
      /\ pending' = r.events
      /\ UNCHANGED <<eventHistory, watchers, nextWatchId, notified, polled>>

\* Mutant of Remembered: the history grows without a bound.
Remembered_Unbounded(history, e) == Append(history, e)

\* A deque of bounded length drops its oldest element.
Remembered(history, e) ==
  LET longer == Append(history, e)
  IN  IF Len(longer) > MaxHistory THEN Tail(longer) ELSE longer

\* Mutant of Delivered: an event of the start revision is taken for one the
\* catching-up has delivered.
Delivered_AfterStart(w, e) ==
  IF e.key \in w.filter /\ e.revision > w.start
  THEN [w EXCEPT !.queue = Append(@, e)] ELSE w

\* A watcher is given every event that matches, whatever its start revision.
Delivered(w, e) ==
  IF e.key \in w.filter THEN [w EXCEPT !.queue = Append(@, e)] ELSE w

\* _on_event: the event is remembered and given to the watchers it matches.
OnEvent ==
  LET e == Head(pending)
  IN  /\ pending # << >>
      /\ pending' = Tail(pending)
      /\ eventHistory' = Remembered(eventHistory, e)
      /\ watchers' = [id \in DOMAIN watchers |-> Delivered(watchers[id], e)]
      /\ notified' = Append(notified, e)
      /\ UNCHANGED <<store, nextWatchId, polled>>

-----------------------------------------------------------------------------
(* The clients.                                                             *)

Compacted(rev) == [type |-> "COMPACTED", key |-> None, value |-> None,
                   prev |-> None, revision |-> rev]

\* Mutants of Evicted: one revision too late, or one too early.
Evicted_Late(history, start) == start + 1 < history[1].revision
Evicted_Early(history, start) == start <= history[1].revision

\* The history does not reach back to the start revision.
Evicted(history, start) == start < history[1].revision

\* Those of a list of events that match and are not older than start, in order.
Selected(events, filter, start) ==
  LET kept[i \in 0 .. Len(events)] ==
        IF i = 0 THEN << >>
        ELSE IF events[i].key \in filter /\ events[i].revision >= start
        THEN Append(kept[i - 1], events[i])
        ELSE kept[i - 1]
  IN  kept[Len(events)]

\* _catch_up_watcher: the remembered events from the start revision on, after
\* a COMPACTED if the history does not reach back that far.
CatchUp(filter, start) ==
  LET notice == IF Evicted(eventHistory, start)
                THEN << Compacted(eventHistory[1].revision) >> ELSE << >>
  IN  IF start = 0 \/ eventHistory = << >> THEN << >>
      ELSE notice \o Selected(eventHistory, filter, start)

\* since, a history field, is the number of events handed over before.
Subscribe(filter, start) ==
  LET w == [filter |-> filter, start |-> start,
            queue |-> CatchUp(filter, start), since |-> Len(notified)]
  IN  /\ nextWatchId < MaxWatchId
      /\ nextWatchId' = nextWatchId + 1
      /\ watchers' = Bind(watchers, nextWatchId, w)
      /\ polled' = Bind(polled, nextWatchId, << >>)
      /\ UNCHANGED <<store, pending, eventHistory, notified>>

Unwatch(id) ==
  /\ id \in DOMAIN watchers
  /\ watchers' = Unbind(watchers, id)
  /\ UNCHANGED <<store, pending, eventHistory, nextWatchId, notified, polled>>

\* poll takes the oldest event; with none, or no such watcher, it returns None.
Poll(id) ==
  /\ id \in DOMAIN watchers
  /\ watchers[id].queue # << >>
  /\ watchers' = [watchers EXCEPT ![id].queue = Tail(@)]
  /\ polled' = [polled EXCEPT ![id] = Append(@, Head(watchers[id].queue))]
  /\ UNCHANGED <<store, pending, eventHistory, nextWatchId, notified>>

Next ==
  \/ \E c \in Commands : Apply(c)
  \/ OnEvent
  \/ \E f \in Filters, start \in 0 .. MaxRevision : Subscribe(f, start)
  \/ \E id \in 0 .. MaxWatchId - 1 : Unwatch(id) \/ Poll(id)

Spec == Init /\ [][Next]_vars
=============================================================================
