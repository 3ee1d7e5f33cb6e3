-------------------------- MODULE WatchProperties --------------------------
(***************************************************************************)
(* What the store promises to those who watch it.                          *)
(***************************************************************************)
EXTENDS Watch, SequencesExt

Event == [type : {"PUT", "DELETE", "COMPACTED"}, key : Key \cup {None},
          value : Value \cup {None}, prev : Value \cup {None},
          revision : 0 .. MaxRevision]

\* The types of the variables; the history never outgrows its bound.
TypeOK ==
  /\ DOMAIN data \subseteq Key
  /\ revision \in 0 .. MaxRevision
  /\ Len(eventHistory) <= MaxHistory
  /\ DOMAIN watchers = DOMAIN polled \cap DOMAIN watchers
  /\ DOMAIN polled = 0 .. nextWatchId - 1
  /\ \A e \in ToSet(pending) \cup ToSet(eventHistory) \cup ToSet(notified) :
       e \in Event /\ e.type # "COMPACTED"
  /\ \A id \in DOMAIN watchers : ToSet(watchers[id].queue) \subseteq Event

-----------------------------------------------------------------------------

\* The data that an event leads to, without the leases, which no event carries.
Replayed(d, e) ==
  LET old == EntryOf(d, e.key)
      new == [value |-> e.value, version |-> old.version + 1, lease |-> NoLease,
              created |-> IF e.key \in DOMAIN d THEN old.created ELSE e.revision,
              modified |-> e.revision]
  IN  IF e.type = "PUT" THEN Bind(d, e.key, new) ELSE Unbind(d, e.key)

\* The data that a list of events describes.
Replay(events) ==
  LET after[i \in 0 .. Len(events)] ==
        IF i = 0 THEN << >> ELSE Replayed(after[i - 1], events[i])
  IN  after[Len(events)]

\* Whoever replays all events has the data: nothing changes without an event,
\* no event tells of a change that was rolled back, and the version and the
\* revisions of an entry count its puts since it was created.
DataFollowsEvents ==
  Replay(notified \o pending)
    = [k \in DOMAIN data |-> [data[k] EXCEPT !.lease = NoLease]]

\* Every event says what the value was before it, across the operations of a
\* transaction as well.
PrevIsTrue ==
  LET events == notified \o pending
  IN  \A i \in DOMAIN events :
        events[i].prev = EntryOf(Replay(SubSeq(events, 1, i - 1)),
                                 events[i].key).value

-----------------------------------------------------------------------------

\* What a watcher has been told: what it polled, then what it can still poll.
\* A notice has no key, so that selecting every key leaves the notices out.
Got(id) == polled[id] \o watchers[id].queue

IsNotice(e)  == e.type = "COMPACTED"
Events(id)   == Selected(Got(id), Key, 0)
Warned(id)   == \E e \in ToSet(Got(id)) : IsNotice(e)

\* The matching events handed over since the watcher subscribed.
Later(w) ==
  Selected(SubSeq(notified, w.since + 1, Len(notified)), w.filter, 0)

\* The matching events handed over before, from the start revision on.
Earlier(w) ==
  IF w.start = 0 THEN << >>
  ELSE Selected(SubSeq(notified, 1, w.since), w.filter, w.start)

\* A watcher gets every event that follows its subscription once and in order,
\* also when it subscribes between two events of a transaction, and of the
\* earlier ones it asked for an unbroken part up to there (demo 3 of
\* example.py: no event after the subscription is missed).
KeepsUp ==
  \A id \in DOMAIN watchers :
    LET w == watchers[id]
    IN  /\ IsSuffix(Later(w), Events(id))
        /\ IsSuffix(Events(id), Earlier(w) \o Later(w))

\* A watcher that asks for earlier events gets all of them or is told by a
\* COMPACTED that some are gone (demo 4 of example.py).
NoSilentGap ==
  \A id \in DOMAIN watchers :
    LET w == watchers[id]
    IN  Warned(id) \/ Events(id) = Earlier(w) \o Later(w)

\* The gap of which a watcher is told nothing is as small as it can be: only
\* events of its start revision are missing, and that revision was one of a
\* transaction with several events, of which the history had kept a part.
GapsToldButInTxn ==
  \A id \in DOMAIN watchers :
    LET w == watchers[id]
        due == Earlier(w) \o Later(w)
        after(events) == Selected(events, Key, w.start + 1)
        ofStart == {i \in DOMAIN notified : notified[i].revision = w.start}
    IN  \/ Warned(id)
        \/ Events(id) = due
        \/ Cardinality(ofStart) > 1 /\ after(Events(id)) = after(due)

\* The notice comes first and at most once, and names the revision from which
\* on the events were remembered.
NoticeFirst ==
  \A id \in DOMAIN watchers :
    \A i \in DOMAIN Got(id) :
      IsNotice(Got(id)[i]) =>
        /\ i = 1
        /\ Got(id)[1].revision > watchers[id].start
        /\ \A e \in ToSet(Events(id)) : e.revision >= Got(id)[1].revision
=============================================================================
