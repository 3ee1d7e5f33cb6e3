# Verification of the lock service

The repository is a lock and configuration service in Python: a Raft library
(`src/raft/`), a replicated key-value store with leases, locks and watches
(`src/kvstore/`), and a server and a client that tie them together
(`src/server.py`, `src/client.py`).  A "cluster" is a set of such servers in one
process, each with its threads, connected by queues in memory.  Nothing is
written to disk.  This directory holds TLA+ models of its core, the TLC runs
that check them, and TLAPS proofs.

## 1. The system

| Part | State | Operations | Talks to |
|---|---|---|---|
| Transport (`raft/transport.py`) | one first-in first-out queue per node | `send`, `recv` | Raft nodes |
| Raft log (`raft/log.py`) | the entries | `append`, `truncate_from`, `entries_from`, `term_at`, ... | its node |
| Raft node (`raft/raft.py`) | role, term, vote, log, commit and apply indices, `_next_index`, `_match_index`, callbacks by index | two threads: a receiver, and the main loop (handle messages, apply what is committed, tick); `submit_command` from any other thread | transport; state machine (call); submitters (callback) |
| Key-value store (`kvstore/kvstore.py`) | `_data`, `_revision`, subscribers | `apply` of put, delete, put_if_absent, cas, txn; `get` | subscribers (callback under its lock) |
| Watches (`kvstore/watch.py`) | bounded event history, watchers with queues | `_on_event`, `watch`, `unwatch`, `poll`, `poll_all` | store |
| Leases (`kvstore/lease.py`) | `_leases` with expire time and keys; the loop's list of expired leases | grant, revoke, keepalive, expire; a thread that looks for expired leases at the leader | Raft node (`submit_command`, also from inside an apply) |
| Combined state machine (`kvstore/combined_sm.py`) | none of its own | `apply`: dispatches, then keeps the keys of leases | store, leases |
| Locks (`kvstore/lock.py`) | holder, lease and keepalive of a lock object | `acquire`, `release`, `simulate_crash` | Raft node, leases, store |
| Server, cluster (`server.py`) | one of each of the above | `put`, `delete`, `txn`, leases, locks, watches; `get_leader` | all |
| Client (`client.py`) | what a `LockLeaseWatcher` remembers of its lock | delegates to its server; takes a lock and renews its lease | server |

What makes each of them hard, and correct:

* **Raft node.**  Messages of several terms overtake each other across nodes,
  timeouts fire at any moment, nodes are stopped and started.  One leader per
  term; logs that agree; a commit index that is never wrong; the same commands
  applied everywhere; logs that converge under a stable leader.
* **Store and watches.**  The events of one transaction are handed over one by
  one while watchers come and go, and the history that later watchers are served
  from has a bound.  Events and data tell the same story; a watcher misses
  nothing after its subscription; what is missing from before is announced.
* **Leases.**  Each replica has its own clock, only the leader's counts; the end
  of a lease is a command, and applying it submits more commands under two
  locks.  Replicas agree; a lease ends with its own keys only; an expired key
  does go away.
* **Callbacks.**  They are filed under a log index, and calls give up after five
  seconds.  An answer belongs to the command that was asked.
* **Locks.**  Check and delete are two steps; an acquisition that timed out may
  still succeed; the lease is what frees the lock of a crashed holder.

`PROJECT.json` lists every hazard at its line, with the properties that cover it
or the reason why none does.  A property whose exception is just the hazard is not
counted as covering it.

## 2. Modules

| Module | Models | Checked by |
|---|---|---|
| `RaftLog` | `LogStore`, and the merge loop of `_handle_append_entries`, as operators on sequences | `MCRaft` through `Raft` |
| `Raft` | a cluster of `RaftNode`s with their transport | `MCRaft` through `RaftProperties` |
| `RaftProperties` | - the properties of `Raft` | |
| `ReplicatedLog` | - what the state machines and the submitters are promised: one growing sequence of commands | as a property of `Raft` |
| `RaftRefinement` | - the refinement mapping from `Raft` to `ReplicatedLog` | `MCRaft` |
| `RaftLogProofs` | - lemmas about the operators on logs, and `MergeCorrect` | TLAPS |
| `RaftProofs` | - types and elections | TLAPS |
| `RaftMatchingProofs` | - log matching, for every cluster | TLAPS |
| `RaftPairProofs`, `RaftCommitProofs` | - commitment and the refinement, for one or two nodes | TLAPS |
| `KVStore` | what each store command does to data, events and answer | used by the next two |
| `Watch` | a `KVStore` and its `WatchManager` | `MCWatch` through `WatchProperties` |
| `WatchProofs` | - every property of `Watch` | TLAPS |
| `StateMachine` | `CombinedStateMachine` and `LeaseStateMachine` as operators on a record | used by the next one |
| `Service` | several replicas over one replicated log, `LeaseManager`, calls with callbacks and timeouts | `MCService` through `ServiceProperties` |
| `ServiceProofs` | - types, answers, replicas and leases of `Service` | TLAPS |
| `Locks` | the clients of a lock over `Service`: `LockManager`, `DistributedLock`, `LockLeaseWatcher`, keepalive daemons | `MCLocks` through `LockProperties` |
| `LockProofs` | - types, holders, releases and abandoned locks of `Locks` | TLAPS |

The layers meet as in the program: `Locks` extends `Service`, whose commands are
executed by `StateMachine`, which executes those of the store by `KVStore`.
`Service` stands on one shared log instead of on `Raft`; `ReplicatedLog` is where
the two meet, see below.

Definitions whose comment says *Mutant of D* are faulty variants of `D`.  They
are used by no specification; put in the place of `D`, each of them makes TLC
refute the property it is listed with, which shows that the property depends
on the code.

### Raft

One step is one section of the code under the node's `_lock`.

| Action | Code |
|---|---|
| `HandleMessage` (`HandleRequestVote`, `HandleRequestVoteResponse`, `HandleAppendEntries`, `HandleAppendEntriesResponse`) | `_handle_message` and the four handlers |
| `ApplyCommitted` | `_maybe_apply_committed` in `_main_loop` |
| `StartElection` | `_tick_follower`, `_tick_candidate`, `_start_election` |
| `SendHeartbeats` | `_tick_leader`, `_send_heartbeats` |
| `SubmitCommand` | `submit_command` at a leader, including the commit and apply it may lead to in a cluster of one |
| `Start`, `Stop` | `start`, `stop`: only the threads stop, memory and role remain |

* The main loop handles a batch of drained messages in one section; a batch is a
  sequence of `HandleMessage` steps, and nothing that can happen between two of
  them matters that could not happen before or after the batch.
* The transport's queue of a node and the node's `_msg_queue` are one FIFO,
  `queue[n]`: the receiver thread moves messages from one to the other in order,
  and nobody else looks at either.  Messages are neither lost nor duplicated by
  this transport, but several senders interleave freely in a queue.
* Sending to all peers is one step: the sender holds its lock all along, and the
  order in which two queues are filled is seen by nobody.
* `leader_id` and `candidate_id` always equal the sender and are not repeated.
  `_leader_id` decides nothing in the code and is left out.
* Time is abstracted: an election timeout or a heartbeat may be due at any time.
* `submit_command` at another node returns `None` and is no step.
* Python slices and `dict.get` defaults are modelled by what they do
  (`EntriesFrom`, `TruncateFrom`, the defaults 0 and -1 of the two indices).
* `applied`, `submitted` and `answers` are what the state machine and the
  submitters have seen; `submitted` makes every command a submission of its own.

`RaftRefinement` maps the state of `Raft` to `ReplicatedLog`: `chosen` is the committed
part of the log of the node that has committed most, `given` what the machines
have been given, `answered` the commands whose callbacks were called for their own
entries.  Every step of the nodes is then a step of the abstract log or a stutter:
commands are chosen once and for all, no machine is given anything but a prefix
of them, and nobody is answered before its command has been given.  It is checked
with two nodes; finding 1 is the reason why it cannot hold with three.  A
callback that is called for the command of somebody else (the hazard at
`raft/raft.py:448`) is not an answer in this sense.

### KVStore and Watch

`KVStore.Execute` maps data, a command and a revision to new data, the events, the
answer and the lease the key had.  `Watch.Apply` runs it and leaves its events
in `pending`; the store's lock is held until they have all been handed over, so no
other command is applied meanwhile, while `OnEvent` takes the lock of the
`WatchManager` for each event, so that `Subscribe`, `Unwatch` and `Poll` come in
between.  A key filter stands for the key or prefix of `_match`.  A poll that finds
nothing returns `None` and is no step; `poll_all` is a sequence of polls; a
blocking poll is a poll that comes late.  `notified`, `polled` and the field
`since` are history.  `Selected` is the loop of `_catch_up_watcher` over the history,
and `Replay`, to which the data is compared, applies events one by one; both are
recursive functions, so that they can be reasoned about.

### StateMachine and Service

`StateMachine.ApplyCommand` is `CombinedStateMachine.apply` with the bookkeeping of
lease keys.  Its outcome also says which keys `_on_expire_callback` is called with
and whether the command takes the lock of the leases, which is what `Service` needs
to know for the re-entrant case.

`Service` puts replicas on top of one shared log: `Submit` extends it at the leader,
`Commit` advances the commit index, `NewLeader` may cut the uncommitted end, `Apply`
applies one committed entry at one replica.  This is what Raft promises; `Raft` says
how far the code keeps the promise; what `Service` shows holds, or fails, even where
it is kept.

* Applying entry by entry instead of in a batch is sound because the commit
  index may also advance entry by entry, and other threads wait for the lock.
* `BeginEnd` - `SubmitDelete` - `FinishEnd` is the end of a lease: the entry's
  apply calls back into `submit_command`, with the node's lock (re-entrant) and
  the lock of the leases (not re-entrant) held.  Each submission also applies
  what is committed by then (`upto`, since no message is handled meanwhile; in a
  cluster of one, the delete itself).  If that command wants the lock of the
  leases, the thread waits for itself: `Block`, and `stuck` for ever.  The store
  has been changed by then, the leases have not.
* A replica with `ending # Idle` holds its node's lock: no call, expiry check,
  commit or election takes place there.
* The callback at a replica that does not lead submits nothing, so a lease ends
  there in one step.
* `RunOut` is the leader's clock passing an expire time.  Other clocks decide
  nothing, for the loop asks only at the leader; a new leader's clock may have
  run out at once.  A keepalive sets the lease back.
* `CheckLeases` and `SubmitExpire` are two steps, as the list that
  `get_expired_leases` returns is worked off without a lock.
* A call is in progress until the client calls again: a call that times out is
  one that is followed by another without an answer.
* What a leader that has been replaced without knowing it still accepts is never
  committed, so such submissions are left out, as are answers to them.
* A new leader applies what was committed before; in the code its commit index may
  learn of it later, which delays its applying.

* `Ask` is a call whose answer its caller looks at, `Tell` one whose answer nobody
  looks at; a caller that waits for such an answer may wait for five seconds in
  vain, so that waiting is no step.  `Call` is an `Ask` of an ordinary client.

### Locks

Each client has one lock object, at a server of its own that may or may not be the
leader's.  The steps are what happens between two moments at which other threads
can come in:

| Action | Code |
|---|---|
| `Acquire` | `DistributedLock.acquire`, `LockManager.acquire` up to the submission of the grant |
| `GrantFails` | the grant is refused or not answered in time |
| `TakeLock` | the grant is answered, `put_if_absent` is submitted |
| `Holds` | the put has succeeded: `add_key_to_lease`, the daemon is started, the object is locked |
| `GiveUp` | the put was refused or not answered in time, the lease is revoked |
| `Release` (`FindGone`, `FindOther`, `FindOwn`) | `release` up to what it reads in the store of its own server |
| `DeleteLock`, `Revoke`, `EndRelease` | the delete, the revocation, and what `release` makes of the answer to the delete |
| `Crash` | `simulate_crash`: the daemon stops, all else stays |
| `Keepalive` | one round of a keepalive daemon |

* A retry within `acquire` (with a timeout) asks for another lease and another put:
  it is another `Acquire`.  The result and the event of an attempt that timed out
  are not reused by the next one, and nothing else is kept between attempts.
* `callback` of `acquire` writes into variables that the attempts of one call share.
  Under a leader that stays, entries are applied in the order of their
  submission, so the late answer to an earlier put comes before that to the
  later grant, and the later attempt has reset the result by then.
* `Holds` lists the key at this one server and outside the log, as the code does,
  and starts a daemon only if the lease still exists there.  A `LockLeaseWatcher`
  starts a second daemon and forgets how to stop the first one (`lost`).
* A keepalive of a lease whose time has not passed changes nothing that the model
  tells apart, so `Keepalive` waits until the lease is about to end.
* The lease of a grant is named by the replica that applies it and by its place
  in the log, as `StateMachine.DoGrant` models the uuid of each replica.

## 3. Runs

| Run | Instance | Result |
|---|---|---|
| `raft_replication` | 3 nodes; `s1` leads first, then `s1` and `s2` compete; 2 commands per term | one leader per term, log matching, requests merged as the protocol asks, commit prefixes, types |
| `raft_pair` | 2 nodes, 3 terms, any node may stand or be stopped and started at any time; 2 commands | the three inductive invariants that are proved below (`ElectionInv`, `MatchingInv`, `PairInv`), state machine safety, leader completeness, sound `match_index`, stable and durable commitment; the nodes implement `ReplicatedLog` |
| `raft_convergence` | 3 nodes, two leaders in succession, 3 commands, fairness | logs converge to a lasting leader's and are applied |
| `raft_replica_divergence` | 3 nodes, three leaders in turn, one command each | **violated**: replicas apply different commands |
| `watch_events` | 2 keys, every command and 5 transactions, 3 revisions, a history of 2 events, one watcher | events = data, delivery without loss or repetition, gaps announced |
| `watch_gap` | a transaction with two puts, twice, a history of 3 | **violated**: a gap inside the transaction of the start revision is not announced |
| `service_replicas` | 2 replicas, 3 calls of all kinds (cas and txn included), one change of leader, one expiry | replicas agree, leases list their own keys, answers are one's own while the leader stays, and what is in the log is answered at its own place only |
| `service_rebind_lost` | 2 replicas, 2 leases, one key that moves | **violated**: the old lease's end deletes the rebound key |
| `service_stuck` | 2 replicas, calls that grant and put, fairness | **violated**: an expired key stays for ever |
| `service_unnamed` | a grant without an id, 2 replicas | **violated**: replicas hold different leases |
| `locks` | 2 clients, one a `LockLeaseWatcher`, at any of 2 servers; one lease may run out and be renewed once | a holder loses its lock only to a delete meant for another; a successful release frees it; an abandoned lock is freed unless its put came too late |
| `lock_orphaned` | 1 client, 2 servers | **violated**: an abandoned lock stays for ever |

**Why these bounds.**  *Elections* names who may stand in which term, the one
thing that makes Raft's state space explode; two terms are enough for votes,
stale messages and overwritten logs, a third for an entry that comes back after
having been overwritten.  *Heartbeats* and `MaxQueue = 0` let a leader send a
heartbeat only when all queues are empty: heartbeats repeat what is known, so
that every different request is still sent, by submissions and retries.  Three
nodes are the smallest cluster in which a majority is not everybody; two nodes
leave room for stops and for three terms of free elections.  The properties of
commitment are checked with two nodes only, because with three the reported
`match_index` breaks them.  Two nodes cannot show everything: no log is ever cut there, and
the rule that a leader counts entries of its own term only (`raft.py:408`) never decides
anything.  In `watch_events` two keys and a history shorter than
two transactions make every eviction happen, and one watcher suffices because
watchers do not influence each other.  In `Service` one lease that expires, one key,
and a change of leader at any moment cover the interplay of deletes, expiries and
calls.  In `locks` the leader stays (`MaxChanges = 0`): what becomes of leases when
it changes is finding 5, and nothing a client does can work after it.  `MaxCalls`
counts the calls of a client, `MaxExpiries` the ends of one lease that are in the
log and not yet applied, `MaxPending` the entries that wait to be applied when
another call is made (two: a call and what comes between it and its effect; 9
where it should not matter), `MaxRenewals` the keepalives that are submitted for
one lease.  In `locks` each client acquires once, with one release; only the lease
of the first grant may run out (`Mortal`), so that the second client is the one
that meets a first holder which is slow, has crashed, is renewed or has released.
`Appliers` leaves the replica out that follows: no client of `locks` reads there
anything but an empty store, and the follower's machine is that of the leader
earlier (`ReplicasAgree`), but for the names of leases (finding 5).  Runs with server
symmetry check no liveness.

**Stopping.**  Every run switches the deadlock check off: once its bounds are used
up a model has nothing left to do, and the code itself may be idle for ever,
too, when nobody calls.

**Fairness.**  `Raft`: a running node's main loop never ends, so `HandleMessage`,
`ApplyCommitted` and `SendHeartbeats` are weakly fair; elections, submissions,
`Start` and `Stop` are not.  `Service`: `Commit`, `Apply`, the two steps of a lease's end
and the two of the expiry loop are weakly fair - each is the next thing some loop
does; clocks, calls and changes of leader are not.  A thread that is stuck has no
enabled step, so fairness demands nothing of it.  `Locks`: the same loops go on, a call
that has begun goes on, for all its waits are bounded by five seconds (`GoOn`),
and the time of a lease that nobody renews passes (`TimePasses`); nobody has to
acquire, release, crash, or renew in time.  One weak fairness stands for all
threads of the replicas and one for all calls.  That asks less than fairness for
each of them, and is enough because the steps a run can take are bounded.

## 4. Findings

Each is shown by a run, at the line given in `PROJECT.json`.

1. **`match_index` is too large** (`raft/raft.py:375`).  A follower answers with the
   end of its own log, not with the last index the request has checked.  If it
   still has entries of an old term there, the leader counts them as its own,
   commits an entry that no majority holds, and a later leader overwrites it after
   it has been applied.  Three nodes and three terms suffice.
2. **An unannounced gap** (`kvstore/watch.py:100`).  The history drops events, not
   revisions.  If it has dropped a part of a transaction, a watcher from that
   revision on gets the rest without a COMPACTED.
3. **A rebound key is lost** (`kvstore/lease.py:205`).  The deletes of an ended lease
   are unconditional and come into the log later than a put that is already
   there and that has moved the key to another lease.
4. **The apply thread waits for itself** (`kvstore/lease.py:114`).  Deletes are
   submitted under the lock of the leases.  In a cluster of one, the first of
   them is applied at once and asks for that lock when the key still names a
   lease; in a larger one, this takes a second lease command that is committed by
   then, such as the expiry of a second lease.  Both were reproduced with the
   program itself: the node never answers again.
5. **Lease ids differ between replicas** (`kvstore/lease.py:71`).  A grant without an
   id, which is what `LockManager.acquire` always sends, makes every replica invent
   one.  Followers know the lease under a name nobody uses.

6. **A lock nobody can free** (`kvstore/lock.py:56`).  Between the grant and the put
   of an acquisition nothing renews the lease.  If its end comes into the log
   first, the put still succeeds, bound to a lease that does not exist:
   `add_key_to_lease` and the daemon do nothing, `acquire` returns `True`, and
   when the holder crashes there is no lease left to expire.  `locks` shows that
   this and finding 4 are the only ways to such a lock while the leader stays.

What `locks` states as a property with an exception is worth knowing, too: a holder
may lose its lock to the delete of another's release or expiry (`Overtaken`), at
`lock.py:96` and `lease.py:205`, as finding 3 says of keys.

## 5. Proofs

All for every value of the constants, any number of nodes, clients, commands and
keys, and all bounds, under the assumptions the modules name: `ServerAssumption` (the
cluster is finite), `AwaitedAssumption`, `ElectionsAssumption` (terms are naturals),
`NoVoteAssumption` (`None` is no node id), `ServiceAssumption` (`Appliers` are servers,
`MaxCalls` is a natural), and in `Watch` `CommandsAssumption` (an operation has a key and a
value, a transaction is a list of operations), `KeyAssumption` (a notice, whose key is
`None`, is for no key) and `BoundsAssumption` (bounds are naturals).  Where a theorem needs
more, it says so in its statement, and below.

| Module | Obligations | Theorems |
|---|---|---|
| `RaftLogProofs` | 347 | `MergeCorrect` |
| `RaftProofs` | 1060 | `TypeCorrect`, `OneLeaderPerTerm`, `VotesSound` |
| `RaftMatchingProofs` | 1388 | `MatchingCorrect`, `LogsMatch`, `MergesMatchReference` |
| `RaftPairProofs` | 1826 | `PairCorrect` |
| `RaftCommitProofs` | 598 | `MachinesAgree`, `LeadersComplete`, `MatchesSound`, `AnswersDurable`, `CommitsStable`, `CommitsFollowLeader`, `NodesImplementLog` |
| `ServiceProofs` | 1991 | `ServiceTypeCorrect`, `AnswersRight`, `OthersAnswersMeanLost`, `ReplicasStayAlike`, `LeasesListOwn` |
| `LockProofs` | 3851 | `LockTypeCorrect`, `HoldersKeepLock`, `LocksAccountedFor`, `ReleasesFree` |
| `WatchProofs` | 2653 | `WatchTypeCorrect`, `EventsTellData`, `EventsTellPrev`, `WatchersKeepUp`, `NoticesComeFirst`, `GapsAreTold` |

### Raft, any cluster

* `TypeCorrect`: `Spec => []TypeOK`.  One lemma per handler; what they need of
  the log operators, among them that a `CHOOSE` of a first or a largest index
  finds one and that a merge yields a log, is in `RaftLogProofs`.  In particular,
  no index falls below -1 and no handler leaves a malformed message.
* `OneLeaderPerTerm`: `Spec => []ElectionSafety`.  `ElectionSafety` is not inductive:
  it says nothing of votes that are on their way.  The invariant is `VotesRemembered`
  (a voter whose vote is counted or is in a queue has not gone back to an earlier
  term and, while in that term, remembers the vote) with `OneVotePerTerm` and `LeadersElected`
  (a leader counts a majority).  `VotesKept` is the heart: a step that takes no vote
  out of nowhere and lets nobody forget one keeps the first two; each handler is
  then shown to be such a step.  Two leaders of one term would have two
  majorities, which meet in a voter with two votes.
* `VotesSound`: `Spec => []ElectionInv`, the same invariant for the terms a run can
  reach, which `raft_pair` also evaluates.
* `MergeCorrect`: `MergeEntries(log, entries) = MergeReference(log, i, entries)`, for logs
  over any type of entries with an index and a term.  The reference says that a
  log that holds all received entries stays as it is and that any other is cut
  where they start and ends with them; the code works entry by entry.
  Assumed are that entries stand at their indices (`Placed`, `PlacedAfter`)
  and that the request comes from a log that matches (`Matching`: an entry of
  the log that has the index and the term of a received one is preceded by the
  same entries).  The argument: with `k` the first received entry the log does
  not hold, what is before `k` is held at its place by `Matching`, so the part of
  the log that is kept and the rest of the request meet there without a gap.
* `LogsMatch`: `Spec => []LogMatching`.  That logs agree is not inductive, because a request
  may arrive when its sender's log has long been overwritten.  `MatchingInv` treats
  the logs of nodes and the parts of logs in requests alike, as *pieces*: any two
  pieces that know the same term at the same place agree up to there (`Agree`),
  and every term a piece knows was led by one node (`Authored`), which has the entry
  for as long as it is in that term.  So an entry that a leader appends cannot
  meet another of its term elsewhere.  `Led` remembers who led a term by the majority that
  can elect nobody else.  `MatchingCorrect` is the invariant itself; `raft_pair`
  evaluates it with two nodes, and it was also evaluated on the three nodes of
  `raft_replication`, which takes too long for a run.
* `MergesMatchReference`: what `MergeCorrect` assumes is true of every request that can be
  under way, so that `Spec => []MergeMatchesReference` needs no assumption.

### Raft, one or two nodes

The theorems about commitment assume `Cardinality(Server) \in {1, 2}`.  With three nodes
`StateMachineSafety` is false of the code (finding 1), and with it all of them that
rest on the reported `match_index`.

* `PairCorrect`: `PairInv` is inductive.  Where a majority is everybody, a leader has
  the vote of each node and so a log that is at least as long as each; hence no
  log is ever cut (`LogsNested`), a request carries what its sender still has
  (`RequestsHeld`), and what is committed or recorded in `match_index` is in every
  log (`CommitsHeld`), though the code reports the end of the log instead of what
  was checked.  `VotesCurrent` is what keeps a late vote or an old request for one
  from electing a node with another log.
* `MachinesAgree`, `LeadersComplete`, `MatchesSound`, `AnswersDurable` follow from it state by state,
  `CommitsStable` and `CommitsFollowLeader` step by step: `StateMachineSafety`, `LeaderCompleteness`,
  `MatchIndexSound`, `AnsweredIsDurable`, `CommittedStable`, `CommitsLeadersPrefix`.
* `NodesImplementLog`: `Spec => ImplementsReplicatedLog`, every step of the nodes maps to
  a step or a stutter of `ReplicatedLog`.

### Service

* `ServiceTypeCorrect`: `Shape` is the inductive part of `TypeOK`.  Records and functions
  are described by their fields, so that commands need no type.
* `AnswersRight`: `AnswersOwnCommand` is about answers that are there.  `FiledRight` (each
  callback is filed at the entry that carries its token) and `AnsweredRight` (each
  answer was given at the entry of the call it answers) are inductive until the
  leader first changes, which is where `AnswersOwnCommand` stops promising anything.
* `OthersAnswersMeanLost`: `OthersAnswerMeansLost`, through any changes of leader.  A new leader may
  put another command where a cut one was, and the old leader, which files callbacks by
  place, then gives its answer to the caller of the cut one; the run reaches this.
  `TokensRight` (a token stands at one place of the log at most, and that is where its
  callback is filed) and `AnsweredInPlace` are inductive, for a cut only takes entries away and
  a new call has a new token.  So such a caller may be told of success, but its
  command has been lost for good, and is not applied in addition.
* `ReplicasStayAlike`: `ReplicasAgree` through any changes of leader, clocks and stuck threads.
  `OneHistory` says that there is one sequence of machines, each made from the one
  before by the committed entry, and each replica that is not stuck is at one
  place of it.  It assumes that clients name the leases they ask for (`Named`):
  `service_unnamed` shows that it is false otherwise (finding 5).
* `LeasesListOwn`: `LeasesListOwnKeys`.  The lists of a machine are right (`Listed`) until the
  first compare-and-swap or transaction is applied there: every other command
  that binds or deletes a key tells the leases, whatever it finds.

### Locks

* `LockTypeCorrect`: `LockTypeOK` through any changes of leader.
* `HoldersKeepLock`, `LocksAccountedFor`, `ReleasesFree`: `HeldUntilOvertaken`, `AccountedFor` and
  `ReleasedIsFree` while the first leader stays, `LockSpec /\ [](changes = 0)`: later the leases
  have other names (finding 5).  They share one inductive invariant, `LockInv`,
  which was evaluated by TLC before it was proved.  It puts into words
  what an argument about such locks has to carry along:
  every entry of the log is one a client or the end of a lease asked for
  (`LogRight`), a put under a lease only by the client it was granted to, and
  before that client asks for its delete; a delete that is under way is that of a
  lease that has ended or of a client that has given the lock up (`DeletesRight`);
  the entry of a client's last call is the one its object waits for, and its lease
  was granted to it earlier (`LockersRight`); who renews a lease has had the lock
  under it (`RepliesRight`); and what the leader's machine binds was put there after the
  last delete (`MachineRight`, `BoundRight`).  So a holder that renews its lease
  has had the lock, the end of its lease or its own delete cannot have come,
  and whatever delete came after its put was meant for another: `Overtaken`.

### Watches

Every property that `watch_events` checks, for transactions of any length, any number
of watchers and any bound of the history; `StoreInv` and `WatchInv` are inductive.

* Recursive functions come with no induction that the provers can use.  For each of the
  three, `Selected`, `Replay` and `Steps`, one lemma shows that the function exists, so that the
  `CHOOSE` behind it finds one (`SelectionExists`, `ReplayIs`, `StepsExist`), by induction over an
  interval (`Upwards`, from the least counterexample); `ListsFollow` does the same for
  lists that grow by one event.
* `EventsTellData`, `EventsTellPrev`: a *story* is a list of events with the data before the first
  and after each of them, in which every event tells the value it replaces (`Story`).
  Stories can be joined (`StoryConcat`).  Every operation (`OpExplains`), every transaction
  (`TxnExplains`) and so every command raises a story from the data before it to the
  data after it; a transaction that fails raises none and restores the data, which is
  where `DoTxn_NoRollback` would break the proof.  `StoryReplays` is what follows for the
  replay.
* `WatchersKeepUp`, `NoticesComeFirst`, `GapsAreTold`: none of them is inductive, as they do not say
  from which event on a watcher has been told.  `Told` does: there is a `j` such that it
  got the matching ones of all events after the `j`-th, and either a notice that names the
  revision of the next one, or none because nothing before is missing but, perhaps,
  events of its start revision (`Complete`).  `Remembers` says that the history is the end of what
  has been handed over, and `Ordered` that revisions never fall.
* `GapsAreTold` assumes `MaxHistory # 0`.  With `max_history = 0`, which the constructor does not
  refuse, the history is always empty and no gap is ever told.

### Only model-checked

Liveness (`ReplicasConverge`, `KeysReleased`, `LockFreedUnlessLate`, `LockFreed`) and what depends on
ENABLED are beyond the proof system.  The properties that a run shows to be violated have no proof, of course; the exceptions with which
they hold (`Overtaken`, `PutTooLate`, one or two nodes, named leases) are in the theorems.

## 6. Not modelled

* The server's `get_leader` and the starting and stopping of servers: clients of the
  model talk to a server of their own, whoever leads.
* A change of leader while locks are held: the new leader has other names for the
  leases (finding 5), so that it can neither renew nor end them.
* `LockServiceClient`: it hands every call to its server.
* `snapshot` and `restore`: no code calls them.
* Callbacks of watchers: user code.  `get`, `get_*`, `is_*`: they change nothing.
* `state_machine.py`: an interface without behaviour.  `example.py` and `debug_*.py`: drivers;
  what the demonstrations in `example.py` announce is what findings are held against.
* Wall-clock time, except as "may have elapsed".

## 7. Plan

1. A second refinement: an election as a set of votes, which `Raft` refines.
2. Locks over several leaders, once finding 5 is repaired: whether the lease of a
   lock survives the change, and what `get_leader` may read.
