----------------------------- MODULE LockProofs -----------------------------
(***************************************************************************)
(* The clients of a lock, for any number of them and of replicas and for   *)
(* every bound.                                                            *)
(***************************************************************************)
EXTENDS LockProperties, ServiceProofs

-----------------------------------------------------------------------------
(* What a client does to its lock object.                                   *)

Object(n, step, lease, locked, daemons) ==
  [server |-> n, step |-> step, lease |-> lease, locked |-> locked,
   daemons |-> daemons]

IsObject(x) == x = Object(x.server, x.step, x.lease, x.locked, x.daemons)

ObjectsShape == DOMAIN locker = Client /\ \A c \in Client : IsObject(locker[c])

\* c's object becomes x, the others stay as they are.
Becomes(c, x) ==
  /\ DOMAIN locker' = Client
  /\ locker'[c] = x
  /\ \A d \in Client : d # c => locker'[d] = locker[d]

\* A lease and a token are pairs, so they are not the empty tuple.
LEMMA PairIsOne ==
  ASSUME NEW x, NEW y
  PROVE  << x, y >> # << >>
<1>1. Len(<< x, y >>) = 2 /\ Len(<< >>) = 0
  OBVIOUS
<1>2. QED
  BY <1>1

\* acquire, once it is not locked, waits for a grant.
LEMMA AcquireObject ==
  ASSUME ObjectsShape, NEW c \in Client, Acquire(c)
  PROVE  LET o == locker[c]
         IN  Becomes(c, Object(o.server, "granting", o.lease, o.locked, o.daemons))
  BY DEF ObjectsShape, IsObject, Object, Acquire, Becomes

\* Without a grant, acquire returns.
LEMMA GrantFailsObject ==
  ASSUME ObjectsShape, NEW c \in Client, GrantFails(c)
  PROVE  LET o == locker[c]
         IN  Becomes(c, Object(o.server, "idle", o.lease, o.locked, o.daemons))
  BY DEF ObjectsShape, IsObject, Object, GrantFails, Becomes

\* With a grant, acquire goes on to put the key under the new lease.
LEMMA TakeLockObject ==
  ASSUME ObjectsShape, NEW c \in Client, TakeLock(c)
  PROVE  LET o == locker[c]
         IN  Becomes(c, Object(o.server, "putting", calls[c].answer.lease, o.locked,
                               o.daemons))
<1> DEFINE o == locker[c]
<1>1. o = Object(o.server, o.step, o.lease, o.locked, o.daemons)
  BY DEF ObjectsShape, IsObject
<1>2. /\ locker'[c] = [o EXCEPT !.step = "putting", !.lease = calls[c].answer.lease]
      /\ DOMAIN locker' = Client
      /\ \A d \in Client : d # c => locker'[d] = locker[d]
  BY DEF ObjectsShape, TakeLock
<1> HIDE DEF o
<1>3. PICK g : g = [o EXCEPT !.step = "putting"]
  BY Zenon
<1>4. g = Object(o.server, "putting", o.lease, o.locked, o.daemons)
  BY <1>1, <1>3 DEF Object
<1>5. locker'[c] = [g EXCEPT !.lease = calls[c].answer.lease]
  BY <1>2, <1>3
<1>6. locker'[c] = Object(o.server, "putting", calls[c].answer.lease, o.locked, o.daemons)
  BY <1>4, <1>5 DEF Object
<1>7. QED
  BY <1>2, <1>6 DEF o, Becomes

\* The put has succeeded: the object is locked, its lease is renewed.
LEMMA HoldsObject ==
  ASSUME ObjectsShape, NEW c \in Client, Holds(c)
  PROVE  LET o == locker[c]
         IN  Becomes(c, Object(o.server, "idle", o.lease, TRUE,
               o.daemons \cup (IF o.lease \in DOMAIN machine[o.server].leases
                               THEN Daemons(c, o.lease) ELSE {})))
<1> DEFINE o == locker[c]
           D == IF o.lease \in DOMAIN machine[o.server].leases
                THEN Daemons(c, o.lease) ELSE {}
<1>1. o = Object(o.server, o.step, o.lease, o.locked, o.daemons)
  BY DEF ObjectsShape, IsObject
<1>2. PICK E : E = o.daemons \cup D
  BY Zenon
<1>3. /\ locker'[c] = [o EXCEPT !.step = "idle", !.locked = TRUE, !.daemons = E]
      /\ DOMAIN locker' = Client
      /\ \A d \in Client : d # c => locker'[d] = locker[d]
  <2>1. locker' = [locker EXCEPT ![c].step = "idle", ![c].locked = TRUE,
                                 ![c].daemons = @ \cup D]
    BY DEF Holds
  <2> HIDE DEF D
  <2>2. QED
    BY <1>2, <2>1 DEF ObjectsShape
<1> HIDE DEF o, D
<1>4. PICK g : g = [o EXCEPT !.step = "idle"]
  BY Zenon
<1>5. g = Object(o.server, "idle", o.lease, o.locked, o.daemons)
  BY <1>1, <1>4 DEF Object
<1>6. PICK h : h = [g EXCEPT !.locked = TRUE]
  BY Zenon
<1>7. h = Object(o.server, "idle", o.lease, TRUE, o.daemons)
  BY <1>5, <1>6 DEF Object
<1>8. locker'[c] = [h EXCEPT !.daemons = E]
  BY <1>3, <1>4, <1>6
<1>9. locker'[c] = Object(o.server, "idle", o.lease, TRUE, E)
  BY <1>7, <1>8 DEF Object
<1>10. QED
  BY <1>2, <1>3, <1>9 DEF o, D, Becomes

\* The put has not: the object forgets the lease.
LEMMA GiveUpObject ==
  ASSUME ObjectsShape, NEW c \in Client, GiveUp(c)
  PROVE  LET o == locker[c]
         IN  Becomes(c, Object(o.server, "idle", NoLease, o.locked, o.daemons))
<1> DEFINE o == locker[c]
<1>1. o = Object(o.server, o.step, o.lease, o.locked, o.daemons)
  BY DEF ObjectsShape, IsObject
<1>2. /\ locker'[c] = [o EXCEPT !.step = "idle", !.lease = NoLease]
      /\ DOMAIN locker' = Client
      /\ \A d \in Client : d # c => locker'[d] = locker[d]
  BY DEF ObjectsShape, GiveUp
<1> HIDE DEF o
<1>3. PICK g : g = [o EXCEPT !.step = "idle"]
  BY Zenon
<1>4. g = Object(o.server, "idle", o.lease, o.locked, o.daemons)
  BY <1>1, <1>3 DEF Object
<1>5. locker'[c] = [g EXCEPT !.lease = NoLease]
  BY <1>2, <1>3
<1>6. locker'[c] = Object(o.server, "idle", NoLease, o.locked, o.daemons)
  BY <1>4, <1>5 DEF Object
<1>7. QED
  BY <1>2, <1>6 DEF o, Becomes

\* release of a key that is gone: the object forgets the lock and its lease.
LEMMA FindGoneObject ==
  ASSUME ObjectsShape, NEW c \in Client, FindGone(c)
  PROVE  LET o == locker[c]
         IN  Becomes(c, Object(o.server, o.step, NoLease, FALSE, Unstopped(c)))
<1> DEFINE o == locker[c]
<1>1. o = Object(o.server, o.step, o.lease, o.locked, o.daemons)
  BY DEF ObjectsShape, IsObject
<1>2. /\ locker'[c] = [o EXCEPT !.daemons = Unstopped(c), !.locked = FALSE, !.lease = NoLease]
      /\ DOMAIN locker' = Client
      /\ \A d \in Client : d # c => locker'[d] = locker[d]
  BY DEF ObjectsShape, FindGone
<1> HIDE DEF o
<1>3. PICK g : g = [o EXCEPT !.daemons = Unstopped(c)]
  BY Zenon
<1>4. g = Object(o.server, o.step, o.lease, o.locked, Unstopped(c))
  BY <1>1, <1>3 DEF Object
<1>5. PICK h : h = [g EXCEPT !.locked = FALSE]
  BY Zenon
<1>6. h = Object(o.server, o.step, o.lease, FALSE, Unstopped(c))
  BY <1>4, <1>5 DEF Object
<1>7. locker'[c] = [h EXCEPT !.lease = NoLease]
  BY <1>2, <1>3, <1>5
<1>8. locker'[c] = Object(o.server, o.step, NoLease, FALSE, Unstopped(c))
  BY <1>6, <1>7 DEF Object
<1>9. QED
  BY <1>2, <1>8 DEF o, Becomes

\* release of a key that is another's: only the daemon stops.
LEMMA FindOtherObject ==
  ASSUME ObjectsShape, NEW c \in Client, FindOther(c)
  PROVE  LET o == locker[c]
         IN  Becomes(c, Object(o.server, o.step, o.lease, o.locked, Unstopped(c)))
  BY DEF ObjectsShape, IsObject, Object, FindOther, Becomes

\* release of its own key goes on to delete it.
LEMMA FindOwnObject ==
  ASSUME ObjectsShape, NEW c \in Client, FindOwn(c)
  PROVE  LET o == locker[c]
         IN  Becomes(c, Object(o.server, "checked", o.lease, o.locked, Unstopped(c)))
<1> DEFINE o == locker[c]
<1>1. o = Object(o.server, o.step, o.lease, o.locked, o.daemons)
  BY DEF ObjectsShape, IsObject
<1>2. /\ locker'[c] = [o EXCEPT !.daemons = Unstopped(c), !.step = "checked"]
      /\ DOMAIN locker' = Client
      /\ \A d \in Client : d # c => locker'[d] = locker[d]
  BY DEF ObjectsShape, FindOwn
<1> HIDE DEF o
<1>3. PICK g : g = [o EXCEPT !.daemons = Unstopped(c)]
  BY Zenon
<1>4. g = Object(o.server, o.step, o.lease, o.locked, Unstopped(c))
  BY <1>1, <1>3 DEF Object
<1>5. locker'[c] = [g EXCEPT !.step = "checked"]
  BY <1>2, <1>3
<1>6. locker'[c] = Object(o.server, "checked", o.lease, o.locked, Unstopped(c))
  BY <1>4, <1>5 DEF Object
<1>7. QED
  BY <1>2, <1>6 DEF o, Becomes

\* ... submits the delete ...
LEMMA DeleteLockObject ==
  ASSUME ObjectsShape, NEW c \in Client, DeleteLock(c)
  PROVE  LET o == locker[c]
         IN  Becomes(c, Object(o.server, "deleting", o.lease, o.locked, o.daemons))
  BY DEF ObjectsShape, IsObject, Object, DeleteLock, Becomes

\* ... revokes the lease ...
LEMMA RevokeObject ==
  ASSUME ObjectsShape, NEW c \in Client, Revoke(c)
  PROVE  LET o == locker[c]
         IN  Becomes(c, Object(o.server, "ending", o.lease, o.locked, o.daemons))
  BY DEF ObjectsShape, IsObject, Object, Revoke, Becomes

\* ... and forgets the lock if the delete has been answered.
LEMMA EndReleaseObject ==
  ASSUME ObjectsShape, NEW c \in Client, EndRelease(c)
  PROVE  LET o == locker[c]
         IN  IF Told(c)
             THEN Becomes(c, Object(o.server, "idle", NoLease, FALSE, o.daemons))
             ELSE Becomes(c, Object(o.server, "idle", o.lease, TRUE, o.daemons))
<1> DEFINE o == locker[c]
<1>1. o = Object(o.server, o.step, o.lease, o.locked, o.daemons)
  BY DEF ObjectsShape, IsObject
<1>2. PICK b : b = ~Told(c)
  BY Zenon
<1>3. PICK l : l = IF Told(c) THEN NoLease ELSE o.lease
  BY Zenon
<1>4. /\ locker'[c] = [o EXCEPT !.step = "idle", !.locked = b, !.lease = l]
      /\ DOMAIN locker' = Client
      /\ \A d \in Client : d # c => locker'[d] = locker[d]
  <2>1. locker' = [locker EXCEPT ![c].step = "idle", ![c].locked = ~Told(c),
                                 ![c].lease = IF Told(c) THEN NoLease ELSE @]
    BY DEF EndRelease
  <2>2. locker' = [locker EXCEPT ![c].step = "idle", ![c].locked = b,
                                 ![c].lease = IF Told(c) THEN NoLease ELSE @]
    BY <1>2, <2>1, Zenon
  <2>3. QED
    BY <1>3, <2>2 DEF ObjectsShape
<1> HIDE DEF o
<1>5. PICK g : g = [o EXCEPT !.step = "idle"]
  BY Zenon
<1>6. g = Object(o.server, "idle", o.lease, o.locked, o.daemons)
  BY <1>1, <1>5 DEF Object
<1>7. PICK h : h = [g EXCEPT !.locked = b]
  BY Zenon
<1>8. h = Object(o.server, "idle", o.lease, b, o.daemons)
  BY <1>6, <1>7 DEF Object
<1>9. locker'[c] = [h EXCEPT !.lease = l]
  BY <1>4, <1>5, <1>7
<1>10. locker'[c] = Object(o.server, "idle", l, b, o.daemons)
  BY <1>8, <1>9 DEF Object
<1>11. Becomes(c, Object(o.server, "idle", l, b, o.daemons))
  BY <1>4, <1>10 DEF Becomes
<1>12. CASE Told(c)
  <2>1. l = NoLease /\ b = FALSE
    BY <1>2, <1>3, <1>12, Zenon
  <2>2. QED
    BY <1>11, <1>12, <2>1, Zenon DEF o
<1>13. CASE ~Told(c)
  <2>1. l = o.lease /\ b = TRUE
    BY <1>2, <1>3, <1>13, Zenon
  <2>2. QED
    BY <1>11, <1>13, <2>1, Zenon DEF o
<1>14. QED
  BY <1>12, <1>13, Zenon

\* A crash stops the daemons and nothing else.
LEMMA CrashObject ==
  ASSUME ObjectsShape, NEW c \in Client, Crash(c)
  PROVE  LET o == locker[c]
         IN  Becomes(c, Object(o.server, o.step, o.lease, o.locked, {}))
  BY DEF ObjectsShape, IsObject, Object, Crash, Becomes

-----------------------------------------------------------------------------
(* The shape of the state, as far as Service knows it.                      *)

\* To hold a lock lists it with its lease, at one replica (Holds).
LEMMA HoldsEffect ==
  ASSUME ReplicaShape, NEW c \in Client, NEW n \in Server, n = locker[c].server,
         Holds(c)
  PROVE  /\ DOMAIN machine' = Server
         /\ IsMachine(machine'[n])
         /\ \A m \in Server : m # n => machine'[m] = machine[m]
         /\ machine'[n].data = machine[n].data
         /\ machine'[n].leases = AddKey(machine[n].leases, locker[c].lease, Lock)
<1> DEFINE sm == machine[n]
           new == AddKey(sm.leases, locker[c].lease, Lock)
<1>1. IsMachine(sm)
  BY DEF ReplicaShape
<1>2. machine' = [machine EXCEPT ![n] = [sm EXCEPT !.leases = new]]
  BY DEF Holds
<1>3. IsLeases(new)
  BY <1>1, AddKeyLeases DEF IsMachine
<1> HIDE DEF new
<1>4. [sm EXCEPT !.leases = new]
        = [data |-> sm.data, revision |-> sm.revision, leases |-> new]
  BY <1>1 DEF IsMachine
<1>5. /\ DOMAIN machine' = Server
      /\ machine'[n] = [data |-> sm.data, revision |-> sm.revision, leases |-> new]
      /\ \A m \in Server : m # n => machine'[m] = machine[m]
  BY <1>2, <1>4 DEF ReplicaShape
<1>6. IsMachine(machine'[n])
  BY <1>3, <1>5 DEF IsMachine
<1>7. QED
  BY <1>5, <1>6 DEF new

\* ... and so keeps the shape of the state.
LEMMA HoldsShape ==
  ASSUME Shape, NEW c \in Client, locker[c].server \in Server, Holds(c)
  PROVE  Shape'
<1>1. UNCHANGED <<raft, log, committed, applied, ending, stuck, checked, callbacks,
                  calls>>
  BY DEF Holds
<1>2. DOMAIN machine' = Server /\ \A m \in Server : IsMachine(machine'[m])
  BY HoldsEffect DEF Shape, ReplicaShape
<1>3. \A m \in Server : Busy(m)' <=> Busy(m)
  BY <1>1 DEF Busy
<1>4. ReplicaShape'
  BY <1>1, <1>2, <1>3 DEF Shape, ReplicaShape
<1>5. QED
  BY <1>1, <1>4 DEF Shape, LogShape, CallShape, raft

-----------------------------------------------------------------------------
(* The steps of Locks, by what they do to the replicas.                     *)

\* A client's object changes alone.
AloneStep(c) == GrantFails(c) \/ Release(c) \/ EndRelease(c) \/ Crash(c)

\* A client submits a command and looks at its answer, or does not.
AskStep(c) == Acquire(c) \/ TakeLock(c) \/ DeleteLock(c)
TellStep(c) == GiveUp(c) \/ Revoke(c) \/ Keepalive(c)

QuietStep == (Background \/ UNCHANGED vars) /\ UNCHANGED locker

\* Every step is one of these.
LEMMA LockSteps ==
  ASSUME [LockNext]_lockVars
  PROVE  \/ QuietStep
         \/ \E c \in Client :
              AloneStep(c) \/ AskStep(c) \/ TellStep(c) \/ Holds(c)
  BY DEF LockNext, lockVars, QuietStep, AloneStep, AskStep, TellStep, GoOn

\* Alone steps leave the replicas alone.
LEMMA AloneSteps ==
  ASSUME NEW c \in Client, AloneStep(c)
  PROVE  UNCHANGED vars
  BY DEF AloneStep, GrantFails, Release, EndRelease, Crash

\* What c asks for in each of its calls, and whom.
Asked(c) ==
  CASE At(c, "granting") -> PutCommand(calls[c].answer.lease)
    [] At(c, "checked")  -> [type |-> "delete", key |-> Lock]
    [] OTHER             -> [type |-> "lease_grant", lease |-> NoLease]

\* An asking step is a call of that command.
LEMMA AskSteps ==
  ASSUME NEW c \in Client, AskStep(c)
  PROVE  \E lease : Ask(c, locker[c].server, Asked(c), lease)
<1>1. CASE Acquire(c)
  <2>1. /\ Ask(c, locker[c].server, [type |-> "lease_grant", lease |-> NoLease], NoLease)
        /\ locker[c].step = "idle"
    BY <1>1 DEF Acquire, At
  <2>2. Asked(c) = [type |-> "lease_grant", lease |-> NoLease]
    BY <2>1 DEF Asked, At
  <2>3. QED
    BY <2>1, <2>2, Zenon
<1>2. CASE TakeLock(c)
  <2>1. /\ Ask(c, locker[c].server, PutCommand(calls[c].answer.lease), NoLease)
        /\ At(c, "granting")
    BY <1>2 DEF TakeLock
  <2>2. Asked(c) = PutCommand(calls[c].answer.lease)
    BY <2>1 DEF Asked, At
  <2>3. QED
    BY <2>1, <2>2, Zenon
<1>3. CASE DeleteLock(c)
  <2>1. /\ Ask(c, locker[c].server, [type |-> "delete", key |-> Lock], locker[c].lease)
        /\ At(c, "checked")
    BY <1>3 DEF DeleteLock
  <2>2. Asked(c) = [type |-> "delete", key |-> Lock]
    BY <2>1 DEF Asked, At
  <2>3. QED
    BY <2>1, <2>2, Zenon
<1>4. QED
  BY <1>1, <1>2, <1>3 DEF AskStep

\* A telling step submits a command without a call.
LEMMA TellSteps ==
  ASSUME NEW c \in Client, TellStep(c)
  PROVE  \E cmd : Tell(locker[c].server, cmd)
  BY DEF TellStep, GiveUp, Revoke, Keepalive

\* Every step keeps the shape of the state.
LEMMA LockShape ==
  ASSUME Shape, \A c \in Client : locker[c].server \in Server,
         [LockNext]_lockVars
  PROVE  Shape'
<1>1. CASE QuietStep
  BY <1>1, BackgroundShape, StutterShape DEF QuietStep
<1>2. ASSUME NEW c \in Client, AloneStep(c)
      PROVE  Shape'
  BY <1>2, AloneSteps, StutterShape
<1>3. ASSUME NEW c \in Client, AskStep(c)
      PROVE  Shape'
  BY <1>3, AskSteps, AskShape
<1>4. ASSUME NEW c \in Client, TellStep(c)
      PROVE  Shape'
  BY <1>4, TellSteps, TellShape
<1>5. ASSUME NEW c \in Client, Holds(c)
      PROVE  Shape'
  BY <1>5, HoldsShape
<1>6. QED
  BY <1>1, <1>2, <1>3, <1>4, <1>5, LockSteps

\* A client has called once more when it asks ...
LEMMA CountAsked ==
  ASSUME Shape, NEW c \in Client, AskStep(c)
  PROVE  /\ calls'[c].count = calls[c].count + 1
         /\ calls'[c].answer = NoAnswer
         /\ \A d \in Client : d # c => calls'[d] = calls[d]
<1>1. PICK lease : Ask(c, locker[c].server, Asked(c), lease)
  BY AskSteps
<1>2. /\ calls'[c] = [count |-> calls[c].count + 1, answer |-> NoAnswer]
      /\ \A d \in Client : d # c => calls'[d] = calls[d]
  BY <1>1, AskedCall DEF Shape
<1>3. QED
  BY <1>2

\* ... else no count changes.
LEMMA CountKept ==
  ASSUME Shape, NEW c \in Client,
         \/ QuietStep
         \/ \E d \in Client : AloneStep(d) \/ TellStep(d) \/ Holds(d)
  PROVE  calls'[c].count = calls[c].count
<1>1. CASE QuietStep
  BY <1>1, CallsCounted DEF QuietStep
<1>2. ASSUME NEW d \in Client, AloneStep(d) \/ TellStep(d) \/ Holds(d)
      PROVE  calls' = calls
  <2>1. CASE AloneStep(d)
    BY <2>1, AloneSteps DEF vars
  <2>2. CASE TellStep(d)
    BY SMTT(60), <2>2, TellSteps DEF Tell
  <2>3. CASE Holds(d)
    BY <2>3 DEF Holds
  <2>4. QED
    BY <1>2, <2>1, <2>2, <2>3
<1>3. QED
  BY <1>1, <1>2

-----------------------------------------------------------------------------
(* Lock objects are what they should be.                                    *)

\* What the types of LockTypeOK rest on: how often a client can have called
\* when its object has got so far.
ObjectRight(c) ==
  LET o == locker[c]
      k == calls[c].count
  IN  /\ o.server \in Server
      /\ k <= MaxCalls + 2
      /\ o.locked => o.lease # NoLease
      /\ o.step = "granting" => ~o.locked /\ k <= MaxCalls
      /\ o.step = "putting" => ~o.locked /\ o.lease # NoLease /\ k <= MaxCalls + 1
      /\ o.step = "checked" => k <= MaxCalls + 1
      /\ o.step \in {"checked", "deleting", "ending"} => o.locked
      /\ \A d \in o.daemons : d.lease # NoLease /\ (d.lost => c \in Watcher)

ObjectsRight == ObjectsShape /\ \A c \in Client : ObjectRight(c)

\* An object that has not changed stays right while its client does not call.
LEMMA OthersRight ==
  ASSUME NEW c \in Client, ObjectRight(c), locker'[c] = locker[c],
         calls'[c].count = calls[c].count
  PROVE  ObjectRight(c)'
  BY DEF ObjectRight

\* The fields of an object.
LEMMA ObjectFields ==
  ASSUME NEW n, NEW s, NEW l, NEW b, NEW D
  PROVE  LET o == Object(n, s, l, b, D)
         IN  /\ o.server = n /\ o.step = s /\ o.lease = l
             /\ o.locked = b /\ o.daemons = D
             /\ IsObject(o)
  BY DEF Object, IsObject

\* The objects keep their shape when one of them becomes another object.
LEMMA BecomesShape ==
  ASSUME ObjectsShape, NEW c \in Client, NEW n, NEW s, NEW l, NEW b, NEW D,
         Becomes(c, Object(n, s, l, b, D))
  PROVE  /\ ObjectsShape'
         /\ locker'[c].server = n /\ locker'[c].step = s /\ locker'[c].lease = l
         /\ locker'[c].locked = b /\ locker'[c].daemons = D
         /\ \A d \in Client : d # c => locker'[d] = locker[d]
  BY ObjectFields DEF Becomes, ObjectsShape

\* The step of one client that leaves its object right leaves all right.
LEMMA OneRight ==
  ASSUME ObjectsRight, NEW c \in Client, ObjectRight(c)', ObjectsShape',
         \A d \in Client : d # c => /\ locker'[d] = locker[d]
                                    /\ calls'[d].count = calls[d].count
  PROVE  ObjectsRight'
  BY OthersRight DEF ObjectsRight

\* A client that does not call leaves the counts alone.
LEMMA NoCallCounts ==
  ASSUME Shape, NEW c \in Client, AloneStep(c) \/ TellStep(c) \/ Holds(c)
  PROVE  \A d \in Client : calls'[d].count = calls[d].count
  BY CountKept

\* LockManager.acquire leaves its object right.
LEMMA AcquireRight ==
  ASSUME Shape, ObjectsRight, NEW c \in Client,
         Acquire(c) \/ GrantFails(c) \/ TakeLock(c)
  PROVE  ObjectsRight'
<1>0. /\ MaxCalls \in Nat /\ calls[c].count \in Nat
      /\ ObjectsShape /\ ObjectRight(c)
  BY ServiceAssumption DEF Shape, CallShape, ObjectsRight
<1>1. CASE Acquire(c)
  <2>1. /\ ObjectsShape' /\ locker'[c].server = locker[c].server
        /\ locker'[c].step = "granting"
        /\ locker'[c].lease = locker[c].lease
        /\ locker'[c].locked = locker[c].locked
        /\ locker'[c].daemons = locker[c].daemons
        /\ \A d \in Client : d # c => locker'[d] = locker[d]
    BY <1>0, <1>1, AcquireObject, BecomesShape
  <2>2. /\ calls'[c].count = calls[c].count + 1
        /\ \A d \in Client : d # c => calls'[d] = calls[d]
    BY <1>1, CountAsked DEF AskStep
  <2>3. ~locker[c].locked /\ calls[c].count < MaxCalls
    BY <1>1 DEF Acquire
  <2>4. ObjectRight(c)'
    BY <1>0, <2>1, <2>2, <2>3 DEF ObjectRight
  <2>5. QED
    BY <2>1, <2>2, <2>4, OneRight
<1>2. CASE GrantFails(c)
  <2>1. /\ ObjectsShape' /\ locker'[c].server = locker[c].server
        /\ locker'[c].step = "idle"
        /\ locker'[c].lease = locker[c].lease
        /\ locker'[c].locked = locker[c].locked
        /\ locker'[c].daemons = locker[c].daemons
        /\ \A d \in Client : d # c => locker'[d] = locker[d]
    BY <1>0, <1>2, GrantFailsObject, BecomesShape
  <2>2. \A d \in Client : calls'[d].count = calls[d].count
    BY <1>2, NoCallCounts DEF AloneStep
  <2>3. ObjectRight(c)'
    BY <1>0, <2>1, <2>2 DEF ObjectRight
  <2>4. QED
    BY <2>1, <2>2, <2>3, OneRight
<1>3. CASE TakeLock(c)
  <2>1. /\ ObjectsShape' /\ locker'[c].server = locker[c].server
        /\ locker'[c].step = "putting"
        /\ locker'[c].lease = calls[c].answer.lease
        /\ locker'[c].locked = locker[c].locked
        /\ locker'[c].daemons = locker[c].daemons
        /\ \A d \in Client : d # c => locker'[d] = locker[d]
    BY <1>0, <1>3, TakeLockObject, BecomesShape
  <2>2. /\ calls'[c].count = calls[c].count + 1
        /\ \A d \in Client : d # c => calls'[d] = calls[d]
    BY <1>3, CountAsked DEF AskStep
  <2>3. locker[c].step = "granting" /\ calls[c].answer.lease # NoLease
    BY <1>3 DEF TakeLock, At, Granted
  <2>4. ObjectRight(c)'
    BY <1>0, <2>1, <2>2, <2>3 DEF ObjectRight
  <2>5. QED
    BY <2>1, <2>2, <2>4, OneRight
<1>4. QED
  BY <1>1, <1>2, <1>3

\* The end of an acquisition leaves the object right.
LEMMA PutRight ==
  ASSUME Shape, ObjectsRight, NEW c \in Client, Holds(c) \/ GiveUp(c)
  PROVE  ObjectsRight'
<1>0. /\ MaxCalls \in Nat /\ calls[c].count \in Nat
      /\ ObjectsShape /\ ObjectRight(c)
  BY ServiceAssumption DEF Shape, CallShape, ObjectsRight
<1>1. \A d \in Client : calls'[d].count = calls[d].count
  BY NoCallCounts DEF TellStep
<1>2. locker[c].step = "putting" /\ locker[c].lease # NoLease
  BY <1>0 DEF Holds, GiveUp, At, ObjectRight
<1>3. CASE Holds(c)
  <2>1. PICK D : D = locker[c].daemons \cup
                       (IF locker[c].lease \in DOMAIN machine[locker[c].server].leases
                        THEN Daemons(c, locker[c].lease) ELSE {})
    BY Zenon
  <2>2. ASSUME NEW yes, yes = TRUE
        PROVE  Becomes(c, Object(locker[c].server, "idle", locker[c].lease, yes, D))
    <3>1. Becomes(c, Object(locker[c].server, "idle", locker[c].lease, TRUE, D))
      BY <1>0, <1>3, <2>1, HoldsObject
    <3>2. QED
      BY <2>2, <3>1, Zenon
  <2>3. /\ ObjectsShape' /\ locker'[c].server = locker[c].server
        /\ locker'[c].step = "idle"
        /\ locker'[c].lease = locker[c].lease
        /\ locker'[c].daemons = D
        /\ \A d \in Client : d # c => locker'[d] = locker[d]
    <3>1. PICK yes : Becomes(c, Object(locker[c].server, "idle", locker[c].lease,
                                       yes, D))
      BY <2>2, Zenon
    <3>2. QED
      BY <1>0, <3>1, BecomesShape
  <2>4. \A d \in D : \/ d \in locker[c].daemons
                     \/ d.lease = locker[c].lease /\ (d.lost => c \in Watcher)
    BY <2>1 DEF Daemons
  <2>5. \A d \in D : d.lease # NoLease /\ (d.lost => c \in Watcher)
    BY <1>0, <1>2, <2>4 DEF ObjectRight
  <2>6. ObjectRight(c)'
    BY <1>0, <1>1, <1>2, <2>3, <2>5 DEF ObjectRight
  <2>7. QED
    BY <1>1, <2>3, <2>6, OneRight
<1>4. CASE GiveUp(c)
  <2>1. /\ ObjectsShape' /\ locker'[c].server = locker[c].server
        /\ locker'[c].step = "idle"
        /\ locker'[c].lease = NoLease
        /\ locker'[c].locked = locker[c].locked
        /\ locker'[c].daemons = locker[c].daemons
        /\ \A d \in Client : d # c => locker'[d] = locker[d]
    BY <1>0, <1>4, GiveUpObject, BecomesShape
  <2>2. ~locker'[c].locked
    BY <1>0, <1>2, <2>1 DEF ObjectRight
  <2>3. ObjectRight(c)'
    BY <1>0, <1>1, <2>1, <2>2 DEF ObjectRight
  <2>4. QED
    BY <1>1, <2>1, <2>3, OneRight
<1>5. QED
  BY <1>3, <1>4

\* LockManager.release leaves its object right, as far as it looks for the key.
LEMMA ReleaseRight ==
  ASSUME Shape, ObjectsRight, NEW c \in Client, Release(c)
  PROVE  ObjectsRight'
<1>0. /\ MaxCalls \in Nat /\ calls[c].count \in Nat
      /\ ObjectsShape /\ ObjectRight(c)
      /\ locker[c].step = "idle" /\ locker[c].locked
      /\ calls[c].count <= MaxCalls + 1
  BY ServiceAssumption DEF Shape, CallShape, ObjectsRight, Release, At
<1>1. \A d \in Client : calls'[d].count = calls[d].count
  BY NoCallCounts DEF AloneStep
<1>2. PICK D : D = Unstopped(c)
  BY Zenon
<1>3. \A d \in D : d.lease # NoLease /\ (d.lost => c \in Watcher)
  BY <1>0, <1>2 DEF Unstopped, ObjectRight
<1>4. CASE FindGone(c)
  <2>1. /\ ObjectsShape' /\ locker'[c].server = locker[c].server
        /\ locker'[c].step = locker[c].step
        /\ locker'[c].locked = FALSE
        /\ locker'[c].daemons = D
        /\ \A d \in Client : d # c => locker'[d] = locker[d]
    <3>1. Becomes(c, Object(locker[c].server, locker[c].step, NoLease, FALSE, D))
      BY <1>0, <1>2, <1>4, FindGoneObject, Zenon
    <3>2. PICK no : no = FALSE
      BY Zenon
    <3>3. Becomes(c, Object(locker[c].server, locker[c].step, NoLease, no, D))
      BY <3>1, <3>2, Zenon
    <3>4. QED
      BY <1>0, <3>2, <3>3, BecomesShape
  <2>2. ObjectRight(c)'
    BY <1>0, <1>1, <1>3, <2>1 DEF ObjectRight
  <2>3. QED
    BY <1>1, <2>1, <2>2, OneRight
<1>5. CASE FindOther(c)
  <2>1. /\ ObjectsShape' /\ locker'[c].server = locker[c].server
        /\ locker'[c].step = locker[c].step
        /\ locker'[c].lease = locker[c].lease
        /\ locker'[c].locked = locker[c].locked
        /\ locker'[c].daemons = D
        /\ \A d \in Client : d # c => locker'[d] = locker[d]
    <3>0. ObjectsShape
      BY <1>0
    <3>1. Becomes(c, Object(locker[c].server, locker[c].step, locker[c].lease,
                            locker[c].locked, D))
      BY <1>0, <1>2, <1>5, FindOtherObject, Zenon
    <3>2. QED
      BY <3>1, <3>0, BecomesShape
  <2>2. ObjectRight(c)'
    BY <1>0, <1>1, <1>3, <2>1 DEF ObjectRight
  <2>3. QED
    BY <1>1, <2>1, <2>2, OneRight
<1>6. CASE FindOwn(c)
  <2>1. /\ ObjectsShape' /\ locker'[c].server = locker[c].server
        /\ locker'[c].step = "checked"
        /\ locker'[c].lease = locker[c].lease
        /\ locker'[c].locked = locker[c].locked
        /\ locker'[c].daemons = D
        /\ \A d \in Client : d # c => locker'[d] = locker[d]
    <3>0. ObjectsShape
      BY <1>0
    <3>1. Becomes(c, Object(locker[c].server, "checked", locker[c].lease,
                            locker[c].locked, D))
      BY <1>0, <1>2, <1>6, FindOwnObject, Zenon
    <3>2. QED
      BY <3>1, <3>0, BecomesShape
  <2>2. ObjectRight(c)'
    BY <1>0, <1>1, <1>3, <2>1 DEF ObjectRight
  <2>3. QED
    BY <1>1, <2>1, <2>2, OneRight
<1>7. QED
  BY <1>4, <1>5, <1>6 DEF Release

\* The rest of a release, and a crash, leave the object right.
LEMMA EndRight ==
  ASSUME Shape, ObjectsRight, NEW c \in Client,
         DeleteLock(c) \/ Revoke(c) \/ EndRelease(c) \/ Crash(c)
  PROVE  ObjectsRight'
<1>0. /\ MaxCalls \in Nat /\ calls[c].count \in Nat
      /\ ObjectsShape /\ ObjectRight(c)
  BY ServiceAssumption DEF Shape, CallShape, ObjectsRight
<1>1. CASE DeleteLock(c)
  <2>1. /\ ObjectsShape' /\ locker'[c].server = locker[c].server
        /\ locker'[c].step = "deleting"
        /\ locker'[c].lease = locker[c].lease
        /\ locker'[c].locked = locker[c].locked
        /\ locker'[c].daemons = locker[c].daemons
        /\ \A d \in Client : d # c => locker'[d] = locker[d]
    BY <1>0, <1>1, DeleteLockObject, BecomesShape
  <2>2. /\ calls'[c].count = calls[c].count + 1
        /\ \A d \in Client : d # c => calls'[d] = calls[d]
    BY <1>1, CountAsked DEF AskStep
  <2>3. locker[c].step = "checked"
    BY <1>1 DEF DeleteLock, At
  <2>4. ObjectRight(c)'
    BY <1>0, <2>1, <2>2, <2>3 DEF ObjectRight
  <2>5. QED
    BY <2>1, <2>2, <2>4, OneRight
<1>2. CASE Revoke(c)
  <2>1. /\ ObjectsShape' /\ locker'[c].server = locker[c].server
        /\ locker'[c].step = "ending"
        /\ locker'[c].lease = locker[c].lease
        /\ locker'[c].locked = locker[c].locked
        /\ locker'[c].daemons = locker[c].daemons
        /\ \A d \in Client : d # c => locker'[d] = locker[d]
    BY <1>0, <1>2, RevokeObject, BecomesShape
  <2>2. \A d \in Client : calls'[d].count = calls[d].count
    BY <1>2, NoCallCounts DEF TellStep
  <2>3. locker[c].step = "deleting"
    BY <1>2 DEF Revoke, At
  <2>4. ObjectRight(c)'
    BY <1>0, <2>1, <2>2, <2>3 DEF ObjectRight
  <2>5. QED
    BY <2>1, <2>2, <2>4, OneRight
<1>3. CASE EndRelease(c)
  <2>1. PICK l, b : /\ Becomes(c, Object(locker[c].server, "idle", l, b,
                                         locker[c].daemons))
                    /\ b => l = locker[c].lease
    BY <1>0, <1>3, EndReleaseObject
  <2>2. /\ ObjectsShape' /\ locker'[c].server = locker[c].server
        /\ locker'[c].step = "idle" /\ locker'[c].lease = l
        /\ locker'[c].locked = b
        /\ locker'[c].daemons = locker[c].daemons
        /\ \A d \in Client : d # c => locker'[d] = locker[d]
    BY <1>0, <2>1, BecomesShape
  <2>3. \A d \in Client : calls'[d].count = calls[d].count
    BY <1>3, NoCallCounts DEF AloneStep
  <2>4. locker[c].step = "ending"
    BY <1>3 DEF EndRelease, At
  <2>5. ObjectRight(c)'
    BY <1>0, <2>1, <2>2, <2>3, <2>4 DEF ObjectRight
  <2>6. QED
    BY <2>2, <2>3, <2>5, OneRight
<1>4. CASE Crash(c)
  <2>1. /\ ObjectsShape' /\ locker'[c].server = locker[c].server
        /\ locker'[c].step = locker[c].step
        /\ locker'[c].lease = locker[c].lease
        /\ locker'[c].locked = locker[c].locked
        /\ locker'[c].daemons = {}
        /\ \A d \in Client : d # c => locker'[d] = locker[d]
    BY <1>0, <1>4, CrashObject, BecomesShape
  <2>2. \A d \in Client : calls'[d].count = calls[d].count
    BY <1>4, NoCallCounts DEF AloneStep
  <2>3. ObjectRight(c)'
    BY <1>0, <2>1, <2>2 DEF ObjectRight
  <2>4. QED
    BY <2>1, <2>2, <2>3, OneRight
<1>5. QED
  BY <1>1, <1>2, <1>3, <1>4

\* Every step leaves every object right, whoever leads.
LEMMA StepRight ==
  ASSUME Shape, ObjectsRight, [LockNext]_lockVars
  PROVE  ObjectsRight'
<1>1. CASE QuietStep
  <2>1. \A c \in Client : calls'[c].count = calls[c].count
    BY <1>1, CountKept
  <2>2. locker' = locker
    BY <1>1 DEF QuietStep
  <2>3. QED
    BY <2>1, <2>2, OthersRight DEF ObjectsRight, ObjectsShape
<1>2. ASSUME NEW c \in Client, Keepalive(c)
      PROVE  ObjectsRight'
  <2>1. \A d \in Client : calls'[d].count = calls[d].count
    BY <1>2, NoCallCounts DEF TellStep
  <2>2. locker' = locker
    BY <1>2 DEF Keepalive
  <2>3. QED
    BY <2>1, <2>2, OthersRight DEF ObjectsRight, ObjectsShape
<1>3. QED
  BY <1>1, <1>2, LockSteps, AcquireRight, PutRight, ReleaseRight, EndRight
     DEF AloneStep, AskStep, TellStep

\* The objects are right at the beginning.
LEMMA InitRight ==
  ASSUME LockInit
  PROVE  Shape /\ ObjectsRight
<1>1. Shape
  BY InitShape DEF LockInit
<1>2. \A c \in Client : calls[c].count = 0
  BY DEF LockInit, Init, NoCall
<1>3. ASSUME NEW c \in Client
      PROVE  IsObject(locker[c]) /\ ObjectRight(c)
  <2>1. PICK n \in Server : locker[c] = NewLocker(n)
    BY <1>3 DEF LockInit
  <2>2. PICK no : no = FALSE /\ locker[c] = Object(n, "idle", NoLease, no, {})
    <3>1. locker[c] = Object(n, "idle", NoLease, FALSE, {})
      BY <2>1 DEF NewLocker, Object
    <3>2. QED
      BY <3>1, Zenon
  <2>3. /\ IsObject(locker[c])
        /\ locker[c].server = n /\ locker[c].step = "idle"
        /\ locker[c].locked = no /\ locker[c].daemons = {}
    BY <2>2, ObjectFields
  <2>4. QED
    BY <1>2, <2>2, <2>3, ServiceAssumption DEF ObjectRight
<1>4. DOMAIN locker = Client
  BY DEF LockInit
<1>5. QED
  BY <1>1, <1>3, <1>4 DEF ObjectsRight, ObjectsShape

\* Lock objects are well-formed (LockTypeOK), for any clients, replicas and
\* changes of leader: an object that is locked has a lease, and no client can
\* call more often than the bound lets it.
THEOREM LockTypeCorrect == LockSpec => []LockTypeOK
<1>1. LockInit => Shape /\ ObjectsRight
  BY InitRight
<1>2. Shape /\ ObjectsRight /\ [LockNext]_lockVars => (Shape /\ ObjectsRight)'
  <2>1. SUFFICES ASSUME Shape, ObjectsRight, [LockNext]_lockVars
                 PROVE  (Shape /\ ObjectsRight)'
    OBVIOUS
  <2>2. \A c \in Client : locker[c].server \in Server
    BY <2>1 DEF ObjectsRight, ObjectRight
  <2>3. QED
    BY <2>1, <2>2, LockShape, StepRight
<1>3. Shape /\ ObjectsRight => LockTypeOK
  BY DEF ObjectsRight, ObjectRight, LockTypeOK
<1>4. QED
  BY <1>1, <1>2, <1>3, PTL DEF LockSpec

-----------------------------------------------------------------------------
(* What the commands of the lock make of a machine.                         *)

\* Two tables of leases with the same leases, the keys of which are in the
\* first case no more than in the second.
Within(a, b) ==
  DOMAIN a = DOMAIN b /\ \A x \in DOMAIN a : a[x].keys \subseteq b[x].keys

\* A put of the lock that finds it taken changes nothing.
LEMMA PutRefused ==
  ASSUME NEW sm, IsMachine(sm), NEW l, NEW c, c = PutCommand(l), NEW fresh,
         Lock \in DOMAIN sm.data, NEW r, r = ApplyCommand(sm, c, fresh)
  PROVE  /\ r.sm.data = sm.data /\ r.sm.leases = sm.leases
         /\ ~r.answer.ok /\ r.orphans = {}
<1>1. /\ c.type = "put_if_absent" /\ c.key = Lock
      /\ c.type \notin LeaseTypes
  BY DEF PutCommand, LeaseTypes
<1>2. r = ApplyKV(sm, c)
  BY <1>1 DEF ApplyCommand
<1> DEFINE e == Execute(sm.data, c, sm.revision + 1)
<1>3. e = Answer(FALSE, sm.data)
  BY <1>1 DEF Execute, DoOp, DoPutIfAbsent
<1>4. e.data = sm.data /\ ~e.ok
  BY <1>3 DEF Answer
<1>5. UpdateLeaseKeys(sm.leases, c, e) = sm.leases
  BY <1>4 DEF UpdateLeaseKeys
<1>6. /\ r.sm = [data |-> e.data, revision |-> sm.revision + 1,
                leases |-> UpdateLeaseKeys(sm.leases, c, e)]
      /\ r.answer.ok = e.ok /\ r.orphans = {}
  BY <1>2 DEF ApplyKV, Outcome
<1> HIDE DEF e
<1>7. QED
  BY <1>4, <1>5, <1>6

\* A put of the lock that finds it free takes it, and lists it with its lease.
LEMMA PutTakes ==
  ASSUME NEW sm, IsMachine(sm), NEW l, l # NoLease, NoLease \notin DOMAIN sm.leases,
         NEW c, c = PutCommand(l), NEW fresh, Lock \notin DOMAIN sm.data,
         NEW r, r = ApplyCommand(sm, c, fresh)
  PROVE  /\ Lock \in DOMAIN r.sm.data /\ r.sm.data[Lock].lease = l
         /\ DOMAIN r.sm.leases = DOMAIN sm.leases
         /\ l \in DOMAIN sm.leases => Lock \in r.sm.leases[l].keys
         /\ \A x \in DOMAIN sm.leases :
              /\ sm.leases[x].keys \subseteq r.sm.leases[x].keys
              /\ r.sm.leases[x].keys \subseteq sm.leases[x].keys \cup {Lock}
         /\ r.answer.ok /\ r.orphans = {}
<1>1. /\ c.type = "put_if_absent" /\ c.key = Lock /\ c.lease = l
      /\ c.type \notin LeaseTypes
      /\ Binds(c)
  BY DEF PutCommand, LeaseTypes, Binds
<1>2. r = ApplyKV(sm, c)
  BY <1>1 DEF ApplyCommand
<1> DEFINE e == Execute(sm.data, c, sm.revision + 1)
<1>3. e = DoPut(sm.data, c, sm.revision + 1)
  BY <1>1 DEF Execute, DoOp, DoPutIfAbsent
<1>4. e.ok /\ e.prevLease = NoLease
  BY <1>1, <1>3 DEF DoPut, EntryOf, NoEntry
<1>5. Lock \in DOMAIN e.data /\ e.data[Lock].lease = l
  BY <1>1, <1>3 DEF DoPut, Bind, KeptLease
<1>6. /\ r.sm = [data |-> e.data, revision |-> sm.revision + 1,
                 leases |-> UpdateLeaseKeys(sm.leases, c, e)]
      /\ r.answer.ok = e.ok /\ r.orphans = {}
  BY <1>2 DEF ApplyKV, Outcome
<1> HIDE DEF e
<1>7. UpdateLeaseKeys(sm.leases, c, e) = AddKey(sm.leases, l, Lock)
  <2>1. UpdateLeaseKeys(sm.leases, c, e)
          = AddKey(RemoveKey(sm.leases, NoLease, Lock), l, Lock)
    BY <1>1, <1>4 DEF UpdateLeaseKeys
  <2>2. RemoveKey(sm.leases, NoLease, Lock) = sm.leases
    BY DEF RemoveKey
  <2>3. QED
    BY <2>1, <2>2
<1>8. IsLeases(sm.leases)
  BY DEF IsMachine
<1> DEFINE L == AddKey(sm.leases, l, Lock)
<1>9. /\ DOMAIN L = DOMAIN sm.leases
      /\ l \in DOMAIN sm.leases => L[l].keys = sm.leases[l].keys \cup {Lock}
      /\ \A x \in DOMAIN sm.leases : x # l => L[x].keys = sm.leases[x].keys
  BY <1>8, AddKeyLeases
<1>10. r.sm.leases = L /\ r.sm.data = e.data
  BY <1>6, <1>7
<1> HIDE DEF L
<1>11. \A x \in DOMAIN sm.leases :
         /\ sm.leases[x].keys \subseteq L[x].keys
         /\ L[x].keys \subseteq sm.leases[x].keys \cup {Lock}
  BY <1>9
<1>12. r.answer.ok
  BY <1>4, <1>6
<1>13. QED
  BY <1>5, <1>6, <1>9, <1>10, <1>11, <1>12

\* A delete frees the lock, whoever has it.
LEMMA DeleteFrees ==
  ASSUME NEW sm, IsMachine(sm), NEW c, c.type = "delete", c.key = Lock, NEW fresh,
         NEW r, r = ApplyCommand(sm, c, fresh)
  PROVE  /\ Lock \notin DOMAIN r.sm.data
         /\ Within(r.sm.leases, sm.leases)
         /\ r.orphans = {}
<1>1. c.type \notin LeaseTypes
  BY DEF LeaseTypes
<1>2. r = ApplyKV(sm, c)
  BY <1>1 DEF ApplyCommand
<1> DEFINE e == Execute(sm.data, c, sm.revision + 1)
<1>3. e = DoDelete(sm.data, c, sm.revision + 1)
  BY DEF Execute, DoOp
<1>4. Lock \notin DOMAIN e.data
  BY <1>3 DEF DoDelete, Answer, Unbind
<1>5. /\ r.sm = [data |-> e.data, revision |-> sm.revision + 1,
                 leases |-> UpdateLeaseKeys(sm.leases, c, e)]
      /\ r.orphans = {}
  BY <1>2 DEF ApplyKV, Outcome
<1> HIDE DEF e
<1>6. IsLeases(sm.leases)
  BY DEF IsMachine
<1>7. ~Binds(c)
  BY DEF Binds
<1> DEFINE L == UpdateLeaseKeys(sm.leases, c, e)
           p == e.prevLease
<1>8. CASE e.ok
  <2>1. L = RemoveKey(sm.leases, p, Lock)
    BY <1>7, <1>8 DEF UpdateLeaseKeys
  <2> HIDE DEF L, p
  <2>2. /\ DOMAIN L = DOMAIN sm.leases
        /\ p \in DOMAIN sm.leases => L[p].keys = sm.leases[p].keys \ {Lock}
        /\ \A x \in DOMAIN sm.leases : x # p => L[x].keys = sm.leases[x].keys
    BY <1>6, <2>1, RemoveKeyLeases
  <2>3. \A x \in DOMAIN sm.leases : L[x].keys \subseteq sm.leases[x].keys
    BY <2>2
  <2>4. Within(L, sm.leases)
    BY <2>2, <2>3 DEF Within
  <2>5. QED
    BY <1>4, <1>5, <2>4 DEF L
<1>9. CASE ~e.ok
  <2>1. L = sm.leases
    BY <1>7, <1>9 DEF UpdateLeaseKeys
  <2>2. QED
    BY <1>4, <1>5, <2>1 DEF Within
<1>10. QED
  BY <1>8, <1>9

\* A grant adds a lease without keys.
LEMMA GrantAdds ==
  ASSUME NEW sm, IsMachine(sm), NEW c, c.type = "lease_grant", c.lease = NoLease,
         NEW fresh, fresh \notin DOMAIN sm.leases,
         NEW r, r = ApplyCommand(sm, c, fresh)
  PROVE  /\ r.sm.data = sm.data
         /\ DOMAIN r.sm.leases = DOMAIN sm.leases \cup {fresh}
         /\ r.sm.leases[fresh].keys = {}
         /\ \A x \in DOMAIN sm.leases : r.sm.leases[x].keys = sm.leases[x].keys
         /\ r.answer.ok /\ r.answer.lease = fresh /\ r.orphans = {}
<1>1. r = DoGrant(sm, c, fresh)
  BY DEF ApplyCommand, LeaseTypes, ApplyLease
<1> DEFINE new == [keys |-> {}, expired |-> FALSE]
           L == Bind(sm.leases, fresh, new)
<1>2. r = Outcome([sm EXCEPT !.leases = L], TRUE, fresh, {}, TRUE)
  BY <1>1 DEF DoGrant
<1>3. /\ DOMAIN L = DOMAIN sm.leases \cup {fresh}
      /\ L[fresh].keys = {}
      /\ \A x \in DOMAIN sm.leases : L[x] = sm.leases[x]
  BY DEF Bind
<1> HIDE DEF L
<1>4. [sm EXCEPT !.leases = L]
        = [data |-> sm.data, revision |-> sm.revision, leases |-> L]
  BY DEF IsMachine
<1>5. QED
  BY <1>2, <1>3, <1>4 DEF Outcome

\* A keepalive leaves the keys of all leases as they are.
LEMMA KeepaliveKeeps ==
  ASSUME NEW sm, IsMachine(sm), NEW c, c.type = "lease_keepalive",
         NEW fresh, NEW r, r = ApplyCommand(sm, c, fresh)
  PROVE  /\ r.sm.data = sm.data
         /\ Within(r.sm.leases, sm.leases) /\ Within(sm.leases, r.sm.leases)
         /\ r.orphans = {}
<1>1. r = ApplyLease(sm, c, fresh)
  BY DEF ApplyCommand, LeaseTypes
<1>2. CASE c.lease \notin DOMAIN sm.leases
  BY <1>1, <1>2 DEF ApplyLease, Outcome, Within
<1>3. CASE c.lease \in DOMAIN sm.leases
  <2>1. r = DoKeepalive(sm, c)
    BY <1>1, <1>3 DEF ApplyLease
  <2>2. r.orphans = {}
    BY <2>1 DEF DoKeepalive, Outcome
  <2>3. QED
    BY <1>3, <2>1, <2>2, KeepaliveMachine DEF Within
<1>4. QED
  BY <1>2, <1>3

\* The end of a lease drops it and gives its keys to be deleted.
LEMMA EndDrops ==
  ASSUME NEW sm, IsMachine(sm), NEW c, c.type \in {"lease_revoke", "lease_expire"},
         NEW fresh, NEW r, r = ApplyCommand(sm, c, fresh)
  PROVE  /\ r.sm.data = sm.data
         /\ DOMAIN r.sm.leases = DOMAIN sm.leases \ {c.lease}
         /\ \A x \in DOMAIN r.sm.leases : r.sm.leases[x].keys = sm.leases[x].keys
         /\ c.lease \notin DOMAIN sm.leases => r.orphans = {}
         /\ c.lease \in DOMAIN sm.leases =>
              r.orphans = sm.leases[c.lease].keys /\ r.answer.lease = c.lease
<1>1. r = ApplyLease(sm, c, fresh)
  BY DEF ApplyCommand, LeaseTypes
<1>2. CASE c.lease \notin DOMAIN sm.leases
  <2>1. r.sm = sm /\ r.orphans = {}
    BY <1>1, <1>2 DEF ApplyLease, Outcome
  <2>2. QED
    BY <1>2, <2>1
<1>3. CASE c.lease \in DOMAIN sm.leases
  <2> DEFINE L == Unbind(sm.leases, c.lease)
  <2>1. r = Outcome([sm EXCEPT !.leases = L], TRUE, c.lease,
                    sm.leases[c.lease].keys, TRUE)
    BY <1>1, <1>3 DEF ApplyLease, DoEnd
  <2>2. /\ DOMAIN L = DOMAIN sm.leases \ {c.lease}
        /\ \A x \in DOMAIN L : L[x] = sm.leases[x]
    BY DEF Unbind
  <2> HIDE DEF L
  <2>3. [sm EXCEPT !.leases = L]
          = [data |-> sm.data, revision |-> sm.revision, leases |-> L]
    BY DEF IsMachine
  <2>4. /\ r.sm = [data |-> sm.data, revision |-> sm.revision, leases |-> L]
        /\ r.orphans = sm.leases[c.lease].keys /\ r.answer.lease = c.lease
    BY <2>1, <2>3 DEF Outcome
  <2>5. r.sm.data = sm.data /\ r.sm.leases = L
    BY <2>4
  <2>6. QED
    BY <1>3, <2>2, <2>4, <2>5
<1>4. QED
  BY <1>2, <1>3

-----------------------------------------------------------------------------
(* From here on the first leader stays (changes = 0).                       *)

\* Nothing happens at the leader's replica that matters to the lock: at most
\* the lock is listed with a lease once more.
MachineStill ==
  /\ applied'[leader] = applied[leader]
  /\ machine'[leader].data = machine[leader].data
  /\ DOMAIN machine'[leader].leases = DOMAIN machine[leader].leases
  /\ \A x \in DOMAIN machine[leader].leases :
       /\ machine[leader].leases[x].keys \subseteq machine'[leader].leases[x].keys
       /\ machine'[leader].leases[x].keys
            \subseteq machine[leader].leases[x].keys \cup {Lock}
  /\ stuck'[leader] = stuck[leader]

LeaderStill == MachineStill /\ ending'[leader] = ending[leader]

\* Only the leader calls anybody back.
OthersSilent == \A n \in Server : n # leader => DOMAIN callbacks[n] = {}

\* The log grows, or stays.
Extends ==
  /\ Len(log) \in Nat /\ Len(log') \in Nat /\ Len(log) <= Len(log')
  /\ DOMAIN log = 1 .. Len(log) /\ DOMAIN log' = 1 .. Len(log')
  /\ \A i \in 1 .. Len(log) : log'[i] = log[i]

NothingNew == DOMAIN log' = DOMAIN log

\* No answer comes in.
NoAnswers == \A c \in Client : calls'[c] = calls[c]

CalmStep ==
  UNCHANGED <<raft, log, locker>> /\ NoAnswers /\ LeaderStill

\* Nobody is elected while the count of changes stays zero.
LEMMA LeaderStays ==
  ASSUME Shape, changes' = 0, [LockNext]_lockVars
  PROVE  UNCHANGED raft
<1>0. ASSUME NEW n, NewLeader(n)
      PROVE  FALSE
  <2>1. changes' = changes + 1 /\ changes \in Nat
    BY <1>0 DEF NewLeader, Shape, LogShape
  <2>2. QED
    BY <2>1
<1>1. CASE QuietStep
  BY <1>1, <1>0
     DEF QuietStep, Background, Commit, Apply, FinishEnd, CheckLeases, SubmitDelete,
         RunOut, SubmitExpire, vars
<1>2. ASSUME NEW c \in Client, AloneStep(c)
      PROVE  UNCHANGED raft
  BY <1>2, AloneSteps DEF vars
<1>3. ASSUME NEW c \in Client, AskStep(c)
      PROVE  UNCHANGED raft
  BY <1>3, AskSteps DEF Ask
<1>4. ASSUME NEW c \in Client, TellStep(c)
      PROVE  UNCHANGED raft
  BY <1>4, TellSteps DEF Tell
<1>5. ASSUME NEW c \in Client, Holds(c)
      PROVE  UNCHANGED raft
  BY <1>5 DEF Holds
<1>6. QED
  BY <1>1, <1>2, <1>3, <1>4, <1>5, LockSteps

\* A submission extends the log by its entry, if at all.
LEMMA SubmitExtends ==
  ASSUME Shape, NEW n, NEW cmd, NEW token, NEW lease, Submit(n, cmd, token, lease)
  PROVE  /\ Extends
         /\ \A j \in DOMAIN log' : j \notin DOMAIN log =>
              /\ n = leader /\ j = Len(log) + 1
              /\ log'[j] = [cmd |-> cmd, token |-> token, lease |-> lease]
<1>1. LogShape
  BY DEF Shape
<1>2. Len(log) \in Nat /\ DOMAIN log = 1 .. Len(log)
  BY <1>1, LenProperties DEF LogShape
<1>3. CASE n = leader
  <2>1. log' = Append(log, [cmd |-> cmd, token |-> token, lease |-> lease])
    BY <1>3 DEF Submit
  <2>2. /\ Len(log') = Len(log) + 1
        /\ \A i \in 1 .. Len(log) : log'[i] = log[i]
        /\ log'[Len(log) + 1] = [cmd |-> cmd, token |-> token, lease |-> lease]
        /\ log' \in Seq(Range(log'))
    BY <1>1, <2>1, AppendedLog
  <2>3. DOMAIN log' = 1 .. Len(log')
    BY <2>2, LenProperties
  <2>4. QED
    BY <1>2, <1>3, <2>2, <2>3 DEF Extends
<1>4. CASE n # leader
  <2>1. log' = log
    BY <1>4 DEF Submit
  <2>2. QED
    BY <1>2, <2>1 DEF Extends
<1>5. QED
  BY <1>3, <1>4

\* A log that is left alone only keeps what it has.
LEMMA LogStays ==
  ASSUME Shape, log' = log
  PROVE  Extends /\ NothingNew
<1>1. Len(log) \in Nat /\ DOMAIN log = 1 .. Len(log)
  BY LenProperties DEF Shape, LogShape
<1>2. QED
  BY <1>1 DEF Extends, NothingNew

\* A submission concerns no callbacks but the leader's.
LEMMA SubmitSilent ==
  ASSUME Shape, OthersSilent, NEW n, NEW cmd, NEW token, NEW lease,
         Submit(n, cmd, token, lease), leader' = leader
  PROVE  OthersSilent'
  BY DEF Submit, OthersSilent, Shape, CallShape

\* An answer takes away callbacks and adds none, so the other replicas stay silent.
LEMMA NotifySilent ==
  ASSUME Shape, OthersSilent, NEW n \in Server, NEW i \in Nat, NEW answer,
         Notify(n, i, answer), leader' = leader
  PROVE  OthersSilent'
<1>1. \A m \in Server : \A j \in DOMAIN callbacks'[m] : j \in DOMAIN callbacks[m]
  BY NotifyEffect DEF Shape
<1>2. QED
  BY <1>1 DEF OthersSilent

\* A replica without callbacks answers nobody.
LEMMA NotifyNobody ==
  ASSUME Shape, NEW n \in Server, DOMAIN callbacks[n] = {}, NEW i \in Nat,
         NEW answer, Notify(n, i, answer)
  PROVE  NoAnswers
<1>1. CallShape
  BY DEF Shape
<1>2. \A c \in Client : calls'[c] = calls[c]
  BY ZenonT(60), <1>1, NotifyEffect
<1>3. QED
  BY <1>2 DEF NoAnswers

-----------------------------------------------------------------------------
(* The inductive invariant.                                                 *)

Kinds == LeaseTypes \cup {"put_if_absent", "delete"}

\* l was granted to c, before place j of the log, by a call before its k-th.
GrantedTo(l, c, k, j) ==
  \E m \in Nat : \E i \in 1 .. j - 1 :
    /\ m < k /\ l = << leader, i >>
    /\ log[i].cmd.type = "lease_grant" /\ log[i].token = << c, m >>

\* The entry at place j is that of a call which c made with its lease l.
Under(j, c, l) ==
  \E k \in Nat : log[j].token = << c, k >> /\ GrantedTo(l, c, k, j)

\* An entry is one that a lock or the replicas have asked for.
EntryRight(j) ==
  LET cmd   == log[j].cmd
      token == log[j].token
  IN  /\ cmd.type \in Kinds
      /\ token # NoToken =>
           /\ cmd.type \in {"lease_grant", "put_if_absent", "delete"}
           /\ \E c \in Client : \E k \in Nat :
                /\ token = << c, k >> /\ k <= calls[c].count
                /\ locker[c].server = leader
      /\ cmd.type = "lease_grant" => cmd.lease = NoLease
      /\ cmd.type = "put_if_absent" =>
           /\ cmd = PutCommand(cmd.lease)
           /\ \E c \in Client : Under(j, c, cmd.lease)
      /\ cmd.type = "delete" => cmd.key = Lock

IsPut(i) == log[i].cmd.type = "put_if_absent"

\* A client has put the lock under a lease before it asks for its delete.
PutsFirst ==
  \A i, j \in DOMAIN log :
    /\ IsPut(i) /\ IsDelete(j)
    /\ log[j].token # NoToken /\ log[j].lease = log[i].cmd.lease
    => i < j

LogRight == (\A j \in DOMAIN log : EntryRight(j)) /\ PutsFirst

\* l was granted and has ended.
Dead(l) == ~Lives(l) /\ \E i \in Done : l = << leader, i >>

\* c renews l, until it releases the lock or crashes.
Renews(c, l) == [lease |-> l, lost |-> FALSE] \in locker[c].daemons

\* c does nothing any more to keep the lock under l.
GivenUp(c, l) == ~Renews(c, l) /\ ~(At(c, "putting") /\ locker[c].lease = l)

\* A delete of the lock was asked for by the end of a lease, or by a client
\* that has given the lock up.
DeleteRight(j) ==
  IsDelete(j) =>
    \/ log[j].token = NoToken /\ Dead(log[j].lease)
    \/ \E c \in Client : Under(j, c, log[j].lease) /\ GivenUp(c, log[j].lease)

DeletesRight == \A j \in DOMAIN log : DeleteRight(j)

\* A lock object has a lease that was granted to its client, and its last call
\* is the one its step waits for.
AwaitsOwn(c, j) ==
  /\ At(c, "granting") => log[j].cmd.type = "lease_grant"
  /\ At(c, "putting") => log[j].cmd = PutCommand(locker[c].lease)
  /\ locker[c].step \in {"deleting", "ending"} =>
       IsDelete(j) /\ log[j].lease = locker[c].lease

LockerRight(c) ==
  /\ locker[c].lease # NoLease =>
       GrantedTo(locker[c].lease, c, calls[c].count, Len(log) + 1)
  /\ At(c, "checked") => \A l : ~Renews(c, l)
  /\ \A j \in DOMAIN log :
       log[j].token = << c, calls[c].count >> => AwaitsOwn(c, j)

LockersRight == \A c \in Client : LockerRight(c)

\* The lock was bound to l, and is so until a delete.
Taken(l) ==
  \E i \in PutsUnder(l) : LockBound(l) \/ \E j \in Done : i < j /\ IsDelete(j)

\* An answer is that of the leader, which has applied the command.
ReplyRight(c) ==
  /\ calls[c].answer.at <= applied[leader]
  /\ calls[c].answer.ok => calls[c].answer.at > 0
  /\ At(c, "granting") /\ calls[c].answer.ok =>
       calls[c].answer.lease = << leader, calls[c].answer.at >>
  /\ At(c, "putting") /\ calls[c].answer.ok => Taken(locker[c].lease)
  /\ \A l : Renews(c, l) => Taken(l)

RepliesRight == \A c \in Client : ReplyRight(c)

\* The leader's leases were granted by entries it has applied.
LeasesRight ==
  \A l \in DOMAIN machine[leader].leases :
    /\ \E i \in Done : l = << leader, i >>
    /\ machine[leader].leases[l].keys \subseteq {Lock}

EndingRight ==
  /\ ending[leader].keys \subseteq {Lock}
  /\ Busy(leader) =>
       /\ Dead(ending[leader].lease)
       /\ ending[leader].at \in Done
       /\ log[ending[leader].at].cmd.type \in {"lease_revoke", "lease_expire"}

\* What binds the lock was put there after the last delete.
BoundRight ==
  \A l : LockBound(l) =>
    \E i \in PutsUnder(l) : \A j \in Done : IsDelete(j) => j < i

GrantsRight ==
  \A i \in Done :
    log[i].cmd.type = "lease_grant"
      => Lives(<< leader, i >>) \/ EndsOf(<< leader, i >>) # {} \/ stuck[leader]

\* Something will take the lock away (AccountedFor).
KeyRight ==
  \A l : LockBound(l) =>
    \/ Lives(l) /\ Lock \in machine[leader].leases[l].keys
    \/ ending[leader].lease = l /\ Lock \in ending[leader].keys
    \/ \E i \in applied[leader] + 1 .. Len(log) : IsDelete(i)
    \/ stuck[leader] \/ PutTooLate(l)

MachineRight == LeasesRight /\ EndingRight /\ BoundRight /\ GrantsRight /\ KeyRight

LockRight ==
  /\ OthersSilent /\ LogRight /\ DeletesRight /\ LockersRight /\ RepliesRight
  /\ MachineRight

-----------------------------------------------------------------------------
(* What stays as the log grows.                                             *)

\* The log grows under the same leader, counts of calls do not fall, and no
\* object changes its server.
Goes ==
  /\ Extends /\ leader' = leader
  /\ \A c \in Client :
       /\ calls[c].count \in Nat /\ calls'[c].count \in Nat
       /\ calls[c].count <= calls'[c].count
       /\ locker'[c].server = locker[c].server

\* A lease granted to a client stays granted to it, for its later calls and places.
LEMMA GrantedKept ==
  ASSUME Extends, leader' = leader, NEW l, NEW c, NEW k \in Nat,
         NEW j \in 1 .. Len(log) + 1, GrantedTo(l, c, k, j),
         NEW h \in Nat, k <= h, NEW i \in Nat, j <= i
  PROVE  GrantedTo(l, c, h, i)'
<1>1. PICK m \in Nat, p \in 1 .. j - 1 :
        /\ m < k /\ l = << leader, p >>
        /\ log[p].cmd.type = "lease_grant" /\ log[p].token = << c, m >>
  BY DEF GrantedTo
<1>2. p \in 1 .. Len(log) /\ p \in 1 .. i - 1 /\ m < h
  BY <1>1 DEF Extends
<1>3. log'[p] = log[p]
  BY <1>2 DEF Extends
<1>4. QED
  BY <1>1, <1>2, <1>3 DEF GrantedTo

\* A put that was asked for under its client's own lease stays so.
LEMMA UnderKept ==
  ASSUME Extends, leader' = leader, NEW j \in DOMAIN log, NEW c, NEW l,
         Under(j, c, l)
  PROVE  Under(j, c, l)'
<1>1. PICK k \in Nat : log[j].token = << c, k >> /\ GrantedTo(l, c, k, j)
  BY DEF Under
<1>2. j \in 1 .. Len(log) + 1 /\ j \in Nat /\ log'[j] = log[j]
  BY DEF Extends
<1>3. GrantedTo(l, c, k, j)'
  BY <1>1, <1>2, GrantedKept
<1>4. QED
  BY <1>1, <1>2, <1>3 DEF Under

\* A lease was granted to one client, by one call.
LEMMA OneGrantee ==
  ASSUME NEW l, NEW c, NEW k, NEW j, GrantedTo(l, c, k, j),
         NEW d, NEW h, NEW i, GrantedTo(l, d, h, i)
  PROVE  c = d
<1>1. PICK m \in Nat, p \in 1 .. j - 1 :
        l = << leader, p >> /\ log[p].token = << c, m >>
  BY DEF GrantedTo
<1>2. PICK n \in Nat, q \in 1 .. i - 1 :
        l = << leader, q >> /\ log[q].token = << d, n >>
  BY DEF GrantedTo
<1>3. p = q
  BY <1>1, <1>2
<1>4. QED
  BY <1>1, <1>2, <1>3

\* An entry that is right stays right.
LEMMA EntryKept ==
  ASSUME Goes, NEW j \in DOMAIN log, EntryRight(j)
  PROVE  EntryRight(j)'
<1>1. log'[j] = log[j] /\ Extends /\ leader' = leader
  BY DEF Goes, Extends
<1>2. ASSUME log[j].token # NoToken
      PROVE  \E c \in Client : \E k \in Nat :
               /\ log[j].token = << c, k >> /\ k <= calls'[c].count
               /\ locker'[c].server = leader
  <2>1. PICK c \in Client, k \in Nat :
          /\ log[j].token = << c, k >> /\ k <= calls[c].count
          /\ locker[c].server = leader
    BY <1>2 DEF EntryRight
  <2>2. k <= calls'[c].count /\ locker'[c].server = leader
    BY <2>1 DEF Goes
  <2>3. QED
    BY <2>1, <2>2
<1>3. ASSUME log[j].cmd.type = "put_if_absent"
      PROVE  \E c \in Client : Under(j, c, log[j].cmd.lease)'
  <2>1. PICK l : l = log[j].cmd.lease
    OBVIOUS
  <2>2. PICK c \in Client : Under(j, c, l)
    BY <1>3, <2>1 DEF EntryRight
  <2>3. Under(j, c, l)'
    BY <1>1, <2>2, UnderKept
  <2>4. l = log'[j].cmd.lease
    BY <1>1, <2>1
  <2>5. QED
    BY <2>3, <2>4 DEF Under, GrantedTo
<1>4. QED
  BY <1>1, <1>2, <1>3 DEF EntryRight

\* What is new in the log comes last.
IsNewPlace(j) == j \in DOMAIN log' /\ j \notin DOMAIN log

\* The new place of the log comes after all the others.
LEMMA NewIsLast ==
  ASSUME Extends, NEW j, IsNewPlace(j), NEW i \in DOMAIN log
  PROVE  i < j
  BY DEF Extends, IsNewPlace

\* The log stays right when its new entry is right where it was appended.
LEMMA LogKept ==
  ASSUME Goes, LogRight,
         \A j : IsNewPlace(j) =>
           /\ j = Len(log) + 1
           /\ EntryRight(j)'
           /\ IsPut(j)' => \A i \in DOMAIN log :
                IsDelete(i) /\ log[i].token # NoToken
                  => log[i].lease # log'[j].cmd.lease
  PROVE  LogRight'
<1>1. Extends
  BY DEF Goes
<1>2. \A j \in DOMAIN log : log'[j] = log[j]
  BY <1>1 DEF Extends
<1>3. ASSUME NEW j \in DOMAIN log'
      PROVE  EntryRight(j)'
  <2>1. CASE j \in DOMAIN log
    BY <2>1, EntryKept DEF LogRight
  <2>2. CASE j \notin DOMAIN log
    BY <2>2 DEF IsNewPlace
  <2>3. QED
    BY <2>1, <2>2
<1>4. ASSUME NEW i \in DOMAIN log', NEW j \in DOMAIN log',
             IsPut(i)', IsDelete(j)', log'[j].token # NoToken,
             log'[j].lease = log'[i].cmd.lease
      PROVE  i < j
  <2>1. CASE i \in DOMAIN log /\ j \in DOMAIN log
    <3>1. IsPut(i) /\ IsDelete(j)
      BY <1>2, <1>4, <2>1 DEF IsPut, IsDelete
    <3>2. log[j].token # NoToken /\ log[j].lease = log[i].cmd.lease
      BY <1>2, <1>4, <2>1
    <3>3. QED
      BY <2>1, <3>1, <3>2 DEF LogRight, PutsFirst
  <2>2. CASE i \in DOMAIN log /\ j \notin DOMAIN log
    BY <1>1, <2>2, NewIsLast DEF IsNewPlace
  <2>3. CASE i \notin DOMAIN log /\ j \in DOMAIN log
    <3>1. IsNewPlace(i) /\ IsDelete(j) /\ log'[j] = log[j]
      BY <1>2, <1>4, <2>3 DEF IsNewPlace, IsDelete
    <3>2. log[j].lease # log'[i].cmd.lease
      BY <1>4, <2>3, <3>1
    <3>3. QED
      BY <1>4, <3>1, <3>2
  <2>4. CASE i \notin DOMAIN log /\ j \notin DOMAIN log
    <3>1. i = j
      BY <2>4 DEF IsNewPlace
    <3>2. log'[i].cmd.type = "put_if_absent" /\ log'[j].cmd.type = "delete"
      BY <1>4 DEF IsPut, IsDelete
    <3>3. QED
      BY <3>1, <3>2
  <2>5. QED
    BY <2>1, <2>2, <2>3, <2>4
<1>5. PutsFirst'
  BY <1>4 DEF PutsFirst
<1>6. QED
  BY <1>3, <1>5 DEF LogRight

\* Deletes stay right while leases that have ended stay so and clients that
\* have given the lock up do not take it again.
LEMMA DeletesKept ==
  ASSUME Goes, DeletesRight,
         \A l : Dead(l) => Dead(l)',
         \A l : \A c \in Client : \A j \in DOMAIN log :
           IsDelete(j) /\ log[j].lease = l /\ Under(j, c, l) /\ GivenUp(c, l)
             => GivenUp(c, l)',
         \A j : IsNewPlace(j) => DeleteRight(j)'
  PROVE  DeletesRight'
<1>1. Extends /\ leader' = leader
  BY DEF Goes
<1>2. SUFFICES ASSUME NEW j \in DOMAIN log', j \in DOMAIN log, IsDelete(j)'
               PROVE  DeleteRight(j)'
  BY DEF DeletesRight, IsNewPlace, DeleteRight
<1>3. PICK l : l = log[j].lease
  OBVIOUS
<1>4. log'[j] = log[j] /\ IsDelete(j)
  BY <1>1, <1>2 DEF Extends, IsDelete
<1>5. DeleteRight(j)
  BY <1>2 DEF DeletesRight
<1>6. CASE log[j].token = NoToken /\ Dead(l)
  <2>1. Dead(l)' /\ log'[j].token = NoToken /\ l = log'[j].lease
    BY <1>3, <1>4, <1>6
  <2>2. QED
    BY <2>1 DEF DeleteRight
<1>7. ASSUME NEW c \in Client, Under(j, c, l), GivenUp(c, l)
      PROVE  DeleteRight(j)'
  <2>1. Under(j, c, l)'
    BY <1>1, <1>2, <1>7, UnderKept
  <2>2. GivenUp(c, l)'
    BY <1>2, <1>3, <1>4, <1>7
  <2>3. l = log'[j].lease
    BY <1>3, <1>4
  <2>4. QED
    BY <2>1, <2>2, <2>3 DEF DeleteRight
<1>8. \/ log[j].token = NoToken /\ Dead(l)
      \/ \E c \in Client : Under(j, c, l) /\ GivenUp(c, l)
  BY <1>3, <1>4, <1>5 DEF DeleteRight
<1>9. QED
  BY <1>6, <1>7, <1>8

\* An object that has not changed stays right, unless its client has called.
LEMMA LockerKept ==
  ASSUME Goes, NEW c \in Client, LockerRight(c), locker'[c] = locker[c],
         calls'[c].count = calls[c].count,
         \A j : IsNewPlace(j) => log'[j].token # << c, calls[c].count >>
  PROVE  LockerRight(c)'
<1>1. Extends /\ leader' = leader /\ calls[c].count \in Nat
  BY DEF Goes
<1>2. PICK l, k : l = locker[c].lease /\ k = calls[c].count
  OBVIOUS
<1>3. l = locker'[c].lease /\ k = calls'[c].count /\ k \in Nat
  BY <1>1, <1>2
<1>4. l # NoLease => GrantedTo(l, c, k, Len(log) + 1)
  BY <1>2 DEF LockerRight
<1>5. l # NoLease => GrantedTo(l, c, k, Len(log) + 1)'
  <2>1. PICK j : j = Len(log) + 1
    OBVIOUS
  <2>2. PICK i : i = Len(log') + 1
    OBVIOUS
  <2>3. j \in 1 .. Len(log) + 1 /\ i \in Nat /\ j <= i
    BY <1>1, <2>1, <2>2 DEF Extends
  <2>4. l # NoLease => GrantedTo(l, c, k, i)'
    BY <1>1, <1>3, <1>4, <2>1, <2>3, GrantedKept
  <2>5. QED
    BY <2>2, <2>4 DEF GrantedTo
<1>6. At(c, "checked")' => \A x : ~Renews(c, x)'
  BY DEF LockerRight, At, Renews
<1>7. ASSUME NEW j \in DOMAIN log', log'[j].token = << c, k >>
      PROVE  AwaitsOwn(c, j)'
  <2>1. j \in DOMAIN log
    BY <1>2, <1>7 DEF IsNewPlace
  <2>2. log'[j] = log[j]
    BY <1>1, <2>1 DEF Extends
  <2>3. AwaitsOwn(c, j)
    BY <1>2, <1>7, <2>1, <2>2 DEF LockerRight
  <2>4. QED
    BY <2>2, <2>3 DEF AwaitsOwn, At, IsDelete
<1>8. QED
  BY <1>3, <1>5, <1>6, <1>7 DEF LockerRight, GrantedTo

\* What a client has been answered stays right.
LEMMA ReplyKept ==
  ASSUME NEW c \in Client, ReplyRight(c), locker'[c] = locker[c],
         calls'[c] = calls[c], leader' = leader,
         applied[leader] \in Nat, applied'[leader] \in Nat,
         calls[c].answer.at \in Nat,
         applied[leader] <= applied'[leader],
         \A l : Taken(l) => Taken(l)'
  PROVE  ReplyRight(c)'
<1>1. PICK l : l = locker[c].lease
  OBVIOUS
<1>2. At(c, "putting")' /\ calls'[c].answer.ok => Taken(l)'
  BY <1>1 DEF ReplyRight, At
<1>3. At(c, "putting")' /\ calls'[c].answer.ok => Taken(locker[c].lease)'
  BY <1>1, <1>2 DEF Taken, PutsUnder, LockBound, Done, PutCommand
<1>4. \A x : Renews(c, x)' => Taken(x)'
  BY DEF ReplyRight, Renews
<1>5. QED
  BY <1>3, <1>4 DEF ReplyRight, At

-----------------------------------------------------------------------------
(* Steps that leave the leader's replica alone.                             *)

\* The leader has applied a part of the log.
DoneInLog == applied[leader] \in Nat /\ Done \subseteq DOMAIN log

\* What the leader has applied lies in its log.
LEMMA ShapeDone ==
  ASSUME Shape
  PROVE  DoneInLog
<1>1. Len(log) \in Nat /\ DOMAIN log = 1 .. Len(log)
  BY LenProperties DEF Shape, LogShape
<1>2. applied[leader] \in Nat /\ applied[leader] <= Len(log)
  BY <1>1 DEF Shape, LogShape, ReplicaShape
<1>3. QED
  BY <1>1, <1>2 DEF DoneInLog, Done

\* What was applied is still there, and its entries are the same.
LEMMA DoneStays ==
  ASSUME Extends, leader' = leader, DoneInLog, applied'[leader] = applied[leader]
  PROVE  /\ Done' = Done
         /\ \A i \in Done : log'[i] = log[i]
         /\ \A l : PutsUnder(l)' = PutsUnder(l) /\ EndsOf(l)' = EndsOf(l)
<1>1. Done' = Done
  BY DEF Done
<1>2. \A i \in Done : log'[i] = log[i]
  BY DEF DoneInLog, Extends
<1>3. \A l : PutsUnder(l)' = PutsUnder(l) /\ EndsOf(l)' = EndsOf(l)
  BY <1>1, <1>2 DEF PutsUnder, EndsOf, PutCommand
<1>4. QED
  BY <1>1, <1>2, <1>3

\* Who holds the lock and which leases live are read off the machine of the leader.
LEMMA StillBound ==
  ASSUME MachineStill, leader' = leader, NEW l
  PROVE  /\ LockBound(l)' <=> LockBound(l)
         /\ Lives(l)' <=> Lives(l)
  BY DEF MachineStill, LockBound, Lives

\* A step that leaves the machine of the leader alone revives no lease.
LEMMA StillKeeps ==
  ASSUME MachineStill, Extends, leader' = leader, DoneInLog
  PROVE  /\ \A l : Dead(l) => Dead(l)'
         /\ \A l : Taken(l) => Taken(l)'
<1>1. applied'[leader] = applied[leader]
  BY DEF MachineStill
<1>2. ASSUME NEW l, Dead(l)
      PROVE  Dead(l)'
  BY <1>1, <1>2, StillBound, DoneStays DEF Dead
<1>3. ASSUME NEW l, Taken(l)
      PROVE  Taken(l)'
  <2>1. PICK i \in PutsUnder(l) : LockBound(l) \/ \E j \in Done : i < j /\ IsDelete(j)
    BY <1>3 DEF Taken
  <2>2. i \in PutsUnder(l)' /\ Done' = Done /\ \A j \in Done : log'[j] = log[j]
    BY <1>1, <2>1, DoneStays
  <2>3. LockBound(l) => LockBound(l)'
    BY StillBound
  <2>4. \A j \in Done : IsDelete(j) => IsDelete(j)'
    BY <2>2 DEF IsDelete
  <2>5. LockBound(l)' \/ \E j \in Done' : i < j /\ IsDelete(j)'
    BY <2>1, <2>2, <2>3, <2>4
  <2>6. QED
    BY <2>2, <2>5 DEF Taken
<1>4. QED
  BY <1>2, <1>3

\* Such a step keeps the leases, the holder of the lock and the grants right.
LEMMA MachineStillRight ==
  ASSUME MachineStill, Extends, leader' = leader, DoneInLog,
         LeasesRight, BoundRight, GrantsRight
  PROVE  LeasesRight' /\ BoundRight' /\ GrantsRight'
<1>1. /\ applied'[leader] = applied[leader]
      /\ DOMAIN machine'[leader].leases = DOMAIN machine[leader].leases
      /\ stuck'[leader] = stuck[leader]
  BY DEF MachineStill
<1>2. /\ Done' = Done /\ \A i \in Done : log'[i] = log[i]
      /\ \A l : PutsUnder(l)' = PutsUnder(l) /\ EndsOf(l)' = EndsOf(l)
  BY <1>1, DoneStays
<1>3. \A i \in Done : IsDelete(i)' <=> IsDelete(i)
  BY <1>2 DEF IsDelete
<1>4. LeasesRight'
  <2>1. SUFFICES ASSUME NEW l \in DOMAIN machine[leader].leases
                 PROVE  /\ \E i \in Done : l = << leader, i >>
                        /\ machine'[leader].leases[l].keys \subseteq {Lock}
    BY <1>1, <1>2 DEF LeasesRight
  <2>2. machine[leader].leases[l].keys \subseteq {Lock}
    BY DEF LeasesRight
  <2>3. machine'[leader].leases[l].keys
          \subseteq machine[leader].leases[l].keys \cup {Lock}
    BY DEF MachineStill
  <2>4. QED
    BY <2>2, <2>3 DEF LeasesRight
<1>5. BoundRight'
  BY <1>2, <1>3, StillBound DEF BoundRight
<1>6. GrantsRight'
  <2>1. SUFFICES ASSUME NEW i \in Done, log'[i].cmd.type = "lease_grant"
                 PROVE  \/ Lives(<< leader, i >>)' \/ EndsOf(<< leader, i >>)' # {}
                        \/ stuck'[leader]
    BY <1>2 DEF GrantsRight
  <2>2. log[i].cmd.type = "lease_grant"
    BY <1>2, <2>1
  <2>3. PICK l : l = << leader, i >>
    OBVIOUS
  <2>4. Lives(l) \/ EndsOf(l) # {} \/ stuck[leader]
    BY <2>2, <2>3 DEF GrantsRight
  <2>5. Lives(l)' \/ EndsOf(l)' # {} \/ stuck'[leader]
    BY <1>1, <1>2, <2>4, StillBound
  <2>6. QED
    BY <2>3, <2>5 DEF Lives, EndsOf
<1>7. QED
  BY <1>4, <1>5, <1>6

\* With the ending of a lease left alone as well, all of the machine stays right.
LEMMA StillRight ==
  ASSUME LeaderStill, Extends, leader' = leader, DoneInLog, MachineRight
  PROVE  MachineRight'
<1>1. /\ applied'[leader] = applied[leader]
      /\ DOMAIN machine'[leader].leases = DOMAIN machine[leader].leases
      /\ ending'[leader] = ending[leader] /\ stuck'[leader] = stuck[leader]
  BY DEF LeaderStill, MachineStill
<1>2. /\ Done' = Done /\ \A i \in Done : log'[i] = log[i]
      /\ \A l : PutsUnder(l)' = PutsUnder(l) /\ EndsOf(l)' = EndsOf(l)
  BY <1>1, DoneStays
<1>3. \A i \in Done : IsDelete(i)' <=> IsDelete(i)
  BY <1>2 DEF IsDelete
<1>4. LeasesRight' /\ BoundRight' /\ GrantsRight'
  BY MachineStillRight DEF LeaderStill, MachineRight
<1>5. EndingRight'
  <2>1. \A l : Dead(l) => Dead(l)'
    BY StillKeeps DEF LeaderStill
  <2>2. PICK e : e = ending[leader]
    OBVIOUS
  <2>3. e = ending'[leader]
    BY <1>1, <2>2
  <2>4. /\ e.keys \subseteq {Lock}
        /\ e # Idle => /\ Dead(e.lease) /\ e.at \in Done
                       /\ log[e.at].cmd.type \in {"lease_revoke", "lease_expire"}
    BY <2>2 DEF MachineRight, EndingRight, Busy
  <2>5. e # Idle => /\ Dead(e.lease)' /\ e.at \in Done'
                    /\ log'[e.at].cmd.type \in {"lease_revoke", "lease_expire"}
    BY <1>2, <2>1, <2>4
  <2>6. e # Idle => Dead(ending[leader].lease)'
    BY <2>3, <2>5 DEF Dead, Lives
  <2>7. QED
    BY <2>3, <2>4, <2>5, <2>6 DEF EndingRight, Busy
<1>6. KeyRight'
  <2>1. SUFFICES ASSUME NEW l, LockBound(l)'
                 PROVE  \/ Lives(l)' /\ Lock \in machine'[leader].leases[l].keys
                        \/ ending'[leader].lease = l /\ Lock \in ending'[leader].keys
                        \/ \E i \in applied'[leader] + 1 .. Len(log') : IsDelete(i)'
                        \/ stuck'[leader] \/ PutTooLate(l)'
    BY DEF KeyRight
  <2>2. LockBound(l)
    BY <2>1, StillBound DEF LeaderStill
  <2>3. CASE Lives(l) /\ Lock \in machine[leader].leases[l].keys
    BY <2>3, StillBound DEF LeaderStill, MachineStill, Lives
  <2>4. CASE ending[leader].lease = l /\ Lock \in ending[leader].keys
    BY <1>1, <2>4
  <2>5. ASSUME NEW i \in applied[leader] + 1 .. Len(log), IsDelete(i)
        PROVE  \E j \in applied'[leader] + 1 .. Len(log') : IsDelete(j)'
    <3>1. i \in 1 .. Len(log) /\ i \in applied'[leader] + 1 .. Len(log')
      BY <1>1, <2>5 DEF Extends, DoneInLog
    <3>2. IsDelete(i)'
      BY <2>5, <3>1 DEF Extends, IsDelete
    <3>3. QED
      BY <3>1, <3>2
  <2>6. CASE stuck[leader]
    BY <1>1, <2>6
  <2>7. CASE PutTooLate(l)
    BY <1>2, <2>7 DEF PutTooLate
  <2>8. QED
    BY <2>2, <2>3, <2>4, <2>5, <2>6, <2>7 DEF MachineRight, KeyRight
<1>7. QED
  BY <1>4, <1>5, <1>6 DEF MachineRight

-----------------------------------------------------------------------------
(* The leader applies an entry.                                             *)

Ends == {"lease_revoke", "lease_expire"}

\* What a command makes of the lock ...
OnData(sm, cmd, r) ==
  /\ cmd.type \notin {"put_if_absent", "delete"} => r.sm.data = sm.data
  /\ cmd.type = "delete" => Lock \notin DOMAIN r.sm.data
  /\ cmd.type = "put_if_absent" /\ Lock \in DOMAIN sm.data =>
       r.sm.data = sm.data /\ ~r.answer.ok
  /\ cmd.type = "put_if_absent" /\ Lock \notin DOMAIN sm.data =>
       /\ Lock \in DOMAIN r.sm.data /\ r.sm.data[Lock].lease = cmd.lease
       /\ cmd.lease \in DOMAIN sm.leases => Lock \in r.sm.leases[cmd.lease].keys

\* ... of the leases ...
OnLeases(sm, cmd, fresh, r) ==
  /\ \A x \in DOMAIN r.sm.leases :
       /\ x \in DOMAIN sm.leases \/ (cmd.type = "lease_grant" /\ x = fresh)
       /\ r.sm.leases[x].keys \subseteq {Lock}
       /\ cmd.type # "delete" /\ x \in DOMAIN sm.leases =>
            sm.leases[x].keys \subseteq r.sm.leases[x].keys
  /\ \A x \in DOMAIN sm.leases :
       x \in DOMAIN r.sm.leases \/ (cmd.type \in Ends /\ x = cmd.lease)
  /\ cmd.type \in Ends => cmd.lease \notin DOMAIN r.sm.leases
  /\ cmd.type = "lease_grant" =>
       fresh \in DOMAIN r.sm.leases /\ r.answer.lease = fresh

\* ... and of the keys of a lease that it ends.
OnKeys(sm, cmd, r) ==
  /\ r.orphans # {} =>
       /\ cmd.type \in Ends /\ cmd.lease \in DOMAIN sm.leases
       /\ r.answer.lease = cmd.lease
  /\ cmd.type \in Ends /\ cmd.lease \in DOMAIN sm.leases =>
       r.orphans = sm.leases[cmd.lease].keys

Effect(sm, cmd, fresh, r) ==
  OnData(sm, cmd, r) /\ OnLeases(sm, cmd, fresh, r) /\ OnKeys(sm, cmd, r)

\* What each kind of command of the clients does to the leader's machine.
LEMMA CommandEffect ==
  ASSUME NEW sm, IsMachine(sm), NEW cmd, cmd.type \in Kinds,
         cmd.type = "lease_grant" => cmd.lease = NoLease,
         cmd.type = "put_if_absent" =>
           cmd = PutCommand(cmd.lease) /\ cmd.lease # NoLease,
         cmd.type = "delete" => cmd.key = Lock,
         NEW fresh, fresh \notin DOMAIN sm.leases, NoLease \notin DOMAIN sm.leases,
         \A x \in DOMAIN sm.leases : sm.leases[x].keys \subseteq {Lock},
         NEW r, r = ApplyCommand(sm, cmd, fresh)
  PROVE  Effect(sm, cmd, fresh, r)
<1>1. CASE cmd.type = "put_if_absent" /\ Lock \in DOMAIN sm.data
  <2>1. /\ r.sm.data = sm.data /\ r.sm.leases = sm.leases
        /\ ~r.answer.ok /\ r.orphans = {}
    BY <1>1, PutRefused
  <2>2. OnData(sm, cmd, r)
    BY <1>1, <2>1 DEF OnData, Ends
  <2>3. OnLeases(sm, cmd, fresh, r)
    BY <1>1, <2>1 DEF OnLeases, Ends
  <2>4. OnKeys(sm, cmd, r)
    BY <1>1, <2>1 DEF OnKeys, Ends
  <2>5. QED
    BY <2>2, <2>3, <2>4 DEF Effect
<1>2. CASE cmd.type = "put_if_absent" /\ Lock \notin DOMAIN sm.data
  <2>1. PICK l : l = cmd.lease
    OBVIOUS
  <2>2. /\ Lock \in DOMAIN r.sm.data /\ r.sm.data[Lock].lease = l
        /\ DOMAIN r.sm.leases = DOMAIN sm.leases
        /\ l \in DOMAIN sm.leases => Lock \in r.sm.leases[l].keys
        /\ \A x \in DOMAIN sm.leases :
             /\ sm.leases[x].keys \subseteq r.sm.leases[x].keys
             /\ r.sm.leases[x].keys \subseteq sm.leases[x].keys \cup {Lock}
        /\ r.orphans = {}
    BY <1>2, <2>1, PutTakes
  <2>3. OnData(sm, cmd, r)
    BY <1>2, <2>1, <2>2 DEF OnData, Ends
  <2>4. OnLeases(sm, cmd, fresh, r)
    BY <1>2, <2>1, <2>2 DEF OnLeases, Ends
  <2>5. OnKeys(sm, cmd, r)
    BY <1>2, <2>1, <2>2 DEF OnKeys, Ends
  <2>6. QED
    BY <2>3, <2>4, <2>5 DEF Effect
<1>3. CASE cmd.type = "delete"
  <2>1. /\ Lock \notin DOMAIN r.sm.data
        /\ Within(r.sm.leases, sm.leases)
        /\ r.orphans = {}
    BY <1>3, DeleteFrees
  <2>2. OnData(sm, cmd, r)
    BY <1>3, <2>1 DEF OnData, Ends, Within
  <2>3. OnLeases(sm, cmd, fresh, r)
    BY <1>3, <2>1 DEF OnLeases, Ends, Within
  <2>4. OnKeys(sm, cmd, r)
    BY <1>3, <2>1 DEF OnKeys, Ends, Within
  <2>5. QED
    BY <2>2, <2>3, <2>4 DEF Effect
<1>4. CASE cmd.type = "lease_grant"
  <2>1. /\ r.sm.data = sm.data
        /\ DOMAIN r.sm.leases = DOMAIN sm.leases \cup {fresh}
        /\ r.sm.leases[fresh].keys = {}
        /\ \A x \in DOMAIN sm.leases : r.sm.leases[x].keys = sm.leases[x].keys
        /\ r.answer.lease = fresh /\ r.orphans = {}
    BY <1>4, GrantAdds
  <2>2. OnData(sm, cmd, r)
    BY <1>4, <2>1 DEF OnData, Ends
  <2>3. OnLeases(sm, cmd, fresh, r)
    BY <1>4, <2>1 DEF OnLeases, Ends
  <2>4. OnKeys(sm, cmd, r)
    BY <1>4, <2>1 DEF OnKeys, Ends
  <2>5. QED
    BY <2>2, <2>3, <2>4 DEF Effect
<1>5. CASE cmd.type = "lease_keepalive"
  <2>1. /\ r.sm.data = sm.data
        /\ Within(r.sm.leases, sm.leases) /\ Within(sm.leases, r.sm.leases)
        /\ r.orphans = {}
    BY <1>5, KeepaliveKeeps
  <2>2. OnData(sm, cmd, r)
    BY <1>5, <2>1 DEF OnData, Ends, Within
  <2>3. OnLeases(sm, cmd, fresh, r)
    BY <1>5, <2>1 DEF OnLeases, Ends, Within
  <2>4. OnKeys(sm, cmd, r)
    BY <1>5, <2>1 DEF OnKeys, Ends, Within
  <2>5. QED
    BY <2>2, <2>3, <2>4 DEF Effect
<1>6. CASE cmd.type \in Ends
  <2>1. /\ r.sm.data = sm.data
        /\ DOMAIN r.sm.leases = DOMAIN sm.leases \ {cmd.lease}
        /\ \A x \in DOMAIN r.sm.leases : r.sm.leases[x].keys = sm.leases[x].keys
        /\ cmd.lease \notin DOMAIN sm.leases => r.orphans = {}
        /\ cmd.lease \in DOMAIN sm.leases =>
             r.orphans = sm.leases[cmd.lease].keys /\ r.answer.lease = cmd.lease
    BY <1>6, EndDrops DEF Ends
  <2>2. OnData(sm, cmd, r)
    BY <1>6, <2>1 DEF OnData, Ends
  <2>3. OnLeases(sm, cmd, fresh, r)
    BY <1>6, <2>1 DEF OnLeases, Ends
  <2>4. OnKeys(sm, cmd, r)
    BY <1>6, <2>1 DEF OnKeys, Ends
  <2>5. QED
    BY <2>2, <2>3, <2>4 DEF Effect
<1>7. QED
  BY <1>1, <1>2, <1>3, <1>4, <1>5, <1>6 DEF Kinds, LeaseTypes, Ends

\* What the leader's replica is like once it has applied its next entry.
Blocks ==
  /\ stuck'[leader] /\ machine'[leader].leases = machine[leader].leases
  /\ ending'[leader] = ending[leader]

Begins(i, r) ==
  /\ ~Busy(leader) /\ r.orphans # {} /\ machine'[leader].leases = r.sm.leases
  /\ stuck'[leader] = stuck[leader]
  /\ ending'[leader].at = i /\ ending'[leader].lease = r.answer.lease
  /\ ending'[leader].keys = r.orphans

Finishes(r) ==
  /\ r.orphans = {} /\ machine'[leader].leases = r.sm.leases
  /\ stuck'[leader] = stuck[leader] /\ ending'[leader] = ending[leader]

\* Nobody is answered but the client that has asked for the entry at place i.
AnswersFor(i, r) ==
  \A c \in Client :
    \/ calls'[c] = calls[c]
    \/ /\ log[i].token = << c, calls[c].count >>
       /\ calls'[c].count = calls[c].count
       /\ calls'[c].answer = [at |-> i, ok |-> r.answer.ok, lease |-> r.answer.lease]

\* What the leader does when it applies its next entry, and whom it answers.
LEMMA LeaderApplies ==
  ASSUME Shape, FiledRight, changes = 0, Apply(leader),
         NEW i, i = applied[leader] + 1,
         NEW r, r = ApplyCommand(machine[leader], log[i].cmd, << leader, i >>)
  PROVE  /\ UNCHANGED << raft, log >> /\ ~stuck[leader]
         /\ i \in Nat /\ i \in DOMAIN log /\ applied'[leader] = i
         /\ machine'[leader].data = r.sm.data
         /\ Blocks \/ Begins(i, r) \/ Finishes(r)
         /\ AnswersFor(i, r)
<1>1. /\ applied' = [applied EXCEPT ![leader] = i]
      /\ applied[leader] < Known(leader) /\ ~stuck[leader]
      /\ UNCHANGED << raft, log >>
      /\ Block(leader, r) \/ BeginEnd(leader, r) \/ Finish(leader, r)
  BY DEF Apply
<1>2. leader \in Server /\ applied'[leader] = i
  BY <1>1 DEF Shape, LogShape, ReplicaShape
<1>3. i \in Nat /\ i \in 1 .. Len(log)
  BY <1>1, <1>2, AppliesCommitted
<1>4. i \in DOMAIN log
  BY <1>3, LenProperties DEF Shape, LogShape
<1>5. IsMachine(r.sm)
  BY SMTT(60), <1>2, ApplyMachine DEF Shape, ReplicaShape
<1>6. CASE Block(leader, r)
  <2>1. /\ stuck' = [stuck EXCEPT ![leader] = TRUE]
        /\ machine' = [machine EXCEPT ![leader] =
                         [r.sm EXCEPT !.leases = machine[leader].leases]]
        /\ UNCHANGED << ending, callbacks, calls >>
    BY SMTT(60), <1>6 DEF Block
  <2>2. [r.sm EXCEPT !.leases = machine[leader].leases]
          = [data |-> r.sm.data, revision |-> r.sm.revision,
             leases |-> machine[leader].leases]
    BY <1>5 DEF IsMachine
  <2>3. machine'[leader] = [data |-> r.sm.data, revision |-> r.sm.revision,
                            leases |-> machine[leader].leases]
    BY SMTT(60), <1>2, <2>1, <2>2 DEF Shape, ReplicaShape
  <2>4. stuck'[leader]
    BY SMTT(60), <1>2, <2>1 DEF Shape, ReplicaShape
  <2>5. Blocks
    BY <2>1, <2>3, <2>4 DEF Blocks
  <2>6. AnswersFor(i, r)
    BY <2>1 DEF AnswersFor
  <2>7. QED
    BY <1>1, <1>2, <1>3, <1>4, <2>3, <2>5, <2>6
<1>7. CASE BeginEnd(leader, r)
  <2>1. /\ ~Busy(leader) /\ r.orphans # {}
        /\ machine' = [machine EXCEPT ![leader] = r.sm]
        /\ ending' = [ending EXCEPT ![leader] =
             [at |-> i, lease |-> r.answer.lease, keys |-> r.orphans,
              upto |-> committed]]
        /\ UNCHANGED << stuck, callbacks, calls >>
    BY <1>7 DEF BeginEnd
  <2>2. machine'[leader] = r.sm
    BY SMTT(60), <1>2, <2>1 DEF Shape, ReplicaShape
  <2>3. ending'[leader] = [at |-> i, lease |-> r.answer.lease, keys |-> r.orphans,
                           upto |-> committed]
    BY SMTT(60), <1>2, <2>1 DEF Shape, ReplicaShape
  <2>4. Begins(i, r)
    BY <2>1, <2>2, <2>3 DEF Begins
  <2>5. AnswersFor(i, r)
    BY <2>1 DEF AnswersFor
  <2>6. QED
    BY <1>1, <1>2, <1>3, <1>4, <2>2, <2>4, <2>5
<1>8. CASE Finish(leader, r)
  <2>1. /\ r.orphans = {}
        /\ machine' = [machine EXCEPT ![leader] = r.sm]
        /\ Notify(leader, i, r.answer)
        /\ UNCHANGED << ending, stuck >>
    BY <1>8 DEF Finish
  <2>2. machine'[leader] = r.sm
    BY SMTT(60), <1>2, <2>1 DEF Shape, ReplicaShape
  <2>3. Finishes(r)
    BY <2>1, <2>2 DEF Finishes
  <2>4. \A c \in Client :
          \/ calls'[c] = calls[c]
          \/ /\ i \in DOMAIN callbacks[leader]
             /\ callbacks[leader][i] = << c, calls[c].count >>
             /\ calls'[c].count = calls[c].count
             /\ calls'[c].answer
                  = [at |-> i, ok |-> r.answer.ok, lease |-> r.answer.lease]
    BY <1>2, <1>3, <2>1, NotifyEffect DEF Shape
  <2>5. i \in DOMAIN callbacks[leader] => log[i].token = callbacks[leader][i]
    BY <1>2 DEF FiledRight
  <2>6. AnswersFor(i, r)
    BY <2>4, <2>5 DEF AnswersFor
  <2>7. QED
    BY <1>1, <1>2, <1>3, <1>4, <2>2, <2>3, <2>6
<1>9. QED
  BY <1>1, <1>6, <1>7, <1>8

\* The others stay silent while the leader applies.
LEMMA LeaderApplySilent ==
  ASSUME Shape, OthersSilent, Apply(leader)
  PROVE  OthersSilent'
<1> DEFINE i == applied[leader] + 1
           r == ApplyCommand(machine[leader], log[i].cmd, << leader, i >>)
<1>1. Block(leader, r) \/ BeginEnd(leader, r) \/ Finish(leader, r)
  BY DEF Apply
<1>2. leader' = leader /\ leader \in Server /\ i \in Nat
  BY DEF Apply, raft, Shape, LogShape, ReplicaShape
<1> HIDE DEF i, r
<1>3. CASE callbacks' = callbacks
  BY <1>2, <1>3 DEF OthersSilent
<1>4. CASE Finish(leader, r)
  <2>1. Notify(leader, i, r.answer)
    BY <1>4 DEF Finish, i
  <2>2. QED
    BY <1>2, <2>1, NotifySilent
<1>5. QED
  BY <1>1, <1>3, <1>4 DEF Block, BeginEnd

\* Entry i has been applied at the leader, as r.
AppliesAs(i, r) ==
  /\ UNCHANGED << raft, log >> /\ ~stuck[leader]
  /\ i \in Nat /\ i \in DOMAIN log /\ i = applied[leader] + 1
  /\ applied'[leader] = i
  /\ machine'[leader].data = r.sm.data
  /\ Blocks \/ Begins(i, r) \/ Finishes(r)
  /\ Effect(machine[leader], log[i].cmd, << leader, i >>, r)

\* A lease that is granted to somebody is the pair of a replica and a place.
LEMMA GrantedIsPair ==
  ASSUME NEW l, NEW c, NEW k, NEW j, GrantedTo(l, c, k, j)
  PROVE  l # NoLease
<1>1. PICK p : l = << leader, p >>
  BY DEF GrantedTo
<1>2. QED
  BY <1>1, PairIsOne DEF NoLease

\* The same in the terms of the invariant: the effect, the entry and the answer.
LEMMA LeaderEffect ==
  ASSUME Shape, FiledRight, changes = 0, LogRight, LeasesRight, Apply(leader)
  PROVE  \E i, r : AppliesAs(i, r) /\ AnswersFor(i, r)
<1>1. PICK i : i = applied[leader] + 1
  OBVIOUS
<1>2. PICK r : r = ApplyCommand(machine[leader], log[i].cmd, << leader, i >>)
  OBVIOUS
<1>3. /\ UNCHANGED << raft, log >> /\ ~stuck[leader]
      /\ i \in Nat /\ i \in DOMAIN log /\ applied'[leader] = i
      /\ machine'[leader].data = r.sm.data
      /\ Blocks \/ Begins(i, r) \/ Finishes(r)
      /\ AnswersFor(i, r)
  BY <1>1, <1>2, LeaderApplies
<1>4. PICK cmd, sm : cmd = log[i].cmd /\ sm = machine[leader]
  OBVIOUS
<1>5. IsMachine(sm)
  BY <1>4 DEF Shape, ReplicaShape, LogShape
<1>6. EntryRight(i)
  BY <1>3 DEF LogRight
<1>7. /\ cmd.type \in Kinds
      /\ cmd.type = "lease_grant" => cmd.lease = NoLease
      /\ cmd.type = "delete" => cmd.key = Lock
  BY <1>4, <1>6 DEF EntryRight
<1>8. ASSUME cmd.type = "put_if_absent"
      PROVE  cmd = PutCommand(cmd.lease) /\ cmd.lease # NoLease
  <2>1. cmd = PutCommand(cmd.lease)
    BY <1>4, <1>6, <1>8 DEF EntryRight
  <2>2. PICK c \in Client : Under(i, c, cmd.lease)
    BY <1>4, <1>6, <1>8 DEF EntryRight
  <2>3. cmd.lease # NoLease
    BY <2>2, GrantedIsPair DEF Under
  <2>4. QED
    BY <2>1, <2>3
<1>9. \A x \in DOMAIN sm.leases : x # << leader, i >> /\ x # NoLease
  <2>1. SUFFICES ASSUME NEW x \in DOMAIN sm.leases
                 PROVE  x # << leader, i >> /\ x # NoLease
    OBVIOUS
  <2>2. PICK p \in Done : x = << leader, p >>
    BY <1>4 DEF LeasesRight
  <2>3. p # i
    <3>1. applied[leader] \in Nat /\ p \in 1 .. applied[leader]
      BY ShapeDone DEF DoneInLog, Done
    <3>2. QED
      BY <1>1, <3>1
  <2>4. x # NoLease
    BY <2>2, PairIsOne DEF NoLease
  <2>5. QED
    BY <2>2, <2>3, <2>4
<1>10. \A x \in DOMAIN sm.leases : sm.leases[x].keys \subseteq {Lock}
  BY <1>4 DEF LeasesRight
<1>11. PICK fresh : fresh = << leader, i >>
  OBVIOUS
<1>12. Effect(sm, cmd, fresh, r)
  <2>1. r = ApplyCommand(sm, cmd, fresh)
    BY <1>2, <1>4, <1>11
  <2>2. fresh \notin DOMAIN sm.leases /\ NoLease \notin DOMAIN sm.leases
    BY <1>9, <1>11
  <2>3. QED
    BY <1>5, <1>7, <1>8, <1>10, <2>1, <2>2, CommandEffect
<1>13. AppliesAs(i, r)
  BY <1>1, <1>3, <1>4, <1>11, <1>12 DEF AppliesAs
<1>14. QED
  BY <1>3, <1>13

\* What has been applied grows by the entry.
LEMMA DoneGrows ==
  ASSUME DoneInLog, NEW i, NEW r, AppliesAs(i, r)
  PROVE  /\ leader' = leader /\ log' = log
         /\ Done' = Done \cup {i} /\ i \notin Done
         /\ Done \subseteq Nat /\ i \in Nat
         /\ \A j \in Done : j < i
         /\ \A l : PutsUnder(l) \subseteq PutsUnder(l)'
         /\ \A l : \A j \in PutsUnder(l)' : j \in PutsUnder(l) \/ j = i
         /\ \A l : EndsOf(l) \subseteq EndsOf(l)'
<1>1. leader' = leader /\ log' = log
  BY DEF AppliesAs, raft
<1>2. /\ applied[leader] \in Nat /\ i = applied[leader] + 1
      /\ applied'[leader] = i /\ i \in Nat
  BY DEF DoneInLog, AppliesAs
<1>3. Done = 1 .. applied[leader] /\ Done' = 1 .. i
  BY <1>1, <1>2 DEF Done
<1>4. /\ Done' = Done \cup {i} /\ i \notin Done
      /\ Done \subseteq Nat /\ \A j \in Done : j < i
  BY <1>2, <1>3
<1>5. /\ \A l : PutsUnder(l) \subseteq PutsUnder(l)'
      /\ \A l : \A j \in PutsUnder(l)' : j \in PutsUnder(l) \/ j = i
      /\ \A l : EndsOf(l) \subseteq EndsOf(l)'
  BY <1>1, <1>4 DEF PutsUnder, EndsOf, PutCommand
<1>6. QED
  BY <1>1, <1>2, <1>4, <1>5

\* What becomes of the leases.
LEMMA LeasesAfter ==
  ASSUME NEW i, NEW r, AppliesAs(i, r), LeasesRight
  PROVE  /\ \A x \in DOMAIN machine'[leader].leases :
              /\ x \in DOMAIN machine[leader].leases \/ x = << leader, i >>
              /\ machine'[leader].leases[x].keys \subseteq {Lock}
         /\ \A x \in DOMAIN machine[leader].leases :
              \/ x \in DOMAIN machine'[leader].leases
              \/ log[i].cmd.type \in Ends /\ x = log[i].cmd.lease
<1>1. CASE Blocks
  BY <1>1 DEF Blocks, LeasesRight
<1>2. CASE machine'[leader].leases = r.sm.leases
  BY <1>2 DEF AppliesAs, Effect, OnLeases
<1>3. QED
  BY <1>1, <1>2 DEF AppliesAs, Begins, Finishes

\* A lease that has ended is not granted again.
LEMMA DeadStays ==
  ASSUME DoneInLog, NEW i, NEW r, AppliesAs(i, r), LeasesRight, NEW l, Dead(l)
  PROVE  Dead(l)'
<1>1. PICK j \in Done : l = << leader, j >>
  BY DEF Dead
<1>2. l # << leader, i >>
  BY <1>1, DoneGrows
<1>3. leader' = leader /\ Done' = Done \cup {i}
  BY DoneGrows
<1>4. ~Lives(l)'
  BY <1>2, <1>3, LeasesAfter DEF Dead, Lives
<1>5. QED
  BY <1>1, <1>3, <1>4 DEF Dead

\* Whoever has taken the lock has it until a delete.
LEMMA BoundStays ==
  ASSUME DoneInLog, NEW i, NEW r, AppliesAs(i, r), log[i].cmd.type \in Kinds,
         NEW l, LockBound(l), ~IsDelete(i)
  PROVE  LockBound(l)'
<1>1. leader' = leader
  BY DoneGrows
<1>2. Lock \in DOMAIN machine[leader].data
  BY DEF LockBound
<1>3. machine'[leader].data = machine[leader].data
  BY <1>2 DEF AppliesAs, Effect, OnData, IsDelete
<1>4. QED
  BY <1>1, <1>3 DEF LockBound

\* A lease whose put is applied stays so.
LEMMA TakenStays ==
  ASSUME DoneInLog, NEW i, NEW r, AppliesAs(i, r), log[i].cmd.type \in Kinds,
         NEW l, Taken(l)
  PROVE  Taken(l)'
<1>1. PICK k \in PutsUnder(l) : LockBound(l) \/ \E j \in Done : k < j /\ IsDelete(j)
  BY DEF Taken
<1>2. /\ k \in PutsUnder(l)' /\ k \in Done /\ k < i
      /\ Done' = Done \cup {i} /\ log' = log
  BY <1>1, DoneGrows DEF PutsUnder
<1>3. CASE \E j \in Done : k < j /\ IsDelete(j)
  <2>1. \E j \in Done' : k < j /\ IsDelete(j)'
    BY <1>2, <1>3 DEF IsDelete
  <2>2. QED
    BY <1>2, <2>1 DEF Taken
<1>4. CASE IsDelete(i)
  <2>1. i \in Done' /\ k < i /\ IsDelete(i)'
    BY <1>2, <1>4 DEF IsDelete
  <2>2. QED
    BY <1>2, <2>1 DEF Taken
<1>5. CASE LockBound(l) /\ ~IsDelete(i)
  <2>1. LockBound(l)'
    BY <1>5, BoundStays
  <2>2. QED
    BY <1>2, <2>1 DEF Taken
<1>6. QED
  BY <1>1, <1>3, <1>4, <1>5

\* Who has the lock once the entry has been applied: who had it, or who put it.
LEMMA BoundBefore ==
  ASSUME DoneInLog, NEW i, NEW r, AppliesAs(i, r), EntryRight(i), NEW l, LockBound(l)'
  PROVE  /\ ~IsDelete(i)
         /\ \/ LockBound(l) /\ machine'[leader].data = machine[leader].data
            \/ /\ log[i].cmd = PutCommand(l) /\ log[i].cmd.type = "put_if_absent"
               /\ l \in DOMAIN machine[leader].leases => Lock \in r.sm.leases[l].keys
<1>1. /\ leader' = leader
      /\ Lock \in DOMAIN r.sm.data /\ r.sm.data[Lock].lease = l
  BY DoneGrows DEF LockBound, AppliesAs
<1>2. ~IsDelete(i)
  BY <1>1 DEF AppliesAs, Effect, OnData, IsDelete
<1>3. PICK cmd : cmd = log[i].cmd
  OBVIOUS
<1>4. OnData(machine[leader], cmd, r)
  BY <1>3 DEF AppliesAs, Effect
<1>5. cmd.type # "delete"
  BY <1>2, <1>3 DEF IsDelete
<1>6. CASE r.sm.data = machine[leader].data
  BY <1>1, <1>2, <1>6 DEF LockBound, AppliesAs
<1>7. CASE cmd.type = "put_if_absent" /\ Lock \notin DOMAIN machine[leader].data
  <2>1. /\ r.sm.data[Lock].lease = cmd.lease
        /\ cmd.lease \in DOMAIN machine[leader].leases => Lock \in r.sm.leases[cmd.lease].keys
    BY <1>4, <1>7 DEF OnData
  <2>2. cmd = PutCommand(cmd.lease)
    BY <1>3, <1>7 DEF EntryRight
  <2>3. QED
    BY <1>1, <1>2, <1>3, <1>7, <2>1, <2>2
<1>8. QED
  BY <1>4, <1>5, <1>6, <1>7 DEF OnData

\* An applied entry leaves only leases named after entries, with at most the lock attached.
LEMMA AppliedLeases ==
  ASSUME DoneInLog, NEW i, NEW r, AppliesAs(i, r), LeasesRight
  PROVE  LeasesRight'
<1>1. /\ leader' = leader /\ Done' = Done \cup {i}
  BY DoneGrows
<1>2. SUFFICES ASSUME NEW x \in DOMAIN machine'[leader].leases
               PROVE  /\ \E j \in Done' : x = << leader, j >>
                      /\ machine'[leader].leases[x].keys \subseteq {Lock}
  BY <1>1 DEF LeasesRight
<1>3. /\ x \in DOMAIN machine[leader].leases \/ x = << leader, i >>
      /\ machine'[leader].leases[x].keys \subseteq {Lock}
  BY LeasesAfter
<1>4. QED
  BY <1>1, <1>3 DEF LeasesRight

\* It leaves the ending of a lease right.
LEMMA AppliedEnding ==
  ASSUME DoneInLog, NEW i, NEW r, AppliesAs(i, r), LeasesRight, EndingRight
  PROVE  EndingRight'
<1>1. /\ leader' = leader /\ Done' = Done \cup {i} /\ log' = log
  BY DoneGrows
<1>2. CASE ending'[leader] = ending[leader]
  <2>1. PICK e : e = ending[leader]
    OBVIOUS
  <2>2. e = ending'[leader]
    BY <1>2, <2>1
  <2>3. /\ e.keys \subseteq {Lock}
        /\ e # Idle => /\ Dead(e.lease) /\ e.at \in Done
                       /\ log[e.at].cmd.type \in {"lease_revoke", "lease_expire"}
    BY <2>1 DEF EndingRight, Busy
  <2>4. e # Idle => /\ Dead(e.lease)' /\ e.at \in Done'
                    /\ log'[e.at].cmd.type \in {"lease_revoke", "lease_expire"}
    BY <1>1, <2>3, DeadStays
  <2>5. e # Idle => Dead(ending[leader].lease)'
    BY <1>1, <2>2, <2>4 DEF Dead, Lives
  <2>6. QED
    BY <1>1, <2>2, <2>3, <2>4, <2>5 DEF EndingRight, Busy
<1>3. CASE Begins(i, r)
  <2>1. PICK l : l = log[i].cmd.lease
    OBVIOUS
  <2>2. /\ r.orphans # {}
        /\ machine'[leader].leases = r.sm.leases
        /\ ending'[leader].at = i /\ ending'[leader].lease = r.answer.lease
        /\ ending'[leader].keys = r.orphans
    BY <1>3 DEF Begins
  <2>3. /\ log[i].cmd.type \in Ends /\ l \in DOMAIN machine[leader].leases
        /\ r.answer.lease = l /\ r.orphans = machine[leader].leases[l].keys
        /\ l \notin DOMAIN r.sm.leases
    BY <2>1, <2>2 DEF AppliesAs, Effect, OnKeys, OnLeases
  <2>4. ending'[leader].keys \subseteq {Lock}
    BY <2>2, <2>3 DEF LeasesRight
  <2>5. Dead(l)'
    <3>1. ~Lives(l)'
      BY <1>1, <2>2, <2>3 DEF Lives
    <3>2. \E j \in Done : l = << leader, j >>
      BY <2>3 DEF LeasesRight
    <3>3. QED
      BY <1>1, <3>1, <3>2 DEF Dead
  <2>6. l = ending'[leader].lease
    BY <2>2, <2>3
  <2>7. Dead(ending[leader].lease)'
    BY <1>1, <2>5, <2>6 DEF Dead, Lives
  <2>8. log'[ending'[leader].at].cmd.type \in {"lease_revoke", "lease_expire"}
    BY <1>1, <2>2, <2>3 DEF Ends
  <2>9. ending'[leader].at \in Done'
    BY <1>1, <2>2
  <2>10. QED
    BY <1>1, <2>4, <2>7, <2>8, <2>9 DEF EndingRight, Busy
<1>4. QED
  BY <1>2, <1>3 DEF AppliesAs, Blocks, Finishes

\* A lease that holds the lock has its put applied after every delete.
LEMMA AppliedBound ==
  ASSUME DoneInLog, NEW i, NEW r, AppliesAs(i, r), EntryRight(i), BoundRight
  PROVE  BoundRight'
<1>1. /\ leader' = leader /\ Done' = Done \cup {i} /\ log' = log
      /\ \A j \in Done : j < i
  BY DoneGrows
<1>2. SUFFICES ASSUME NEW l, LockBound(l)'
               PROVE  \E k \in PutsUnder(l)' : \A j \in Done' : IsDelete(j)' => j < k
  BY DEF BoundRight
<1>3. ~IsDelete(i)
  BY <1>2, BoundBefore
<1>4. CASE LockBound(l)
  <2>1. PICK k \in PutsUnder(l) : \A j \in Done : IsDelete(j) => j < k
    BY <1>4 DEF BoundRight
  <2>2. k \in PutsUnder(l)'
    BY <2>1, DoneGrows
  <2>3. \A j \in Done' : IsDelete(j)' => j < k
    BY <1>1, <1>3, <2>1 DEF IsDelete
  <2>4. QED
    BY <2>2, <2>3
<1>5. CASE log[i].cmd = PutCommand(l)
  <2>1. i \in PutsUnder(l)'
    BY <1>1, <1>5 DEF PutsUnder, PutCommand
  <2>2. \A j \in Done' : IsDelete(j)' => j < i
    BY <1>1, <1>3 DEF IsDelete
  <2>3. QED
    BY <2>1, <2>2
<1>6. QED
  BY <1>2, <1>4, <1>5, BoundBefore

\* A lease that was granted lives, or an end of it was logged.
LEMMA AppliedGrants ==
  ASSUME DoneInLog, NEW i, NEW r, AppliesAs(i, r), LeasesRight, GrantsRight
  PROVE  GrantsRight'
<1>1. /\ leader' = leader /\ Done' = Done \cup {i} /\ log' = log
  BY DoneGrows
<1>2. SUFFICES ASSUME NEW j \in Done', log[j].cmd.type = "lease_grant", ~stuck'[leader]
               PROVE  Lives(<< leader, j >>)' \/ EndsOf(<< leader, j >>)' # {}
  BY <1>1 DEF GrantsRight
<1>3. machine'[leader].leases = r.sm.leases /\ ~stuck[leader]
  BY <1>2 DEF AppliesAs, Blocks, Begins, Finishes
<1>4. PICK l : l = << leader, j >>
  OBVIOUS
<1>5. CASE j = i
  <2>1. l \in DOMAIN r.sm.leases
    BY <1>2, <1>4, <1>5 DEF AppliesAs, Effect, OnLeases
  <2>2. QED
    BY <1>1, <1>3, <1>4, <2>1 DEF Lives
<1>6. CASE j \in Done /\ Lives(l)
  <2>1. CASE l \in DOMAIN machine'[leader].leases
    BY <1>1, <1>4, <2>1 DEF Lives
  <2>2. CASE log[i].cmd.type \in Ends /\ l = log[i].cmd.lease
    <3>1. i \in EndsOf(l)'
      BY <1>1, <2>2 DEF EndsOf, Ends
    <3>2. QED
      BY <1>1, <1>4, <3>1 DEF EndsOf
  <2>3. QED
    BY <1>6, <2>1, <2>2, LeasesAfter DEF Lives
<1>7. CASE j \in Done /\ EndsOf(l) # {}
  <2>1. EndsOf(l)' # {}
    BY <1>7, DoneGrows
  <2>2. QED
    BY <1>1, <1>4, <2>1 DEF EndsOf
<1>8. QED
  BY <1>1, <1>2, <1>3, <1>4, <1>5, <1>6, <1>7 DEF GrantsRight

\* A put under a lease that is not there any more comes after its end.
LEMMA PutLate ==
  ASSUME DoneInLog, NEW i, NEW r, AppliesAs(i, r), EntryRight(i), GrantsRight,
         NEW l, log[i].cmd = PutCommand(l), ~Lives(l)
  PROVE  PutTooLate(l)'
<1>1. /\ leader' = leader /\ Done' = Done \cup {i} /\ log' = log
      /\ \A j \in Done : j < i
  BY DoneGrows
<1>2. log[i].cmd.type = "put_if_absent" /\ log[i].cmd.lease = l
  BY DEF PutCommand
<1>3. PICK c \in Client : Under(i, c, l)
  BY <1>2 DEF EntryRight
<1>4. PICK p \in 1 .. i - 1 : l = << leader, p >> /\ log[p].cmd.type = "lease_grant"
  BY <1>3 DEF Under, GrantedTo
<1>5. p \in Done /\ ~stuck[leader]
  BY <1>4 DEF AppliesAs, Done, DoneInLog
<1>6. EndsOf(l) # {}
  BY <1>4, <1>5 DEF GrantsRight
<1>7. PICK e : e \in EndsOf(l)
  BY <1>6
<1>8. e \in EndsOf(l)' /\ e < i
  <2>1. e \in Done
    BY <1>7 DEF EndsOf
  <2>2. QED
    BY <1>1, <1>7, <2>1, DoneGrows
<1>9. i \in PutsUnder(l)'
  BY <1>1 DEF PutsUnder, PutCommand
<1>10. QED
  BY <1>8, <1>9 DEF PutTooLate

\* The lock's lease lists the lock, or is about to take it away.
LEMMA AppliedKey ==
  ASSUME DoneInLog, NEW i, NEW r, AppliesAs(i, r), EntryRight(i), Len(log) \in Nat,
         GrantsRight, KeyRight
  PROVE  KeyRight'
<1>1. /\ leader' = leader /\ Done' = Done \cup {i} /\ log' = log
      /\ \A j \in Done : j < i
      /\ applied'[leader] = i /\ applied[leader] \in Nat /\ i = applied[leader] + 1
      /\ ~stuck[leader]
  BY DoneGrows DEF AppliesAs, DoneInLog
<1>2. SUFFICES ASSUME NEW l, LockBound(l)', ~stuck'[leader]
               PROVE  \/ Lives(l)' /\ Lock \in machine'[leader].leases[l].keys
                      \/ ending'[leader].lease = l /\ Lock \in ending'[leader].keys
                      \/ \E d \in applied'[leader] + 1 .. Len(log) : IsDelete(d)
                      \/ PutTooLate(l)'
  BY <1>1 DEF KeyRight, IsDelete
<1>3. /\ machine'[leader].leases = r.sm.leases
      /\ Begins(i, r) \/ Finishes(r)
  BY <1>2 DEF AppliesAs, Blocks, Begins, Finishes
<1>4. PICK cmd : cmd = log[i].cmd
  OBVIOUS
<1>5. /\ OnLeases(machine[leader], cmd, << leader, i >>, r)
      /\ OnKeys(machine[leader], cmd, r)
  BY <1>4 DEF AppliesAs, Effect
<1>6. ~IsDelete(i) /\ cmd.type # "delete"
  BY <1>2, <1>4, BoundBefore DEF IsDelete
<1>7. CASE /\ cmd = PutCommand(l) /\ cmd.type = "put_if_absent"
           /\ l \in DOMAIN machine[leader].leases => Lock \in r.sm.leases[l].keys
  <2>1. CASE l \in DOMAIN machine[leader].leases
    <3>1. l \in DOMAIN r.sm.leases
      BY <1>5, <1>7, <2>1 DEF OnLeases, Ends
    <3>2. QED
      BY <1>1, <1>3, <1>7, <2>1, <3>1 DEF Lives
  <2>2. CASE ~Lives(l)
    BY <1>4, <1>7, <2>2, PutLate
  <2>3. QED
    BY <2>1, <2>2 DEF Lives
<1>8. CASE LockBound(l) /\ Lives(l) /\ Lock \in machine[leader].leases[l].keys
  <2>1. CASE l \in DOMAIN r.sm.leases
    <3>1. machine[leader].leases[l].keys \subseteq r.sm.leases[l].keys
      BY <1>5, <1>6, <1>8, <2>1 DEF OnLeases, Lives
    <3>2. QED
      BY <1>1, <1>3, <1>8, <2>1, <3>1 DEF Lives
  <2>2. CASE cmd.type \in Ends /\ l = cmd.lease
    <3>1. r.orphans = machine[leader].leases[l].keys
      BY <1>5, <1>8, <2>2 DEF OnKeys, Lives
    <3>2. r.orphans # {} /\ Lock \in r.orphans
      BY <1>8, <3>1
    <3>3. r.answer.lease = l
      BY <1>5, <2>2, <3>2 DEF OnKeys
    <3>4. Begins(i, r)
      BY <1>3, <3>2 DEF Finishes
    <3>5. QED
      BY <3>2, <3>3, <3>4 DEF Begins
  <2>3. QED
    BY <1>5, <1>8, <2>1, <2>2 DEF OnLeases, Lives
<1>9. CASE ending[leader].lease = l /\ Lock \in ending[leader].keys
  <2>1. ending[leader] # Idle
    BY <1>9 DEF Idle
  <2>2. ending'[leader] = ending[leader]
    BY <1>3, <2>1 DEF Begins, Finishes, Busy
  <2>3. QED
    BY <1>9, <2>2
<1>10. ASSUME NEW d \in applied[leader] + 1 .. Len(log), IsDelete(d)
       PROVE  \E h \in applied'[leader] + 1 .. Len(log) : IsDelete(h)
  <2>1. d # i
    BY <1>6, <1>10
  <2>2. d \in applied'[leader] + 1 .. Len(log)
    BY <1>1, <2>1
  <2>3. QED
    BY <1>10, <2>2
<1>11. CASE PutTooLate(l)
  BY <1>11, DoneGrows DEF PutTooLate
<1>12. QED
  <2>1. \/ LockBound(l)
        \/ /\ cmd = PutCommand(l) /\ cmd.type = "put_if_absent"
           /\ l \in DOMAIN machine[leader].leases => Lock \in r.sm.leases[l].keys
    BY <1>2, <1>4, BoundBefore
  <2>2. LockBound(l) => \/ Lives(l) /\ Lock \in machine[leader].leases[l].keys
                        \/ ending[leader].lease = l /\ Lock \in ending[leader].keys
                        \/ \E d \in applied[leader] + 1 .. Len(log) : IsDelete(d)
                        \/ PutTooLate(l)
    BY <1>1 DEF KeyRight
  <2>3. QED
    BY <1>7, <1>8, <1>9, <1>10, <1>11, <2>1, <2>2

\* The leader's replica is right once an entry has been applied.
LEMMA AppliedRight ==
  ASSUME DoneInLog, NEW i, NEW r, AppliesAs(i, r), EntryRight(i), Len(log) \in Nat,
         MachineRight
  PROVE  MachineRight'
  BY AppliedLeases, AppliedEnding, AppliedBound, AppliedGrants, AppliedKey
     DEF MachineRight

\* Whoever is answered by the entry has got what it asked for.
LEMMA AppliedReplies ==
  ASSUME Shape, DoneInLog, NEW i, NEW r, AppliesAs(i, r), AnswersFor(i, r), LogRight,
         LockersRight, RepliesRight, locker' = locker
  PROVE  RepliesRight'
<1>1. /\ leader' = leader /\ Done' = Done \cup {i} /\ log' = log
      /\ applied'[leader] = i /\ applied[leader] \in Nat /\ i = applied[leader] + 1
  BY DoneGrows DEF AppliesAs, DoneInLog
<1>2. log[i].cmd.type \in Kinds
  BY DEF LogRight, EntryRight, AppliesAs
<1>3. \A l : Taken(l) => Taken(l)'
  BY <1>2, TakenStays
<1>4. SUFFICES ASSUME NEW c \in Client
               PROVE  ReplyRight(c)'
  BY DEF RepliesRight
<1>5. ReplyRight(c) /\ calls[c].answer.at \in Nat
  BY DEF RepliesRight, Shape, CallShape
<1>6. CASE calls'[c] = calls[c]
  BY <1>1, <1>3, <1>5, <1>6, ReplyKept
<1>7. CASE /\ log[i].token = << c, calls[c].count >>
           /\ calls'[c].answer = [at |-> i, ok |-> r.answer.ok, lease |-> r.answer.lease]
  <2>1. AwaitsOwn(c, i)
    BY <1>7 DEF LockersRight, LockerRight, AppliesAs
  <2>2. PICK l : l = locker[c].lease
    OBVIOUS
  <2>3. PICK cmd : cmd = log[i].cmd
    OBVIOUS
  <2>4. /\ OnData(machine[leader], cmd, r)
        /\ OnLeases(machine[leader], cmd, << leader, i >>, r)
    BY <2>3 DEF AppliesAs, Effect
  <2>5. PICK a : a = calls'[c].answer
    OBVIOUS
  <2>6. a.at = i /\ a.lease = r.answer.lease /\ (a.ok <=> r.answer.ok)
    BY <1>7, <2>5
  <2>7. At(c, "granting") => a.lease = << leader, i >>
    BY <2>1, <2>3, <2>4, <2>6 DEF AwaitsOwn, OnLeases
  <2>8. ASSUME At(c, "putting"), a.ok
        PROVE  Taken(l)'
    <3>1. cmd = PutCommand(l) /\ cmd.type = "put_if_absent" /\ cmd.lease = l
      BY <2>1, <2>2, <2>3, <2>8 DEF AwaitsOwn, PutCommand
    <3>2. Lock \notin DOMAIN machine[leader].data
      BY <2>4, <2>6, <2>8, <3>1 DEF OnData
    <3>3. Lock \in DOMAIN r.sm.data /\ r.sm.data[Lock].lease = l
      BY <2>4, <3>1, <3>2 DEF OnData
    <3>4. LockBound(l)'
      BY <1>1, <3>3 DEF LockBound, AppliesAs
    <3>5. i \in PutsUnder(l)'
      BY <1>1, <2>3, <3>1 DEF PutsUnder, PutCommand
    <3>6. QED
      BY <3>4, <3>5 DEF Taken
  <2>9. At(c, "putting")' /\ a.ok => Taken(locker[c].lease)'
    <3>1. At(c, "putting")' <=> At(c, "putting")
      BY DEF At
    <3>2. At(c, "putting")' /\ a.ok => Taken(l)'
      BY <2>8, <3>1
    <3>3. l = locker'[c].lease
      BY <2>2
    <3>4. QED
      BY <3>2, <3>3 DEF Taken, PutsUnder, LockBound, Done, PutCommand
  <2>10. \A x : Renews(c, x)' => Taken(x)'
    BY <1>3, <1>5 DEF ReplyRight, Renews
  <2>11. i <= applied'[leader'] /\ i > 0
    BY <1>1
  <2>12. At(c, "granting")' => a.lease = << leader', i >>
    BY <1>1, <2>7 DEF At
  <2>13. QED
    BY <2>5, <2>6, <2>9, <2>10, <2>11, <2>12 DEF ReplyRight
<1>8. QED
  BY <1>6, <1>7 DEF AnswersFor

\* What a step of the replicas by themselves leaves of the log.
LEMMA QuietLog ==
  ASSUME Goes, LogRight, DeletesRight, LockersRight, locker' = locker,
         \A c \in Client : calls'[c].count = calls[c].count,
         \A l : Dead(l) => Dead(l)',
         \A j : IsNewPlace(j) =>
           /\ j = Len(log) + 1 /\ log'[j].token = NoToken
           /\ EntryRight(j)' /\ ~IsPut(j)' /\ DeleteRight(j)'
  PROVE  LogRight' /\ DeletesRight' /\ LockersRight'
<1>1. LogRight'
  BY LogKept
<1>2. \A l, c : GivenUp(c, l) => GivenUp(c, l)'
  BY DEF GivenUp, Renews, At
<1>3. DeletesRight'
  BY <1>2, DeletesKept
<1>4. ASSUME NEW c \in Client
      PROVE  LockerRight(c)'
  <2>1. \A j : IsNewPlace(j) => log'[j].token # << c, calls[c].count >>
    BY PairIsOne DEF NoToken
  <2>2. QED
    BY <2>1, LockerKept DEF LockersRight
<1>5. QED
  BY <1>1, <1>3, <1>4 DEF LockersRight

\* The leader applies an entry.
LEMMA ApplyKeepsRight ==
  ASSUME Shape, FiledRight, changes = 0, LockRight, Goes, Apply(leader),
         locker' = locker, \A c \in Client : calls'[c].count = calls[c].count
  PROVE  LockRight'
<1>1. DoneInLog /\ Len(log) \in Nat
  BY ShapeDone DEF Goes, Extends
<1>2. PICK i, r : AppliesAs(i, r) /\ AnswersFor(i, r)
  BY LeaderEffect DEF LockRight, MachineRight
<1>3. EntryRight(i) /\ log' = log
  BY <1>1, <1>2, DoneGrows DEF AppliesAs, LockRight, LogRight
<1>4. MachineRight'
  BY <1>1, <1>2, <1>3, AppliedRight DEF LockRight
<1>5. RepliesRight'
  BY <1>1, <1>2, AppliedReplies DEF LockRight
<1>6. \A l : Dead(l) => Dead(l)'
  BY <1>1, <1>2, DeadStays DEF LockRight, MachineRight
<1>7. \A j : ~IsNewPlace(j)
  BY <1>3 DEF IsNewPlace
<1>8. LogRight' /\ DeletesRight' /\ LockersRight'
  BY <1>6, <1>7, QuietLog DEF LockRight
<1>9. OthersSilent'
  BY LeaderApplySilent DEF LockRight
<1>10. QED
  BY <1>4, <1>5, <1>8, <1>9 DEF LockRight

-----------------------------------------------------------------------------
(* The other steps of the replicas.                                         *)

\* Answers stay right while the leader's machine stays.
LEMMA RepliesKept ==
  ASSUME Shape, MachineStill, Extends, leader' = leader, RepliesRight,
         locker' = locker, NoAnswers
  PROVE  RepliesRight'
<1>1. SUFFICES ASSUME NEW c \in Client
               PROVE  ReplyRight(c)'
  BY DEF RepliesRight
<1>2. DoneInLog
  BY ShapeDone
<1>3. \A l : Taken(l) => Taken(l)'
  BY <1>2, StillKeeps
<1>4. /\ applied'[leader] = applied[leader] /\ applied[leader] \in Nat
      /\ calls[c].answer.at \in Nat
  BY <1>2 DEF MachineStill, DoneInLog, Shape, CallShape
<1>5. QED
  BY <1>3, <1>4, ReplyKept DEF RepliesRight, NoAnswers

\* The entry of a command that keeps, revokes or ends a lease.
LEMMA EndEntry ==
  ASSUME NEW j, log'[j].token = NoToken,
         log'[j].cmd.type \in {"lease_revoke", "lease_expire", "lease_keepalive"}
  PROVE  EntryRight(j)' /\ ~IsPut(j)' /\ DeleteRight(j)' /\ ~IsDelete(j)'
  BY DEF EntryRight, IsPut, DeleteRight, IsDelete, Kinds, LeaseTypes

\* Everything stays right when the leader's replica stays as it is and the log
\* grows at most by an entry that concerns a lease.
LEMMA StillKeepsRight ==
  ASSUME Shape, Goes, LockRight, LeaderStill, locker' = locker, NoAnswers,
         OthersSilent',
         \A j : IsNewPlace(j) =>
           /\ j = Len(log) + 1 /\ log'[j].token = NoToken
           /\ log'[j].cmd.type \in {"lease_revoke", "lease_expire", "lease_keepalive"}
  PROVE  LockRight'
<1>1. DoneInLog /\ Extends /\ leader' = leader /\ MachineStill
  BY ShapeDone DEF Goes, LeaderStill
<1>2. MachineRight'
  BY <1>1, StillRight DEF LockRight
<1>3. RepliesRight'
  BY <1>1, RepliesKept DEF LockRight
<1>4. \A l : Dead(l) => Dead(l)'
  BY <1>1, StillKeeps
<1>5. \A c \in Client : calls'[c].count = calls[c].count
  BY DEF NoAnswers
<1>6. LogRight' /\ DeletesRight' /\ LockersRight'
  BY <1>4, <1>5, EndEntry, QuietLog DEF LockRight
<1>7. QED
  BY <1>2, <1>3, <1>6 DEF LockRight

\* The expiry loop of the leader submits the end of a lease.
LEMMA ExpireKeepsRight ==
  ASSUME Shape, Goes, LockRight, OthersSilent', NEW n, NEW l, SubmitExpire(n, l),
         locker' = locker
  PROVE  LockRight'
<1>1. /\ Submit(n, [type |-> "lease_expire", lease |-> l], NoToken, NoLease)
      /\ UNCHANGED << raft, applied, machine, ending, stuck, calls >>
  BY DEF SubmitExpire
<1>2. LeaderStill /\ NoAnswers
  BY <1>1 DEF LeaderStill, MachineStill, NoAnswers
<1>3. \A j \in DOMAIN log' : j \notin DOMAIN log =>
        /\ j = Len(log) + 1
        /\ log'[j] = [cmd |-> [type |-> "lease_expire", lease |-> l],
                      token |-> NoToken, lease |-> NoLease]
  BY <1>1, SubmitExtends
<1>4. \A j : IsNewPlace(j) =>
        /\ j = Len(log) + 1 /\ log'[j].token = NoToken
        /\ log'[j].cmd.type = "lease_expire"
  BY <1>3 DEF IsNewPlace
<1>5. QED
  BY <1>2, <1>4, StillKeepsRight

\* The end of a lease is over: whoever asked for it looks at no answer.
LEMMA EndAnswersNobody ==
  ASSUME Shape, FiledRight, changes = 0, LogRight, EndingRight, FinishEnd(leader)
  PROVE  NoAnswers
<1>1. leader \in Server /\ Busy(leader) /\ Len(log) \in Nat /\ CallShape
  BY LenProperties DEF Shape, LogShape, FinishEnd
<1>2. PICK i : i = ending[leader].at
  OBVIOUS
<1>3. /\ i \in Done /\ log[i].cmd.type \in {"lease_revoke", "lease_expire"}
      /\ i \in DOMAIN log /\ i \in Nat
  BY <1>1, <1>2, ShapeDone DEF EndingRight, DoneInLog, Done
<1>4. PICK answer : Notify(leader, i, answer)
  BY <1>2 DEF FinishEnd
<1>5. log[i].token = NoToken
  BY <1>3 DEF LogRight, EntryRight
<1>6. \A c \in Client :
        \/ calls'[c] = calls[c]
        \/ /\ i \in DOMAIN callbacks[leader]
           /\ callbacks[leader][i] = << c, calls[c].count >>
  <2>1. PICK n \in Server : n = leader
    BY <1>1
  <2>2. i \in Nat /\ CallShape /\ Notify(n, i, answer)
    BY <1>1, <1>3, <1>4, <2>1
  <2>3. \A c \in Client :
          \/ calls'[c] = calls[c]
          \/ i \in DOMAIN callbacks[n] /\ callbacks[n][i] = <<c, calls[c].count>>
    BY ZenonT(60), <2>2, NotifyEffect
  <2>4. QED
    BY <2>1, <2>3
<1>7. i \in DOMAIN callbacks[leader] => log[i].token = callbacks[leader][i]
  BY <1>1 DEF FiledRight
<1>8. ASSUME NEW c \in Client
      PROVE  calls'[c] = calls[c]
  <2>1. CASE /\ i \in DOMAIN callbacks[leader]
             /\ callbacks[leader][i] = << c, calls[c].count >>
    <3>1. << c, calls[c].count >> = << >>
      BY <1>5, <1>7, <2>1 DEF NoToken
    <3>2. QED
      BY <3>1, PairIsOne
  <2>2. QED
    BY <1>6, <2>1
<1>9. QED
  BY <1>8 DEF NoAnswers

\* When the leader has ended a lease, everything stays right.
LEMMA FinishEndKeepsRight ==
  ASSUME Shape, FiledRight, changes = 0, Goes, LockRight, OthersSilent',
         FinishEnd(leader), locker' = locker
  PROVE  LockRight'
<1>1. DoneInLog /\ Extends /\ leader' = leader /\ leader \in Server
  BY ShapeDone DEF Goes, Shape, LogShape
<1>2. /\ UNCHANGED << raft, log, applied, machine, stuck >>
      /\ ending' = [ending EXCEPT ![leader] = Idle] /\ ending[leader].keys = {}
  BY DEF FinishEnd
<1>3. MachineStill /\ ending'[leader] = Idle /\ log' = log
  BY <1>1, <1>2 DEF MachineStill, Shape, ReplicaShape
<1>4. NoAnswers
  BY EndAnswersNobody DEF LockRight, MachineRight
<1>5. RepliesRight'
  BY <1>1, <1>3, <1>4, RepliesKept DEF LockRight
<1>6. LeasesRight' /\ BoundRight' /\ GrantsRight'
  BY <1>1, <1>3, MachineStillRight DEF LockRight, MachineRight
<1>7. EndingRight'
  BY <1>1, <1>3 DEF EndingRight, Busy, Idle
<1>8. KeyRight'
  <2>1. KeyRight
    BY DEF LockRight, MachineRight
  <2>2. \A l : ~(ending[leader].lease = l /\ Lock \in ending[leader].keys)
    BY <1>2
  <2>3. \A l : LockBound(l)' <=> LockBound(l)
    BY <1>1, <1>3, StillBound
  <2>4. \A l : PutTooLate(l)' <=> PutTooLate(l)
    BY <1>1, <1>3, DoneStays DEF PutTooLate, MachineStill
  <2>5. \A l : LockBound(l) =>
          \/ Lives(l) /\ Lock \in machine[leader].leases[l].keys
          \/ \E i \in applied[leader] + 1 .. Len(log) : IsDelete(i)
          \/ stuck[leader] \/ PutTooLate(l)
    BY <2>1, <2>2 DEF KeyRight
  <2>6. \A l : LockBound(l)' =>
          \/ Lives(l)' /\ Lock \in machine'[leader].leases[l].keys
          \/ \E i \in applied'[leader] + 1 .. Len(log') : IsDelete(i)'
          \/ stuck'[leader] \/ PutTooLate(l)'
    BY <1>2, <1>1, <2>3, <2>4, <2>5 DEF Lives, IsDelete
  <2>7. QED
    BY <1>1, <2>6 DEF KeyRight
<1>9. \A l : Dead(l) => Dead(l)'
  BY <1>1, <1>3, StillKeeps
<1>10. /\ \A j : ~IsNewPlace(j)
       /\ \A c \in Client : calls'[c].count = calls[c].count
  BY <1>3, <1>4 DEF IsNewPlace, NoAnswers
<1>11. LogRight' /\ DeletesRight' /\ LockersRight'
  BY <1>9, <1>10, QuietLog DEF LockRight
<1>12. QED
  BY <1>5, <1>6, <1>7, <1>8, <1>11 DEF LockRight, MachineRight

\* The end of a lease submits the delete of its key.
LEMMA DeleteKeepsRight ==
  ASSUME Shape, Goes, LockRight, OthersSilent', NEW k, SubmitDelete(leader, k),
         locker' = locker
  PROVE  LockRight'
<1>1. DoneInLog /\ Extends /\ leader' = leader /\ leader \in Server
  BY ShapeDone DEF Goes, Shape, LogShape
<1>2. PICK e : e = ending[leader]
  OBVIOUS
<1>3. /\ k \in e.keys
      /\ Submit(leader, [type |-> "delete", key |-> k], NoToken, e.lease)
      /\ UNCHANGED << raft, applied, machine, stuck, calls >>
      /\ ending' = [ending EXCEPT ![leader].keys = @ \ {k}]
  BY <1>2 DEF SubmitDelete
<1>4. MachineStill /\ NoAnswers
  BY <1>1, <1>3 DEF MachineStill, NoAnswers
<1>5. /\ ending'[leader].keys = e.keys \ {k}
      /\ ending'[leader].lease = e.lease /\ ending'[leader].at = e.at
  <2>1. ending'[leader] = [e EXCEPT !.keys = e.keys \ {k}]
    BY <1>1, <1>2, <1>3 DEF Shape, ReplicaShape
  <2>2. e = [at |-> e.at, lease |-> e.lease, keys |-> e.keys, upto |-> e.upto]
    BY <1>1, <1>2 DEF Shape, ReplicaShape
  <2>3. QED
    BY <2>1, <2>2
<1>6. /\ e.keys \subseteq {Lock} /\ Dead(e.lease) /\ e.at \in Done
      /\ log[e.at].cmd.type \in {"lease_revoke", "lease_expire"}
      /\ k = Lock
  <2>1. Busy(leader)
    BY <1>2, <1>3 DEF Busy, Idle
  <2>2. QED
    BY <1>2, <1>3, <2>1 DEF LockRight, MachineRight, EndingRight
<1>7. \A l : Dead(l) => Dead(l)'
  BY <1>1, <1>4, StillKeeps
<1>8. EndingRight'
  <2>1. Dead(e.lease)' /\ e.at \in Done'
    BY <1>1, <1>4, <1>6, <1>7, DoneStays DEF MachineStill
  <2>2. log'[e.at] = log[e.at]
    BY <1>1, <1>4, <1>6, DoneStays DEF MachineStill
  <2>3. Dead(ending[leader].lease)'
    BY <1>1, <1>5, <2>1 DEF Dead, Lives
  <2>4. QED
    BY <1>1, <1>5, <1>6, <2>1, <2>2, <2>3 DEF EndingRight
<1>9. \A j \in DOMAIN log' : j \notin DOMAIN log =>
        /\ j = Len(log) + 1
        /\ log'[j] = [cmd |-> [type |-> "delete", key |-> k],
                      token |-> NoToken, lease |-> e.lease]
  BY <1>3, SubmitExtends
<1>10. PICK j : j = Len(log) + 1 /\ j \in DOMAIN log' /\ IsDelete(j)'
  <2>1. log' = Append(log, [cmd |-> [type |-> "delete", key |-> k],
                           token |-> NoToken, lease |-> e.lease])
    BY <1>3 DEF Submit
  <2>2. Len(log') = Len(log) + 1
    BY <2>1, AppendedLog DEF Shape, LogShape
  <2>3. Len(log) + 1 \in DOMAIN log' /\ Len(log) + 1 \notin DOMAIN log
    BY <1>1, <2>2 DEF Extends
  <2>4. QED
    BY <1>9, <2>3 DEF IsDelete
<1>11. KeyRight'
  <2>1. j \in applied'[leader] + 1 .. Len(log')
    <3>1. /\ applied[leader] \in Nat /\ Len(log) \in Nat
          /\ Done \subseteq 1 .. Len(log) /\ Done = 1 .. applied[leader]
          /\ j \in 1 .. Len(log') /\ j = Len(log) + 1 /\ Len(log') \in Nat
      BY <1>1, <1>10 DEF DoneInLog, Extends, Done
    <3>2. applied[leader] <= Len(log)
      BY <3>1
    <3>3. QED
      BY <1>4, <3>1, <3>2 DEF MachineStill
  <2>2. QED
    BY <1>1, <1>10, <2>1 DEF KeyRight
<1>12. LeasesRight' /\ BoundRight' /\ GrantsRight'
  BY <1>1, <1>4, MachineStillRight DEF LockRight, MachineRight
<1>13. RepliesRight'
  BY <1>1, <1>4, RepliesKept DEF LockRight
<1>14. ASSUME NEW h, IsNewPlace(h)
       PROVE  /\ h = Len(log) + 1 /\ log'[h].token = NoToken
              /\ EntryRight(h)' /\ ~IsPut(h)' /\ DeleteRight(h)'
  <2>1. /\ h = Len(log) + 1 /\ log'[h].token = NoToken /\ log'[h].lease = e.lease
        /\ log'[h].cmd.type = "delete" /\ log'[h].cmd.key = Lock
    BY <1>6, <1>9, <1>14 DEF IsNewPlace
  <2>2. Dead(e.lease)'
    BY <1>6, <1>7
  <2>3. DeleteRight(h)'
    BY <2>1, <2>2 DEF DeleteRight
  <2>4. EntryRight(h)'
    BY <2>1 DEF EntryRight, Kinds
  <2>5. QED
    BY <2>1, <2>3, <2>4 DEF IsPut
<1>15. LogRight' /\ DeletesRight' /\ LockersRight'
  BY <1>4, <1>7, <1>14, QuietLog DEF LockRight, NoAnswers
<1>16. QED
  BY <1>8, <1>11, <1>12, <1>13, <1>15 DEF LockRight, MachineRight

\* Only the leader goes on to call anybody back.
LEMMA QuietSilent ==
  ASSUME Shape, OthersSilent, QuietStep, UNCHANGED raft
  PROVE  OthersSilent'
<1>1. leader' = leader /\ changes' = changes /\ changes \in Nat
  BY DEF raft, Shape, LogShape
<1>2. CASE callbacks' = callbacks
  BY <1>1, <1>2 DEF OthersSilent
<1>3. ASSUME NEW n \in Server, Apply(n)
      PROVE  OthersSilent'
  <2> DEFINE i == applied[n] + 1
             r == ApplyCommand(machine[n], log[i].cmd, << n, i >>)
  <2>1. Block(n, r) \/ BeginEnd(n, r) \/ Finish(n, r)
    BY <1>3 DEF Apply
  <2>2. i \in Nat
    BY <1>3 DEF Shape, ReplicaShape
  <2> HIDE DEF i, r
  <2>3. CASE Finish(n, r)
    <3>1. Notify(n, i, r.answer)
      BY <2>3 DEF Finish, i
    <3>2. QED
      BY <1>1, <2>2, <3>1, NotifySilent
  <2>4. QED
    BY <1>2, <2>1, <2>3 DEF Block, BeginEnd
<1>4. ASSUME NEW n \in Server, FinishEnd(n)
      PROVE  OthersSilent'
  <2>1. PICK answer : Notify(n, ending[n].at, answer)
    BY <1>4 DEF FinishEnd
  <2>2. ending[n].at \in Nat
    BY DEF Shape, ReplicaShape
  <2>3. QED
    BY <1>1, <2>1, <2>2, NotifySilent
<1>5. ASSUME NEW n, NEW k, SubmitDelete(n, k)
      PROVE  OthersSilent'
  BY <1>1, <1>5, SubmitSilent DEF SubmitDelete
<1>6. ASSUME NEW n, NEW l, SubmitExpire(n, l)
      PROVE  OthersSilent'
  BY <1>1, <1>6, SubmitSilent DEF SubmitExpire
<1>7. CASE Commit \/ UNCHANGED vars
  BY <1>2, <1>7 DEF Commit, vars
<1>8. ASSUME NEW n, NewLeader(n)
      PROVE  FALSE
  BY <1>1, <1>8 DEF NewLeader
<1>9. ASSUME NEW n, CheckLeases(n) \/ \E l \in Mortal : RunOut(n, l)
      PROVE  OthersSilent'
  BY <1>2, <1>9 DEF CheckLeases, RunOut
<1>10. QED
  BY <1>3, <1>4, <1>5, <1>6, <1>7, <1>8, <1>9 DEF QuietStep, Background

\* What the replicas do by themselves is calm but for what the leader applies,
\* ends and submits.
LEMMA QuietKinds ==
  ASSUME Shape, OthersSilent, QuietStep, UNCHANGED raft
  PROVE  \/ CalmStep \/ Apply(leader) \/ FinishEnd(leader)
         \/ \E k : SubmitDelete(leader, k)
         \/ \E n, l : SubmitExpire(n, l)
<1>1. /\ leader' = leader /\ changes' = changes /\ changes \in Nat
      /\ leader \in Server /\ locker' = locker
  BY DEF raft, Shape, LogShape, QuietStep
<1>2. ASSUME UNCHANGED << log, calls, applied, machine, stuck >>,
             ending'[leader] = ending[leader]
      PROVE  CalmStep
  BY <1>1, <1>2 DEF CalmStep, NoAnswers, LeaderStill, MachineStill
<1>3. ASSUME NEW n \in Server, n # leader, Apply(n)
      PROVE  CalmStep
  <2> DEFINE i == applied[n] + 1
             r == ApplyCommand(machine[n], log[i].cmd, << n, i >>)
  <2>1. /\ Block(n, r) \/ BeginEnd(n, r) \/ Finish(n, r)
        /\ applied' = [applied EXCEPT ![n] = @ + 1] /\ log' = log
    BY <1>3 DEF Apply
  <2>2. i \in Nat
    BY <1>3 DEF Shape, ReplicaShape
  <2>3. applied'[leader] = applied[leader]
    BY <1>1, <1>3, <2>1 DEF Shape, ReplicaShape
  <2> HIDE DEF i, r
  <2>4. CASE Block(n, r)
    BY <1>1, <1>3, <2>1, <2>3, <2>4
       DEF Block, CalmStep, NoAnswers, LeaderStill, MachineStill, Shape, ReplicaShape
  <2>5. CASE Finish(n, r)
    <3>1. Notify(n, i, r.answer)
      BY <2>5 DEF Finish, i
    <3>2. NoAnswers
      BY <1>3, <2>2, <3>1, NotifyNobody DEF OthersSilent
    <3>3. QED
      BY <1>1, <1>3, <2>1, <2>3, <2>5, <3>2
         DEF Finish, CalmStep, LeaderStill, MachineStill, Shape, ReplicaShape
  <2>6. QED
    BY <1>3, <2>1, <2>4, <2>5 DEF BeginEnd
<1>4. ASSUME NEW n \in Server, n # leader, FinishEnd(n)
      PROVE  CalmStep
  <2>1. PICK answer : Notify(n, ending[n].at, answer)
    BY <1>4 DEF FinishEnd
  <2>2. ending[n].at \in Nat
    BY DEF Shape, ReplicaShape
  <2>3. NoAnswers
    BY <1>4, <2>1, <2>2, NotifyNobody DEF OthersSilent
  <2>4. ending'[leader] = ending[leader]
    BY <1>1, <1>4 DEF FinishEnd, Shape, ReplicaShape
  <2>5. QED
    BY <1>1, <1>4, <2>3, <2>4 DEF FinishEnd, CalmStep, LeaderStill, MachineStill
<1>5. ASSUME NEW n \in Server, n # leader, NEW k, SubmitDelete(n, k)
      PROVE  CalmStep
  <2>1. log' = log
    BY <1>5 DEF SubmitDelete, Submit
  <2>2. ending'[leader] = ending[leader]
    BY <1>1, <1>5 DEF SubmitDelete, Shape, ReplicaShape
  <2>3. QED
    BY <1>2, <1>5, <2>1, <2>2 DEF SubmitDelete
<1>6. CASE Commit \/ UNCHANGED vars
  BY <1>2, <1>6 DEF Commit, vars
<1>7. ASSUME NEW n, NewLeader(n)
      PROVE  FALSE
  BY <1>1, <1>7 DEF NewLeader
<1>8. ASSUME NEW n, CheckLeases(n)
      PROVE  CalmStep
  BY <1>2, <1>8 DEF CheckLeases
<1>9. ASSUME NEW n \in Server, NEW l, RunOut(n, l)
      PROVE  CalmStep
  <2>1. /\ machine'[n].data = machine[n].data
        /\ DOMAIN machine'[n].leases = DOMAIN machine[n].leases
        /\ \A x \in DOMAIN machine[n].leases :
             machine'[n].leases[x].keys = machine[n].leases[x].keys
    BY <1>9, RunOutEffect DEF Shape
  <2>2. n = leader /\ UNCHANGED << log, calls, applied, ending, stuck >>
    BY <1>9 DEF RunOut
  <2>3. MachineStill
    BY <2>1, <2>2 DEF MachineStill
  <2>4. QED
    BY <1>1, <2>2, <2>3 DEF CalmStep, NoAnswers, LeaderStill
<1>10. QED
  BY <1>1, <1>3, <1>4, <1>5, <1>6, <1>7, <1>8, <1>9 DEF QuietStep, Background

-----------------------------------------------------------------------------
(* The steps of the clients.                                                *)

\* The object of c has got to step s with lease l and daemons D.
Turns(c, s, l, D) ==
  /\ locker'[c].server = locker[c].server
  /\ locker'[c].step = s /\ locker'[c].lease = l /\ locker'[c].daemons = D
  /\ \A d \in Client : d # c => locker'[d] = locker[d]

\* An object whose client turns to the next thing keeps its server.
LEMMA BecomesTurns ==
  ASSUME ObjectsShape, NEW c \in Client, NEW s, NEW l, NEW b, NEW D,
         Becomes(c, Object(locker[c].server, s, l, b, D))
  PROVE  Turns(c, s, l, D)
  BY BecomesShape DEF Turns

\* What becomes of an object whose client does not call.
NoCallTurn(c) ==
  \E s \in {"idle", "checked", "ending"}, l \in {NoLease, locker[c].lease} : \E D :
    /\ Turns(c, s, l, D)
    /\ s = "ending" => At(c, "deleting") /\ l = locker[c].lease
    /\ s = "checked" => \A d \in D : d.lost
    /\ \A d \in D :
         \/ d \in locker[c].daemons
         \/ At(c, "putting") /\ calls[c].answer.ok /\ d.lease = locker[c].lease

\* An acquisition that ends well or not.
LEMMA AcquiredTurn ==
  ASSUME ObjectsShape, NEW c \in Client, GrantFails(c) \/ Holds(c) \/ GiveUp(c)
  PROVE  NoCallTurn(c)
<1>1. CASE GrantFails(c)
  <2>1. Turns(c, "idle", locker[c].lease, locker[c].daemons)
    BY <1>1, GrantFailsObject, BecomesTurns
  <2>2. QED
    BY <2>1 DEF NoCallTurn
<1>2. CASE Holds(c)
  <2>1. PICK D : D = locker[c].daemons \cup
                       (IF locker[c].lease \in DOMAIN machine[locker[c].server].leases
                        THEN Daemons(c, locker[c].lease) ELSE {})
    BY Zenon
  <2>2. \E b : Becomes(c, Object(locker[c].server, "idle", locker[c].lease, b, D))
    <3>1. Becomes(c, Object(locker[c].server, "idle", locker[c].lease, TRUE, D))
      BY <1>2, <2>1, HoldsObject
    <3>2. QED
      BY <3>1, Zenon
  <2>3. Turns(c, "idle", locker[c].lease, D)
    BY <2>2, BecomesTurns
  <2>4. \A d \in D : d \in locker[c].daemons \/ d.lease = locker[c].lease
    BY <2>1 DEF Daemons
  <2>5. At(c, "putting") /\ calls[c].answer.ok
    BY <1>2 DEF Holds
  <2>6. QED
    BY <2>3, <2>4, <2>5 DEF NoCallTurn
<1>3. CASE GiveUp(c)
  <2>1. Turns(c, "idle", NoLease, locker[c].daemons)
    BY <1>3, GiveUpObject, BecomesTurns
  <2>2. QED
    BY <2>1 DEF NoCallTurn
<1>4. QED
  BY <1>1, <1>2, <1>3

\* A release that does not delete yet, and a crash.
LEMMA ReleasedTurn ==
  ASSUME ObjectsShape, NEW c \in Client, Release(c) \/ Revoke(c) \/ EndRelease(c) \/ Crash(c)
  PROVE  NoCallTurn(c)
<1>1. CASE Release(c)
  <2>1. locker[c].step = "idle"
    BY <1>1 DEF Release, At
  <2>2. PICK D : D = Unstopped(c)
    BY Zenon
  <2>3. \A d \in D : d \in locker[c].daemons /\ d.lost
    BY <2>2 DEF Unstopped
  <2>4. CASE FindGone(c)
    <3>1. \E b : Becomes(c, Object(locker[c].server, locker[c].step, NoLease, b, D))
      <4>1. Becomes(c, Object(locker[c].server, locker[c].step, NoLease, FALSE, D))
        BY <2>2, <2>4, FindGoneObject, Zenon
      <4>2. QED
        BY <4>1, Zenon
    <3>2. Turns(c, "idle", NoLease, D)
      BY <2>1, <3>1, BecomesTurns
    <3>3. QED
      BY <2>3, <3>2 DEF NoCallTurn
  <2>5. CASE FindOther(c)
    <3>1. Becomes(c, Object(locker[c].server, locker[c].step, locker[c].lease,
                            locker[c].locked, D))
      BY <2>2, <2>5, FindOtherObject, Zenon
    <3>2. Turns(c, "idle", locker[c].lease, D)
      BY <2>1, <3>1, BecomesTurns
    <3>3. QED
      BY <2>3, <3>2 DEF NoCallTurn
  <2>6. CASE FindOwn(c)
    <3>1. Becomes(c, Object(locker[c].server, "checked", locker[c].lease,
                            locker[c].locked, D))
      BY <2>2, <2>6, FindOwnObject, Zenon
    <3>2. Turns(c, "checked", locker[c].lease, D)
      BY <3>1, BecomesTurns
    <3>3. QED
      BY <2>3, <3>2 DEF NoCallTurn
  <2>7. QED
    BY <1>1, <2>4, <2>5, <2>6 DEF Release
<1>2. CASE Revoke(c)
  <2>1. Turns(c, "ending", locker[c].lease, locker[c].daemons)
    BY <1>2, RevokeObject, BecomesTurns
  <2>2. At(c, "deleting")
    BY <1>2 DEF Revoke
  <2>3. QED
    BY <2>1, <2>2 DEF NoCallTurn
<1>3. CASE EndRelease(c)
  <2>1. PICK l, b : /\ Becomes(c, Object(locker[c].server, "idle", l, b,
                                         locker[c].daemons))
                    /\ l \in {NoLease, locker[c].lease}
    BY <1>3, EndReleaseObject
  <2>2. Turns(c, "idle", l, locker[c].daemons)
    BY <2>1, BecomesTurns
  <2>3. QED
    BY <2>1, <2>2 DEF NoCallTurn
<1>4. CASE Crash(c)
  <2>1. Turns(c, locker[c].step, locker[c].lease, {})
    BY <1>4, CrashObject, BecomesTurns
  <2>2. locker[c].step = "idle"
    BY <1>4 DEF Crash, At
  <2>3. QED
    BY <2>1, <2>2 DEF NoCallTurn
<1>5. QED
  BY <1>1, <1>2, <1>3, <1>4

\* What becomes of an object whose client calls.
LEMMA CallTurn ==
  ASSUME ObjectsShape, NEW c \in Client
  PROVE  /\ Acquire(c) => Turns(c, "granting", locker[c].lease, locker[c].daemons)
         /\ TakeLock(c) => Turns(c, "putting", calls[c].answer.lease, locker[c].daemons)
         /\ DeleteLock(c) => Turns(c, "deleting", locker[c].lease, locker[c].daemons)
<1>1. ASSUME Acquire(c)
      PROVE  Turns(c, "granting", locker[c].lease, locker[c].daemons)
  BY <1>1, AcquireObject, BecomesTurns
<1>2. ASSUME TakeLock(c)
      PROVE  Turns(c, "putting", calls[c].answer.lease, locker[c].daemons)
  BY <1>2, TakeLockObject, BecomesTurns
<1>3. ASSUME DeleteLock(c)
      PROVE  Turns(c, "deleting", locker[c].lease, locker[c].daemons)
  BY <1>3, DeleteLockObject, BecomesTurns
<1>4. QED
  BY <1>1, <1>2, <1>3

\* A client renews no lease any more but one that it has just taken the lock under.
LEMMA TurnRenews ==
  ASSUME NEW c \in Client, NoCallTurn(c), NEW l, Renews(c, l)'
  PROVE  /\ \/ Renews(c, l)
            \/ At(c, "putting") /\ calls[c].answer.ok /\ l = locker[c].lease
         /\ locker'[c].step # "checked"
<1>1. PICK s, m, D :
        /\ s \in {"idle", "checked", "ending"} /\ m \in {NoLease, locker[c].lease}
        /\ Turns(c, s, m, D)
        /\ s = "checked" => \A d \in D : d.lost
        /\ \A d \in D :
             \/ d \in locker[c].daemons
             \/ At(c, "putting") /\ calls[c].answer.ok /\ d.lease = locker[c].lease
  BY DEF NoCallTurn
<1>2. PICK no : no = FALSE
  BY Zenon
<1>3. PICK d : d = [lease |-> l, lost |-> no]
  OBVIOUS
<1>4. d = [lease |-> l, lost |-> FALSE]
  BY <1>2, <1>3, Zenon
<1>5. d \in D /\ d.lease = l /\ d.lost = no
  <2>1. locker'[c].daemons = D
    BY <1>1 DEF Turns
  <2>2. [lease |-> l, lost |-> FALSE] \in locker'[c].daemons
    BY Zenon DEF Renews
  <2>3. d \in D
    BY <1>4, <2>1, <2>2, Zenon
  <2>4. QED
    BY <1>3, <2>3
<1>6. ~d.lost
  BY <1>2, <1>5, Zenon
<1>7. d \in locker[c].daemons => Renews(c, l)
  BY <1>4 DEF Renews
<1>8. QED
  BY <1>1, <1>5, <1>6, <1>7 DEF Turns

\* Answers stay right for a client that does not call.
LEMMA TurnReply ==
  ASSUME NEW c \in Client, NoCallTurn(c), calls'[c] = calls[c], leader' = leader,
         applied'[leader] = applied[leader], ReplyRight(c), \A l : Taken(l) => Taken(l)'
  PROVE  ReplyRight(c)'
<1>1. locker'[c].step \in {"idle", "checked", "ending"}
  BY DEF NoCallTurn, Turns
<1>2. ASSUME NEW l, Renews(c, l)'
      PROVE  Taken(l)'
  <2>1. Taken(l)
    BY <1>2, TurnRenews DEF ReplyRight
  <2>2. QED
    BY <2>1
<1>3. QED
  BY <1>1, <1>2 DEF ReplyRight, At

\* Its object stays right as well.
LEMMA TurnLocker ==
  ASSUME Goes, NEW c \in Client, NoCallTurn(c), calls'[c] = calls[c], LockerRight(c),
         \A j : IsNewPlace(j) => log'[j].token = NoToken
  PROVE  LockerRight(c)'
<1>1. Extends /\ leader' = leader /\ calls[c].count \in Nat
  BY DEF Goes
<1>2. PICK s \in {"idle", "checked", "ending"}, l \in {NoLease, locker[c].lease} :
        /\ locker'[c].step = s /\ locker'[c].lease = l
        /\ s = "ending" => At(c, "deleting") /\ l = locker[c].lease
  BY DEF NoCallTurn, Turns
<1>3. PICK k : k = calls[c].count
  OBVIOUS
<1>4. k \in Nat /\ k = calls'[c].count
  BY <1>1, <1>3
<1>5. PICK i : i = Len(log') + 1
  OBVIOUS
<1>6. l # NoLease => GrantedTo(l, c, k, i)'
  <2>1. l # NoLease => GrantedTo(l, c, k, Len(log) + 1)
    BY <1>2, <1>3 DEF LockerRight
  <2>2. PICK j : j = Len(log) + 1
    OBVIOUS
  <2>3. j \in 1 .. Len(log) + 1 /\ i \in Nat /\ j <= i
    BY <1>1, <1>5, <2>2 DEF Extends
  <2>4. QED
    BY <1>1, <1>4, <2>1, <2>2, <2>3, GrantedKept
<1>7. locker'[c].lease # NoLease => GrantedTo(locker[c].lease, c, calls[c].count, Len(log) + 1)'
  BY <1>1, <1>2, <1>4, <1>5, <1>6 DEF GrantedTo
<1>8. At(c, "checked")' => \A x : ~Renews(c, x)'
  BY TurnRenews DEF At
<1>9. ASSUME NEW j \in DOMAIN log', log'[j].token = << c, k >>
      PROVE  AwaitsOwn(c, j)'
  <2>1. j \in DOMAIN log
    BY <1>9, PairIsOne DEF IsNewPlace, NoToken
  <2>2. log'[j] = log[j]
    BY <1>1, <2>1 DEF Extends
  <2>3. AwaitsOwn(c, j)
    BY <1>3, <1>9, <2>1, <2>2 DEF LockerRight
  <2>4. QED
    BY <1>2, <2>2, <2>3 DEF AwaitsOwn, At, IsDelete
<1>10. QED
  BY <1>4, <1>7, <1>8, <1>9 DEF LockerRight

\* Everything stays right when a client goes on without a call.
LEMMA NoCallKeeps ==
  ASSUME Shape, Goes, LockRight, OthersSilent', LeaderStill, NoAnswers,
         NEW c \in Client, NoCallTurn(c),
         \A j : IsNewPlace(j) =>
           /\ j = Len(log) + 1 /\ log'[j].token = NoToken
           /\ log'[j].cmd.type \in {"lease_revoke", "lease_expire", "lease_keepalive"}
  PROVE  LockRight'
<1>1. DoneInLog /\ Extends /\ leader' = leader /\ MachineStill
  BY ShapeDone DEF Goes, LeaderStill
<1>2. \A d \in Client : d # c => locker'[d] = locker[d]
  BY DEF NoCallTurn, Turns
<1>3. MachineRight'
  BY <1>1, StillRight DEF LockRight
<1>4. /\ \A l : Taken(l) => Taken(l)'
      /\ \A l : Dead(l) => Dead(l)'
  BY <1>1, StillKeeps
<1>5. /\ applied'[leader] = applied[leader] /\ applied[leader] \in Nat
      /\ \A d \in Client : calls[d].answer.at \in Nat
  BY <1>1 DEF MachineStill, DoneInLog, Shape, CallShape
<1>6. RepliesRight'
  <2>1. ASSUME NEW d \in Client
        PROVE  ReplyRight(d)'
    <3>1. CASE d = c
      BY <1>1, <1>4, <1>5, <3>1, TurnReply DEF LockRight, RepliesRight, NoAnswers
    <3>2. CASE d # c
      BY <1>1, <1>2, <1>4, <1>5, <3>2, ReplyKept DEF LockRight, RepliesRight, NoAnswers
    <3>3. QED
      BY <3>1, <3>2
  <2>2. QED
    BY <2>1 DEF RepliesRight
<1>7. LockersRight'
  <2>1. ASSUME NEW d \in Client
        PROVE  LockerRight(d)'
    <3>1. CASE d = c
      BY <3>1, TurnLocker DEF LockRight, LockersRight, NoAnswers
    <3>2. CASE d # c
      <4>1. \A j : IsNewPlace(j) => log'[j].token # << d, calls[d].count >>
        BY PairIsOne DEF NoToken
      <4>2. QED
        BY <1>2, <3>2, <4>1, LockerKept DEF LockRight, LockersRight, NoAnswers
    <3>3. QED
      BY <3>1, <3>2
  <2>2. QED
    BY <2>1 DEF LockersRight
<1>8. LogRight'
  BY EndEntry, LogKept DEF LockRight
<1>9. ASSUME NEW l, NEW d \in Client, GivenUp(d, l)
      PROVE  GivenUp(d, l)'
  <2>1. CASE d = c
    <3>1. ~Renews(c, l)'
      BY <1>9, <2>1, TurnRenews DEF GivenUp
    <3>2. ~At(c, "putting")'
      BY DEF At, NoCallTurn, Turns
    <3>3. QED
      BY <2>1, <3>1, <3>2 DEF GivenUp, At
  <2>2. CASE d # c
    BY <1>2, <1>9, <2>2 DEF GivenUp, Renews, At
  <2>3. QED
    BY <2>1, <2>2
<1>10. DeletesRight'
  BY <1>4, <1>9, EndEntry, DeletesKept DEF LockRight
<1>11. QED
  BY <1>3, <1>6, <1>7, <1>8, <1>10 DEF LockRight

\* A client that calls leaves the leader's replica alone, and adds to the log
\* what it asks for.
LEMMA CallAdds ==
  ASSUME Shape, NEW c \in Client, AskStep(c)
  PROVE  /\ LeaderStill /\ leader' = leader
         /\ calls'[c].count = calls[c].count + 1
         /\ ~calls'[c].answer.ok /\ calls'[c].answer.at = 0
         /\ \A d \in Client : d # c => calls'[d] = calls[d]
         /\ \A j : IsNewPlace(j) =>
              /\ locker[c].server = leader /\ j = Len(log) + 1
              /\ log'[j].token = << c, calls[c].count + 1 >>
              /\ Acquire(c) => log'[j].cmd = [type |-> "lease_grant", lease |-> NoLease]
              /\ TakeLock(c) => log'[j].cmd = PutCommand(calls[c].answer.lease)
              /\ DeleteLock(c) => /\ log'[j].cmd = [type |-> "delete", key |-> Lock]
                                  /\ log'[j].lease = locker[c].lease
<1>1. ASSUME NEW cmd, NEW lease, Ask(c, locker[c].server, cmd, lease)
      PROVE  /\ LeaderStill /\ leader' = leader
             /\ \A j : IsNewPlace(j) =>
                  /\ locker[c].server = leader /\ j = Len(log) + 1
                  /\ log'[j].token = << c, calls[c].count + 1 >>
                  /\ log'[j].cmd = cmd /\ log'[j].lease = lease
  <2>1. /\ Submit(locker[c].server, cmd, << c, calls[c].count + 1 >>, lease)
        /\ UNCHANGED << raft, applied, machine, ending, stuck >>
    BY <1>1 DEF Ask
  <2>2. LeaderStill /\ leader' = leader
    BY <2>1 DEF LeaderStill, MachineStill, raft
  <2>3. \A j \in DOMAIN log' : j \notin DOMAIN log =>
          /\ locker[c].server = leader /\ j = Len(log) + 1
          /\ log'[j] = [cmd |-> cmd, token |-> << c, calls[c].count + 1 >>,
                        lease |-> lease]
    BY <2>1, SubmitExtends
  <2>4. QED
    BY <2>2, <2>3 DEF IsNewPlace
<1>2. /\ calls'[c].count = calls[c].count + 1
      /\ calls'[c].answer = NoAnswer
      /\ \A d \in Client : d # c => calls'[d] = calls[d]
  BY CountAsked
<1>3. PICK no : no = FALSE
  BY Zenon
<1>4. NoAnswer = [at |-> 0, ok |-> no, lease |-> NoLease]
  BY <1>3, Zenon DEF NoAnswer
<1>5. calls'[c].answer.ok = no /\ calls'[c].answer.at = 0
  BY <1>2, <1>4
<1>6. ~calls'[c].answer.ok
  BY <1>3, <1>5, Zenon
<1>7. CASE Acquire(c)
  <2>1. locker[c].step = "idle"
    BY <1>7 DEF Acquire, At
  <2>2. /\ Ask(c, locker[c].server, [type |-> "lease_grant", lease |-> NoLease], NoLease)
        /\ ~TakeLock(c) /\ ~DeleteLock(c)
    BY <1>7, <2>1 DEF Acquire, TakeLock, DeleteLock, At
  <2>3. QED
    BY <1>1, <1>2, <1>5, <1>6, <2>2
<1>8. CASE TakeLock(c)
  <2>1. locker[c].step = "granting"
    BY <1>8 DEF TakeLock, At
  <2>2. /\ Ask(c, locker[c].server, PutCommand(calls[c].answer.lease), NoLease)
        /\ ~Acquire(c) /\ ~DeleteLock(c)
    BY <1>8, <2>1 DEF Acquire, TakeLock, DeleteLock, At
  <2>3. QED
    BY <1>1, <1>2, <1>5, <1>6, <2>2
<1>9. CASE DeleteLock(c)
  <2>1. locker[c].step = "checked"
    BY <1>9 DEF DeleteLock, At
  <2>2. /\ Ask(c, locker[c].server, [type |-> "delete", key |-> Lock], locker[c].lease)
        /\ ~Acquire(c) /\ ~TakeLock(c)
    BY <1>9, <2>1 DEF Acquire, TakeLock, DeleteLock, At
  <2>3. QED
    BY <1>1, <1>2, <1>5, <1>6, <2>2
<1>10. QED
  BY <1>7, <1>8, <1>9 DEF AskStep

\* The lease that a client takes the lock under was granted by its last call,
\* and nobody has called with it yet.
LEMMA LeaseIsNew ==
  ASSUME Shape, changes = 0, AnsweredRight, LogRight, LockersRight, RepliesRight,
         NEW c \in Client, TakeLock(c), NEW l, l = calls[c].answer.lease
  PROVE  /\ GrantedTo(l, c, calls[c].count + 1, Len(log) + 1)
         /\ \A j \in DOMAIN log : \A d : ~Under(j, d, l)
<1>1. Len(log) \in Nat /\ DOMAIN log = 1 .. Len(log) /\ calls[c].count \in Nat
  BY LenProperties DEF Shape, LogShape, CallShape
<1>2. At(c, "granting") /\ calls[c].answer.ok
  BY DEF TakeLock, Granted
<1>3. PICK i : i = calls[c].answer.at
  OBVIOUS
<1>4. i > 0 /\ l = << leader, i >>
  BY <1>2, <1>3 DEF RepliesRight, ReplyRight
<1>5. i \in 1 .. Len(log) /\ log[i].token = << c, calls[c].count >>
  BY <1>3, <1>4 DEF AnsweredRight
<1>6. log[i].cmd.type = "lease_grant"
  BY <1>1, <1>2, <1>5 DEF LockersRight, LockerRight, AwaitsOwn
<1>7. GrantedTo(l, c, calls[c].count + 1, Len(log) + 1)
  <2>1. PICK m \in Nat : m = calls[c].count
    BY <1>1
  <2>2. i \in 1 .. (Len(log) + 1) - 1 /\ m < calls[c].count + 1
    BY <1>1, <1>5, <2>1
  <2>3. QED
    BY <1>4, <1>5, <1>6, <2>1, <2>2 DEF GrantedTo
<1>8. ASSUME NEW j \in DOMAIN log, NEW d, Under(j, d, l)
      PROVE  FALSE
  <2>1. PICK k \in Nat : log[j].token = << d, k >> /\ GrantedTo(l, d, k, j)
    BY <1>8 DEF Under
  <2>2. PICK m, p : m \in Nat /\ m < k /\ l = << leader, p >> /\ log[p].token = << d, m >>
    BY <2>1 DEF GrantedTo
  <2>3. p = i
    BY <1>4, <2>2
  <2>4. d = c /\ m = calls[c].count
    BY <1>5, <2>2, <2>3
  <2>5. EntryRight(j) /\ log[j].token # NoToken
    BY <2>1, PairIsOne DEF LogRight, NoToken
  <2>6. PICK e \in Client, h \in Nat : log[j].token = << e, h >> /\ h <= calls[e].count
    BY <2>5 DEF EntryRight
  <2>7. e = d /\ h = k
    BY <2>1, <2>6
  <2>8. QED
    BY <1>1, <2>2, <2>4, <2>6, <2>7
<1>9. QED
  BY <1>7, <1>8

\* The object of a client that calls is right, and so is its new entry.
LEMMA CallLocker ==
  ASSUME Shape, changes = 0, AnsweredRight, ObjectsRight, Goes, LogRight, LockersRight,
         RepliesRight, NEW c \in Client, AskStep(c)
  PROVE  LockerRight(c)'
<1>1. Extends /\ leader' = leader /\ calls[c].count \in Nat
  BY DEF Goes
<1>2. PICK k : k = calls[c].count + 1
  OBVIOUS
<1>3. /\ k \in Nat /\ k = calls'[c].count /\ calls[c].count <= k
      /\ calls[c].count < k
  BY <1>1, <1>2, CallAdds
<1>4. PICK i : i = Len(log') + 1
  OBVIOUS
<1>5. PICK p : p = Len(log) + 1
  OBVIOUS
<1>6. p \in 1 .. Len(log) + 1 /\ p <= i /\ i \in Nat
  BY <1>1, <1>4, <1>5 DEF Extends
<1>7. PICK l : l = locker'[c].lease
  OBVIOUS
<1>8. ObjectsShape
  BY DEF ObjectsRight
<1>9. l # NoLease => \E h \in Nat : h <= k /\ GrantedTo(l, c, h, p)
  <2>1. CASE Acquire(c) \/ DeleteLock(c)
    <3>1. l = locker[c].lease
      BY <1>7, <1>8, <2>1, CallTurn DEF Turns
    <3>2. l # NoLease => GrantedTo(l, c, calls[c].count, p)
      BY <1>5, <3>1 DEF LockersRight, LockerRight
    <3>3. QED
      BY <1>1, <1>3, <3>2
  <2>2. CASE TakeLock(c)
    <3>1. l = calls[c].answer.lease
      BY <1>7, <1>8, <2>2, CallTurn DEF Turns
    <3>2. GrantedTo(l, c, k, p)
      BY <1>2, <1>5, <2>2, <3>1, LeaseIsNew
    <3>3. QED
      BY <1>3, <3>2
  <2>3. QED
    BY <2>1, <2>2 DEF AskStep
<1>10. l # NoLease => GrantedTo(l, c, k, i)'
  BY <1>1, <1>3, <1>6, <1>9, GrantedKept
<1>11. locker'[c].lease # NoLease => GrantedTo(locker[c].lease, c, calls[c].count, Len(log) + 1)'
  BY <1>1, <1>3, <1>4, <1>7, <1>10 DEF GrantedTo
<1>12. ~At(c, "checked")'
  BY <1>8, CallTurn DEF At, Turns, AskStep
<1>13. ASSUME NEW j \in DOMAIN log', log'[j].token = << c, k >>
       PROVE  AwaitsOwn(c, j)'
  <2>1. CASE j \in DOMAIN log
    <3>1. EntryRight(j) /\ log'[j] = log[j]
      BY <1>1, <2>1 DEF LogRight, Extends
    <3>2. log[j].token # NoToken
      BY <1>13, <3>1, PairIsOne DEF NoToken
    <3>3. PICK e \in Client, h \in Nat : log[j].token = << e, h >> /\ h <= calls[e].count
      BY <3>1, <3>2 DEF EntryRight
    <3>4. e = c /\ h = k
      BY <1>13, <3>1, <3>3
    <3>5. QED
      BY <1>1, <1>2, <3>3, <3>4
  <2>2. CASE IsNewPlace(j)
    <3>1. CASE Acquire(c)
      <4>1. locker'[c].step = "granting"
        BY <1>8, <3>1, CallTurn DEF Turns
      <4>2. log'[j].cmd.type = "lease_grant"
        BY <2>2, <3>1, CallAdds
      <4>3. QED
        BY <4>1, <4>2 DEF AwaitsOwn, At
    <3>2. CASE TakeLock(c)
      <4>1. locker'[c].step = "putting" /\ locker'[c].lease = calls[c].answer.lease
        BY <1>8, <3>2, CallTurn DEF Turns
      <4>2. log'[j].cmd = PutCommand(calls[c].answer.lease)
        BY <2>2, <3>2, CallAdds
      <4>3. QED
        BY <4>1, <4>2 DEF AwaitsOwn, At, PutCommand
    <3>3. CASE DeleteLock(c)
      <4>1. locker'[c].step = "deleting" /\ locker'[c].lease = locker[c].lease
        BY <1>8, <3>3, CallTurn DEF Turns
      <4>2. log'[j].cmd.type = "delete" /\ log'[j].lease = locker[c].lease
        BY <2>2, <3>3, CallAdds
      <4>3. QED
        BY <4>1, <4>2 DEF AwaitsOwn, At, IsDelete
    <3>4. QED
      BY <3>1, <3>2, <3>3 DEF AskStep
  <2>3. QED
    BY <2>1, <2>2 DEF IsNewPlace
<1>14. QED
  BY <1>3, <1>11, <1>12, <1>13 DEF LockerRight

\* The new entry is right, and a put does not come after a delete of its client.
LEMMA CallLog ==
  ASSUME Shape, changes = 0, AnsweredRight, ObjectsRight, Goes, LogRight, DeletesRight,
         LockersRight, RepliesRight, NEW c \in Client, AskStep(c)
  PROVE  LogRight'
<1>1. Extends /\ leader' = leader /\ calls[c].count \in Nat
      /\ locker'[c].server = locker[c].server
  BY DEF Goes
<1>2. PICK k : k = calls[c].count + 1
  OBVIOUS
<1>3. k \in Nat /\ k = calls'[c].count
  BY <1>1, <1>2, CallAdds
<1>4. SUFFICES ASSUME NEW j, IsNewPlace(j)
               PROVE  /\ j = Len(log) + 1
                      /\ EntryRight(j)'
                      /\ IsPut(j)' => \A i \in DOMAIN log :
                           IsDelete(i) /\ log[i].token # NoToken
                             => log[i].lease # log'[j].cmd.lease
  BY LogKept
<1>5. /\ locker[c].server = leader /\ j = Len(log) + 1
      /\ log'[j].token = << c, k >>
  BY <1>2, <1>4, CallAdds
<1>6. \E d \in Client : \E h \in Nat :
        /\ log'[j].token = << d, h >> /\ h <= calls'[d].count
        /\ locker'[d].server = leader'
  BY <1>1, <1>3, <1>5
<1>7. CASE Acquire(c)
  <2>1. log'[j].cmd = [type |-> "lease_grant", lease |-> NoLease]
    BY <1>4, <1>7, CallAdds
  <2>2. EntryRight(j)'
    BY <1>6, <2>1 DEF EntryRight, Kinds, LeaseTypes
  <2>3. QED
    BY <1>5, <2>1, <2>2 DEF IsPut
<1>8. CASE DeleteLock(c)
  <2>1. log'[j].cmd = [type |-> "delete", key |-> Lock]
    BY <1>4, <1>8, CallAdds
  <2>2. EntryRight(j)'
    BY <1>6, <2>1 DEF EntryRight, Kinds, LeaseTypes
  <2>3. QED
    BY <1>5, <2>1, <2>2 DEF IsPut
<1>9. CASE TakeLock(c)
  <2>1. PICK l : l = calls[c].answer.lease
    OBVIOUS
  <2>2. log'[j].cmd = PutCommand(l)
    BY <1>4, <1>9, <2>1, CallAdds
  <2>3. log'[j].cmd.type = "put_if_absent" /\ log'[j].cmd.lease = l
    BY <2>2 DEF PutCommand
  <2>4. /\ GrantedTo(l, c, k, Len(log) + 1)
        /\ \A i \in DOMAIN log : \A d : ~Under(i, d, l)
    BY <1>2, <1>9, <2>1, LeaseIsNew
  <2>5. GrantedTo(l, c, k, j)'
    <3>1. j \in 1 .. Len(log) + 1 /\ j \in Nat /\ j <= j
      BY <1>1, <1>5 DEF Extends
    <3>2. GrantedTo(l, c, k, j) /\ k <= k
      BY <1>3, <1>5, <2>4
    <3>3. QED
      BY <1>1, <1>3, <3>1, <3>2, GrantedKept
  <2>6. Under(j, c, l)'
    BY <1>3, <1>5, <2>5 DEF Under
  <2>7. \E d \in Client : Under(j, d, log[j].cmd.lease)'
    BY <2>3, <2>6 DEF Under, GrantedTo
  <2>8. (log[j].cmd = PutCommand(log[j].cmd.lease))'
    BY <2>2, <2>3 DEF PutCommand
  <2>9. EntryRight(j)'
    BY <1>6, <2>3, <2>7, <2>8 DEF EntryRight, Kinds, LeaseTypes
  <2>10. ASSUME NEW i \in DOMAIN log, IsDelete(i), log[i].token # NoToken
         PROVE  log[i].lease # l
    BY <2>4, <2>10 DEF DeletesRight, DeleteRight
  <2>11. QED
    BY <1>5, <2>3, <2>9, <2>10
<1>10. QED
  BY <1>7, <1>8, <1>9 DEF AskStep

\* A delete is asked for under the lease of its client, which has given it up.
LEMMA CallDeletes ==
  ASSUME Shape, changes = 0, AnsweredRight, ObjectsRight, Goes, LogRight, DeletesRight,
         LockersRight, RepliesRight, NEW c \in Client, AskStep(c)
  PROVE  DeletesRight'
<1>1. Extends /\ leader' = leader /\ calls[c].count \in Nat /\ ObjectsShape
  BY DEF Goes, ObjectsRight
<1>2. \A l : Dead(l) => Dead(l)'
  <2>1. MachineStill
    BY CallAdds DEF LeaderStill
  <2>2. QED
    BY <1>1, <2>1, ShapeDone, StillKeeps
<1>3. /\ \A d \in Client : d # c => locker'[d] = locker[d]
      /\ locker'[c].daemons = locker[c].daemons
  BY <1>1, CallTurn DEF Turns, AskStep
<1>4. ASSUME NEW l, NEW d \in Client, NEW j \in DOMAIN log, Under(j, d, l), GivenUp(d, l)
      PROVE  GivenUp(d, l)'
  <2>1. CASE d # c
    BY <1>3, <1>4, <2>1 DEF GivenUp, Renews, At
  <2>2. CASE d = c
    <3>1. ~Renews(c, l)'
      BY <1>3, <1>4, <2>2 DEF GivenUp, Renews
    <3>2. CASE TakeLock(c)
      <4>1. l # calls[c].answer.lease
        BY <1>4, <3>2, LeaseIsNew
      <4>2. locker'[c].lease # l
        BY <1>1, <3>2, <4>1, CallTurn DEF Turns
      <4>3. QED
        BY <2>2, <3>1, <4>2 DEF GivenUp
    <3>3. CASE Acquire(c) \/ DeleteLock(c)
      <4>1. locker'[c].step # "putting"
        BY <1>1, <3>3, CallTurn DEF Turns
      <4>2. QED
        BY <2>2, <3>1, <4>1 DEF GivenUp, At
    <3>4. QED
      BY <3>2, <3>3 DEF AskStep
  <2>3. QED
    BY <2>1, <2>2
<1>5. ASSUME NEW j, IsNewPlace(j), IsDelete(j)'
      PROVE  DeleteRight(j)'
  <2>1. DeleteLock(c)
    <3>1. CASE Acquire(c)
      <4>1. log'[j].cmd = [type |-> "lease_grant", lease |-> NoLease]
        BY <1>5, <3>1, CallAdds
      <4>2. QED
        BY <1>5, <4>1 DEF IsDelete
    <3>2. CASE TakeLock(c)
      <4>1. log'[j].cmd = PutCommand(calls[c].answer.lease)
        BY <1>5, <3>2, CallAdds
      <4>2. QED
        BY <1>5, <4>1 DEF IsDelete, PutCommand
    <3>3. QED
      BY <3>1, <3>2 DEF AskStep
  <2>2. PICK l : l = locker[c].lease
    OBVIOUS
  <2>3. PICK k : k = calls[c].count + 1
    OBVIOUS
  <2>4. /\ j = Len(log) + 1 /\ log'[j].token = << c, k >> /\ log'[j].lease = l
    BY <1>5, <2>1, <2>2, <2>3, CallAdds
  <2>5. locker[c].step = "checked"
    BY <2>1 DEF DeleteLock, At
  <2>6. l # NoLease
    BY <2>2, <2>5 DEF ObjectsRight, ObjectRight
  <2>7. GrantedTo(l, c, calls[c].count, j)
    BY <2>2, <2>4, <2>6 DEF LockersRight, LockerRight
  <2>8. GrantedTo(l, c, k, j)'
    <3>1. /\ j \in 1 .. Len(log) + 1 /\ j \in Nat /\ j <= j
          /\ k \in Nat /\ calls[c].count <= k
      BY <1>1, <2>3, <2>4 DEF Extends
    <3>2. QED
      BY <1>1, <2>7, <3>1, GrantedKept
  <2>9. k \in Nat
    BY <1>1, <2>3
  <2>10. Under(j, c, l)'
    BY <2>4, <2>8, <2>9 DEF Under
  <2>11. GivenUp(c, l)'
    <3>1. ~Renews(c, l)
      BY <2>5 DEF LockersRight, LockerRight, At
    <3>2. locker'[c].step = "deleting"
      BY <1>1, <2>1, CallTurn DEF Turns
    <3>3. QED
      BY <1>3, <3>1, <3>2 DEF GivenUp, Renews, At
  <2>12. l = log'[j].lease
    BY <2>4
  <2>13. QED
    BY <2>10, <2>11, <2>12 DEF DeleteRight
<1>6. \A j : IsNewPlace(j) => DeleteRight(j)'
  BY <1>5 DEF DeleteRight
<1>7. QED
  BY <1>2, <1>4, <1>6, DeletesKept

\* Everything stays right when a client calls.
LEMMA CallKeeps ==
  ASSUME Shape, changes = 0, AnsweredRight, ObjectsRight, Goes, LockRight, OthersSilent',
         NEW c \in Client, AskStep(c)
  PROVE  LockRight'
<1>1. /\ DoneInLog /\ Extends /\ leader' = leader /\ LeaderStill /\ MachineStill
      /\ ObjectsShape
      /\ ~calls'[c].answer.ok /\ calls'[c].answer.at = 0
      /\ \A d \in Client : d # c => calls'[d] = calls[d]
  BY ShapeDone, CallAdds DEF Goes, LeaderStill, ObjectsRight
<1>2. /\ \A d \in Client : d # c => locker'[d] = locker[d]
      /\ locker'[c].daemons = locker[c].daemons
  BY <1>1, CallTurn DEF Turns, AskStep
<1>3. MachineRight'
  BY <1>1, StillRight DEF LockRight
<1>4. \A l : Taken(l) => Taken(l)'
  BY <1>1, StillKeeps
<1>5. /\ applied'[leader] = applied[leader] /\ applied[leader] \in Nat
      /\ \A d \in Client : calls[d].answer.at \in Nat
  BY <1>1 DEF MachineStill, DoneInLog, Shape, CallShape
<1>6. RepliesRight'
  <2>1. ASSUME NEW d \in Client
        PROVE  ReplyRight(d)'
    <3>1. CASE d = c
      <4>1. \A l : Renews(c, l)' => Taken(l)'
        BY <1>2, <1>4 DEF LockRight, RepliesRight, ReplyRight, Renews
      <4>2. QED
        BY <1>1, <1>5, <3>1, <4>1 DEF ReplyRight
    <3>2. CASE d # c
      BY <1>1, <1>2, <1>4, <1>5, <3>2, ReplyKept DEF LockRight, RepliesRight
    <3>3. QED
      BY <3>1, <3>2
  <2>2. QED
    BY <2>1 DEF RepliesRight
<1>7. LockersRight'
  <2>1. ASSUME NEW d \in Client
        PROVE  LockerRight(d)'
    <3>1. CASE d = c
      BY <3>1, CallLocker DEF LockRight
    <3>2. CASE d # c
      <4>1. \A j : IsNewPlace(j) => log'[j].token # << d, calls[d].count >>
        BY <3>2, CallAdds
      <4>2. QED
        BY <1>1, <1>2, <3>2, <4>1, LockerKept DEF LockRight, LockersRight
    <3>3. QED
      BY <3>1, <3>2
  <2>2. QED
    BY <2>1 DEF LockersRight
<1>8. LogRight' /\ DeletesRight'
  BY CallLog, CallDeletes DEF LockRight
<1>9. QED
  BY <1>3, <1>6, <1>7, <1>8 DEF LockRight

-----------------------------------------------------------------------------
(* Every step.                                                              *)

\* The log grows with every step while the leader stays.
LEMMA StepExtends ==
  ASSUME Shape, UNCHANGED raft, [LockNext]_lockVars
  PROVE  Extends
<1>1. changes' = changes /\ changes \in Nat
  BY DEF raft, Shape, LogShape
<1>2. ASSUME NEW n, NEW cmd, NEW token, NEW lease, Submit(n, cmd, token, lease)
      PROVE  Extends
  BY <1>2, SubmitExtends
<1>3. CASE QuietStep
  <2>1. ASSUME NEW n, NewLeader(n)
        PROVE  FALSE
    BY <1>1, <2>1 DEF NewLeader
  <2>2. CASE log' = log
    BY <2>2, LogStays
  <2>3. ASSUME NEW n, NEW k, SubmitDelete(n, k)
        PROVE  Extends
    BY <1>2, <2>3 DEF SubmitDelete
  <2>4. ASSUME NEW n, NEW l, SubmitExpire(n, l)
        PROVE  Extends
    BY <1>2, <2>4 DEF SubmitExpire
  <2>5. QED
    BY <1>3, <2>1, <2>2, <2>3, <2>4
       DEF QuietStep, Background, Commit, Apply, FinishEnd, CheckLeases, RunOut, vars
<1>4. ASSUME NEW c \in Client, AloneStep(c) \/ Holds(c)
      PROVE  Extends
  <2>1. log' = log
    BY <1>4, AloneSteps DEF vars, Holds
  <2>2. QED
    BY <2>1, LogStays
<1>5. ASSUME NEW c \in Client, AskStep(c)
      PROVE  Extends
  <2>1. PICK lease : Ask(c, locker[c].server, Asked(c), lease)
    BY <1>5, AskSteps
  <2>2. QED
    BY <1>2, <2>1 DEF Ask
<1>6. ASSUME NEW c \in Client, TellStep(c)
      PROVE  Extends
  <2>1. PICK cmd : Tell(locker[c].server, cmd)
    BY <1>6, TellSteps
  <2>2. QED
    BY <1>2, <2>1 DEF Tell
<1>7. QED
  BY <1>3, <1>4, <1>5, <1>6, LockSteps

\* What a client's step makes of its object.
LEMMA TurnKinds ==
  ASSUME ObjectsShape, NEW c \in Client
  PROVE  /\ AloneStep(c) \/ GiveUp(c) \/ Revoke(c) \/ Holds(c) => NoCallTurn(c)
         /\ Keepalive(c) => locker' = locker
<1>1. ASSUME AloneStep(c) \/ GiveUp(c) \/ Revoke(c) \/ Holds(c)
      PROVE  NoCallTurn(c)
  <2>1. CASE GrantFails(c) \/ Holds(c) \/ GiveUp(c)
    BY <2>1, AcquiredTurn
  <2>2. CASE Release(c) \/ Revoke(c) \/ EndRelease(c) \/ Crash(c)
    BY <2>2, ReleasedTurn
  <2>3. QED
    BY <1>1, <2>1, <2>2 DEF AloneStep
<1>2. ASSUME Keepalive(c)
      PROVE  locker' = locker
  BY <1>2 DEF Keepalive
<1>3. QED
  BY <1>1, <1>2

\* Every step of the system only goes forward: logs grow and calls are counted up.
LEMMA StepGoes ==
  ASSUME Shape, Shape', ObjectsRight, UNCHANGED raft, [LockNext]_lockVars
  PROVE  Goes
<1>1. Extends /\ leader' = leader /\ ObjectsShape
  BY StepExtends DEF raft, ObjectsRight
<1>2. \A c \in Client : calls[c].count \in Nat /\ calls'[c].count \in Nat
  BY DEF Shape, CallShape
<1>3. ASSUME NEW c \in Client
      PROVE  /\ calls[c].count <= calls'[c].count
             /\ locker'[c].server = locker[c].server
  <2>1. CASE QuietStep
    <3>1. calls'[c].count = calls[c].count
      BY <2>1, CountKept
    <3>2. QED
      BY <1>2, <2>1, <3>1 DEF QuietStep
  <2>2. ASSUME NEW d \in Client, AskStep(d)
        PROVE  /\ calls[c].count <= calls'[c].count
               /\ locker'[c].server = locker[c].server
    <3>1. calls'[c].count = calls[c].count \/ calls'[c].count = calls[c].count + 1
      BY <2>2, CountAsked
    <3>2. locker'[c].server = locker[c].server
      BY <1>1, <2>2, CallTurn DEF AskStep, Turns
    <3>3. QED
      BY <1>2, <3>1, <3>2
  <2>3. ASSUME NEW d \in Client, AloneStep(d) \/ TellStep(d) \/ Holds(d)
        PROVE  /\ calls[c].count <= calls'[c].count
               /\ locker'[c].server = locker[c].server
    <3>1. calls'[c].count = calls[c].count
      BY <2>3, CountKept
    <3>2. locker'[c].server = locker[c].server
      BY <1>1, <2>3, TurnKinds DEF TellStep, NoCallTurn, Turns
    <3>3. QED
      BY <1>2, <3>1, <3>2
  <2>4. QED
    BY <2>1, <2>2, <2>3, LockSteps
<1>4. QED
  BY <1>1, <1>2, <1>3 DEF Goes

\* The replicas keep everything right by themselves.
LEMMA QuietKeepsRight ==
  ASSUME Shape, FiledRight, changes = 0, Goes, LockRight, QuietStep, UNCHANGED raft
  PROVE  LockRight'
<1>1. OthersSilent' /\ OthersSilent /\ locker' = locker
  BY QuietSilent DEF LockRight, QuietStep
<1>2. CASE CalmStep
  <2>1. LeaderStill /\ NoAnswers /\ log' = log
    BY <1>2 DEF CalmStep
  <2>2. \A j : ~IsNewPlace(j)
    BY <2>1 DEF IsNewPlace
  <2>3. QED
    BY <1>1, <2>1, <2>2, StillKeepsRight
<1>3. CASE Apply(leader)
  <2>1. \A c \in Client : calls'[c].count = calls[c].count
    BY CountKept
  <2>2. QED
    BY <1>1, <1>3, <2>1, ApplyKeepsRight
<1>4. CASE FinishEnd(leader)
  BY <1>1, <1>4, FinishEndKeepsRight
<1>5. ASSUME NEW k, SubmitDelete(leader, k)
      PROVE  LockRight'
  BY <1>1, <1>5, DeleteKeepsRight
<1>6. ASSUME NEW n, NEW l, SubmitExpire(n, l)
      PROVE  LockRight'
  BY <1>1, <1>6, ExpireKeepsRight
<1>7. QED
  BY <1>1, <1>2, <1>3, <1>4, <1>5, <1>6, QuietKinds

\* So do the clients when they do not call.
LEMMA NoCallKeepsRight ==
  ASSUME Shape, ObjectsRight, Goes, LockRight, UNCHANGED raft, NEW c \in Client,
         AloneStep(c) \/ TellStep(c) \/ Holds(c)
  PROVE  LockRight'
<1>1. ObjectsShape /\ OthersSilent /\ leader' = leader
  BY DEF ObjectsRight, LockRight, raft
<1>2. CASE AloneStep(c)
  <2>1. UNCHANGED vars
    BY <1>2, AloneSteps
  <2>2. LeaderStill /\ NoAnswers /\ OthersSilent' /\ \A j : ~IsNewPlace(j)
    BY <1>1, <2>1
       DEF LeaderStill, MachineStill, NoAnswers, OthersSilent, IsNewPlace, vars
  <2>3. NoCallTurn(c)
    BY <1>1, <1>2, TurnKinds
  <2>4. QED
    BY <2>2, <2>3, NoCallKeeps
<1>3. CASE TellStep(c)
  <2>1. PICK cmd : /\ Tell(locker[c].server, cmd)
                   /\ cmd.type \in {"lease_revoke", "lease_keepalive"}
    <3>1. CASE GiveUp(c) \/ Revoke(c)
      <4>1. PICK cmd : cmd = [type |-> "lease_revoke", lease |-> locker[c].lease]
        OBVIOUS
      <4>2. Tell(locker[c].server, cmd) /\ cmd.type = "lease_revoke"
        BY <3>1, <4>1 DEF GiveUp, Revoke
      <4>3. QED
        BY <4>2
    <3>2. CASE Keepalive(c)
      <4>1. PICK l : Tell(locker[c].server, [type |-> "lease_keepalive", lease |-> l])
        BY <3>2 DEF Keepalive
      <4>2. PICK cmd : cmd = [type |-> "lease_keepalive", lease |-> l]
        OBVIOUS
      <4>3. Tell(locker[c].server, cmd) /\ cmd.type = "lease_keepalive"
        BY <4>1, <4>2
      <4>4. QED
        BY <4>3
    <3>3. QED
      BY <1>3, <3>1, <3>2 DEF TellStep
  <2>2. /\ Submit(locker[c].server, cmd, NoToken, NoLease)
        /\ UNCHANGED << applied, machine, ending, stuck, calls >>
    BY <2>1 DEF Tell
  <2>3. LeaderStill /\ NoAnswers
    BY <2>2 DEF LeaderStill, MachineStill, NoAnswers
  <2>4. OthersSilent'
    BY <1>1, <2>2, SubmitSilent
  <2>5. \A j \in DOMAIN log' : j \notin DOMAIN log =>
          /\ j = Len(log) + 1
          /\ log'[j] = [cmd |-> cmd, token |-> NoToken, lease |-> NoLease]
    BY <2>2, SubmitExtends
  <2>6. \A j : IsNewPlace(j) =>
          /\ j = Len(log) + 1 /\ log'[j].token = NoToken
          /\ log'[j].cmd.type \in {"lease_revoke", "lease_expire", "lease_keepalive"}
    BY <2>1, <2>5 DEF IsNewPlace
  <2>7. CASE Keepalive(c)
    <3>1. locker' = locker
      BY <2>7 DEF Keepalive
    <3>2. QED
      BY <2>3, <2>4, <2>6, <3>1, StillKeepsRight
  <2>8. CASE GiveUp(c) \/ Revoke(c)
    <3>1. NoCallTurn(c)
      BY <1>1, <2>8, TurnKinds
    <3>2. QED
      BY <2>3, <2>4, <2>6, <3>1, NoCallKeeps
  <2>9. QED
    BY <1>3, <2>7, <2>8 DEF TellStep
<1>4. CASE Holds(c)
  <2>1. PICK n \in Server : n = locker[c].server
    BY DEF ObjectsRight, ObjectRight
  <2>2. /\ \A m \in Server : m # n => machine'[m] = machine[m]
        /\ machine'[n].data = machine[n].data
        /\ machine'[n].leases = AddKey(machine[n].leases, locker[c].lease, Lock)
        /\ IsLeases(machine[n].leases) /\ leader \in Server
    BY ZenonT(60), <1>4, <2>1, HoldsEffect DEF Shape, LogShape, ReplicaShape, IsMachine
  <2>3. /\ DOMAIN machine'[n].leases = DOMAIN machine[n].leases
        /\ \A x \in DOMAIN machine[n].leases :
             \/ machine'[n].leases[x].keys = machine[n].leases[x].keys
             \/ machine'[n].leases[x].keys = machine[n].leases[x].keys \cup {Lock}
    BY <2>2, AddKeyLeases
  <2>4. UNCHANGED << raft, log, applied, ending, stuck, callbacks, calls >>
    BY <1>4 DEF Holds
  <2>5. MachineStill
    <3>1. CASE n = leader
      BY <2>2, <2>3, <2>4, <3>1 DEF MachineStill
    <3>2. CASE n # leader
      BY <2>2, <2>4, <3>2 DEF MachineStill
    <3>3. QED
      BY <3>1, <3>2
  <2>6. LeaderStill /\ NoAnswers /\ OthersSilent' /\ \A j : ~IsNewPlace(j)
    BY <1>1, <2>4, <2>5 DEF LeaderStill, NoAnswers, OthersSilent, IsNewPlace
  <2>7. NoCallTurn(c)
    BY <1>1, <1>4, TurnKinds
  <2>8. QED
    BY <2>6, <2>7, NoCallKeeps
<1>5. QED
  BY <1>2, <1>3, <1>4

\* ... and when they do.
LEMMA CallKeepsRight ==
  ASSUME Shape, changes = 0, AnsweredRight, ObjectsRight, Goes, LockRight,
         UNCHANGED raft, NEW c \in Client, AskStep(c)
  PROVE  LockRight'
<1>1. PICK lease : Ask(c, locker[c].server, Asked(c), lease)
  BY AskSteps
<1>2. OthersSilent'
  BY <1>1, SubmitSilent DEF Ask, raft, LockRight
<1>3. QED
  BY <1>2, CallKeeps

\* Callbacks and answers belong to their entries here as they do in Service.
LEMMA StepAnswers ==
  ASSUME Shape, ObjectsRight, FiledRight, AnsweredRight, [LockNext]_lockVars
  PROVE  FiledRight' /\ AnsweredRight'
<1>1. \A c \in Client : locker[c].server \in Server
  BY DEF ObjectsRight, ObjectRight
<1>2. CASE QuietStep
  BY <1>2, BackgroundRight DEF QuietStep
<1>3. ASSUME NEW c \in Client, AloneStep(c)
      PROVE  FiledRight' /\ AnsweredRight'
  BY <1>3, AloneSteps, BackgroundRight
<1>4. ASSUME NEW c \in Client, AskStep(c)
      PROVE  FiledRight' /\ AnsweredRight'
  <2>1. PICK lease : Ask(c, locker[c].server, Asked(c), lease)
    BY <1>4, AskSteps
  <2>2. QED
    BY <1>1, <2>1, AskRight
<1>5. ASSUME NEW c \in Client, TellStep(c)
      PROVE  FiledRight' /\ AnsweredRight'
  <2>1. PICK cmd : Tell(locker[c].server, cmd)
    BY <1>5, TellSteps
  <2>2. /\ Submit(locker[c].server, cmd, NoToken, NoLease)
        /\ UNCHANGED raft /\ calls' = calls
    BY SMTT(60), <2>1 DEF Tell
  <2>3. QED
    BY SMTT(60), <1>1, <2>2, SubmitFiledRight, SubmitAnsweredRight
<1>6. ASSUME NEW c \in Client, Holds(c)
      PROVE  FiledRight' /\ AnsweredRight'
  BY <1>6 DEF Holds, FiledRight, AnsweredRight, raft
<1>7. QED
  BY <1>2, <1>3, <1>4, <1>5, <1>6, LockSteps

\* All that is right about the lock is so at the beginning ...
LEMMA LockBegins ==
  ASSUME LockInit
  PROVE  FiledRight /\ AnsweredRight /\ LockRight
<1>1. /\ Shape /\ leader \in Server
      /\ log = << >>
      /\ applied[leader] = 0 /\ machine[leader] = InitialMachine
      /\ ending[leader] = Idle
      /\ \A n \in Server : DOMAIN callbacks[n] = {}
      /\ \A c \in Client : calls[c] = NoCall
  BY InitShape, ServiceAssumption DEF LockInit, Init
<1>2. Len(log) = 0 /\ DOMAIN log = {} /\ Done = {}
  <2>1. Len(log) = 0 /\ DOMAIN log = 1 .. Len(log)
    BY <1>1, LenProperties DEF Shape, LogShape
  <2>2. QED
    BY <1>1, <2>1 DEF Done
<1>3. PICK no : no = FALSE
  BY Zenon
<1>4. NoAnswer = [at |-> 0, ok |-> no, lease |-> NoLease]
  BY <1>3, Zenon DEF NoAnswer
<1>5. \A c \in Client :
        /\ calls[c].count = 0 /\ calls[c].answer.at = 0 /\ calls[c].answer.ok = no
  BY <1>1, <1>4 DEF NoCall
<1>6. \A c \in Client : ~calls[c].answer.ok
  BY <1>3, <1>5, Zenon
<1>7. ASSUME NEW c \in Client
      PROVE  /\ locker[c].step = "idle" /\ locker[c].lease = NoLease
             /\ locker[c].daemons = {}
  BY DEF LockInit, NewLocker
<1>8. FiledRight /\ AnsweredRight
  BY <1>1, <1>5 DEF FiledRight, AnsweredRight
<1>9. OthersSilent
  BY <1>1 DEF OthersSilent
<1>10. LogRight /\ DeletesRight
  BY <1>2 DEF LogRight, PutsFirst, DeletesRight
<1>11. LockersRight
  BY <1>2, <1>7 DEF LockersRight, LockerRight, At
<1>12. RepliesRight
  BY <1>1, <1>5, <1>6, <1>7 DEF RepliesRight, ReplyRight, Renews
<1>13. /\ machine[leader].data = << >> /\ machine[leader].leases = << >>
       /\ ending[leader].keys = {}
  BY <1>1 DEF InitialMachine, Idle
<1>14. DOMAIN machine[leader].data = {} /\ DOMAIN machine[leader].leases = {}
  BY <1>13
<1>15. LeasesRight /\ EndingRight
  BY <1>1, <1>13, <1>14 DEF LeasesRight, EndingRight, Busy
<1>16. \A l : ~LockBound(l)
  BY <1>14 DEF LockBound
<1>17. BoundRight /\ KeyRight
  BY <1>16 DEF BoundRight, KeyRight
<1>18. GrantsRight
  BY <1>2 DEF GrantsRight
<1>19. QED
  BY <1>8, <1>9, <1>10, <1>11, <1>12, <1>15, <1>17, <1>18 DEF LockRight, MachineRight

\* ... and remains so while the first leader stays.
LEMMA LockGoesOn ==
  ASSUME Shape, Shape', ObjectsRight, FiledRight, AnsweredRight, LockRight,
         changes = 0, changes' = 0, [LockNext]_lockVars
  PROVE  LockRight' /\ UNCHANGED raft
<1>1. UNCHANGED raft
  BY LeaderStays
<1>2. Goes
  BY <1>1, StepGoes
<1>3. CASE QuietStep
  BY <1>1, <1>2, <1>3, QuietKeepsRight
<1>4. ASSUME NEW c \in Client, AskStep(c)
      PROVE  LockRight'
  BY <1>1, <1>2, <1>4, CallKeepsRight
<1>5. ASSUME NEW c \in Client, AloneStep(c) \/ TellStep(c) \/ Holds(c)
      PROVE  LockRight'
  BY <1>1, <1>2, <1>5, NoCallKeepsRight
<1>6. QED
  BY <1>1, <1>3, <1>4, <1>5, LockSteps

\* The count of changes does not fall.
LEMMA ChangesGrow ==
  ASSUME Shape, Shape', changes' = 0, [LockNext]_lockVars
  PROVE  changes = 0
  BY LeaderStays DEF raft

\* The inductive invariant of the lock.
LockInv ==
  /\ Shape /\ ObjectsRight /\ FiledRight /\ AnsweredRight
  /\ changes = 0 => LockRight

\* The inductive invariant holds at the beginning.
LEMMA LockInvInit ==
  ASSUME LockInit
  PROVE  LockInv
  BY InitRight, LockBegins DEF LockInv

\* Every step keeps the inductive invariant; the part about locks while no leader changed.
LEMMA LockInvStep ==
  ASSUME LockInv, [LockNext]_lockVars
  PROVE  LockInv'
<1>1. Shape /\ ObjectsRight /\ FiledRight /\ AnsweredRight
  BY DEF LockInv
<1>2. \A c \in Client : locker[c].server \in Server
  BY <1>1 DEF ObjectsRight, ObjectRight
<1>3. Shape' /\ ObjectsRight' /\ FiledRight' /\ AnsweredRight'
  BY <1>1, <1>2, LockShape, StepRight, StepAnswers
<1>4. ASSUME changes' = 0
      PROVE  LockRight'
  <2>1. changes = 0
    BY <1>1, <1>3, <1>4, ChangesGrow
  <2>2. LockRight
    BY <2>1 DEF LockInv
  <2>3. QED
    BY <1>1, <1>3, <1>4, <2>1, <2>2, LockGoesOn
<1>5. QED
  BY <1>3, <1>4 DEF LockInv

-----------------------------------------------------------------------------
(* What the invariant is for.                                               *)

\* Who holds the lock by its own account has it, or has lost it to a delete of
\* another's.
LEMMA RightHeld ==
  ASSUME Shape, LockRight
  PROVE  HeldUntilOvertaken
<1>1. SUFFICES ASSUME NEW c \in Client, Holding(c), NEW l, l = locker[c].lease,
                      ~LockBound(l)
               PROVE  Overtaken(l)
  BY DEF HeldUntilOvertaken
<1>2. Renews(c, l) /\ Lives(l)
  BY <1>1, Zenon DEF Holding, Renews
<1>3. PICK i \in PutsUnder(l), j \in Done : i < j /\ IsDelete(j)
  BY <1>1, <1>2 DEF LockRight, RepliesRight, ReplyRight, Taken
<1>4. i \in DOMAIN log /\ j \in DOMAIN log /\ log[i].cmd = PutCommand(l)
  BY <1>3, ShapeDone DEF DoneInLog, PutsUnder
<1>5. log[j].lease # l
  <2>1. SUFFICES ASSUME log[j].lease = l
                 PROVE  FALSE
    OBVIOUS
  <2>2. ~Dead(l)
    BY <1>2 DEF Dead
  <2>3. PICK d \in Client : Under(j, d, l) /\ GivenUp(d, l)
    BY <1>3, <1>4, <2>1, <2>2 DEF LockRight, DeletesRight, DeleteRight
  <2>4. PICK e : Under(i, e, l)
    <3>1. log[i].cmd.type = "put_if_absent" /\ log[i].cmd.lease = l
      BY <1>4 DEF PutCommand
    <3>2. QED
      BY <1>4, <3>1 DEF LockRight, LogRight, EntryRight
  <2>5. PICK k, h : GrantedTo(l, d, k, h)
    BY <2>3 DEF Under
  <2>6. locker[c].lease # NoLease
    BY <1>1, <2>5, GrantedIsPair
  <2>7. GrantedTo(l, c, calls[c].count, Len(log) + 1)
    BY <1>1, <2>6 DEF LockRight, LockersRight, LockerRight
  <2>8. c = d
    BY <2>5, <2>7, OneGrantee
  <2>9. QED
    BY <1>2, <2>3, <2>8 DEF GivenUp
<1>6. QED
  BY <1>3, <1>5 DEF Overtaken

\* Whoever has the lock, something will take it away.
LEMMA RightAccounted ==
  ASSUME LockRight
  PROVE  AccountedFor
  BY DEF LockRight, MachineRight, KeyRight, AccountedFor

\* An object forgets that it is locked in two places.
LEMMA Unlocks ==
  ASSUME ObjectsShape, [LockNext]_lockVars, NEW c \in Client,
         locker[c].locked, ~locker'[c].locked
  PROVE  (Release(c) /\ FindGone(c)) \/ (EndRelease(c) /\ Told(c))
<1>1. SUFFICES ASSUME ~(Release(c) /\ FindGone(c)), ~(EndRelease(c) /\ Told(c))
               PROVE  FALSE
  OBVIOUS
<1>2. ASSUME NEW s, NEW l, NEW D,
             Becomes(c, Object(locker[c].server, s, l, locker[c].locked, D))
      PROVE  FALSE
  <2>1. locker'[c].locked = locker[c].locked
    BY ZenonT(60), <1>2, BecomesShape
  <2>2. QED
    BY <2>1
<1>3. ASSUME NEW s, NEW l, NEW D,
             Becomes(c, Object(locker[c].server, s, l, TRUE, D))
      PROVE  FALSE
  <2>1. PICK yes : yes = TRUE
    BY Zenon
  <2>2. Becomes(c, Object(locker[c].server, s, l, yes, D))
    BY <1>3, <2>1, Zenon
  <2>3. locker'[c].locked = yes
    BY <2>2, BecomesShape
  <2>4. QED
    BY <2>1, <2>3, Zenon
<1>4. ASSUME NEW d \in Client, d # c,
             \/ AloneStep(d) \/ AskStep(d) \/ TellStep(d) \/ Holds(d)
      PROVE  FALSE
  <2>1. locker'[c] = locker[c]
    BY <1>4, TurnKinds, CallTurn DEF NoCallTurn, Turns, AskStep, TellStep
  <2>2. QED
    BY <2>1
<1>5. ~QuietStep /\ ~Keepalive(c)
  BY DEF QuietStep, Keepalive
<1>6. ~GrantFails(c) /\ ~Acquire(c) /\ ~TakeLock(c)
  BY <1>2, GrantFailsObject, AcquireObject, TakeLockObject
<1>7. ~Holds(c)
  <2>1. SUFFICES ASSUME Holds(c)
                 PROVE  FALSE
    OBVIOUS
  <2>2. PICK D : Becomes(c, Object(locker[c].server, "idle", locker[c].lease, TRUE, D))
    BY <2>1, HoldsObject, Zenon
  <2>3. QED
    BY <1>3, <2>2
<1>8. ~GiveUp(c) /\ ~DeleteLock(c) /\ ~Revoke(c) /\ ~Crash(c)
  BY <1>2, GiveUpObject, DeleteLockObject, RevokeObject, CrashObject
<1>9. ~Release(c)
  BY <1>1, <1>2, FindOtherObject, FindOwnObject DEF Release
<1>10. ~EndRelease(c)
  BY <1>1, <1>3, EndReleaseObject
<1>11. QED
  BY <1>4, <1>5, <1>6, <1>7, <1>8, <1>9, <1>10, LockSteps
     DEF AloneStep, AskStep, TellStep

\* A release that succeeds leaves the lock free of its lease.
LEMMA RightReleased ==
  ASSUME LockInv, changes = 0, [LockNext]_lockVars, NEW c \in Client,
         locker[c].locked, ~locker'[c].locked,
         NEW l, l = locker[c].lease, NEW n, n = locker[c].server
  PROVE  ~(Lock \in DOMAIN machine'[n].data /\ machine'[n].data[Lock].lease = l)
<1>1. /\ Shape /\ ObjectsShape /\ AnsweredRight /\ LockRight
  BY DEF LockInv, ObjectsRight
<1>2. CASE Release(c) /\ FindGone(c)
  BY <1>2 DEF Release, FindGone, Data, vars
<1>3. CASE EndRelease(c) /\ Told(c)
  <2>1. machine' = machine /\ At(c, "ending")
    BY <1>3 DEF EndRelease, vars
  <2>2. PICK i : i = calls[c].answer.at
    OBVIOUS
  <2>3. i > 0 /\ i \in 1 .. Len(log) /\ log[i].token = << c, calls[c].count >>
    BY <1>1, <1>3, <2>2 DEF Told, AnsweredRight
  <2>4. i \in Done /\ i \in DOMAIN log
    <3>1. i <= applied[leader]
      BY <1>1, <2>2 DEF LockRight, RepliesRight, ReplyRight
    <3>2. Len(log) \in Nat /\ DOMAIN log = 1 .. Len(log)
      BY <1>1, LenProperties DEF Shape, LogShape
    <3>3. applied[leader] \in Nat
      BY <1>1, ShapeDone DEF DoneInLog
    <3>4. QED
      BY <2>3, <3>1, <3>2, <3>3 DEF Done
  <2>5. IsDelete(i) /\ log[i].lease = l
    BY <1>1, <2>1, <2>3, <2>4
       DEF LockRight, LockersRight, LockerRight, AwaitsOwn, At
  <2>6. log[i].token # NoToken
    BY <2>3, PairIsOne DEF NoToken
  <2>7. n = leader
    <3>1. EntryRight(i)
      BY <1>1, <2>4 DEF LockRight, LogRight
    <3>2. PICK d \in Client : /\ \E k \in Nat : log[i].token = << d, k >>
                              /\ locker[d].server = leader
      BY <2>6, <3>1 DEF EntryRight
    <3>3. d = c
      BY <2>3, <3>2
    <3>4. QED
      BY <3>2, <3>3
  <2>8. ASSUME LockBound(l)
        PROVE  FALSE
    <3>1. PICK p \in PutsUnder(l) : i < p
      BY <1>1, <2>4, <2>5, <2>8 DEF LockRight, MachineRight, BoundRight
    <3>2. p \in Done /\ log[p].cmd = PutCommand(l)
      BY <3>1 DEF PutsUnder
    <3>3. p \in DOMAIN log /\ IsPut(p) /\ log[p].cmd.lease = l
      BY <1>1, <3>2, ShapeDone DEF DoneInLog, IsPut, PutCommand
    <3>4. p < i
      BY <1>1, <2>4, <2>5, <2>6, <3>3 DEF LockRight, LogRight, PutsFirst
    <3>5. p \in Nat /\ i \in Nat
      BY <2>4, <3>2 DEF Done
    <3>6. QED
      BY <3>1, <3>4, <3>5
  <2>9. QED
    BY <2>1, <2>7, <2>8 DEF LockBound
<1>4. QED
  BY <1>1, <1>2, <1>3, Unlocks

\* While the first leader stays, whoever holds the lock and renews its lease has
\* it, or has lost it to a delete meant for another (HeldUntilOvertaken).
THEOREM HoldersKeepLock == LockSpec /\ [](changes = 0) => []HeldUntilOvertaken
<1>1. LockInit => LockInv
  BY LockInvInit
<1>2. LockInv /\ [LockNext]_lockVars => LockInv'
  BY LockInvStep
<1>3. LockInv /\ changes = 0 => HeldUntilOvertaken
  BY RightHeld DEF LockInv
<1>4. QED
  BY <1>1, <1>2, <1>3, PTL DEF LockSpec

\* While the first leader stays, something will free the lock of any lease it is
\* bound to (AccountedFor).
THEOREM LocksAccountedFor == LockSpec /\ [](changes = 0) => []AccountedFor
<1>1. LockInit => LockInv
  BY LockInvInit
<1>2. LockInv /\ [LockNext]_lockVars => LockInv'
  BY LockInvStep
<1>3. LockInv /\ changes = 0 => AccountedFor
  BY RightAccounted DEF LockInv
<1>4. QED
  BY <1>1, <1>2, <1>3, PTL DEF LockSpec

\* While the first leader stays, a release that succeeds has freed the lock of
\* the lease it was held under (ReleasedIsFree).
THEOREM ReleasesFree == LockSpec /\ [](changes = 0) => ReleasedIsFree
<1>1. LockInit => LockInv
  BY LockInvInit
<1>2. LockInv /\ [LockNext]_lockVars => LockInv'
  BY LockInvStep
<1> DEFINE Freed ==
      \A c \in Client :
        LET l == locker[c].lease
            n == locker[c].server
        IN  locker[c].locked /\ ~locker'[c].locked
              => ~(/\ Lock \in DOMAIN machine'[n].data
                   /\ machine'[n].data[Lock].lease = l)
<1>3. LockInv /\ changes = 0 /\ [LockNext]_lockVars => [Freed]_lockVars
  BY RightReleased
<1>4. QED
  BY <1>1, <1>2, <1>3, PTL DEF LockSpec, ReleasedIsFree

=============================================================================
