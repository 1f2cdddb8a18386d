----------------------- MODULE ReservedDatabaseProofs -----------------------
(***************************************************************************)
(* Proofs about ReservedDatabase: for any number of transactions and of    *)
(* reads, of statements and of faults, BEGIN finds no transaction open and *)
(* the flag is clear when nobody is in one, but for a transaction whose    *)
(* ROLLBACK failed, which nobody joins; a transaction reported as          *)
(* committed is durable as a whole; and without a spoiled connection or a  *)
(* read that meddles nothing is ever durable in part.                      *)
(***************************************************************************)
EXTENDS ReservedDatabase, TLAPS

Active == {"begin", "write", "commit", "rollback"}
Inner == {"write", "commit", "rollback"}

Now == streams[Current]

Stream == [state : {"alive", "dropped", "closed"}, open : BOOLEAN,
           written : SUBSET (Txs \X Nat), spoiled : BOOLEAN, reaped : BOOLEAN,
           kept : BOOLEAN]

Task == [pc : {"idle", "queued", "read"} \cup Active \cup Settled,
         n : Nat,
         phase : {"ready", "sent", "back", "healing", "resent", "final"},
         on : Nat,
         was : BOOLEAN,
         result : {"none", "ok", "nothing", "gone", "refused", "dead"}]

DbTypeOK ==
    /\ streams \in Seq(Stream) /\ Current > 0
    /\ durable \in SUBSET (Txs \X Nat)
    /\ inTransaction \in BOOLEAN
    /\ queue \in Seq(Txs)
    /\ task \in [Tasks -> Task]
    /\ faults \in Nat
    /\ astray \in BOOLEAN

\* What each kind of call may be doing.
Roles ==
    /\ \A k \in Readers : task[k].pc \in {"idle", "read", "done", "failed"}
    /\ \A t \in Txs : task[t].pc \notin {"read", "done"}
    /\ \A k \in Tasks :
          /\ task[k].on \in 1..Current
          /\ task[k].pc \notin Active \cup {"read"} => task[k].phase = "ready"
          /\ task[k].phase = "ready" => task[k].result = "none"
          /\ task[k].result = "nothing" => task[k].pc = "rollback"
          /\ task[k].result = "gone" => task[k].pc # "rollback"
          /\ task[k].pc \in {"idle", "queued", "begin"} => task[k].n = 1

\* Only the last connection can be alive, and only a live one has a
\* transaction open on it.
StreamsInOrder ==
    \A i \in 1..Current :
        /\ i < Current => streams[i].state # "alive"
        /\ i = Current => streams[i].state # "closed"
        /\ streams[i].open => streams[i].state = "alive" /\ ~streams[i].reaped
        /\ ~streams[i].open => streams[i].written = {}

\* A transaction under way is the first of the queue.
InTurn ==
    \A t \in Txs :
        /\ task[t].pc = "queued" => \E i \in 1..Len(queue) : queue[i] = t
        /\ task[t].pc \in Active => queue # <<>> /\ Head(queue) = t

\* Transaction t has a transaction open on the current connection, if one is.
Inside(t) ==
    \/ task[t].pc = "begin" /\ task[t].phase \in {"back", "final"} /\ task[t].result = "ok"
    \/ task[t].pc \in Inner /\ task[t].phase = "ready"
    \/ task[t].pc \in Inner /\ task[t].phase = "sent" /\ task[t].on = Current
    \/ task[t].pc = "write" /\ task[t].phase = "back" /\ task[t].result = "ok"
    \/ task[t].pc \in {"write", "commit"} /\ task[t].phase = "back" /\ task[t].result = "refused"

\* How many statements of t are on the connection if its transaction is open.
Through(t) ==
    CASE task[t].pc = "write" /\ task[t].phase = "back" /\ task[t].result = "ok" -> task[t].n
      [] task[t].pc = "write" /\ ~(task[t].phase = "back" /\ task[t].result = "ok") -> task[t].n - 1
      [] task[t].pc = "commit" -> Writes
      [] OTHER -> 0

Opened ==
    Now.open /\ ~Now.kept => \E t \in Txs :
        /\ Inside(t)
        /\ \A u \in Txs, i \in Nat : <<u, i>> \in Now.written => u = t
        /\ \A i \in 1..Through(t) : <<t, i>> \in Now.written

\* t is not in a transaction, or about to leave it.
Withdrawn(t) ==
    /\ task[t].pc \in Inner => task[t].pc = "rollback" /\ task[t].phase \in {"back", "final"}
    /\ ~(task[t].pc = "begin" /\ task[t].phase \in {"back", "final"} /\ task[t].result = "ok")

\* A ROLLBACK failed on the current connection: nobody has begun anew since.
Abandoned == Now.kept => \A t \in Txs : Withdrawn(t)

\* The BEGIN of t was carried out, on a connection whose flag may be up still.
Reopened(t) ==
    task[t].pc = "begin" /\ task[t].phase = "back" /\ task[t].result \in {"ok", "dead"}

\* The flag is up only inside a transaction or after a ROLLBACK that failed, and
\* down once the connection has been replaced.
Flagged ==
    /\ inTransaction => Now.kept \/ \E t \in Txs : task[t].pc \in Inner \/ Reopened(t)
    /\ \A t \in Txs : task[t].phase \in {"healing", "resent", "final"} => ~inTransaction
    /\ \A t \in Txs : task[t].pc \in Inner =>
          /\ task[t].phase = "sent" /\ streams[task[t].on].state = "closed" => ~inTransaction
          /\ task[t].pc = "rollback" /\ task[t].phase = "back" /\ task[t].result = "refused"
                => ~inTransaction \/ Now.kept

\* COMMIT has succeeded, whether or not t has heard.
Acknowledged(t) ==
    \/ task[t].pc = "committed"
    \/ task[t].pc = "commit" /\ task[t].phase \in {"back", "final"} /\ task[t].result = "ok"

WholeIsDurable == \A t \in Txs : Acknowledged(t) => Written(t) = 1..Writes

\* BEGIN has succeeded and the next statement is not answered yet.
Owning(t) ==
    \/ task[t].pc = "begin" /\ task[t].phase \in {"back", "final"} /\ task[t].result = "ok"
    \/ task[t].pc = "write" /\ task[t].phase \in {"ready", "sent"}
    \/ task[t].pc = "write" /\ task[t].phase = "back" /\ task[t].result = "ok"

\* t inside its transaction, as long as no read has meddled: nothing is sent
\* twice, and the flag is up until the connection is replaced.
Protected(t) ==
    /\ task[t].phase \in {"ready", "sent", "back", "healing"}
    /\ task[t].phase # "ready" => task[t].was
    /\ task[t].phase # "healing" => inTransaction

\* Unless a read meddled: no connection is spoiled, and a statement always has
\* its transaction or the news that it is gone.
Undisturbed ==
    ~astray =>
        /\ ~Now.spoiled
        /\ \A k \in Readers : ~(task[k].phase = "back" /\ task[k].result = "gone")
        /\ \A t \in Txs :
              /\ Written(t) \in {{}, 1..Writes}
              /\ task[t].pc \in {"write", "commit"} => Protected(t)
              /\ Owning(t) => (Now.state = "alive" => Now.open \/ Now.reaped)

DbInv ==
    /\ DbTypeOK
    /\ Roles
    /\ StreamsInOrder
    /\ InTurn
    /\ Opened
    /\ Abandoned
    /\ Flagged
    /\ WholeIsDurable
    /\ Undisturbed

-----------------------------------------------------------------------------

\* At most one transaction is under way: the first of the queue.
LEMMA OneUnderWay ==
    ASSUME InTurn, NEW t \in Txs, NEW u \in Txs,
           task[t].pc \in Active, task[u].pc \in Active
    PROVE  t = u
BY DEF InTurn

\* What Continue does to the call that continues, and to no other.
LEMMA ContinueMoves ==
    ASSUME DbTypeOK, NEW k \in Tasks,
           NEW pc \in {"write", "commit", "rollback"} \cup Settled,
           Continue(k, pc)
    PROVE  /\ task' \in [Tasks -> Task]
           /\ \A j \in Tasks \ {k} : task'[j] = task[j]
           /\ task'[k].pc = pc
           /\ task'[k].phase = "ready"
           /\ task'[k].result = "none"
           /\ task'[k].on = 1
           /\ task'[k].was = FALSE
           /\ task'[k].n = IF pc = "write" /\ task[k].pc = "write" THEN task[k].n + 1
                           ELSE task[k].n
<1>1. task \in [Tasks -> Task]
  BY DEF DbTypeOK
<1>2. task[k] \in Task
  BY <1>1
<1>3. /\ \A j \in Tasks \ {k} : task'[j] = task[j]
      /\ task'[k].pc = pc
      /\ task'[k].phase = "ready"
      /\ task'[k].result = "none"
      /\ task'[k].on = 1
      /\ task'[k].was = FALSE
      /\ task'[k].n = IF pc = "write" /\ task[k].pc = "write" THEN task[k].n + 1
                      ELSE task[k].n
  BY <1>1, <1>2 DEF Continue, Task
<1>4. task'[k] \in Task
  <2> DEFINE m == IF pc = "write" /\ task[k].pc = "write" THEN task[k].n + 1 ELSE task[k].n
  <2>1. m \in Nat
    BY <1>2 DEF Task
  <2> DEFINE x == [task[k] EXCEPT !.pc = pc, !.phase = "ready", !.result = "none"]
             y == [x EXCEPT !.on = 1, !.was = FALSE]
  <2>2. task'[k] = [y EXCEPT !.n = m]
    BY <1>1, <1>2 DEF Continue, Task
  <2>3. x \in Task
    BY <1>2 DEF Task, Active, Settled
  <2> HIDE DEF x
  <2>4. y \in Task
    BY <2>3 DEF Task
  <2> HIDE DEF m, y
  <2> QED
    BY <2>1, <2>2, <2>4 DEF Task
<1>5. task' \in [Tasks -> Task]
  BY <1>1, <1>3, <1>4 DEF Continue
<1> QED
  BY <1>3, <1>5

\* The queue after Continue: a transaction that ends was the first of it.
LEMMA ContinueKeepsTurns ==
    ASSUME DbTypeOK, Roles, InTurn, NEW k \in Tasks,
           task[k].pc \in Active \cup {"read"},
           NEW pc \in Inner \cup Settled,
           k \in Readers => pc \in {"done", "failed"},
           k \in Txs => pc # "done",
           Continue(k, pc)
    PROVE  queue' \in Seq(Txs) /\ InTurn'
<1>1. /\ \A j \in Tasks \ {k} : task'[j] = task[j]
      /\ task'[k].pc = pc
  BY ContinueMoves DEF Inner
<1>2. queue \in Seq(Txs)
  BY DEF DbTypeOK
<1>3. CASE k \in Readers
  <2>1. queue' = queue
    BY <1>3, DatabaseAssumption DEF Continue, Leave
  <2> QED
    BY <1>1, <1>2, <1>3, <2>1, DatabaseAssumption DEF InTurn, Tasks
<1>4. CASE k \in Txs /\ pc \notin Settled
  <2>1. queue' = queue
    BY <1>4 DEF Continue, Leave
  <2>2. task[k].pc \in Active
    BY <1>4 DEF Roles
  <2> QED
    BY <1>1, <1>2, <1>4, <2>1, <2>2 DEF InTurn, Tasks, Inner, Active
<1>5. CASE k \in Txs /\ pc \in Settled
  <2>1. queue' = Tail(queue)
    BY <1>5 DEF Continue, Leave
  <2>2. task[k].pc \in Active
    BY <1>5 DEF Roles
  <2>3. queue # <<>> /\ Head(queue) = k
    BY <1>5, <2>2 DEF InTurn
  <2>4. queue' \in Seq(Txs)
    BY <1>2, <2>1, <2>3
  <2>5. ASSUME NEW t \in Txs
        PROVE  /\ task'[t].pc = "queued" => \E i \in 1..Len(queue') : queue'[i] = t
               /\ task'[t].pc \notin Active
    <3>1. CASE t = k
      BY <1>1, <1>5, <3>1 DEF Settled, Active
    <3>2. CASE t # k
      <4>1. task'[t] = task[t]
        BY <1>1, <3>2 DEF Tasks
      <4>2. task[t].pc \notin Active
        BY <1>5, <2>2, <3>2, OneUnderWay
      <4>3. ASSUME task[t].pc = "queued"
            PROVE  \E i \in 1..Len(queue') : queue'[i] = t
        <5>1. PICK i \in 1..Len(queue) : queue[i] = t
          BY <4>3 DEF InTurn
        <5>2. i # 1
          BY <1>2, <2>3, <3>2, <5>1
        <5>3. i - 1 \in 1..Len(queue') /\ queue'[i - 1] = t
          BY <1>2, <2>1, <2>3, <5>1, <5>2
        <5> QED
          BY <5>3
      <4> QED
        BY <4>1, <4>2, <4>3
    <3> QED
      BY <3>1, <3>2
  <2> QED
    BY <2>4, <2>5 DEF InTurn
<1> QED
  BY <1>3, <1>4, <1>5 DEF Tasks

\* A call that goes on keeps to what its kind may do.
LEMMA ContinueKeepsRoles ==
    ASSUME DbTypeOK, Roles, NEW k \in Tasks,
           task[k].pc \in Active \cup {"read"},
           NEW pc \in Inner \cup Settled,
           k \in Readers => pc \in {"done", "failed"},
           k \in Txs => pc # "done",
           Continue(k, pc), streams' = streams
    PROVE  Roles'
<1>1. /\ \A j \in Tasks \ {k} : task'[j] = task[j]
      /\ task'[k].pc = pc
      /\ task'[k].phase = "ready"
      /\ task'[k].result = "none"
      /\ task'[k].on = 1
  BY ContinueMoves DEF Inner
<1>2. Current' = Current /\ 1 \in 1..Current
  BY DEF Current, DbTypeOK
<1>3. \A j \in Readers : task'[j].pc \in {"idle", "read", "done", "failed"}
  BY <1>1 DEF Roles, Tasks
<1>4. \A t \in Txs : task'[t].pc \notin {"read", "done"}
  BY <1>1, DatabaseAssumption DEF Roles, Tasks, Inner, Settled
<1>5. ASSUME NEW j \in Tasks
      PROVE  /\ task'[j].on \in 1..Current
             /\ task'[j].pc \notin Active \cup {"read"} => task'[j].phase = "ready"
             /\ task'[j].phase = "ready" => task'[j].result = "none"
             /\ task'[j].result = "nothing" => task'[j].pc = "rollback"
             /\ task'[j].result = "gone" => task'[j].pc # "rollback"
             /\ task'[j].pc \in {"idle", "queued", "begin"} => task'[j].n = 1
  <2>1. CASE j = k
    BY <1>1, <1>2, <2>1 DEF Roles, Inner, Settled
  <2>2. CASE j # k
    BY <1>1, <2>2 DEF Roles
  <2> QED
    BY <2>1, <2>2
<1> QED
  BY <1>2, <1>3, <1>4, <1>5 DEF Roles

\* A read that ends changes nothing a transaction can see, as long as it does
\* not lower the flag of one.
LEMMA ReadEnds ==
    ASSUME DbInv, NEW k \in Readers, task[k].pc = "read",
           NEW pc \in {"done", "failed"}, Continue(k, pc),
           UNCHANGED <<streams, durable, faults>>,
           inTransaction' \in BOOLEAN, inTransaction' => inTransaction,
           astray' \in BOOLEAN, astray => astray',
           \/ astray'
           \/ inTransaction' = inTransaction
           \/ \A t \in Txs : task[t].pc \notin Active
    PROVE  DbInv'
<1> USE DEF DbInv
<1>k. k \in Tasks /\ k \notin Txs
  BY DatabaseAssumption DEF Tasks
<1>0. /\ task' \in [Tasks -> Task]
      /\ \A t \in Txs : task'[t] = task[t]
      /\ \A j \in Tasks \ {k} : task'[j] = task[j]
      /\ task'[k].phase = "ready"
  BY <1>k, ContinueMoves DEF Settled, Tasks
<1>1. queue' \in Seq(Txs) /\ InTurn'
  BY <1>k, ContinueKeepsTurns DEF Settled
<1>2. DbTypeOK'
  BY <1>0, <1>1 DEF DbTypeOK, Current
<1>3. Roles'
  BY <1>k, ContinueKeepsRoles DEF Settled
<1>4. StreamsInOrder'
  BY DEF StreamsInOrder, Current
<1>5. Opened'
  <2>1. \A t \in Txs : Inside(t)' = Inside(t) /\ Through(t)' = Through(t)
    BY <1>0 DEF Inside, Through, Current
  <2>2. Now' = Now
    BY DEF Now, Current
  <2> QED
    BY <2>1, <2>2 DEF Opened
<1>a. Abandoned'
  <2>1. Now' = Now /\ \A t \in Txs : Withdrawn(t)' = Withdrawn(t)
    BY <1>0 DEF Now, Current, Withdrawn
  <2> QED
    BY <2>1 DEF Abandoned
<1>6. Flagged'
  <2>1. Now' = Now /\ \A t \in Txs : Reopened(t)' = Reopened(t)
    BY <1>0 DEF Now, Current, Reopened
  <2> QED
    BY <1>0, <2>1 DEF Flagged
<1>7. WholeIsDurable'
  <2>1. \A t \in Txs : Acknowledged(t)' = Acknowledged(t) /\ Written(t)' = Written(t)
    BY <1>0 DEF Acknowledged, Written
  <2> QED
    BY <2>1 DEF WholeIsDurable
<1>8. Undisturbed'
  <2> SUFFICES ASSUME ~astray' PROVE Undisturbed'
    BY DEF Undisturbed
  <2>1. Now' = Now
    BY DEF Now, Current
  <2>2. \A t \in Txs : Written(t)' = Written(t) /\ Owning(t)' = Owning(t)
    BY <1>0 DEF Owning, Written
  <2>3. \A t \in Txs : task'[t].pc \in {"write", "commit"} => Protected(t)'
    BY <1>0 DEF Protected, Undisturbed, Active
  <2>4. \A j \in Readers : ~(task'[j].phase = "back" /\ task'[j].result = "gone")
    BY <1>0 DEF Undisturbed, Tasks
  <2> QED
    BY <1>0, <2>1, <2>2, <2>3, <2>4 DEF Undisturbed
<1> QED
  BY <1>1, <1>2, <1>3, <1>4, <1>5, <1>6, <1>7, <1>8, <1>a

\* A transaction that goes on after an answer.  What the answer must have been
\* is in the hypotheses, one for each part of the invariant.
LEMMA TransactionGoesOn ==
    ASSUME DbInv, NEW k \in Txs, task[k].pc \in Active,
           NEW pc \in Inner \cup {"committed", "failed"}, Continue(k, pc),
           UNCHANGED <<streams, durable, faults>>,
           inTransaction' \in BOOLEAN, astray' \in BOOLEAN, astray => astray',
           Now.open /\ ~Now.kept => pc \in Inner,
           Now.kept => pc \notin Inner,
           pc = "write" => task[k].pc \in {"begin", "write"} /\ (astray' \/ Owning(k)),
           task[k].pc = "write" /\ pc = "write" =>
              (task[k].phase = "back" /\ task[k].result = "ok") \/ ~Now.open,
           pc = "commit" => /\ task[k].pc = "write"
                            /\ (task[k].phase = "back" /\ task[k].result = "ok") \/ ~Now.open
                            /\ task[k].n >= Writes,
           pc \in {"write", "commit"} => astray' \/ inTransaction',
           inTransaction' => pc \in Inner \/ Now.kept,
           pc = "committed" => Written(k) = 1..Writes
    PROVE  DbInv'
<1> USE DEF DbInv
<1>k. k \in Tasks /\ k \notin Readers /\ task[k].pc # "read"
  BY DatabaseAssumption DEF Tasks, Active
<1>0. /\ task' \in [Tasks -> Task]
      /\ \A t \in Readers : task'[t] = task[t]
      /\ \A j \in Tasks \ {k} : task'[j] = task[j]
      /\ \A t \in Txs \ {k} : task'[t] = task[t]
      /\ task'[k].pc = pc
      /\ task'[k].phase = "ready"
      /\ task'[k].n = IF pc = "write" /\ task[k].pc = "write" THEN task[k].n + 1
                      ELSE task[k].n
  BY <1>k, ContinueMoves DEF Settled, Tasks, Inner
<1>u. \A t \in Txs \ {k} : task[t].pc \notin Active
  BY OneUnderWay
<1>1. queue' \in Seq(Txs) /\ InTurn'
  BY <1>k, ContinueKeepsTurns DEF Settled, Inner
<1>2. DbTypeOK'
  BY <1>0, <1>1 DEF DbTypeOK, Current
<1>3. Roles'
  BY <1>k, ContinueKeepsRoles DEF Settled, Inner
<1>4. StreamsInOrder'
  BY DEF StreamsInOrder, Current
<1>n. Now' = Now
  BY DEF Now, Current
<1>5. Opened'
  <2> SUFFICES ASSUME Now.open, ~Now.kept PROVE Opened'
    BY <1>n DEF Opened
  <2>1. PICK t \in Txs : /\ Inside(t)
                         /\ \A u \in Txs, i \in Nat : <<u, i>> \in Now.written => u = t
                         /\ \A i \in 1..Through(t) : <<t, i>> \in Now.written
    BY DEF Opened
  <2>2. t = k
    BY <2>1, <1>u DEF Inside, Active, Inner
  <2>3. Inside(k)'
    BY <1>0 DEF Inside
  <2>4. 1..Through(k)' \subseteq 1..Through(k)
    <3>1. task[k].n \in Nat
      BY <1>k DEF DbTypeOK, Task
    <3>2. CASE pc = "write" /\ task[k].pc = "write"
      <4>1. Through(k) = task[k].n /\ Through(k)' = task[k].n
        BY <1>0, <3>1, <3>2 DEF Through
      <4> QED
        BY <4>1
    <3>3. CASE pc = "write" /\ task[k].pc # "write"
      <4>1. task[k].pc = "begin"
        BY <3>3
      <4>2. task[k].n = 1
        BY <4>1, <1>k DEF Roles
      <4>3. Through(k)' = 0
        BY <1>0, <3>3, <4>2 DEF Through
      <4> QED
        BY <4>3
    <3>4. CASE pc = "commit"
      <4>1. Through(k) = task[k].n /\ Through(k)' = Writes
        BY <1>0, <3>4 DEF Through
      <4> QED
        BY <3>1, <3>4, <4>1, DatabaseAssumption
    <3>5. CASE pc \notin {"write", "commit"}
      <4>1. Through(k)' = 0
        BY <1>0, <3>5 DEF Through
      <4> QED
        BY <4>1
    <3> QED
      BY <3>2, <3>3, <3>4, <3>5
  <2> QED
    BY <1>n, <2>1, <2>2, <2>3, <2>4 DEF Opened
<1>a. Abandoned'
  <2> SUFFICES ASSUME Now.kept, NEW t \in Txs PROVE Withdrawn(t)'
    BY <1>n DEF Abandoned
  <2>1. CASE t = k
    BY <1>0, <2>1 DEF Withdrawn, Inner
  <2>2. CASE t # k
    BY <1>0, <1>u, <2>2 DEF Withdrawn, Inner, Active
  <2> QED
    BY <2>1, <2>2
<1>6. Flagged'
  <2>1. \A t \in Txs : task'[t].pc \in Inner => t = k
    BY <1>0, <1>u DEF Inner, Active
  <2>2. \A t \in Txs : task'[t].phase = "ready"
    <3>1. \A t \in Txs : t # k => t \in Tasks /\ task[t].pc \notin Active \cup {"read"}
      BY <1>u DEF Roles, Tasks
    <3> QED
      BY <1>0, <3>1 DEF Roles
  <2> QED
    BY <1>0, <1>n, <2>1, <2>2 DEF Flagged
<1>7. WholeIsDurable'
  <2>1. \A t \in Txs : Written(t)' = Written(t)
    BY DEF Written
  <2>2. \A t \in Txs \ {k} : Acknowledged(t)' = Acknowledged(t)
    BY <1>0 DEF Acknowledged
  <2>3. Acknowledged(k)' => pc = "committed"
    BY <1>0 DEF Acknowledged
  <2> QED
    BY <2>1, <2>2, <2>3 DEF WholeIsDurable
<1>8. Undisturbed'
  <2> SUFFICES ASSUME ~astray' PROVE Undisturbed'
    BY DEF Undisturbed
  <2>2. \A t \in Txs : Written(t)' = Written(t)
    BY DEF Written
  <2>3. \A t \in Txs : Owning(t)' => Owning(t)
    BY <1>0, <1>u DEF Owning, Active
  <2>4. \A t \in Txs : task'[t].pc \in {"write", "commit"} => Protected(t)'
    BY <1>0, <1>u DEF Protected, Active
  <2> QED
    BY <1>n, <1>0, <2>2, <2>3, <2>4 DEF Undisturbed
<1> QED
  BY <1>1, <1>2, <1>3, <1>4, <1>5, <1>6, <1>7, <1>8, <1>a

\* An answer after which t has no transaction open: there is none, but for one
\* whose ROLLBACK failed.
LEMMA NotOpen ==
    ASSUME DbInv, NEW t \in Txs, task[t].pc \in Active, ~Inside(t)
    PROVE  Now.open => Now.kept
<1> SUFFICES ASSUME Now.open, ~Now.kept PROVE FALSE
  OBVIOUS
<1>1. PICK u \in Txs : Inside(u)
  BY DEF DbInv, Opened
<1>2. task[u].pc \in Active
  BY <1>1 DEF Inside, Active, Inner
<1> QED
  BY <1>1, <1>2, OneUnderWay DEF DbInv

\* Before BEGIN is carried out the flag is down, but for a ROLLBACK that failed.
LEMMA NotFlagged ==
    ASSUME DbInv, NEW t \in Txs, task[t].pc = "begin"
    PROVE  inTransaction => Now.kept \/ Reopened(t)
<1>1. \A u \in Txs : task[u].pc \in Inner => FALSE
  BY OneUnderWay DEF DbInv, Inner, Active
<1>2. \A u \in Txs : Reopened(u) => u = t
  BY OneUnderWay DEF DbInv, Reopened, Active
<1> QED
  BY <1>1, <1>2 DEF DbInv, Flagged

\* In a transaction that goes on, no ROLLBACK has failed on the connection.
LEMMA NotKept ==
    ASSUME DbInv, NEW t \in Txs, ~Withdrawn(t)
    PROVE  ~Now.kept
BY DEF DbInv, Abandoned

\* A call that is not idle and has been answered is under way.
LEMMA Answering ==
    ASSUME DbInv, NEW k \in Tasks, task[k].phase # "ready"
    PROVE  /\ k \in Readers => task[k].pc = "read"
           /\ k \in Txs => task[k].pc \in Active
BY DEF DbInv, Roles, Active

\* What follows a success, by what succeeded.
LEMMA AfterIs ==
    ASSUME NEW k
    PROVE  /\ task[k].pc = "read" => After(k) = "done"
           /\ task[k].pc = "begin" => After(k) = "write"
           /\ task[k].pc = "write" =>
                 After(k) = IF task[k].n < Writes THEN "write" ELSE "commit"
           /\ task[k].pc = "commit" => After(k) = "committed"
           /\ task[k].pc = "rollback" => After(k) = "failed"
BY DEF After

\* A failure inside a transaction leads to ROLLBACK, any other ends the call.
LEMMA FailureGoesOn ==
    ASSUME DbInv, NEW k \in Tasks, task[k].phase # "ready",
           Continue(k, AfterFailure(k)),
           UNCHANGED <<streams, durable, faults>>,
           inTransaction' \in BOOLEAN, inTransaction' => inTransaction,
           astray' \in BOOLEAN, astray => astray',
           k \in Readers => \/ astray'
                            \/ inTransaction' = inTransaction
                            \/ \A t \in Txs : task[t].pc \notin Active,
           k \in Txs /\ task[k].pc \in {"begin", "rollback"} => ~Inside(k) /\ ~Reopened(k),
           k \in Txs /\ task[k].pc = "rollback" => ~inTransaction' \/ Now.kept
    PROVE  DbInv'
<1>1. CASE k \in Readers
  <2>1. task[k].pc = "read"
    BY <1>1, Answering
  <2>2. AfterFailure(k) = "failed"
    BY <2>1 DEF AfterFailure
  <2> QED
    BY <1>1, <2>1, <2>2, ReadEnds
<1>2. CASE k \in Txs
  <2>1. task[k].pc \in Active
    BY <1>2, Answering
  <2>2. CASE task[k].pc \in {"write", "commit"}
    <3>1. AfterFailure(k) = "rollback"
      BY <2>2 DEF AfterFailure
    <3>2. ~Now.kept
      BY <1>2, <2>2, NotKept DEF Withdrawn, Inner
    <3> QED
      BY <1>2, <2>1, <3>1, <3>2, TransactionGoesOn DEF Inner
  <2>3. CASE task[k].pc \in {"begin", "rollback"}
    <3>1. AfterFailure(k) = "failed"
      BY <2>3 DEF AfterFailure
    <3>2. Now.open => Now.kept
      BY <1>2, <2>1, <2>3, NotOpen
    <3>3. inTransaction' => Now.kept
      BY <1>2, <2>3, NotFlagged
    <3> QED
      BY <1>2, <2>1, <3>1, <3>2, <3>3, TransactionGoesOn DEF Inner
  <2> QED
    BY <2>1, <2>2, <2>3 DEF Active
<1> QED
  BY <1>1, <1>2 DEF Tasks

\* A statement of a transaction that succeeds.
LEMMA StatementDone ==
    ASSUME DbInv, NEW k \in Txs, task[k].pc = "write",
           Continue(k, After(k)), UNCHANGED <<streams, durable, faults, astray>>,
           inTransaction' = inTransaction,
           (task[k].phase = "back" /\ task[k].result = "ok") \/ ~Now.open,
           astray \/ (Owning(k) /\ inTransaction)
    PROVE  DbInv'
<1>1. inTransaction \in BOOLEAN /\ astray \in BOOLEAN
  BY DEF DbInv, DbTypeOK
<1>2. task[k].n \in Nat
  BY DEF DbInv, DbTypeOK, Task, Tasks
<1>3. After(k) = IF task[k].n < Writes THEN "write" ELSE "commit"
  BY AfterIs
<1>k. ~Now.kept
  BY NotKept DEF Withdrawn, Inner
<1>4. CASE task[k].n < Writes
  <2>1. After(k) = "write"
    BY <1>3, <1>4
  <2> QED
    BY <1>1, <1>k, <2>1, TransactionGoesOn DEF Inner, Active
<1>5. CASE ~(task[k].n < Writes)
  <2>1. After(k) = "commit" /\ task[k].n >= Writes
    BY <1>2, <1>3, <1>5, DatabaseAssumption
  <2> QED
    BY <1>1, <1>k, <2>1, TransactionGoesOn DEF Inner, Active
<1> QED
  BY <1>4, <1>5

\* A first attempt that succeeds.
LEMMA SucceedInv ==
    ASSUME DbInv, NEW k \in Tasks, Succeed(k)
    PROVE  DbInv'
<1>t. inTransaction \in BOOLEAN /\ astray \in BOOLEAN
  BY DEF DbInv, DbTypeOK
<1>1. task[k].phase = "back" /\ task[k].result = "ok"
  BY DEF Succeed
<1>c. Continue(k, After(k)) /\ UNCHANGED <<streams, durable, faults, astray>>
  BY DEF Succeed
<1>2. CASE k \in Readers
  <2>1. task[k].pc = "read"
    BY <1>1, <1>2, Answering
  <2>2. inTransaction' = inTransaction
    BY <2>1 DEF Succeed, Believed
  <2>3. After(k) = "done"
    BY <2>1, AfterIs
  <2> QED
    BY <1>t, <1>2, <1>c, <2>1, <2>2, <2>3, ReadEnds
<1>3. CASE k \in Txs
  <2>1. task[k].pc \in Active
    BY <1>1, <1>3, Answering
  <2>2. CASE task[k].pc = "begin"
    <3>1. After(k) = "write" /\ inTransaction' = TRUE
      BY <2>2, AfterIs DEF Succeed, Believed
    <3>2. Owning(k)
      BY <1>1, <2>2 DEF Owning
    <3>3. ~Now.kept
      BY <1>1, <1>3, <2>2, NotKept DEF Withdrawn
    <3> QED
      BY <1>t, <1>1, <1>3, <1>c, <2>1, <2>2, <3>1, <3>2, <3>3, TransactionGoesOn DEF Inner
  <2>3. CASE task[k].pc = "write"
    <3>1. inTransaction' = inTransaction
      BY <2>3 DEF Succeed, Believed
    <3>2. Owning(k)
      BY <1>1, <2>3 DEF Owning
    <3>3. astray \/ inTransaction
      BY <1>1, <1>3, <2>3 DEF DbInv, Undisturbed, Protected
    <3> QED
      BY <1>1, <1>3, <1>c, <2>3, <3>1, <3>2, <3>3, StatementDone
  <2>4. CASE task[k].pc \in {"commit", "rollback"}
    <3>1. inTransaction' = FALSE
      BY <2>4 DEF Succeed, Believed
    <3>2. After(k) = IF task[k].pc = "commit" THEN "committed" ELSE "failed"
      BY <2>4, AfterIs
    <3>3. Now.open => Now.kept
      BY <1>1, <1>3, <2>1, <2>4, NotOpen DEF Inside
    <3>4. task[k].pc = "commit" => Written(k) = 1..Writes
      BY <1>1, <1>3 DEF DbInv, WholeIsDurable, Acknowledged
    <3> QED
      BY <1>t, <1>3, <1>c, <2>1, <3>1, <3>2, <3>3, <3>4, TransactionGoesOn DEF Inner
  <2> QED
    BY <2>1, <2>2, <2>3, <2>4 DEF Active
<1> QED
  BY <1>2, <1>3 DEF Tasks

\* A ROLLBACK with nothing to roll back.
LEMMA NothingToRollBackInv ==
    ASSUME DbInv, NEW k \in Tasks, NothingToRollBack(k)
    PROVE  DbInv'
<1>t. inTransaction \in BOOLEAN /\ astray \in BOOLEAN
  BY DEF DbInv, DbTypeOK
<1>1. task[k].phase = "back" /\ task[k].result = "nothing"
  BY DEF NothingToRollBack
<1>2. task[k].pc = "rollback"
  BY <1>1 DEF DbInv, Roles
<1>3. k \in Txs
  BY <1>2 DEF DbInv, Roles, Tasks
<1>4. Now.open => Now.kept
  BY <1>1, <1>2, <1>3, NotOpen DEF Inside, Active
<1>5. After(k) = "failed"
  BY <1>2, AfterIs
<1> QED
  BY <1>t, <1>2, <1>3, <1>4, <1>5, TransactionGoesOn DEF NothingToRollBack, Active, Inner

\* The error of a transaction the server has ended.
LEMMA TransactionGoneInv ==
    ASSUME DbInv, NEW k \in Tasks, TransactionGone(k)
    PROVE  DbInv'
<1>t. inTransaction \in BOOLEAN /\ astray \in BOOLEAN
  BY DEF DbInv, DbTypeOK
<1>1. task[k].phase = "back" /\ task[k].result = "gone"
  BY DEF TransactionGone
<1>2. task[k].pc # "rollback"
  BY <1>1 DEF DbInv, Roles
<1>3. k \in Readers => astray
  BY <1>1 DEF DbInv, Undisturbed
<1>4. task[k].pc = "begin" => ~Inside(k) /\ ~Reopened(k)
  BY <1>1 DEF Inside, Inner, Reopened
<1>5. inTransaction' \in BOOLEAN /\ (inTransaction' => inTransaction)
  BY <1>t DEF TransactionGone
<1>6. Continue(k, AfterFailure(k)) /\ UNCHANGED <<streams, durable, faults, astray>>
  BY DEF TransactionGone
<1> QED
  BY <1>t, <1>1, <1>2, <1>3, <1>4, <1>5, <1>6, FailureGoesOn

\* An ordinary error.
LEMMA RefusedInv ==
    ASSUME DbInv, NEW k \in Tasks, Refused(k)
    PROVE  DbInv'
<1>t. inTransaction \in BOOLEAN /\ astray \in BOOLEAN
  BY DEF DbInv, DbTypeOK
<1>1. task[k].phase = "back" /\ task[k].result = "refused"
  BY DEF Refused
<1>2. k \in Txs /\ task[k].pc = "rollback" => ~inTransaction \/ Now.kept
  BY <1>1 DEF DbInv, Flagged, Inner
<1>3. task[k].pc \in {"begin", "rollback"} => ~Inside(k) /\ ~Reopened(k)
  BY <1>1 DEF Inside, Inner, Reopened
<1> QED
  BY <1>t, <1>1, <1>2, <1>3, FailureGoesOn DEF Refused

\* The second attempt.
LEMMA RetriedInv ==
    ASSUME DbInv, NEW k \in Tasks, Retried(k)
    PROVE  DbInv'
<1>t. inTransaction \in BOOLEAN /\ astray \in BOOLEAN
  BY DEF DbInv, DbTypeOK
<1>1. task[k].phase = "final"
  BY DEF Retried
<1>c. UNCHANGED <<streams, durable, faults, astray>>
  BY DEF Retried
<1>f. k \in Txs /\ task[k].pc \in Inner => ~inTransaction
  BY <1>1 DEF DbInv, Flagged
<1>2. CASE /\ task[k].result # "ok"
           /\ Continue(k, AfterFailure(k))
           /\ UNCHANGED inTransaction
  <2>1. ~Inside(k) /\ ~Reopened(k)
    BY <1>1, <1>2 DEF Inside, Reopened
  <2> QED
    BY <1>t, <1>1, <1>c, <1>f, <1>2, <2>1, FailureGoesOn DEF Inner
<1>3. CASE /\ task[k].result = "ok"
           /\ inTransaction' = (inTransaction \/ task[k].pc = "begin")
           /\ Continue(k, After(k))
  <2>1. CASE k \in Readers
    <3>1. task[k].pc = "read"
      BY <1>1, <2>1, Answering
    <3>2. After(k) = "done"
      BY <3>1, AfterIs
    <3> QED
      BY <1>t, <1>c, <1>3, <2>1, <3>1, <3>2, ReadEnds
  <2>2. CASE k \in Txs
    <3>1. task[k].pc \in Active
      BY <1>1, <2>2, Answering
    <3>2. CASE task[k].pc = "begin"
      <4>1. After(k) = "write" /\ inTransaction' = TRUE
        BY <1>3, <3>2, AfterIs
      <4>2. Owning(k)
        BY <1>1, <1>3, <3>2 DEF Owning
      <4>3. ~Now.kept
        BY <1>1, <1>3, <2>2, <3>2, NotKept DEF Withdrawn
      <4> QED
        BY <1>t, <1>1, <1>3, <1>c, <2>2, <3>1, <3>2, <4>1, <4>2, <4>3, TransactionGoesOn DEF Inner
    <3>3. CASE task[k].pc \in Inner
      <4>1. Now.open => Now.kept
        BY <1>1, <2>2, <3>1, <3>3, NotOpen DEF Inside, Inner
      <4>2. ~inTransaction'
        BY <1>3, <1>f, <2>2, <3>3 DEF Inner
      <4>3. CASE task[k].pc = "write"
        \* The write ran outside any transaction: a read had meddled.
        <5>1. astray
          BY <1>1, <2>2, <4>3 DEF DbInv, Undisturbed, Protected
        <5>2. ~Now.open
          BY <2>2, <4>1, <4>3, NotKept DEF Withdrawn, Inner
        <5> QED
          BY <1>t, <1>3, <1>c, <2>2, <4>3, <5>1, <5>2, StatementDone
      <4>4. CASE task[k].pc \in {"commit", "rollback"}
        <5>1. After(k) = IF task[k].pc = "commit" THEN "committed" ELSE "failed"
          BY <4>4, AfterIs
        <5>2. task[k].pc = "commit" => Written(k) = 1..Writes
          BY <1>1, <1>3, <2>2 DEF DbInv, WholeIsDurable, Acknowledged
        <5> QED
          BY <1>t, <1>3, <1>c, <2>2, <3>1, <4>1, <4>2, <5>1, <5>2, TransactionGoesOn DEF Inner
      <4> QED
        BY <3>3, <4>3, <4>4 DEF Inner
    <3> QED
      BY <3>1, <3>2, <3>3 DEF Active, Inner
  <2> QED
    BY <2>1, <2>2 DEF Tasks
<1> QED
  BY <1>2, <1>3 DEF Retried

\* The connections do not change when nothing happens to them.
LEMMA SameConnection ==
    ASSUME UNCHANGED <<streams, durable>>
    PROVE  /\ Current' = Current
           /\ Now' = Now
           /\ StreamsInOrder => StreamsInOrder'
           /\ \A t \in Txs : Written(t)' = Written(t)
BY DEF Current, Now, StreamsInOrder, Written

\* A step of one call, which keeps to what its kind may do.
LEMMA RolesMove ==
    ASSUME DbTypeOK, Roles, NEW k \in Tasks,
           \A j \in Tasks \ {k} : task'[j] = task[j],
           Current' \in Nat, Current' >= Current,
           k \in Readers => task'[k].pc \in {"idle", "read", "done", "failed"},
           k \in Txs => task'[k].pc \notin {"read", "done"},
           task'[k].on \in 1..Current',
           task'[k].pc \notin Active \cup {"read"} => task'[k].phase = "ready",
           task'[k].phase = "ready" => task'[k].result = "none",
           task'[k].result = "nothing" => task'[k].pc = "rollback",
           task'[k].result = "gone" => task'[k].pc # "rollback",
           task'[k].pc \in {"idle", "queued", "begin"} => task'[k].n = 1
    PROVE  Roles'
<1>1. Current \in Nat
  BY DEF DbTypeOK, Current
<1>2. \A j \in Readers : task'[j].pc \in {"idle", "read", "done", "failed"}
  BY DEF Roles, Tasks
<1>3. \A t \in Txs : task'[t].pc \notin {"read", "done"}
  BY DEF Roles, Tasks
<1>4. ASSUME NEW j \in Tasks
      PROVE  /\ task'[j].on \in 1..Current'
             /\ task'[j].pc \notin Active \cup {"read"} => task'[j].phase = "ready"
             /\ task'[j].phase = "ready" => task'[j].result = "none"
             /\ task'[j].result = "nothing" => task'[j].pc = "rollback"
             /\ task'[j].result = "gone" => task'[j].pc # "rollback"
             /\ task'[j].pc \in {"idle", "queued", "begin"} => task'[j].n = 1
  <2>1. CASE j = k
    BY <2>1
  <2>2. CASE j # k
    <3>1. task'[j] = task[j]
      BY <2>2
    <3>2. task[j].on \in 1..Current'
      BY <1>1 DEF Roles
    <3> QED
      BY <3>1, <3>2 DEF Roles
  <2> QED
    BY <2>1, <2>2
<1> QED
  BY <1>2, <1>3, <1>4 DEF Roles

\* A step that moves one call and nothing else: what the rest of the invariant
\* asks of the call after it.
LEMMA CallMoves ==
    ASSUME DbInv, NEW k \in Tasks,
           UNCHANGED <<streams, durable, inTransaction, astray>>,
           faults' = faults \/ faults' \in Nat,
           task' \in [Tasks -> Task],
           \A j \in Tasks \ {k} : task'[j] = task[j],
           queue' \in Seq(Txs), InTurn', Roles',
           k \in Readers => ~(task'[k].phase = "back" /\ task'[k].result = "gone"),
           k \in Txs =>
              /\ Inside(k) /\ Now.open => Inside(k)' /\ 1..Through(k)' \subseteq 1..Through(k)
              /\ task[k].pc \in Inner <=> task'[k].pc \in Inner
              /\ ~Reopened(k)
              /\ Now.kept => Withdrawn(k)'
              /\ task'[k].phase \in {"healing", "resent", "final"} => ~inTransaction
              /\ task'[k].pc \in Inner =>
                    /\ task'[k].phase = "sent" => streams[task'[k].on].state # "closed"
                    /\ task'[k].pc = "rollback" /\ task'[k].phase = "back"
                       /\ task'[k].result = "refused" => ~inTransaction
              /\ ~Acknowledged(k)'
              /\ ~astray => /\ task'[k].pc \in {"write", "commit"} => Protected(k)'
                            /\ Owning(k)' => Owning(k)
    PROVE  DbInv'
<1> USE DEF DbInv
<1>1. \A j \in (Txs \cup Readers) \ {k} : task'[j] = task[j]
  BY DEF Tasks
<1>2. /\ Current' = Current /\ Now' = Now /\ StreamsInOrder'
      /\ \A t \in Txs : Written(t)' = Written(t)
  BY SameConnection
<1>3. DbTypeOK'
  BY <1>2 DEF DbTypeOK
<1>4. \A t \in Txs \ {k} : /\ Inside(t)' = Inside(t)
                           /\ Through(t)' = Through(t)
                           /\ Acknowledged(t)' = Acknowledged(t)
                           /\ Owning(t)' = Owning(t)
                           /\ Protected(t)' = Protected(t)
                           /\ Withdrawn(t)' = Withdrawn(t)
                           /\ Reopened(t)' = Reopened(t)
  BY <1>1, <1>2 DEF Inside, Through, Acknowledged, Owning, Protected, Withdrawn, Reopened
<1>5. Opened'
  <2> SUFFICES ASSUME Now.open, ~Now.kept PROVE Opened'
    BY <1>2 DEF Opened
  <2>1. PICK t \in Txs : /\ Inside(t)
                         /\ \A u \in Txs, i \in Nat : <<u, i>> \in Now.written => u = t
                         /\ \A i \in 1..Through(t) : <<t, i>> \in Now.written
    BY DEF Opened
  <2>2. Inside(t)' /\ 1..Through(t)' \subseteq 1..Through(t)
    BY <1>4, <2>1
  <2> QED
    BY <1>2, <2>1, <2>2 DEF Opened
<1>a. Abandoned'
  BY <1>2, <1>4 DEF Abandoned
<1>6. Flagged'
  <2>1. inTransaction => Now.kept \/ \E t \in Txs : task'[t].pc \in Inner \/ Reopened(t)'
    <3> SUFFICES ASSUME inTransaction, ~Now.kept
                 PROVE  \E t \in Txs : task'[t].pc \in Inner \/ Reopened(t)'
      OBVIOUS
    <3>1. PICK t \in Txs : task[t].pc \in Inner \/ Reopened(t)
      BY DEF Flagged
    <3> QED
      BY <1>1, <1>4, <3>1
  <2>3. \A t \in Txs : task'[t].phase \in {"healing", "resent", "final"} => ~inTransaction
    BY <1>1 DEF Flagged
  <2>2. ASSUME NEW t \in Txs, task'[t].pc \in Inner
        PROVE  /\ task'[t].phase = "sent" /\ streams[task'[t].on].state = "closed" => ~inTransaction
               /\ task'[t].pc = "rollback" /\ task'[t].phase = "back" /\ task'[t].result = "refused"
                     => ~inTransaction \/ Now.kept
    <3>1. CASE t = k
      BY <2>2, <3>1
    <3>2. CASE t # k
      BY <1>1, <2>2, <3>2 DEF Flagged
    <3> QED
      BY <3>1, <3>2
  <2> QED
    BY <1>2, <2>1, <2>2, <2>3 DEF Flagged
<1>7. WholeIsDurable'
  BY <1>2, <1>4 DEF WholeIsDurable
<1>8. Undisturbed'
  <2> SUFFICES ASSUME ~astray PROVE Undisturbed'
    BY DEF Undisturbed
  <2>1. \A j \in Readers : ~(task'[j].phase = "back" /\ task'[j].result = "gone")
    BY <1>1 DEF Undisturbed
  <2>2. \A t \in Txs : /\ task'[t].pc \in {"write", "commit"} => Protected(t)'
                       /\ Owning(t)' => Owning(t)
    BY <1>1, <1>4 DEF Undisturbed
  <2> QED
    BY <1>2, <2>1, <2>2 DEF Undisturbed
<1> QED
  BY <1>2, <1>3, <1>5, <1>6, <1>7, <1>8, <1>a

\* withTransaction is called, or a read.
LEMMA CallInv ==
    ASSUME DbInv, NEW k \in Tasks, Call(k)
    PROVE  DbInv'
<1> USE DEF DbInv
<1>1. task[k].pc = "idle" /\ task[k].phase = "ready" /\ task[k].n = 1
  BY DEF Call, Roles, Active
<1> DEFINE pc == IF k \in Txs THEN "queued" ELSE "read"
<1>2. /\ task' \in [Tasks -> Task]
      /\ \A j \in Tasks \ {k} : task'[j] = task[j]
      /\ task'[k] = [task[k] EXCEPT !.pc = pc]
  <2>1. task[k] \in Task
    BY DEF DbTypeOK
  <2>2. [task[k] EXCEPT !.pc = pc] \in Task
    BY <2>1 DEF Task
  <2> QED
    BY <2>1, <2>2 DEF Call, DbTypeOK
<1>3. /\ task'[k].pc = pc /\ task'[k].phase = "ready" /\ task'[k].n = 1
      /\ task'[k].on = task[k].on /\ task'[k].result = task[k].result
      /\ task'[k].was = task[k].was
  BY <1>1, <1>2 DEF DbTypeOK, Task
<1>4. /\ Current' = Current /\ Now' = Now /\ StreamsInOrder'
      /\ \A t \in Txs : Written(t)' = Written(t)
  BY SameConnection DEF Call
<1>5. queue \in Seq(Txs)
  BY DEF DbTypeOK
<1>6. DbTypeOK'
  BY <1>2, <1>4 DEF Call, DbTypeOK
<1>7. Roles'
  <2>1. task[k].on \in 1..Current /\ task[k].result = "none" /\ Current \in Nat
    BY <1>1 DEF Roles, DbTypeOK, Current
  <2>2. CASE k \in Readers
    <3>1. task'[k].pc = "read" /\ k \notin Txs
      BY <1>3, <2>2, DatabaseAssumption
    <3>2. /\ task'[k].on \in 1..Current' /\ task'[k].result = "none"
          /\ Current' \in Nat /\ Current' >= Current
      BY <1>3, <1>4, <2>1
    <3>3. task'[k].pc \notin Active \cup {"read"} => task'[k].phase = "ready"
      BY <1>3
    <3> HIDE DEF pc
    <3> QED
      BY <1>2, <1>3, <3>1, <3>2, <3>3, RolesMove
  <2>3. CASE k \in Txs
    <3>1. task'[k].pc = "queued" /\ k \notin Readers
      BY <1>3, <2>3, DatabaseAssumption
    <3>2. /\ task'[k].on \in 1..Current' /\ task'[k].result = "none"
          /\ Current' \in Nat /\ Current' >= Current
      BY <1>3, <1>4, <2>1
    <3>3. task'[k].pc \notin Active \cup {"read"} => task'[k].phase = "ready"
      BY <1>3
    <3> HIDE DEF pc
    <3> QED
      BY <1>2, <1>3, <3>1, <3>2, <3>3, RolesMove
  <2> QED
    BY <2>2, <2>3 DEF Tasks
<1>8. InTurn'
  <2>1. ASSUME NEW t \in Txs
        PROVE  /\ task'[t].pc = "queued" => \E i \in 1..Len(queue') : queue'[i] = t
               /\ task'[t].pc \in Active => queue' # <<>> /\ Head(queue') = t
    <3>1. CASE k \in Readers
      <4>1. queue' = queue /\ task'[t] = task[t]
        BY <1>2, <3>1, DatabaseAssumption DEF Call, Tasks
      <4> QED
        BY <4>1 DEF InTurn
    <3>2. CASE k \in Txs
      <4>1. queue' = Append(queue, k)
        BY <3>2 DEF Call
      <4>2. CASE t = k
        <5>1. Len(queue') \in 1..Len(queue') /\ queue'[Len(queue')] = t
          BY <1>5, <3>2, <4>1, <4>2
        <5>2. task'[t].pc \notin Active
          BY <1>3, <3>2, <4>2 DEF Active
        <5> QED
          BY <5>1, <5>2
      <4>3. CASE t # k
        <5>1. task'[t] = task[t]
          BY <1>2, <4>3 DEF Tasks
        <5>2. ASSUME task[t].pc = "queued"
              PROVE  \E i \in 1..Len(queue') : queue'[i] = t
          <6>1. PICK i \in 1..Len(queue) : queue[i] = t
            BY <5>2 DEF InTurn
          <6>2. i \in 1..Len(queue') /\ queue'[i] = t
            BY <1>5, <3>2, <4>1, <6>1
          <6> QED
            BY <6>2
        <5>3. task[t].pc \in Active => queue' # <<>> /\ Head(queue') = t
          BY <1>5, <3>2, <4>1 DEF InTurn
        <5> QED
          BY <5>1, <5>2, <5>3
      <4> QED
        BY <4>2, <4>3
    <3> QED
      BY <3>1, <3>2 DEF Tasks
  <2> QED
    BY <2>1 DEF InTurn
<1>9. k \in Txs => /\ ~Inside(k) /\ ~Acknowledged(k)' /\ ~Owning(k)'
                   /\ ~Reopened(k) /\ Withdrawn(k)'
                   /\ task[k].pc \notin Inner /\ task'[k].pc \notin Inner
  BY <1>1, <1>3 DEF Inside, Acknowledged, Owning, Inner, Reopened, Withdrawn
<1>10. queue' \in Seq(Txs)
  BY <1>6 DEF DbTypeOK
<1> HIDE DEF pc
<1> QED
  BY <1>2, <1>3, <1>7, <1>8, <1>9, <1>10, CallMoves DEF Call, Inner

\* The turn of a transaction comes.
LEMMA BeginInv ==
    ASSUME DbInv, NEW k \in Txs, Begin(k)
    PROVE  DbInv'
<1> USE DEF DbInv
<1>k. k \in Tasks /\ k \notin Readers
  BY DatabaseAssumption DEF Tasks
<1>1. task[k].pc = "queued" /\ task[k].phase = "ready" /\ task[k].n = 1
  BY <1>k DEF Begin, Roles, Active
<1>2. /\ task' \in [Tasks -> Task]
      /\ \A j \in Tasks \ {k} : task'[j] = task[j]
      /\ task'[k] = [task[k] EXCEPT !.pc = "begin"]
  <2>1. task[k] \in Task
    BY <1>k DEF DbTypeOK
  <2>2. [task[k] EXCEPT !.pc = "begin"] \in Task
    BY <2>1 DEF Task, Active
  <2> QED
    BY <1>k, <2>1, <2>2 DEF Begin, DbTypeOK
<1>3. /\ task'[k].pc = "begin" /\ task'[k].phase = "ready" /\ task'[k].n = 1
      /\ task'[k].on = task[k].on /\ task'[k].result = task[k].result
  BY <1>1, <1>2, <1>k DEF DbTypeOK, Task
<1>4. queue' = queue /\ queue \in Seq(Txs)
  BY DEF Begin, DbTypeOK
<1>5. InTurn'
  <2>1. queue # <<>> /\ Head(queue) = k
    BY <1>1, <1>4 DEF InTurn, Begin, Turn
  <2>2. \A t \in Txs \ {k} : task'[t] = task[t]
    BY <1>2 DEF Tasks
  <2> QED
    BY <1>3, <1>4, <2>1, <2>2 DEF InTurn
<1>6. Roles'
  <2>1. Current \in Nat /\ Current' = Current
    BY DEF DbTypeOK, Current, Begin
  <2>2. task[k].on \in 1..Current /\ task[k].result = "none"
    BY <1>1, <1>k DEF Roles
  <2>3. /\ task'[k].on \in 1..Current' /\ task'[k].result = "none"
        /\ Current' \in Nat /\ Current' >= Current
    BY <1>3, <2>1, <2>2
  <2> QED
    BY <1>k, <1>2, <1>3, <2>3, RolesMove
<1>7. /\ ~Inside(k) /\ ~Acknowledged(k)' /\ ~Owning(k)' /\ ~Reopened(k) /\ Withdrawn(k)'
      /\ task[k].pc \notin Inner /\ task'[k].pc \notin Inner
  BY <1>1, <1>3 DEF Inside, Acknowledged, Owning, Inner, Reopened, Withdrawn
<1> QED
  BY <1>k, <1>2, <1>3, <1>4, <1>5, <1>6, <1>7, CallMoves DEF Begin, Inner

\* fn throws.
LEMMA ThrowInv ==
    ASSUME DbInv, NEW k \in Txs, Throw(k)
    PROVE  DbInv'
<1> USE DEF DbInv
<1>k. k \in Tasks /\ k \notin Readers
  BY DatabaseAssumption DEF Tasks
<1>1. task[k].pc = "write" /\ task[k].phase = "ready"
  BY DEF Throw
<1>2. /\ task' \in [Tasks -> Task]
      /\ \A j \in Tasks \ {k} : task'[j] = task[j]
      /\ task'[k] = [task[k] EXCEPT !.pc = "rollback"]
  <2>1. task[k] \in Task
    BY <1>k DEF DbTypeOK
  <2>2. [task[k] EXCEPT !.pc = "rollback"] \in Task
    BY <2>1 DEF Task, Active
  <2> QED
    BY <1>k, <2>1, <2>2 DEF Throw, DbTypeOK
<1>3. /\ task'[k].pc = "rollback" /\ task'[k].phase = "ready"
      /\ task'[k].on = task[k].on /\ task'[k].result = task[k].result
  BY <1>1, <1>2, <1>k DEF DbTypeOK, Task
<1>4. queue' = queue /\ queue \in Seq(Txs)
  BY DEF Throw, DbTypeOK
<1>5. InTurn'
  <2>1. queue # <<>> /\ Head(queue) = k
    BY <1>1 DEF InTurn, Active
  <2>2. \A t \in Txs \ {k} : task'[t] = task[t]
    BY <1>2 DEF Tasks
  <2> QED
    BY <1>3, <1>4, <2>1, <2>2 DEF InTurn
<1>6. Roles'
  <2>1. Current \in Nat /\ Current' = Current
    BY DEF DbTypeOK, Current, Throw
  <2>2. task[k].on \in 1..Current /\ task[k].result = "none"
    BY <1>1, <1>k DEF Roles
  <2>3. /\ task'[k].on \in 1..Current' /\ task'[k].result = "none"
        /\ Current' \in Nat /\ Current' >= Current
    BY <1>3, <2>1, <2>2
  <2> QED
    BY <1>k, <1>2, <1>3, <2>3, RolesMove DEF Active
<1>7. /\ Inside(k)' /\ ~Acknowledged(k)' /\ ~Owning(k)'
      /\ task[k].pc \in Inner /\ task'[k].pc \in Inner
      /\ Through(k)' = 0 /\ ~Reopened(k) /\ ~Withdrawn(k)
  BY <1>1, <1>3 DEF Inside, Acknowledged, Owning, Inner, Through, Reopened, Withdrawn
<1>9. ~Now.kept
  BY <1>7, NotKept
<1>8. 1..Through(k)' \subseteq 1..Through(k)
  BY <1>7
<1> QED
  BY <1>k, <1>2, <1>3, <1>4, <1>5, <1>6, <1>7, <1>8, <1>9, CallMoves DEF Throw

\* A call whose transaction stays where it is in the queue.
LEMMA TurnsStay ==
    ASSUME InTurn, NEW k \in Tasks, queue' = queue,
           \A j \in Tasks \ {k} : task'[j] = task[j], task'[k].pc = task[k].pc
    PROVE  InTurn'
<1>1. \A t \in Txs : task'[t].pc = task[t].pc
  BY DEF Tasks
<1> QED
  BY <1>1 DEF InTurn

\* An operation is sent.
LEMMA IssueInv ==
    ASSUME DbInv, NEW k \in Tasks, Issue(k)
    PROVE  DbInv'
<1> USE DEF DbInv
<1>1. task[k].phase = "ready" /\ task[k].pc \in Active \cup {"read"}
  BY DEF Issue, Active
<1>t. Current \in Nat /\ Current > 0 /\ inTransaction \in BOOLEAN /\ Current' = Current
  BY DEF DbTypeOK, Current, Issue
<1>2. /\ task' \in [Tasks -> Task]
      /\ \A j \in Tasks \ {k} : task'[j] = task[j]
      /\ task'[k] = [task[k] EXCEPT !.phase = "sent", !.on = Current, !.was = inTransaction]
  <2>1. task[k] \in Task
    BY DEF DbTypeOK
  <2>2. [task[k] EXCEPT !.phase = "sent", !.on = Current, !.was = inTransaction] \in Task
    BY <1>t, <2>1 DEF Task
  <2> QED
    BY <2>1, <2>2 DEF Issue, DbTypeOK
<1>3. /\ task'[k].pc = task[k].pc /\ task'[k].phase = "sent" /\ task'[k].n = task[k].n
      /\ task'[k].on = Current /\ task'[k].result = task[k].result
      /\ task'[k].was = inTransaction
  BY <1>1, <1>2 DEF DbTypeOK, Task
<1>4. queue' = queue /\ queue \in Seq(Txs)
  BY DEF Issue, DbTypeOK
<1>5. InTurn'
  BY <1>2, <1>3, <1>4, TurnsStay
<1>6. Roles'
  <2>1. /\ task'[k].result = "none" /\ task'[k].on \in 1..Current'
        /\ Current' \in Nat /\ Current' >= Current
    BY <1>1, <1>3, <1>t DEF Roles
  <2>2. /\ k \in Readers => task'[k].pc \in {"idle", "read", "done", "failed"}
        /\ k \in Txs => task'[k].pc \notin {"read", "done"}
        /\ task'[k].pc \in {"idle", "queued", "begin"} => task'[k].n = 1
    BY <1>3 DEF Roles
  <2> QED
    BY <1>1, <1>2, <1>3, <2>1, <2>2, RolesMove
<1>7. Inside(k) => Inside(k)' /\ Through(k)' = Through(k)
  BY <1>1, <1>3, <1>t DEF Inside, Through
<1>8. ~Acknowledged(k)' /\ (Owning(k)' => Owning(k))
  BY <1>1, <1>3 DEF Acknowledged, Owning, Active
<1>9. k \in Txs /\ ~astray /\ task'[k].pc \in {"write", "commit"} => Protected(k)'
  BY <1>1, <1>3 DEF Undisturbed, Protected, Issue
<1>10. streams[Current].state # "closed"
  BY <1>t DEF StreamsInOrder
<1>11. ~Reopened(k)
  BY <1>1 DEF Reopened
<1>12. k \in Txs /\ Now.kept => Withdrawn(k)'
  BY <1>1, <1>3 DEF Abandoned, Withdrawn
<1> QED
  BY <1>2, <1>3, <1>4, <1>5, <1>6, <1>7, <1>8, <1>9, <1>10, <1>11, <1>12, CallMoves DEF Issue

\* An operation that has a new connection is repeated on it, unless it is part
\* of a transaction.
LEMMA ResendInv ==
    ASSUME DbInv, NEW k \in Tasks, task[k].phase = "healing", ~task[k].was,
           task' = [task EXCEPT ![k].phase = "resent", ![k].on = Current],
           UNCHANGED <<streams, durable, inTransaction, queue, faults, astray>>
    PROVE  DbInv'
<1> USE DEF DbInv
<1>t. Current \in Nat /\ Current > 0 /\ Current' = Current
  BY DEF DbTypeOK, Current
<1>2. /\ task' \in [Tasks -> Task]
      /\ \A j \in Tasks \ {k} : task'[j] = task[j]
      /\ task'[k] = [task[k] EXCEPT !.phase = "resent", !.on = Current]
  <2>1. task[k] \in Task
    BY DEF DbTypeOK
  <2>2. [task[k] EXCEPT !.phase = "resent", !.on = Current] \in Task
    BY <1>t, <2>1 DEF Task
  <2> QED
    BY <2>1, <2>2 DEF DbTypeOK
<1>3. /\ task'[k].pc = task[k].pc /\ task'[k].phase = "resent" /\ task'[k].n = task[k].n
      /\ task'[k].on = Current /\ task'[k].result = task[k].result
  BY <1>2 DEF DbTypeOK, Task
<1>4. queue \in Seq(Txs)
  BY DEF DbTypeOK
<1>5. InTurn'
  BY <1>2, <1>3, TurnsStay
<1>6. Roles'
  <2>1. /\ task'[k].on \in 1..Current'
        /\ Current' \in Nat /\ Current' >= Current
    BY <1>3, <1>t
  <2>2. /\ k \in Readers => task'[k].pc \in {"idle", "read", "done", "failed"}
        /\ k \in Txs => task'[k].pc \notin {"read", "done"}
        /\ task'[k].pc \in {"idle", "queued", "begin"} => task'[k].n = 1
        /\ task'[k].pc \in Active \cup {"read"}
        /\ task'[k].result = "nothing" => task'[k].pc = "rollback"
        /\ task'[k].result = "gone" => task'[k].pc # "rollback"
    BY <1>3 DEF Roles
  <2> QED
    BY <1>2, <1>3, <2>1, <2>2, RolesMove
<1>7. ~Inside(k)
  BY DEF Inside
<1>8. ~Acknowledged(k)' /\ ~Owning(k)'
  <2>1. task[k].pc \in Active \cup {"read"}
    BY DEF Roles
  <2> QED
    BY <1>3, <2>1 DEF Acknowledged, Owning, Active
<1>9. k \in Txs /\ ~astray => task'[k].pc \notin {"write", "commit"}
  BY <1>3 DEF Undisturbed, Protected
<1>10. k \in Txs => ~inTransaction
  BY DEF Flagged
<1>11. ~Reopened(k)
  BY DEF Reopened
<1>12. k \in Txs /\ Now.kept => Withdrawn(k)'
  BY <1>3 DEF Abandoned, Withdrawn
<1> QED
  BY <1>2, <1>3, <1>4, <1>5, <1>6, <1>7, <1>8, <1>9, <1>10, <1>11, <1>12, CallMoves

\* The pragma on the new connection is back.
LEMMA HealedInv ==
    ASSUME DbInv, NEW k \in Tasks, Healed(k)
    PROVE  DbInv'
<1>t. inTransaction \in BOOLEAN /\ astray \in BOOLEAN
  BY DEF DbInv, DbTypeOK
<1>1. task[k].phase = "healing" /\ UNCHANGED <<streams, durable, faults>>
  BY DEF Healed
<1>2. ~Inside(k) /\ ~Reopened(k)
  BY <1>1 DEF Inside, Reopened
<1>3. k \in Txs /\ task[k].pc = "rollback" => ~inTransaction
  BY <1>1 DEF DbInv, Flagged, Inner
<1>4. CASE Continue(k, AfterFailure(k)) /\ UNCHANGED <<inTransaction, astray>>
  BY <1>t, <1>1, <1>2, <1>3, <1>4, FailureGoesOn
<1>5. CASE /\ inTransaction' = FALSE
           /\ astray' = (astray \/ Meddles(k))
           /\ Continue(k, AfterFailure(k))
  <2>1. k \in Readers => astray' \/ \A t \in Txs : task[t].pc \notin Active
    BY <1>5 DEF Meddles, Active
  <2>2. astray' \in BOOLEAN /\ (astray => astray')
    BY <1>t, <1>5 DEF Meddles
  <2> QED
    BY <1>t, <1>1, <1>2, <1>5, <2>1, <2>2, FailureGoesOn
<1>6. CASE /\ ~task[k].was
           /\ task' = [task EXCEPT ![k].phase = "resent", ![k].on = Current]
           /\ UNCHANGED <<inTransaction, queue, astray>>
  BY <1>1, <1>6, ResendInv
<1> QED
  BY <1>4, <1>5, <1>6 DEF Healed, MayRetry

\* The current connection is lost, or only the transaction open on it: nothing
\* is open any more, and everyone is where they were.
LEMMA ConnectionLost ==
    ASSUME DbInv, NEW s \in Stream,
           streams' = [streams EXCEPT ![Current] = s],
           ~s.open, s.written = {}, s.state # "closed", s.spoiled => Now.spoiled,
           s.kept = Now.kept,
           s.state = "alive" => s.reaped,
           UNCHANGED <<durable, inTransaction, queue, task, astray>>,
           faults' \in Nat
    PROVE  DbInv'
<1> USE DEF DbInv
<1>1. streams \in Seq(Stream) /\ Current \in Nat /\ Current > 0
  BY DEF DbTypeOK, Current
<1>2. /\ streams' \in Seq(Stream) /\ Current' = Current /\ Now' = s
      /\ \A i \in 1..Current : i # Current => streams'[i] = streams[i]
  BY <1>1 DEF Current, Now
<1>3. DbTypeOK'
  BY <1>1, <1>2 DEF DbTypeOK
<1>4. Roles'
  BY <1>2 DEF Roles
<1>5. StreamsInOrder'
  BY <1>1, <1>2 DEF StreamsInOrder, Now
<1>6. InTurn'
  BY DEF InTurn
<1>7. Opened'
  BY <1>2 DEF Opened
<1>a. Abandoned'
  BY <1>2 DEF Abandoned, Withdrawn
<1>8. Flagged'
  <2>1. \A t \in Txs : streams'[task[t].on].state = "closed" => streams[task[t].on].state = "closed"
    <3> SUFFICES ASSUME NEW t \in Txs, streams'[task[t].on].state = "closed"
                 PROVE  streams[task[t].on].state = "closed"
      OBVIOUS
    <3>1. task[t].on \in 1..Current
      BY DEF Roles, Tasks
    <3> QED
      BY <1>1, <1>2, <3>1 DEF Now
  <2> QED
    BY <1>2, <2>1 DEF Flagged, Reopened
<1>9. WholeIsDurable'
  BY DEF WholeIsDurable, Acknowledged, Written
<1>10. Undisturbed'
  <2>1. \A t \in Txs : /\ Written(t)' = Written(t)
                       /\ Protected(t)' = Protected(t)
    BY DEF Written, Protected
  <2> QED
    BY <1>2, <2>1 DEF Undisturbed
<1> QED
  BY <1>3, <1>4, <1>5, <1>6, <1>7, <1>8, <1>9, <1>10, <1>a

\* The server drops the stream.
LEMMA DropInv ==
    ASSUME DbInv, Drop
    PROVE  DbInv'
<1>1. Now \in Stream
  BY DEF DbInv, DbTypeOK, Now, Current
<1>2. Gone(Now, "dropped") \in Stream
  BY <1>1 DEF Gone, Stream
<1>3. /\ ~Gone(Now, "dropped").open /\ Gone(Now, "dropped").written = {}
      /\ Gone(Now, "dropped").state = "dropped"
      /\ ~Gone(Now, "dropped").spoiled /\ Gone(Now, "dropped").kept = Now.kept
  BY <1>1 DEF Gone, Stream
<1>4. streams' = [streams EXCEPT ![Current] = Gone(Now, "dropped")]
  BY DEF Drop, Now
<1>5. faults' \in Nat
  BY DEF Drop, DbInv, DbTypeOK
<1> QED
  BY <1>2, <1>3, <1>4, <1>5, ConnectionLost DEF Drop

\* The server discards the transaction.
LEMMA ReapInv ==
    ASSUME DbInv, Reap
    PROVE  DbInv'
<1> DEFINE s == [Gone(Now, "alive") EXCEPT !.reaped = TRUE]
<1>1. Now \in Stream
  BY DEF DbInv, DbTypeOK, Now, Current
<1>2. Gone(Now, "alive") \in Stream
  BY <1>1 DEF Gone, Stream
<1>3. s \in Stream
  BY <1>2 DEF Stream
<1>4. ~s.open /\ s.written = {} /\ s.state = "alive" /\ s.reaped /\ ~s.spoiled
      /\ s.kept = Now.kept
  BY <1>1 DEF Gone, Stream
<1>5. streams' = [streams EXCEPT ![Current] = s]
  BY DEF Reap, Now
<1>6. faults' \in Nat
  BY DEF Reap, DbInv, DbTypeOK
<1>7. UNCHANGED <<durable, inTransaction, queue, task, astray>>
  BY DEF Reap
<1> HIDE DEF s
<1> QED
  BY <1>3, <1>4, <1>5, <1>6, <1>7, ConnectionLost

\* A fresh connection takes the place of the current one.
LEMMA ReconnectInv ==
    ASSUME DbInv, NEW k \in Tasks, Reconnect(k)
    PROVE  DbInv'
<1> USE DEF DbInv
<1> DEFINE s == IF Now.state = "alive" THEN Gone(Now, "closed") ELSE Now
<1>1. streams \in Seq(Stream) /\ Current \in Nat /\ Current > 0
  BY DEF DbTypeOK, Current
<1>2. Now \in Stream /\ Fresh \in Stream
  <2>1. Now \in Stream
    BY <1>1 DEF Now, Current
  <2>2. Fresh \in Stream
    BY DEF Fresh, Stream
  <2> QED
    BY <2>1, <2>2
<1>3. Gone(Now, "closed") \in Stream
  BY <1>2 DEF Gone, Stream
<1>4. s \in Stream /\ s.state # "alive" /\ ~s.open /\ s.written = {}
  <2>1. Now.state # "alive" => ~Now.open /\ Now.written = {}
    BY <1>1 DEF StreamsInOrder, Now
  <2>2. /\ Gone(Now, "closed").state = "closed" /\ ~Gone(Now, "closed").open
        /\ Gone(Now, "closed").written = {}
    BY <1>2 DEF Gone, Stream
  <2> QED
    BY <1>2, <1>3, <2>1, <2>2
<1>5. streams' = Append([streams EXCEPT ![Current] = s], Fresh)
  BY DEF Reconnect, Now
<1> HIDE DEF s
<1>6. /\ streams' \in Seq(Stream) /\ Current' = Current + 1 /\ Now' = Fresh
      /\ streams'[Current] = s
      /\ \A i \in 1..Current : i # Current => streams'[i] = streams[i]
  BY <1>1, <1>2, <1>4, <1>5 DEF Current, Now
<1>7. task[k].phase = "back" /\ task[k].result = "dead" /\ task[k].pc \in Active \cup {"read"}
  BY DEF Reconnect, Roles
<1>8. /\ task' \in [Tasks -> Task]
      /\ \A j \in Tasks \ {k} : task'[j] = task[j]
      /\ task'[k] = [task[k] EXCEPT !.phase = "healing", !.on = Current + 1]
  <2>1. task[k] \in Task
    BY DEF DbTypeOK
  <2> DEFINE on == Current + 1
  <2>2. on \in Nat
    BY <1>1
  <2> HIDE DEF on
  <2>3. [task[k] EXCEPT !.phase = "healing", !.on = on] \in Task
    BY <2>1, <2>2 DEF Task
  <2>4. [task[k] EXCEPT !.phase = "healing", !.on = Current + 1] \in Task
    BY <2>3 DEF on
  <2> QED
    BY <2>1, <2>4 DEF Reconnect, DbTypeOK
<1>9. /\ task'[k].pc = task[k].pc /\ task'[k].phase = "healing" /\ task'[k].n = task[k].n
      /\ task'[k].on = Current + 1 /\ task'[k].result = "dead"
      /\ task'[k].was = task[k].was
  BY <1>7, <1>8 DEF DbTypeOK, Task
<1>10. /\ queue' = queue /\ inTransaction' = FALSE /\ durable' = durable /\ faults' = faults
       /\ astray' = (astray \/ Meddles(k))
  BY DEF Reconnect
<1>11. DbTypeOK'
  <2>1. astray' \in BOOLEAN
    BY <1>10
  <2>2. Current' > 0
    BY <1>1, <1>6
  <2> QED
    BY <1>6, <1>8, <1>10, <2>1, <2>2 DEF DbTypeOK
<1>12. Roles'
  <2>1. /\ task'[k].on \in 1..Current'
        /\ Current' \in Nat /\ Current' >= Current
    BY <1>1, <1>6, <1>9
  <2>2. /\ k \in Readers => task'[k].pc \in {"idle", "read", "done", "failed"}
        /\ k \in Txs => task'[k].pc \notin {"read", "done"}
        /\ task'[k].pc \in {"idle", "queued", "begin"} => task'[k].n = 1
    BY <1>9 DEF Roles
  <2> QED
    BY <1>7, <1>8, <1>9, <2>1, <2>2, RolesMove
<1>13. StreamsInOrder'
  <2> SUFFICES ASSUME NEW i \in 1..(Current + 1)
               PROVE  /\ i < Current + 1 => streams'[i].state # "alive"
                      /\ i = Current + 1 => streams'[i].state # "closed"
                      /\ streams'[i].open => streams'[i].state = "alive" /\ ~streams'[i].reaped
                      /\ ~streams'[i].open => streams'[i].written = {}
    BY <1>6 DEF StreamsInOrder
  <2>1. CASE i = Current + 1
    <3>1. streams'[i] = Fresh
      BY <1>6, <2>1 DEF Now
    <3> QED
      BY <2>1, <3>1 DEF Fresh
  <2>2. CASE i = Current
    BY <1>1, <1>4, <1>6, <2>2
  <2>3. CASE i < Current
    <3>1. streams'[i] = streams[i] /\ i \in 1..Current
      BY <1>1, <1>6, <2>3
    <3> QED
      BY <1>1, <2>3, <3>1 DEF StreamsInOrder
  <2> QED
    BY <1>1, <2>1, <2>2, <2>3
<1>14. InTurn'
  BY <1>8, <1>9, <1>10, TurnsStay
<1>15. Opened'
  BY <1>6 DEF Opened, Fresh
<1>a. Abandoned'
  BY <1>6 DEF Abandoned, Fresh
<1>16. Flagged'
  BY <1>10 DEF Flagged
<1>17. WholeIsDurable'
  <2>1. \A t \in Txs : Written(t)' = Written(t) /\ (Acknowledged(t)' => Acknowledged(t))
    <3> SUFFICES ASSUME NEW t \in Txs
                 PROVE  Written(t)' = Written(t) /\ (Acknowledged(t)' => Acknowledged(t))
      OBVIOUS
    <3>1. Written(t)' = Written(t)
      BY <1>10 DEF Written
    <3>2. CASE t = k
      BY <1>7, <1>9, <3>1, <3>2 DEF Acknowledged, Active
    <3>3. CASE t # k
      <4>1. task'[t] = task[t]
        BY <1>8, <3>3 DEF Tasks
      <4> QED
        BY <3>1, <4>1 DEF Acknowledged
    <3> QED
      BY <3>2, <3>3
  <2> QED
    BY <2>1 DEF WholeIsDurable
<1>18. Undisturbed'
  <2> SUFFICES ASSUME ~astray' PROVE Undisturbed'
    BY DEF Undisturbed
  <2>1. ~astray /\ ~Meddles(k)
    BY <1>10
  <2>2. \A t \in Txs \ {k} : task[t].pc \notin Active /\ task'[t] = task[t]
    <3>1. CASE k \in Readers
      BY <1>8, <2>1, <3>1 DEF Meddles, Active, Tasks
    <3>2. CASE k \in Txs
      <4>1. task[k].pc \in Active
        BY <1>7, <3>2 DEF Roles
      <4> QED
        BY <1>8, <3>2, <4>1, OneUnderWay DEF Tasks
    <3> QED
      BY <3>1, <3>2 DEF Tasks
  <2>3. \A t \in Txs : ~Owning(t)'
    BY <1>7, <1>9, <2>2 DEF Owning, Active
  <2>4. \A t \in Txs : task'[t].pc \in {"write", "commit"} => Protected(t)'
    BY <1>7, <1>9, <2>1, <2>2 DEF Protected, Undisturbed, Active
  <2>5. \A t \in Txs : Written(t)' = Written(t)
    BY <1>10 DEF Written
  <2>6. \A j \in Readers : ~(task'[j].phase = "back" /\ task'[j].result = "gone")
    BY <1>8, <1>9, <2>1 DEF Undisturbed, Tasks
  <2> QED
    BY <1>6, <2>1, <2>3, <2>4, <2>5, <2>6 DEF Undisturbed, Fresh
<1> QED
  BY <1>11, <1>12, <1>13, <1>14, <1>15, <1>16, <1>17, <1>18, <1>a

\* What reaches a live connection reaches the current one, and what the server
\* does there: a transaction is opened only by BEGIN, only its own statements
\* are on it, it is made durable as a whole, and nothing is written outside one
\* unless a read has meddled.
LEMMA Served ==
    ASSUME DbInv, NEW k \in Tasks, task[k].phase \in {"sent", "resent"},
           streams[task[k].on].state = "alive",
           NEW a, a = Serve(k, Now)
    PROVE  /\ task[k].on = Current /\ Now \in Stream /\ Now.state = "alive"
           /\ a.stream \in Stream /\ a.stream.state = "alive"
           /\ a.writes \in SUBSET (Txs \X Nat)
           /\ a.result \in {"ok", "nothing", "gone", "refused"}
           /\ a.result = "refused" => task[k].pc = "begin"
           /\ task[k].pc = "begin" /\ a.result = "ok" => ~a.stream.kept
           /\ ~(task[k].pc = "begin" /\ a.result = "ok") => a.stream.kept = Now.kept
           /\ a.result = "nothing" => task[k].pc = "rollback"
           /\ a.result = "gone" => task[k].pc # "rollback"
           /\ a.stream.open => ~a.stream.reaped
           /\ ~a.stream.open => a.stream.written = {}
           /\ task[k].pc = "commit" /\ a.result = "ok" =>
                 \A i \in 1..Writes : <<k, i>> \in a.writes
           /\ a.stream.open /\ ~a.stream.kept =>
                 \/ Now.open /\ task[k].pc = "read" /\ a.stream.written = Now.written
                 \/ task[k].pc = "begin" /\ a.result = "ok" /\ a.stream.written = {}
                 \/ /\ Now.open /\ task[k].pc = "write" /\ a.result = "ok"
                    /\ a.stream.written = Now.written \cup {<<k, task[k].n>>}
           /\ ~astray =>
                 /\ ~a.stream.spoiled
                 /\ \/ a.writes = {}
                    \/ /\ k \in Txs /\ \A t \in Txs, i \in Nat : <<t, i>> \in a.writes => t = k
                       /\ \A i \in 1..Writes : <<k, i>> \in a.writes
                 /\ task[k].pc \in {"begin", "write"} /\ a.result = "ok" => a.stream.open
                 /\ task[k].pc = "read" /\ a.result # "gone" => a.stream = Now
<1> USE DEF DbInv
<1> DEFINE s == Now
<1>1. task[k].on = Current
  <2>1. task[k].on \in 1..Current /\ Current \in Nat
    BY DEF Roles, DbTypeOK, Current
  <2> QED
    BY <2>1 DEF StreamsInOrder
<1>2. s \in Stream /\ s.state = "alive"
  BY <1>1 DEF Now, DbTypeOK, Current
<1>3. /\ s.open => ~s.reaped
      /\ ~s.open => s.written = {}
  BY <1>1 DEF StreamsInOrder, Now, Roles
<1>4. task[k].pc \in Active \cup {"read"}
  BY DEF Roles
<1>5. k \in Txs => task[k].pc \in Active
  BY <1>4 DEF Roles
<1>6. k \in Txs \/ task[k].pc = "read"
  BY <1>4 DEF Roles, Tasks, Active
<1>7. task[k].n \in Nat
  BY DEF DbTypeOK, Task
<1>8. ~astray => ~s.spoiled
  BY DEF Undisturbed
<1>9. CASE s.reaped
  <2>1. /\ a.result = IF task[k].pc = "rollback" THEN "nothing" ELSE "gone"
        /\ a.stream = [s EXCEPT !.reaped = FALSE]
        /\ a.writes = {}
    BY <1>9 DEF Serve
  <2>2. /\ a.stream \in Stream /\ a.stream.state = s.state /\ a.stream.open = s.open
        /\ a.stream.written = s.written /\ a.stream.spoiled = s.spoiled
        /\ a.stream.kept = s.kept
    BY <1>2, <2>1 DEF Stream
  <2> QED
    BY <1>1, <1>2, <1>3, <1>8, <1>9, <2>1, <2>2
<1>10. CASE ~s.reaped /\ task[k].pc = "read"
  <2>1. a.result = "ok" /\ a.stream = s /\ a.writes = {}
    BY <1>10 DEF Serve
  <2> QED
    BY <1>1, <1>2, <1>3, <1>8, <1>10, <2>1
<1>16. CASE ~s.reaped /\ task[k].pc = "begin" /\ s.open
  <2>1. s.kept
    BY <1>5, <1>6, <1>16, NotOpen DEF Inside, Inner, Active
  <2>2. a.result = "refused" /\ a.stream = s /\ a.writes = {}
    BY <1>16 DEF Serve
  <2> QED
    BY <1>1, <1>2, <1>3, <1>8, <1>16, <2>1, <2>2
<1>11. CASE ~s.reaped /\ task[k].pc = "begin" /\ ~s.open
  <2>1. ~s.open
    BY <1>11
  <2>2. /\ a.result = "ok" /\ a.writes = {}
        /\ a.stream = [s EXCEPT !.open = ~s.spoiled, !.spoiled = FALSE, !.kept = FALSE]
    BY <1>11, <2>1 DEF Serve
  <2>3. /\ a.stream \in Stream /\ a.stream.state = s.state /\ a.stream.open = ~s.spoiled
        /\ a.stream.written = s.written /\ a.stream.spoiled = FALSE
        /\ a.stream.reaped = s.reaped /\ a.stream.kept = FALSE
    BY <1>2, <2>2 DEF Stream
  <2> QED
    BY <1>1, <1>2, <1>3, <1>8, <1>11, <2>1, <2>2, <2>3
<1>12. CASE ~s.reaped /\ task[k].pc = "write" /\ s.open
  <2>1. /\ a.result = "ok" /\ a.writes = {}
        /\ a.stream = [s EXCEPT !.written = @ \cup {<<k, task[k].n>>}]
    BY <1>12 DEF Serve
  <2>2. <<k, task[k].n>> \in Txs \X Nat
    BY <1>6, <1>7, <1>12
  <2>3. s.written \cup {<<k, task[k].n>>} \in SUBSET (Txs \X Nat)
    BY <1>2, <2>2 DEF Stream
  <2>4. /\ a.stream \in Stream /\ a.stream.state = s.state /\ a.stream.open = s.open
        /\ a.stream.written = s.written \cup {<<k, task[k].n>>}
        /\ a.stream.spoiled = s.spoiled /\ a.stream.reaped = s.reaped
        /\ a.stream.kept = s.kept
    BY <1>2, <2>1, <2>3 DEF Stream
  <2> QED
    BY <1>1, <1>2, <1>3, <1>8, <1>12, <2>1, <2>4
<1>13. CASE ~s.reaped /\ task[k].pc = "write" /\ ~s.open
  \* Only after a read has meddled.
  <2>1. astray
    <3> SUFFICES ASSUME ~astray PROVE FALSE
      OBVIOUS
    <3>1. k \in Txs
      BY <1>6, <1>13
    <3>2. task[k].phase = "sent"
      BY <1>13, <3>1 DEF Undisturbed, Protected
    <3>3. Owning(k)
      BY <1>13, <3>2 DEF Owning
    <3> QED
      BY <1>2, <1>13, <3>1, <3>3 DEF Undisturbed
  <2>2. /\ a.result = "ok" /\ a.writes = {<<k, task[k].n>>}
        /\ a.stream = [s EXCEPT !.spoiled = TRUE]
    BY <1>13 DEF Serve
  <2>3. /\ a.stream \in Stream /\ a.stream.state = s.state /\ a.stream.open = s.open
        /\ a.stream.written = s.written /\ a.stream.reaped = s.reaped
        /\ a.stream.kept = s.kept
    BY <1>2, <2>2 DEF Stream
  <2>4. a.writes \in SUBSET (Txs \X Nat)
    BY <1>6, <1>7, <1>13, <2>2
  <2> QED
    BY <1>1, <1>2, <1>3, <1>13, <2>1, <2>2, <2>3, <2>4
<1>14. CASE ~s.reaped /\ task[k].pc = "commit"
  <2>1. /\ a.result = IF s.open THEN "ok" ELSE "gone"
        /\ a.writes = s.written
        /\ a.stream = [s EXCEPT !.open = FALSE, !.written = {}]
    BY <1>14 DEF Serve
  <2>2. /\ a.stream \in Stream /\ a.stream.state = s.state /\ ~a.stream.open
        /\ a.stream.written = {} /\ a.stream.spoiled = s.spoiled
        /\ a.stream.kept = s.kept
    BY <1>2, <2>1 DEF Stream
  <2>3. a.writes \in SUBSET (Txs \X Nat)
    BY <1>2, <2>1 DEF Stream
  <2>4. ASSUME s.open
        PROVE  /\ \A t \in Txs, i \in Nat : <<t, i>> \in s.written => t = k
               /\ \A i \in 1..Writes : <<k, i>> \in s.written
    <3>0. ~Now.kept
      BY <1>6, <1>14, NotKept DEF Withdrawn, Inner
    <3>1. PICK t \in Txs : /\ Inside(t)
                           /\ \A u \in Txs, i \in Nat : <<u, i>> \in Now.written => u = t
                           /\ \A i \in 1..Through(t) : <<t, i>> \in Now.written
      BY <2>4, <3>0 DEF Opened
    <3>2. task[t].pc \in Active
      BY <3>1 DEF Inside, Active, Inner
    <3>3. t = k
      BY <1>5, <1>6, <1>14, <3>2, OneUnderWay
    <3>4. Through(k) = Writes
      BY <1>14 DEF Through
    <3> QED
      BY <3>1, <3>3, <3>4
  <2> QED
    BY <1>1, <1>2, <1>3, <1>6, <1>8, <1>14, <2>1, <2>2, <2>3, <2>4
<1>15. CASE ~s.reaped /\ task[k].pc = "rollback"
  <2>1. /\ a.result = IF s.open THEN "ok" ELSE "nothing"
        /\ a.writes = {}
        /\ a.stream = [s EXCEPT !.open = FALSE, !.written = {}]
    BY <1>15 DEF Serve
  <2>2. /\ a.stream \in Stream /\ a.stream.state = s.state /\ ~a.stream.open
        /\ a.stream.written = {} /\ a.stream.spoiled = s.spoiled
        /\ a.stream.kept = s.kept
    BY <1>2, <2>1 DEF Stream
  <2> QED
    BY <1>1, <1>2, <1>8, <1>15, <2>1, <2>2
<1> QED
  BY <1>4, <1>9, <1>10, <1>11, <1>12, <1>13, <1>14, <1>15, <1>16 DEF Active

\* The answer r to call k is there.
HasAnswer(k, r) ==
    task' = [task EXCEPT ![k].phase = IF @ = "sent" THEN "back" ELSE "final",
                         ![k].result = r]

\* A call that has its answer.
LEMMA AnswerMoves ==
    ASSUME DbInv, NEW k \in Tasks, task[k].phase \in {"sent", "resent"},
           NEW r \in {"ok", "nothing", "gone", "refused", "dead"},
           r = "nothing" => task[k].pc = "rollback",
           r = "gone" => task[k].pc # "rollback",
           HasAnswer(k, r),
           queue' = queue, Current' = Current
    PROVE  /\ task' \in [Tasks -> Task]
           /\ \A j \in Tasks \ {k} : task'[j] = task[j]
           /\ task'[k].pc = task[k].pc /\ task'[k].n = task[k].n
           /\ task'[k].on = task[k].on /\ task'[k].was = task[k].was
           /\ task'[k].result = r
           /\ task[k].phase = "sent" => task'[k].phase = "back"
           /\ task[k].phase = "resent" => task'[k].phase = "final"
           /\ Roles'
           /\ InTurn'
<1> USE DEF DbInv
<1> DEFINE ph == IF task[k].phase = "sent" THEN "back" ELSE "final"
<1>1. task[k] \in Task
  BY DEF DbTypeOK
<1>2. /\ \A j \in Tasks \ {k} : task'[j] = task[j]
      /\ task'[k] = [task[k] EXCEPT !.phase = ph, !.result = r]
  BY <1>1 DEF DbTypeOK, Task, HasAnswer
<1>p. /\ ph \in {"back", "final"}
      /\ task[k].phase = "sent" => ph = "back"
      /\ task[k].phase = "resent" => ph = "final"
  OBVIOUS
<1> HIDE DEF ph
<1>3. task'[k] \in Task
  <2>1. [task[k] EXCEPT !.phase = ph, !.result = r] \in Task
    BY <1>1, <1>p DEF Task
  <2> QED
    BY <1>2, <2>1
<1>4. task' \in [Tasks -> Task]
  BY <1>2, <1>3 DEF DbTypeOK, HasAnswer
<1>5. /\ task'[k].pc = task[k].pc /\ task'[k].n = task[k].n
      /\ task'[k].on = task[k].on /\ task'[k].was = task[k].was
      /\ task'[k].result = r /\ task'[k].phase = ph
  BY <1>1, <1>2 DEF Task
<1>6. task'[k].phase # "ready"
  BY <1>5, <1>p
<1>7. InTurn'
  BY <1>2, <1>5, TurnsStay
<1>8. Roles'
  <2>1. /\ task'[k].on \in 1..Current'
        /\ Current' \in Nat /\ Current' >= Current
    BY <1>5 DEF Roles, DbTypeOK, Current
  <2>2. /\ k \in Readers => task'[k].pc \in {"idle", "read", "done", "failed"}
        /\ k \in Txs => task'[k].pc \notin {"read", "done"}
        /\ task'[k].pc \in {"idle", "queued", "begin"} => task'[k].n = 1
        /\ task'[k].pc \in Active \cup {"read"}
    BY <1>5 DEF Roles
  <2> QED
    BY <1>2, <1>5, <1>6, <2>1, <2>2, RolesMove
<1> QED
  BY <1>2, <1>4, <1>5, <1>p, <1>7, <1>8

\* An operation that the server carries out, whether its answer comes back or
\* the stream dies under it.
LEMMA CarriedOut ==
    ASSUME DbInv, NEW k \in Tasks, task[k].phase \in {"sent", "resent"},
           streams[task[k].on].state = "alive",
           NEW a, a = Serve(k, Now), NEW s \in Stream, NEW r,
           \/ s = a.stream /\ r = a.result
           \/ /\ s.state = "dropped" /\ ~s.open /\ s.written = {}
              /\ (s.spoiled => a.stream.spoiled) /\ s.kept = a.stream.kept /\ r = "dead",
           streams' = [streams EXCEPT ![Current] = s],
           durable' = durable \cup a.writes,
           HasAnswer(k, r),
           astray' \in BOOLEAN, astray => astray', k \in Readers /\ r = "gone" => astray',
           UNCHANGED <<inTransaction, queue>>, faults' \in Nat
    PROVE  DbInv'
<1> USE DEF DbInv
<1>1. streams \in Seq(Stream) /\ Current \in Nat /\ Current > 0
  BY DEF DbTypeOK, Current
<1>2. /\ streams' \in Seq(Stream) /\ Current' = Current /\ Now' = s
      /\ \A i \in 1..Current : i # Current => streams'[i] = streams[i]
  BY <1>1 DEF Current, Now
<1>a. /\ a.stream.state = "alive" /\ a.writes \in SUBSET (Txs \X Nat)
      /\ a.result \in {"ok", "nothing", "gone", "refused"}
      /\ a.result = "refused" => task[k].pc = "begin"
      /\ task[k].pc = "begin" /\ a.result = "ok" => ~a.stream.kept
      /\ ~(task[k].pc = "begin" /\ a.result = "ok") => a.stream.kept = Now.kept
      /\ a.result = "nothing" => task[k].pc = "rollback"
      /\ a.result = "gone" => task[k].pc # "rollback"
      /\ a.stream.open => ~a.stream.reaped
      /\ ~a.stream.open => a.stream.written = {}
  BY Served
<1>3. /\ task' \in [Tasks -> Task]
      /\ \A j \in Tasks \ {k} : task'[j] = task[j]
      /\ task'[k].pc = task[k].pc /\ task'[k].n = task[k].n
      /\ task'[k].on = task[k].on /\ task'[k].was = task[k].was
      /\ task'[k].result = r
      /\ task[k].phase = "sent" => task'[k].phase = "back"
      /\ task[k].phase = "resent" => task'[k].phase = "final"
      /\ Roles' /\ InTurn'
  <2>1. /\ r \in {"ok", "nothing", "gone", "refused", "dead"}
        /\ r = "nothing" => task[k].pc = "rollback"
        /\ r = "gone" => task[k].pc # "rollback"
    BY <1>a
  <2> HIDE DEF DbInv
  <2> QED
    BY <1>2, <2>1, AnswerMoves
<1>4. /\ \A t \in Txs \ {k} : task'[t] = task[t]
      /\ \A t \in Readers \ {k} : task'[t] = task[t]
  BY <1>3 DEF Tasks
<1>5. DbTypeOK'
  BY <1>1, <1>2, <1>3, <1>a DEF DbTypeOK
<1>6. StreamsInOrder'
  <2>1. s.state # "closed" /\ (s.open => s.state = "alive" /\ ~s.reaped) /\ (~s.open => s.written = {})
    BY <1>a
  <2> QED
    BY <1>1, <1>2, <2>1 DEF StreamsInOrder, Now
<1>7. Opened'
  <2> SUFFICES ASSUME s.open, ~s.kept PROVE Opened'
    BY <1>2 DEF Opened
  <2>1. s = a.stream /\ r = a.result
    OBVIOUS
  <2>2. CASE Now.open /\ task[k].pc = "read" /\ s.written = Now.written
    <3>1. PICK t \in Txs : /\ Inside(t)
                           /\ \A u \in Txs, i \in Nat : <<u, i>> \in Now.written => u = t
                           /\ \A i \in 1..Through(t) : <<t, i>> \in Now.written
      BY <1>a, <2>1, <2>2 DEF Opened
    <3>2. task'[t] = task[t]
      <4>1. task[t].pc # "read"
        BY DEF Roles
      <4> QED
        BY <1>4, <2>2, <4>1
    <3>3. Inside(t)' = Inside(t) /\ Through(t)' = Through(t)
      BY <1>2, <3>2 DEF Inside, Through
    <3> QED
      BY <1>2, <2>2, <3>1, <3>3 DEF Opened
  <2>3. CASE task[k].pc = "begin" /\ r = "ok" /\ s.written = {}
    <3>1. k \in Txs
      BY <2>3 DEF Roles, Tasks
    <3>2. Inside(k)' /\ Through(k)' = 0
      BY <1>3, <2>3 DEF Inside, Through
    <3>3. \A i \in 1..Through(k)' : FALSE
      BY <3>2
    <3> QED
      BY <1>2, <2>3, <3>1, <3>2, <3>3 DEF Opened
  <2>4. CASE /\ Now.open /\ ~Now.kept /\ task[k].pc = "write" /\ r = "ok"
             /\ s.written = Now.written \cup {<<k, task[k].n>>}
    <3>1. PICK t \in Txs : /\ Inside(t)
                           /\ \A u \in Txs, i \in Nat : <<u, i>> \in Now.written => u = t
                           /\ \A i \in 1..Through(t) : <<t, i>> \in Now.written
      BY <2>4 DEF Opened
    <3>2. k \in Txs
      BY <2>4 DEF Roles, Tasks
    <3>3. t = k
      <4>1. task[t].pc \in Active /\ task[k].pc \in Active
        BY <2>4, <3>1 DEF Inside, Active, Inner
      <4> QED
        BY <3>2, <4>1, OneUnderWay
    <3>4. task[k].phase = "sent"
      BY <2>4, <3>1, <3>3 DEF Inside
    <3>5. Through(k) = task[k].n - 1 /\ Through(k)' = task[k].n /\ Inside(k)'
      BY <1>3, <2>4, <3>4 DEF Inside, Through
    <3>6. \A i \in 1..task[k].n : i \in 1..(task[k].n - 1) \/ i = task[k].n
      BY DEF DbTypeOK, Task
    <3>7. \A i \in 1..Through(k)' : <<k, i>> \in s.written
      BY <2>4, <3>1, <3>3, <3>5, <3>6
    <3>8. \A u \in Txs, i \in Nat : <<u, i>> \in s.written => u = k
      BY <2>4, <3>1, <3>3
    <3> QED
      BY <1>2, <3>2, <3>5, <3>7, <3>8 DEF Opened
  <2>5. task[k].pc # "begin" => ~Now.kept
    BY <1>a, <2>1
  <2> QED
    BY <2>1, <2>2, <2>3, <2>4, <2>5, Served
<1>b. Abandoned'
  <2> SUFFICES ASSUME s.kept, NEW t \in Txs PROVE Withdrawn(t)'
    BY <1>2 DEF Abandoned
  <2>1. Now.kept /\ ~(task[k].pc = "begin" /\ a.result = "ok")
    BY <1>a
  <2>2. Withdrawn(t)
    BY <2>1 DEF Abandoned
  <2>3. CASE t = k
    <3>1. task[k].pc \notin Inner
      BY <2>2, <2>3 DEF Withdrawn
    <3>2. ~(task[k].pc = "begin" /\ r = "ok")
      BY <2>1
    <3> QED
      BY <1>3, <2>3, <3>1, <3>2 DEF Withdrawn
  <2>4. CASE t # k
    BY <1>4, <2>2, <2>4 DEF Withdrawn
  <2> QED
    BY <2>3, <2>4
<1>8. Flagged'
  <2>1. inTransaction => s.kept \/ \E t \in Txs : task'[t].pc \in Inner \/ Reopened(t)'
    <3> SUFFICES ASSUME inTransaction, ~s.kept
                 PROVE  \E t \in Txs : task'[t].pc \in Inner \/ Reopened(t)'
      OBVIOUS
    <3>1. CASE Now.kept
      <4>1. task[k].pc = "begin" /\ a.result = "ok"
        BY <1>a, <3>1
      <4>2. k \in Txs /\ r \in {"ok", "dead"}
        BY <4>1 DEF Roles, Tasks
      <4>3. task[k].phase = "sent"
        BY <4>2 DEF Flagged
      <4> QED
        BY <1>3, <4>1, <4>2, <4>3 DEF Reopened
    <3>2. CASE ~Now.kept
      <4>1. PICK t \in Txs : task[t].pc \in Inner \/ Reopened(t)
        BY <3>2 DEF Flagged
      <4> QED
        BY <1>3, <1>4, <4>1 DEF Reopened
    <3> QED
      BY <3>1, <3>2
  <2>3. ASSUME NEW t \in Txs, task'[t].phase \in {"healing", "resent", "final"}
        PROVE  ~inTransaction
    <3>1. task[t].phase \in {"healing", "resent", "final"}
      BY <1>3, <1>4, <2>3
    <3> QED
      BY <3>1 DEF Flagged
  <2>2. ASSUME NEW t \in Txs, task'[t].pc \in Inner
        PROVE  /\ task'[t].phase = "sent" /\ streams'[task'[t].on].state = "closed" => ~inTransaction
               /\ task'[t].pc = "rollback" /\ task'[t].phase = "back" /\ task'[t].result = "refused"
                     => ~inTransaction \/ s.kept
    <3>1. CASE t = k
      <4>1. r = "refused" => task[k].pc = "begin"
        BY <1>a
      <4>2. task'[k].phase # "sent"
        BY <1>3
      <4> QED
        BY <1>3, <2>2, <3>1, <4>1, <4>2
    <3>2. CASE t # k
      <4>1. task'[t] = task[t] /\ task[t].on \in 1..Current
        BY <1>4, <3>2 DEF Roles, Tasks
      <4>2. streams'[task[t].on].state = "closed" => streams[task[t].on].state = "closed"
        BY <1>a, <1>1, <1>2, <4>1 DEF Now
      <4>3. s.kept = Now.kept
        <5>1. task[t].pc \in Active
          BY <2>2, <4>1 DEF Active, Inner
        <5>2. task[k].pc # "begin"
          BY <3>2, <5>1, OneUnderWay DEF Active, Roles, Tasks
        <5> QED
          BY <1>a, <5>2
      <4> QED
        BY <2>2, <4>1, <4>2, <4>3 DEF Flagged
    <3> QED
      BY <3>1, <3>2
  <2> QED
    BY <1>2, <2>1, <2>2, <2>3 DEF Flagged
<1>9. WholeIsDurable'
  <2> SUFFICES ASSUME NEW t \in Txs, Acknowledged(t)' PROVE Written(t)' = 1..Writes
    BY DEF WholeIsDurable
  <2>1. CASE Acknowledged(t)
    BY <2>1 DEF WholeIsDurable, Written
  <2>2. CASE ~Acknowledged(t)
    <3>1. t = k
      BY <1>4, <2>2 DEF Acknowledged
    <3>2. task[k].pc = "commit" /\ r = "ok"
      <4>1. task[k].pc # "committed"
        BY <3>1, <2>2 DEF Acknowledged
      <4> QED
        BY <1>3, <3>1, <4>1 DEF Acknowledged
    <3>3. \A i \in 1..Writes : <<k, i>> \in a.writes
      BY <3>2, Served
    <3> QED
      BY <3>1, <3>3 DEF Written
  <2> QED
    BY <2>1, <2>2
<1>10. Undisturbed'
  <2> SUFFICES ASSUME ~astray' PROVE Undisturbed'
    BY DEF Undisturbed
  <2>1. ~astray
    OBVIOUS
  <2>2. /\ ~a.stream.spoiled
        /\ \/ a.writes = {}
           \/ /\ k \in Txs /\ \A t \in Txs, i \in Nat : <<t, i>> \in a.writes => t = k
              /\ \A i \in 1..Writes : <<k, i>> \in a.writes
        /\ task[k].pc \in {"begin", "write"} /\ a.result = "ok" => a.stream.open
        /\ task[k].pc = "read" /\ a.result # "gone" => a.stream = Now
    BY <2>1, Served
  <2>3. ~s.spoiled
    BY <2>2
  <2>4. ASSUME NEW j \in Readers, task'[j].phase = "back", task'[j].result = "gone"
        PROVE  FALSE
    <3>1. CASE j = k
      BY <1>3, <2>4, <3>1
    <3>2. CASE j # k
      <4>1. task'[j] = task[j]
        BY <1>4, <3>2
      <4> QED
        BY <2>1, <2>4, <4>1 DEF Undisturbed
    <3> QED
      BY <3>1, <3>2
  <2>5. ASSUME NEW t \in Txs
        PROVE  Written(t)' \in {{}, 1..Writes}
    <3>1. Written(t) \in {{}, 1..Writes}
      BY <2>1 DEF Undisturbed
    <3>2. CASE \A i \in 1..Writes : <<t, i>> \notin a.writes
      <4>1. Written(t)' = Written(t)
        BY <3>2 DEF Written
      <4> QED
        BY <3>1, <4>1
    <3>3. CASE \A i \in 1..Writes : <<t, i>> \in a.writes
      <4>1. Written(t)' = 1..Writes
        BY <3>3 DEF Written
      <4> QED
        BY <4>1
    <3> QED
      BY <2>2, <3>2, <3>3
  <2>6. ASSUME NEW t \in Txs, task'[t].pc \in {"write", "commit"}
        PROVE  Protected(t)'
    <3>1. task'[t].pc = task[t].pc
      BY <1>3, <1>4
    <3>2. Protected(t)
      BY <2>1, <2>6, <3>1 DEF Undisturbed
    <3> QED
      BY <1>3, <1>4, <3>2 DEF Protected
  <2>7. ASSUME NEW t \in Txs, Owning(t)', s.state = "alive"
        PROVE  s.open \/ s.reaped
    <3>1. s = a.stream /\ r = a.result
      BY <2>7
    <3>2. CASE t = k
      <4>1. task[k].pc \in {"begin", "write"} /\ r = "ok"
        BY <1>3, <2>7, <3>2 DEF Owning
      <4> QED
        BY <2>2, <3>1, <4>1
    <3>3. CASE t # k
      <4>1. Owning(t)
        BY <1>4, <2>7, <3>3 DEF Owning
      <4>2. task[t].pc \in Active
        BY <4>1 DEF Owning, Active
      <4>3. k \in Readers
        <5>1. k \in Txs => task[k].pc \in Active
          BY DEF Roles
        <5> QED
          BY <3>3, <4>2, <5>1, OneUnderWay DEF Tasks
      <4>4. task[k].pc = "read" /\ r # "gone"
        BY <4>3 DEF Roles, Active
      <4>5. s = Now
        BY <2>2, <3>1, <4>4
      <4> QED
        BY <2>1, <2>7, <4>1, <4>5 DEF Undisturbed
    <3> QED
      BY <3>2, <3>3
  <2> QED
    BY <1>2, <2>3, <2>4, <2>5, <2>6, <2>7 DEF Undisturbed
<1> QED
  BY <1>3, <1>5, <1>6, <1>7, <1>8, <1>9, <1>10, <1>b

\* An operation reaches its connection, or finds it dead.
LEMMA AnswerInv ==
    ASSUME DbInv, NEW k \in Tasks, Answer(k)
    PROVE  DbInv'
<1> DEFINE s == streams[task[k].on]
           a == Serve(k, s)
<1>1. task[k].phase \in {"sent", "resent"} /\ UNCHANGED <<inTransaction, queue, faults>>
  BY DEF Answer
<1>2. CASE /\ s.state = "alive"
           /\ streams' = [streams EXCEPT ![task[k].on] = a.stream]
           /\ durable' = durable \cup a.writes
           /\ HasAnswer(k, a.result)
           /\ astray' = (astray \/ (k \in Readers /\ a.result = "gone"))
  <2> DEFINE b == Serve(k, Now)
  <2>1. task[k].on = Current /\ b.stream \in Stream
    BY <1>1, <1>2, Served
  <2>2. s = Now
    BY <2>1 DEF Now
  <2>3. /\ streams' = [streams EXCEPT ![Current] = b.stream]
        /\ durable' = durable \cup b.writes /\ HasAnswer(k, b.result)
    BY <1>2, <2>1, <2>2
  <2>4. /\ astray' \in BOOLEAN /\ (astray => astray')
        /\ k \in Readers /\ b.result = "gone" => astray'
    BY <1>2, <2>2
  <2>5. faults' \in Nat /\ s.state = "alive"
    BY <1>1, <1>2 DEF DbInv, DbTypeOK
  <2> QED
    BY <1>1, <2>1, <2>3, <2>4, <2>5, CarriedOut
<1>3. CASE /\ s.state # "alive"
           /\ \E result \in IF s.state = "dropped" THEN {"dead"} ELSE {"dead", "refused"} :
                 HasAnswer(k, result)
           /\ UNCHANGED <<streams, durable, astray>>
  <2>1. PICK r \in {"dead", "refused"} :
             HasAnswer(k, r) /\ (r = "refused" => s.state # "dropped")
    BY <1>3
  <2>2. task[k].on \in 1..Current /\ s \in Stream
    BY DEF DbInv, Roles, DbTypeOK, Current
  <2>3. r = "refused" => s.state = "closed"
    BY <1>3, <2>1, <2>2 DEF Stream
  <2>4. Current' = Current /\ queue' = queue
    BY <1>1, <1>3 DEF Current
  <2>5. /\ task' \in [Tasks -> Task]
        /\ \A j \in Tasks \ {k} : task'[j] = task[j]
        /\ task'[k].pc = task[k].pc /\ task'[k].n = task[k].n
        /\ task'[k].on = task[k].on /\ task'[k].was = task[k].was
        /\ task'[k].result = r
        /\ task[k].phase = "sent" => task'[k].phase = "back"
        /\ task[k].phase = "resent" => task'[k].phase = "final"
        /\ Roles' /\ InTurn'
    BY <1>1, <2>1, <2>4, AnswerMoves
  <2>6. queue' \in Seq(Txs)
    BY <2>4 DEF DbInv, DbTypeOK
  <2>7. ~(Inside(k) /\ Now.open)
    <3> SUFFICES ASSUME Inside(k), Now.open PROVE FALSE
      OBVIOUS
    <3>1. task[k].on = Current
      BY <1>1 DEF Inside
    <3> QED
      BY <1>3, <2>2, <3>1 DEF DbInv, StreamsInOrder, Now
  <2>8. task[k].pc \in Active \cup {"read"}
    BY <1>1 DEF DbInv, Roles
  <2>9. ~Acknowledged(k)' /\ ~Owning(k)'
    BY <1>1, <2>1, <2>5, <2>8 DEF Acknowledged, Owning, Active
  <2>10. k \in Txs =>
            /\ task[k].phase = "resent" => ~inTransaction
            /\ task[k].pc \in Inner /\ r = "refused" => ~inTransaction
    BY <1>1, <2>3 DEF DbInv, Flagged
  <2>11. k \in Txs /\ ~astray /\ task'[k].pc \in {"write", "commit"} => Protected(k)'
    BY <1>1, <2>5 DEF DbInv, Undisturbed, Protected
  <2>12. ~Reopened(k)
    BY <1>1 DEF Reopened
  <2>13. k \in Txs /\ Now.kept => Withdrawn(k)'
    BY <1>1, <2>1, <2>5 DEF DbInv, Abandoned, Withdrawn
  <2> QED
    BY <1>1, <1>3, <2>12, <2>13, <2>1, <2>5, <2>6, <2>7, <2>9, <2>10, <2>11, CallMoves
<1> QED
  BY <1>2, <1>3 DEF Answer, HasAnswer

\* The stream dies under an operation that was carried out.
LEMMA AnswerLostInv ==
    ASSUME DbInv, NEW k \in Tasks, AnswerLost(k)
    PROVE  DbInv'
<1> DEFINE b == Serve(k, Now)
           s == Gone(b.stream, "dropped")
<1>1. task[k].phase \in {"sent", "resent"} /\ streams[task[k].on].state = "alive"
  BY DEF AnswerLost
<1>2. task[k].on = Current /\ b.stream \in Stream
  BY <1>1, Served
<1>3. s \in Stream
  BY <1>2 DEF Gone, Stream
<1>4. /\ s.state = "dropped" /\ ~s.open /\ s.written = {}
      /\ ~s.spoiled /\ s.kept = b.stream.kept
  BY <1>2 DEF Gone, Stream
<1>5. streams' = [streams EXCEPT ![Current] = s] /\ durable' = durable \cup b.writes
  BY <1>2 DEF AnswerLost, Now
<1>6. HasAnswer(k, "dead") /\ UNCHANGED <<inTransaction, queue, astray>>
  BY DEF AnswerLost, HasAnswer
<1>7. faults' \in Nat /\ astray \in BOOLEAN
  BY DEF AnswerLost, DbInv, DbTypeOK
<1> HIDE DEF s
<1> QED
  BY <1>1, <1>3, <1>4, <1>5, <1>6, <1>7, CarriedOut

\* A ROLLBACK fails on a live connection.
LEMMA RollbackFails ==
    ASSUME DbInv, NEW k \in Txs, task[k].pc = "rollback", task[k].phase \in {"sent", "resent"},
           streams[task[k].on].state = "alive", HasAnswer(k, "refused"),
           NEW s \in Stream, s.kept, s.state = Now.state, s.open = Now.open,
           s.written = Now.written, s.spoiled = Now.spoiled, s.reaped = Now.reaped,
           streams' = [streams EXCEPT ![Current] = s],
           UNCHANGED <<durable, inTransaction, queue, astray>>, faults' \in Nat
    PROVE  DbInv'
<1> USE DEF DbInv
<1>k. k \in Tasks /\ k \notin Readers
  BY DatabaseAssumption DEF Tasks
<1>1. streams \in Seq(Stream) /\ Current \in Nat /\ Current > 0 /\ Now \in Stream
  BY DEF DbTypeOK, Current, Now
<1>2. /\ streams' \in Seq(Stream) /\ Current' = Current /\ Now' = s
      /\ \A i \in 1..Current : i # Current => streams'[i] = streams[i]
  BY <1>1 DEF Current, Now
<1>3. /\ task' \in [Tasks -> Task]
      /\ \A j \in Tasks \ {k} : task'[j] = task[j]
      /\ task'[k].pc = task[k].pc /\ task'[k].n = task[k].n
      /\ task'[k].on = task[k].on /\ task'[k].was = task[k].was
      /\ task'[k].result = "refused"
      /\ task[k].phase = "sent" => task'[k].phase = "back"
      /\ task[k].phase = "resent" => task'[k].phase = "final"
      /\ Roles' /\ InTurn'
  <2> HIDE DEF DbInv
  <2> QED
    BY <1>k, <1>2, AnswerMoves
<1>4. /\ \A t \in Txs \ {k} : task'[t] = task[t] /\ task[t].pc \notin Active
      /\ \A t \in Readers : task'[t] = task[t]
  <2>1. task[k].pc \in Active
    BY DEF Active
  <2> QED
    BY <1>k, <1>3, <2>1, OneUnderWay DEF Tasks
<1>5. DbTypeOK'
  BY <1>1, <1>2, <1>3 DEF DbTypeOK
<1>6. StreamsInOrder'
  BY <1>1, <1>2 DEF StreamsInOrder, Now
<1>7. Opened'
  BY <1>2 DEF Opened
<1>8. Abandoned'
  <2>1. Withdrawn(k)'
    BY <1>3 DEF Withdrawn
  <2>2. \A t \in Txs \ {k} : Withdrawn(t)'
    BY <1>4 DEF Withdrawn, Active, Inner
  <2> QED
    BY <2>1, <2>2 DEF Abandoned
<1>9. Flagged'
  <2>1. \A t \in Txs : task'[t].phase \in {"healing", "resent", "final"} => ~inTransaction
    <3>1. \A t \in Txs : task'[t].phase \in {"healing", "resent", "final"}
                            => task[t].phase \in {"healing", "resent", "final"}
      BY <1>3, <1>4
    <3> QED
      BY <3>1 DEF Flagged
  <2>2. \A t \in Txs : task'[t].pc \in Inner => t = k
    BY <1>4 DEF Inner, Active
  <2>3. task'[k].phase # "sent"
    BY <1>3
  <2> QED
    BY <1>2, <2>1, <2>2, <2>3 DEF Flagged
<1>10. WholeIsDurable'
  <2>1. \A t \in Txs : Written(t)' = Written(t) /\ (Acknowledged(t)' => Acknowledged(t))
    BY <1>3, <1>4 DEF Written, Acknowledged
  <2> QED
    BY <2>1 DEF WholeIsDurable
<1>11. Undisturbed'
  <2> SUFFICES ASSUME ~astray PROVE Undisturbed'
    BY DEF Undisturbed
  <2>1. \A t \in Txs : ~Owning(t)' /\ task'[t].pc \notin {"write", "commit"}
    BY <1>3, <1>4 DEF Owning, Active
  <2>2. \A t \in Txs : Written(t)' = Written(t)
    BY DEF Written
  <2> QED
    BY <1>2, <1>4, <2>1, <2>2 DEF Undisturbed
<1> QED
  BY <1>3, <1>5, <1>6, <1>7, <1>8, <1>9, <1>10, <1>11

\* An operation fails on a live connection.
LEMMA AnswerRefusedInv ==
    ASSUME DbInv, NEW k \in Tasks, AnswerRefused(k)
    PROVE  DbInv'
<1>1. /\ task[k].phase \in {"sent", "resent"} /\ streams[task[k].on].state = "alive"
      /\ HasAnswer(k, "refused") /\ UNCHANGED <<durable, inTransaction, queue, astray>>
  BY DEF AnswerRefused, HasAnswer
<1>2. task[k].on = Current /\ Now \in Stream
  BY <1>1, Served
<1>3. faults' \in Nat
  BY DEF AnswerRefused, DbInv, DbTypeOK
<1>4. CASE task[k].pc = "rollback"
  <2>1. streams' = [streams EXCEPT ![Current] = [Now EXCEPT !.kept = TRUE]]
    BY <1>2, <1>4 DEF AnswerRefused, Now
  <2>2. k \in Txs
    BY <1>4 DEF DbInv, Roles, Tasks
  <2> DEFINE s == [Now EXCEPT !.kept = TRUE]
  <2>3. /\ s \in Stream /\ s.kept /\ s.state = Now.state /\ s.open = Now.open
        /\ s.written = Now.written /\ s.spoiled = Now.spoiled /\ s.reaped = Now.reaped
    BY <1>2 DEF Stream
  <2>4. streams' = [streams EXCEPT ![Current] = s]
    BY <2>1
  <2> HIDE DEF s
  <2> QED
    BY <1>1, <1>3, <1>4, <2>2, <2>3, <2>4, RollbackFails
<1>5. CASE task[k].pc # "rollback"
  <2>1. streams' = streams
    <3>1. streams \in Seq(Stream) /\ Current \in 1..Len(streams)
      BY DEF DbInv, DbTypeOK, Current
    <3>2. streams' = [streams EXCEPT ![Current] = streams[Current]]
      BY <1>2, <1>5 DEF AnswerRefused
    <3> QED
      BY <3>1, <3>2
  <2>2. Current' = Current
    BY <2>1 DEF Current
  <2>3. /\ task' \in [Tasks -> Task]
        /\ \A j \in Tasks \ {k} : task'[j] = task[j]
        /\ task'[k].pc = task[k].pc /\ task'[k].n = task[k].n
        /\ task'[k].on = task[k].on /\ task'[k].was = task[k].was
        /\ task'[k].result = "refused"
        /\ task[k].phase = "sent" => task'[k].phase = "back"
        /\ task[k].phase = "resent" => task'[k].phase = "final"
        /\ Roles' /\ InTurn'
    BY <1>1, <2>2, AnswerMoves
  <2>4. queue' \in Seq(Txs)
    BY <1>1 DEF DbInv, DbTypeOK
  <2>5. Inside(k) => Inside(k)' /\ Through(k)' = Through(k)
    BY <1>1, <1>5, <2>3 DEF Inside, Through, Inner
  <2>6. task[k].pc \in Active \cup {"read"}
    BY <1>1 DEF DbInv, Roles
  <2>7. ~Acknowledged(k)' /\ ~Owning(k)' /\ ~Reopened(k)
    BY <1>1, <2>3, <2>6 DEF Acknowledged, Owning, Active, Reopened
  <2>8. k \in Txs /\ task[k].phase = "resent" => ~inTransaction
    BY DEF DbInv, Flagged
  <2>9. k \in Txs /\ ~astray /\ task'[k].pc \in {"write", "commit"} => Protected(k)'
    BY <1>1, <2>3 DEF DbInv, Undisturbed, Protected
  <2>10. k \in Txs /\ Now.kept => Withdrawn(k)'
    BY <1>1, <2>3 DEF DbInv, Abandoned, Withdrawn
  <2> QED
    BY <1>1, <1>3, <1>5, <2>1, <2>3, <2>4, <2>5, <2>7, <2>8, <2>9, <2>10, CallMoves
<1> QED
  BY <1>4, <1>5

-----------------------------------------------------------------------------

\* It holds at the start.
LEMMA DbInit == Init => DbInv
<1> SUFFICES ASSUME Init PROVE DbInv
  OBVIOUS
<1> DEFINE first == [Fresh EXCEPT !.spoiled = astray]
<1>1. /\ streams = <<first>> /\ durable = {} /\ inTransaction = FALSE /\ queue = <<>>
      /\ task = [k \in Tasks |-> Idle] /\ faults = 0 /\ astray \in BOOLEAN
  BY DEF Init
<1>2. /\ first \in Stream /\ first.state = "alive" /\ ~first.open /\ first.written = {}
      /\ ~first.kept /\ ~first.reaped /\ first.spoiled = astray
  BY <1>1 DEF Fresh, Stream
<1> HIDE DEF first
<1>3. Current = 1 /\ Now = first /\ streams \in Seq(Stream)
  BY <1>1, <1>2 DEF Current, Now
<1>4. Idle \in Task
  BY DEF Idle, Task
<1>5. DbTypeOK
  <2>1. task \in [Tasks -> Task]
    BY <1>1, <1>4
  <2>2. queue \in Seq(Txs)
    BY <1>1
  <2>3. /\ durable \in SUBSET (Txs \X Nat) /\ faults \in Nat
        /\ inTransaction \in BOOLEAN /\ astray \in BOOLEAN
    BY <1>1
  <2>4. streams \in Seq(Stream) /\ Current > 0
    BY <1>3
  <2> QED
    BY <2>1, <2>2, <2>3, <2>4 DEF DbTypeOK
<1>6. Roles
  BY <1>1, <1>3 DEF Roles, Idle, Tasks, Active
<1>7. StreamsInOrder
  BY <1>1, <1>2, <1>3 DEF StreamsInOrder
<1>8. \A t \in Txs : task[t].pc = "idle"
  BY <1>1 DEF Tasks, Idle
<1>9. InTurn
  BY <1>8 DEF InTurn, Active
<1>10. Opened
  BY <1>2, <1>3 DEF Opened
<1>a. Abandoned
  BY <1>2, <1>3 DEF Abandoned
<1>11. Flagged
  BY <1>1 DEF Flagged
<1>12. WholeIsDurable
  BY <1>8 DEF WholeIsDurable, Acknowledged
<1>13. Undisturbed
  <2>1. \A t \in Txs : ~Owning(t) /\ task[t].pc = "idle"
    BY <1>8 DEF Owning
  <2>2. \A t \in Txs : Written(t) = {}
    BY <1>1 DEF Written
  <2>3. \A k \in Readers : task[k].phase = "ready"
    BY <1>1 DEF Idle, Tasks
  <2> QED
    BY <1>2, <1>3, <2>1, <2>2, <2>3 DEF Undisturbed
<1> QED
  BY <1>5, <1>6, <1>7, <1>9, <1>10, <1>11, <1>12, <1>13, <1>a DEF DbInv

\* Every step keeps it.
LEMMA DbNext == DbInv /\ [Next]_vars => DbInv'
<1> SUFFICES ASSUME DbInv, [Next]_vars PROVE DbInv'
  OBVIOUS
<1>1. CASE UNCHANGED vars
  <2>1. /\ UNCHANGED <<streams, durable, inTransaction, queue, task, astray, faults>>
        /\ Current' = Current /\ Now' = Now
    BY <1>1 DEF vars, Current, Now
  <2>2. DbTypeOK' /\ Roles' /\ StreamsInOrder' /\ InTurn' /\ Flagged' /\ Abandoned'
    BY <2>1 DEF DbInv, DbTypeOK, Roles, StreamsInOrder, InTurn, Flagged, Reopened,
               Abandoned, Withdrawn
  <2>3. \A t \in Txs : /\ Inside(t)' = Inside(t) /\ Through(t)' = Through(t)
                       /\ Owning(t)' = Owning(t) /\ Protected(t)' = Protected(t)
                       /\ Acknowledged(t)' = Acknowledged(t) /\ Written(t)' = Written(t)
    BY <2>1 DEF Inside, Through, Owning, Protected, Acknowledged, Written
  <2>4. Opened' /\ WholeIsDurable' /\ Undisturbed'
    BY <2>1, <2>3 DEF DbInv, Opened, WholeIsDurable, Undisturbed
  <2> QED
    BY <2>2, <2>4 DEF DbInv
<1>2. ASSUME NEW k \in Tasks, Call(k) PROVE DbInv'
  BY <1>2, CallInv
<1>3. ASSUME NEW k \in Tasks, Step(k) PROVE DbInv'
  <2>1. CASE Issue(k)
    BY <2>1, IssueInv
  <2>2. CASE Answer(k)
    BY <2>2, AnswerInv
  <2>3. CASE Succeed(k)
    BY <2>3, SucceedInv
  <2>4. CASE NothingToRollBack(k)
    BY <2>4, NothingToRollBackInv
  <2>5. CASE TransactionGone(k)
    BY <2>5, TransactionGoneInv
  <2>6. CASE Refused(k)
    BY <2>6, RefusedInv
  <2>7. CASE Reconnect(k)
    BY <2>7, ReconnectInv
  <2>8. CASE Healed(k)
    BY <2>8, HealedInv
  <2>9. CASE Retried(k)
    BY <2>9, RetriedInv
  <2> QED
    BY <1>3, <2>1, <2>2, <2>3, <2>4, <2>5, <2>6, <2>7, <2>8, <2>9 DEF Step
<1>4. ASSUME NEW k \in Tasks, AnswerLost(k) PROVE DbInv'
  BY <1>4, AnswerLostInv
<1>9. ASSUME NEW k \in Tasks, AnswerRefused(k) PROVE DbInv'
  BY <1>9, AnswerRefusedInv
<1>5. ASSUME NEW t \in Txs, Begin(t) PROVE DbInv'
  BY <1>5, BeginInv
<1>6. ASSUME NEW t \in Txs, Throw(t) PROVE DbInv'
  BY <1>6, ThrowInv
<1>7. CASE Drop
  BY <1>7, DropInv
<1>8. CASE Reap
  BY <1>8, ReapInv
<1> QED
  BY <1>1, <1>2, <1>3, <1>4, <1>5, <1>6, <1>7, <1>8, <1>9 DEF Next

\* The queue, the connections, the flag and what is durable agree, whatever the
\* server does to the streams (withTransaction, runTransaction and
\* ReconnectingDatabase.attempt).
THEOREM DbInvariant == Spec => []DbInv
BY DbInit, DbNext, PTL DEF Spec

\* BEGIN finds a transaction open on its connection, and the flag is up when nobody
\* is in one, only after a ROLLBACK that failed; and what such a transaction wrote
\* nobody adds to or commits.
THEOREM TransactionsTakeTurns == Spec => []OneTransactionAtATime
<1>1. DbInv => OneTransactionAtATime
  <2> SUFFICES ASSUME DbInv PROVE OneTransactionAtATime
    OBVIOUS
  <2>1. NeverBeginsInside
    <3> SUFFICES ASSUME NEW t \in Txs, task[t].pc = "begin",
                        task[t].phase \in {"sent", "resent"}, streams[task[t].on].open
                 PROVE  streams[task[t].on].kept
      BY DEF NeverBeginsInside
    <3>1. Now.open => Now.kept
      BY NotOpen DEF Inside, Inner, Active
    <3>2. task[t].on \in 1..Current /\ Current \in Nat
      BY DEF DbInv, Roles, Tasks, DbTypeOK, Current
    <3>3. task[t].on = Current
      BY <3>2 DEF DbInv, StreamsInOrder
    <3> QED
      BY <3>1, <3>3 DEF Now
  <2>2. FlagIsClear
    BY DEF DbInv, Flagged, Reopened, FlagIsClear, Inner, Settled, Now
  <2>3. NeverJoined
    <3> SUFFICES ASSUME NEW t \in Txs, task[t].pc \in {"write", "commit"},
                        NEW w \in Now.written
                 PROVE  w[1] = t
      BY DEF NeverJoined, Now
    <3>1. ~Now.kept
      BY NotKept DEF Withdrawn, Inner
    <3>2. Current \in 1..Current /\ Now \in Stream
      BY DEF DbInv, DbTypeOK, Current, Now
    <3>3. Now.open
      BY <3>2 DEF DbInv, StreamsInOrder, Now
    <3>4. PICK u \in Txs : /\ Inside(u)
                           /\ \A v \in Txs, i \in Nat : <<v, i>> \in Now.written => v = u
      BY <3>1, <3>3 DEF DbInv, Opened
    <3>5. task[u].pc \in Active /\ task[t].pc \in Active
      BY <3>4 DEF Inside, Inner, Active
    <3>6. u = t
      BY <3>5, OneUnderWay DEF DbInv
    <3>7. w \in Txs \X Nat
      BY <3>2 DEF Stream
    <3> QED
      BY <3>4, <3>6, <3>7
  <2> QED
    BY <2>1, <2>2, <2>3 DEF OneTransactionAtATime
<1> QED
  BY <1>1, DbInvariant, PTL

\* A transaction whose call returns is durable to its last statement.
THEOREM CommitsAreDurable == Spec => []CommittedMeansDurable
<1>1. DbInv => CommittedMeansDurable
  BY DEF DbInv, WholeIsDurable, Acknowledged, CommittedMeansDurable
<1> QED
  BY <1>1, DbInvariant, PTL

\* Unless a read outside a transaction meddles with its connection, a
\* transaction is durable as a whole or not at all, through any number of
\* dropped streams, discarded transactions, lost answers and retries.
THEOREM TransactionsAreAtomic == Spec => []AllOrNothing
<1>1. DbInv => AllOrNothing
  BY DEF DbInv, Undisturbed, AllOrNothing
<1> QED
  BY <1>1, DbInvariant, PTL
=============================================================================
