-------------------------- MODULE ReservedDatabase --------------------------
(***************************************************************************)
(* The one database handle of a process (db.ts): withTransaction's queue,  *)
(* and ReconnectingDatabase, which replaces a stream the server dropped.   *)
(* Transactions wait for each other; reads outside a transaction do not,   *)
(* and share the connection with whatever transaction is open on it.       *)
(*                                                                         *)
(* An operation is four steps: the call (it notes whether a transaction is *)
(* open), the server, the answer, and, when the stream was dead, the fresh *)
(* connection.  Anything may happen between them.                          *)
(***************************************************************************)
EXTENDS Naturals, Sequences

CONSTANTS Txs,         \* calls of withTransaction
          Readers,     \* reads outside a transaction
          Writes,      \* the statements of a transaction
          MaxFaults    \* bound on what the server does to the streams

ASSUME DatabaseAssumption ==
    /\ Txs \cap Readers = {}
    /\ Writes \in Nat \ {0}
    /\ MaxFaults \in Nat

Tasks == Txs \cup Readers

VARIABLES streams,        \* the connections opened so far; the last is current
          durable,        \* the writes that are committed
          inTransaction,  \* what the wrapper believes of the current connection
          queue,          \* transactionQueue
          task,
          faults,         \* how many faults there were
          astray          \* the first connection is spoiled, or a read replaced
                          \* the connection, cleared the flag or got the error of
                          \* a transaction under way

vars == <<streams, durable, inTransaction, queue, task, faults, astray>>

\* alive, or dropped by the server, or closed by reconnect.  spoiled: a write
\* ran on it outside any transaction, and the next BEGIN will open none.
\* reaped: the server discarded a transaction and has not said so yet.  kept: a
\* ROLLBACK failed on it, and what it was to undo is still there.
Fresh == [state |-> "alive", open |-> FALSE, written |-> {},
          spoiled |-> FALSE, reaped |-> FALSE, kept |-> FALSE]
Gone(s, state) == [s EXCEPT !.state = state, !.open = FALSE, !.written = {},
                            !.spoiled = FALSE, !.reaped = FALSE]

Current == Len(streams)

Idle == [pc |-> "idle", n |-> 1, phase |-> "ready", on |-> 1, was |-> FALSE,
         result |-> "none"]

\* openReservedDatabase ends with its first connection, on which it has made
\* schema_migrations outside any transaction.
Init ==
    /\ astray \in BOOLEAN
    /\ streams = <<[Fresh EXCEPT !.spoiled = astray]>>
    /\ durable = {}
    /\ inTransaction = FALSE
    /\ queue = <<>>
    /\ task = [k \in Tasks |-> Idle]
    /\ faults = 0

-----------------------------------------------------------------------------
(* withTransaction and runTransaction.                                     *)

Settled == {"committed", "failed", "done"}

\* A transaction joins the queue; a read goes ahead.
Call(k) ==
    /\ task[k].pc = "idle"
    /\ task' = [task EXCEPT ![k].pc = IF k \in Txs THEN "queued" ELSE "read"]
    /\ queue' = IF k \in Txs THEN Append(queue, k) ELSE queue
    /\ UNCHANGED <<streams, durable, inTransaction, faults, astray>>

Turn_Anytime(t) == TRUE
\* The transactions before it have ended, well or badly.
Turn(t) == Head(queue) = t

Begin(t) ==
    /\ task[t].pc = "queued"
    /\ Turn(t)
    /\ task' = [task EXCEPT ![t].pc = "begin"]
    /\ UNCHANGED <<streams, durable, inTransaction, queue, faults, astray>>

\* fn throws of its own accord (a refused seat).
Throw(t) ==
    /\ task[t].pc = "write" /\ task[t].phase = "ready"
    /\ task' = [task EXCEPT ![t].pc = "rollback"]
    /\ UNCHANGED <<streams, durable, inTransaction, queue, faults, astray>>

After(k) ==
    CASE task[k].pc = "read" -> "done"
      [] task[k].pc = "begin" -> "write"
      [] task[k].pc = "write" -> IF task[k].n < Writes THEN "write" ELSE "commit"
      [] task[k].pc = "commit" -> "committed"
      [] task[k].pc = "rollback" -> "failed"

\* A failed BEGIN and a failed ROLLBACK end the transaction, anything else in
\* it is followed by a ROLLBACK.
AfterFailure(k) == IF task[k].pc \in {"write", "commit"} THEN "rollback" ELSE "failed"

Leave_OnlyCommitted(k, pc) ==
    IF pc = "committed" THEN Tail(queue) ELSE queue

\* Once the transaction whose turn it is has settled the next one may run.
Leave(k, pc) ==
    IF pc \in Settled /\ k \in Txs THEN Tail(queue) ELSE queue

Continue(k, pc) ==
    /\ task' = [task EXCEPT ![k].pc = pc, ![k].phase = "ready", ![k].result = "none",
                            ![k].on = 1, ![k].was = FALSE,
                            ![k].n = IF pc = "write" /\ task[k].pc = "write" THEN @ + 1 ELSE @]
    /\ queue' = Leave(k, pc)

-----------------------------------------------------------------------------
(* The server, as db.ts describes it.                                      *)

\* What operation k does to stream s: the answer, the stream after it, and
\* the writes it makes durable.
Serve(k, s) ==
    LET w == <<k, task[k].n>> IN
    IF s.reaped
    THEN [result |-> IF task[k].pc = "rollback" THEN "nothing" ELSE "gone",
          stream |-> [s EXCEPT !.reaped = FALSE], writes |-> {}]
    ELSE CASE task[k].pc = "read" -> [result |-> "ok", stream |-> s, writes |-> {}]
      [] task[k].pc = "begin" ->
           IF s.open THEN [result |-> "refused", stream |-> s, writes |-> {}]
           ELSE [result |-> "ok", writes |-> {},
                 stream |-> [s EXCEPT !.open = ~s.spoiled, !.spoiled = FALSE,
                                      !.kept = FALSE]]
      [] task[k].pc = "write" ->
           IF s.open
           THEN [result |-> "ok", stream |-> [s EXCEPT !.written = @ \cup {w}], writes |-> {}]
           ELSE [result |-> "ok", stream |-> [s EXCEPT !.spoiled = TRUE], writes |-> {w}]
      [] task[k].pc = "commit" ->
           [result |-> IF s.open THEN "ok" ELSE "gone", writes |-> s.written,
            stream |-> [s EXCEPT !.open = FALSE, !.written = {}]]
      [] task[k].pc = "rollback" ->
           [result |-> IF s.open THEN "ok" ELSE "nothing", writes |-> {},
            stream |-> [s EXCEPT !.open = FALSE, !.written = {}]]

\* The operation reaches its stream.
Answer(k) ==
    LET s == streams[task[k].on]
        a == Serve(k, s) IN
    /\ task[k].phase \in {"sent", "resent"}
    /\ \/ /\ s.state = "alive"
          /\ streams' = [streams EXCEPT ![task[k].on] = a.stream]
          /\ durable' = durable \cup a.writes
          /\ task' = [task EXCEPT ![k].phase = IF @ = "sent" THEN "back" ELSE "final",
                                  ![k].result = a.result]
          /\ astray' = (astray \/ (k \in Readers /\ a.result = "gone"))
       \/ /\ s.state # "alive"
          /\ \E result \in IF s.state = "dropped" THEN {"dead"} ELSE {"dead", "refused"} :
                task' = [task EXCEPT ![k].phase = IF @ = "sent" THEN "back" ELSE "final",
                                     ![k].result = result]
          /\ UNCHANGED <<streams, durable, astray>>
    /\ UNCHANGED <<inTransaction, queue, faults>>

\* It is carried out, and the stream dies before the answer is back.
AnswerLost(k) ==
    LET s == streams[task[k].on]
        a == Serve(k, s) IN
    /\ task[k].phase \in {"sent", "resent"}
    /\ s.state = "alive"
    /\ faults < MaxFaults /\ faults' = faults + 1
    /\ streams' = [streams EXCEPT ![task[k].on] = Gone(a.stream, "dropped")]
    /\ durable' = durable \cup a.writes
    /\ task' = [task EXCEPT ![k].phase = IF @ = "sent" THEN "back" ELSE "final",
                            ![k].result = "dead"]
    /\ UNCHANGED <<inTransaction, queue, astray>>

\* It fails, on a stream that lives, and changes nothing: a ROLLBACK too, whose
\* transaction then stays open.
AnswerRefused(k) ==
    LET s == streams[task[k].on] IN
    /\ task[k].phase \in {"sent", "resent"}
    /\ s.state = "alive"
    /\ faults < MaxFaults /\ faults' = faults + 1
    /\ streams' = [streams EXCEPT ![task[k].on] =
                      IF task[k].pc = "rollback" THEN [s EXCEPT !.kept = TRUE] ELSE s]
    /\ task' = [task EXCEPT ![k].phase = IF @ = "sent" THEN "back" ELSE "final",
                            ![k].result = "refused"]
    /\ UNCHANGED <<durable, inTransaction, queue, astray>>

\* The server drops an idle stream, and a transaction open on it with it.
Drop ==
    /\ faults < MaxFaults /\ faults' = faults + 1
    /\ streams[Current].state = "alive"
    /\ streams' = [streams EXCEPT ![Current] = Gone(@, "dropped")]
    /\ UNCHANGED <<durable, inTransaction, queue, task, astray>>

\* The server discards a transaction that was open too long, on a live stream.
Reap ==
    /\ faults < MaxFaults /\ faults' = faults + 1
    /\ streams[Current].state = "alive" /\ streams[Current].open
    /\ streams' = [streams EXCEPT ![Current] = [Gone(@, "alive") EXCEPT !.reaped = TRUE]]
    /\ UNCHANGED <<durable, inTransaction, queue, task, astray>>

-----------------------------------------------------------------------------
(* ReconnectingDatabase.attempt.                                           *)

Issue(k) ==
    /\ task[k].pc \in {"read", "begin", "write", "commit", "rollback"}
    /\ task[k].phase = "ready"
    /\ task' = [task EXCEPT ![k].phase = "sent", ![k].on = Current,
                            ![k].was = inTransaction]
    /\ UNCHANGED <<streams, durable, inTransaction, queue, faults, astray>>

Believed_NotOnRollback(k, otherwise) ==
    IF task[k].pc = "begin" THEN TRUE ELSE IF task[k].pc = "commit" THEN FALSE ELSE otherwise

Believed(k, otherwise) ==
    CASE task[k].pc = "begin" -> TRUE
      [] task[k].pc \in {"commit", "rollback"} -> FALSE
      [] OTHER -> otherwise

Succeed(k) ==
    /\ task[k].phase = "back"
    /\ task[k].result = "ok"
    /\ inTransaction' = Believed(k, inTransaction)
    /\ Continue(k, After(k))
    /\ UNCHANGED <<streams, durable, faults, astray>>

\* A ROLLBACK that finds nothing to roll back has what it wanted.
NothingToRollBack(k) ==
    /\ task[k].phase = "back"
    /\ task[k].result = "nothing"
    /\ inTransaction' = FALSE
    /\ Continue(k, After(k))
    /\ UNCHANGED <<streams, durable, faults, astray>>

TransactionGone_CommitIsFine(k) ==
    /\ task[k].phase = "back"
    /\ task[k].result = "gone"
    /\ inTransaction' = IF task[k].was THEN FALSE ELSE inTransaction
    /\ Continue(k, IF task[k].pc = "commit" THEN "committed" ELSE AfterFailure(k))
    /\ UNCHANGED <<streams, durable, faults, astray>>

\* The server had ended the transaction: the flag follows, the error stands.
\* The report a transaction was due may reach a read instead.
TransactionGone(k) ==
    /\ task[k].phase = "back"
    /\ task[k].result = "gone"
    /\ inTransaction' = IF task[k].was THEN FALSE ELSE inTransaction
    /\ Continue(k, AfterFailure(k))
    /\ UNCHANGED <<streams, durable, faults, astray>>

\* An ordinary error is the caller's, and the flag stays as it is: after a
\* ROLLBACK that failed it is up, like the transaction.
Refused(k) ==
    /\ task[k].phase = "back"
    /\ task[k].result = "refused"
    /\ Continue(k, AfterFailure(k))
    /\ UNCHANGED <<streams, durable, inTransaction, faults, astray>>

\* A read, outside any transaction, while one is under way.
Meddles(k) ==
    /\ k \in Readers
    /\ \E t \in Txs : task[t].pc \in {"begin", "write", "commit", "rollback"}

\* reconnect: whatever connection is current is closed, whichever one failed,
\* and whoever's transaction is open on it.
Reconnect(k) ==
    /\ task[k].phase = "back"
    /\ task[k].result = "dead"
    /\ streams' = Append([streams EXCEPT ![Current] =
                             IF @.state = "alive" THEN Gone(@, "closed") ELSE @], Fresh)
    /\ inTransaction' = FALSE
    /\ astray' = (astray \/ Meddles(k))
    /\ task' = [task EXCEPT ![k].phase = "healing", ![k].on = Current + 1]
    /\ UNCHANGED <<durable, queue, faults>>

MayRetry_Always(k) == TRUE
\* In a transaction the statement is not run again: the new connection does
\* not know the transaction.
MayRetry(k) == ~task[k].was

\* The pragma on the new connection is back.  It may have failed itself.
Healed(k) ==
    /\ task[k].phase = "healing"
    /\ \/ /\ streams[task[k].on].state # "alive"
          /\ Continue(k, AfterFailure(k))
          /\ UNCHANGED inTransaction
          /\ UNCHANGED astray
       \/ /\ ~MayRetry(k)
          /\ inTransaction' = FALSE
          /\ astray' = (astray \/ Meddles(k))
          /\ Continue(k, AfterFailure(k))
       \/ /\ streams[task[k].on].state = "alive"
          /\ MayRetry(k)
          /\ task' = [task EXCEPT ![k].phase = "resent", ![k].on = Current]
          /\ UNCHANGED <<inTransaction, queue, astray>>
    /\ UNCHANGED <<streams, durable, faults>>

\* The second attempt stands, whatever comes of it.
Retried(k) ==
    /\ task[k].phase = "final"
    /\ \/ /\ task[k].result = "ok"
          /\ inTransaction' = (inTransaction \/ task[k].pc = "begin")
          /\ Continue(k, After(k))
       \/ /\ task[k].result # "ok"
          /\ Continue(k, AfterFailure(k))
          /\ UNCHANGED inTransaction
    /\ UNCHANGED <<streams, durable, faults, astray>>

-----------------------------------------------------------------------------

Step(k) ==
    \/ Issue(k) \/ Answer(k) \/ Succeed(k) \/ NothingToRollBack(k) \/ TransactionGone(k)
    \/ Refused(k) \/ Reconnect(k) \/ Healed(k) \/ Retried(k)

Next ==
    \/ \E k \in Tasks : Call(k) \/ Step(k) \/ AnswerLost(k) \/ AnswerRefused(k)
    \/ \E t \in Txs : Begin(t) \/ Throw(t)
    \/ Drop \/ Reap

Spec == Init /\ [][Next]_vars

\* Every promise of the driver settles, and the event loop runs what waits.
FairSpec ==
    /\ Spec
    /\ \A k \in Tasks : WF_vars(Step(k))
    /\ \A t \in Txs : WF_vars(Begin(t))

-----------------------------------------------------------------------------
(* Properties.                                                             *)

Written(t) == {i \in 1..Writes : <<t, i>> \in durable}

\* Success is never reported for less than the whole transaction, whatever the
\* streams did and whoever reconnected (runTransaction, attempt).
CommittedMeansDurable ==
    \A t \in Txs : task[t].pc = "committed" => Written(t) = 1..Writes

\* All of a transaction's writes are there or none of them, through dropped
\* streams, discarded transactions, lost answers, failed rollbacks and retries,
\* unless the opening spoiled the first connection or a read outside the
\* transaction replaced its connection, cleared its flag or got its error.
AllOrNothing == ~astray => \A t \in Txs : Written(t) \in {{}, 1..Writes}

\* BEGIN never finds a transaction open on its connection, however the one before
\* it ended, but for one whose ROLLBACK failed (the queue, ROLLBACK on any error).
NeverBeginsInside ==
    \A t \in Txs :
        /\ task[t].pc = "begin" /\ task[t].phase \in {"sent", "resent"}
        /\ streams[task[t].on].open
        => streams[task[t].on].kept

\* When nobody is in a transaction the wrapper knows it, so that the next
\* operation may be retried, but for a connection on which a ROLLBACK failed:
\* there the flag stays up with the transaction (attempt).
FlagIsClear ==
    /\ \A t \in Txs : task[t].pc \in {"idle", "queued"} \cup Settled
    /\ inTransaction
    => streams[Current].kept

\* A transaction never adds to what another left open, and never commits it: a
\* transaction whose ROLLBACK failed is joined by nobody (runTransaction).
NeverJoined ==
    \A t \in Txs : task[t].pc \in {"write", "commit"} =>
        \A w \in streams[Current].written : w[1] = t

\* One transaction at a time on the handle, and no trace of one after it; if its
\* ROLLBACK itself fails, the flag and the server agree that it is still open, and
\* nobody goes on in it (withTransaction's queue, attempt's flag).
OneTransactionAtATime == NeverBeginsInside /\ FlagIsClear /\ NeverJoined

\* A transaction that failed, or whose rollback failed, does not keep the ones
\* behind it waiting: every call ends.
EveryCallSettles ==
    \A k \in Tasks : (task[k].pc # "idle") ~> (task[k].pc \in Settled)
=============================================================================
