-------------------------- MODULE ReservedHandler --------------------------
(***************************************************************************)
(* createReservedHandler: what the buyer's app sees of a request of        *)
(* ReservedOrder.  A process answers on the open connection, by a deadline *)
(* it sets itself (syncResponses), or acks at once and posts the answer to *)
(* a callback URL later.  Neither cancels the work behind the answer.      *)
(***************************************************************************)
EXTENDS ReservedOrder

CONSTANTS SyncProcs,    \* processes that run with syncResponses on
          SyncTimeout,  \* their deadline; 0 is none
          Malformed,    \* requests that may come with a body validation refuses
          Unspeakable   \* requests whose answer and last resort may both fail
                        \* the published schemas

ASSUME HandlerAssumption ==
    /\ SyncProcs \subseteq Procs
    /\ SyncTimeout \in Nat
    /\ Malformed \subseteq Ids
    /\ Unspeakable \subseteq Ids

VARIABLE http   \* per request: the connection, its deadline, and the sale its
                \* transaction already had on arrival

handlerVars == <<holds, lock, bookings, rows, clock, req, confirmations, http>>

Open == {"open", "acked", "posting"}
Statuses == Open \cup {"none", "200", "400", "500", "504",
                       "posted", "undelivered", "silent", "dropped"}

NoExchange == [status |-> "none", deadline |-> None, sale |-> {}]

HandlerInit == OrderInit /\ http = [r \in Ids |-> NoExchange]

-----------------------------------------------------------------------------
\* handle: the wrong action, or a body its schema refuses.
Nack(r) ==
    /\ r \in Malformed
    /\ http[r].status = "none"
    /\ http' = [http EXCEPT ![r].status = "400"]
    /\ UNCHANGED orderVars

\* resolveCallback, what exchange x may become when the work of r settles: its
\* answer, or the last resort in place of one that fails its own schema, goes
\* out on the connection or is made ready to post.  A connection that has had
\* its deadline is answered already.
Settle(r, x) ==
    LET said == CASE x.status = "open" -> "200" [] x.status = "acked" -> "posting"
                  [] OTHER -> x.status
        unsaid == CASE x.status = "open" -> "500" [] x.status = "acked" -> "silent"
                    [] OTHER -> x.status
    IN {[x EXCEPT !.status = s] :
            s \in {said} \cup (IF r \in Unspeakable THEN {unsaid} ELSE {})}

\* The handler's part of a step of r: nothing until the work settles.
Respond(r, x) ==
    \E y \in IF req'[r].pc = "done" THEN Settle(r, x) ELSE {x} :
        http' = [http EXCEPT ![r] = y]

Connection_NoDeadline(i) == [NoExchange EXCEPT
    !.status = IF i.proc \in SyncProcs THEN "open" ELSE "acked",
    !.sale = BookingOf(i.txn)]

\* The exchange a valid request opens: held open against the deadline, or
\* acked with 202 and left to the callback.
Connection(i) == [NoExchange EXCEPT
    !.status = IF i.proc \in SyncProcs THEN "open" ELSE "acked",
    !.deadline = IF i.proc \in SyncProcs /\ SyncTimeout > 0
                 THEN clock + SyncTimeout ELSE None,
    !.sale = BookingOf(i.txn)]

\* handle: a valid request.  (A request arrives while MaxClock leaves its
\* deadline time to come.)
Handle(r, i) ==
    /\ http[r].status = "none"
    /\ i.proc \in SyncProcs => clock + SyncTimeout <= MaxClock
    /\ Arrive(r, i)
    /\ Respond(r, Connection(i))

\* The work goes on to its next await, or settles and is answered.
Serve(r) == RequestStep(r) /\ Respond(r, http[r])

\* A statement the request awaits throws: its transaction is rolled back, and
\* buildCallback answers for it.
Statements == Steps \ {"join", "await", "resolve", "instant"}
Fault(r) ==
    /\ req[r].pc \in Statements
    /\ Answer(r, "INTERNAL-ERROR", None)
    /\ Respond(r, http[r])
    /\ UNCHANGED storeVars

\* withDeadline: the connection is answered 504.  The work is not stopped.
Deadline(r) ==
    /\ http[r].status = "open"
    /\ http[r].deadline # None /\ http[r].deadline <= clock
    /\ http' = [http EXCEPT ![r].status = "504"]
    /\ UNCHANGED orderVars

\* dispatchCallback: the post is acknowledged, or it times out, fails, or comes
\* back without an ACK.
PostEnds == {"posted", "undelivered"}

\* answerAction: the callback is posted once, after its delay.  A post that
\* fails is logged and never tried again.
Dispatch(r) ==
    /\ http[r].status = "posting"
    /\ \E s \in PostEnds : http' = [http EXCEPT ![r].status = s]
    /\ UNCHANGED orderVars

\* A process dies with the connections and the callbacks it still owed.
HandlerCrash(p) ==
    /\ Crash(p)
    /\ http' = [r \in Ids |-> IF req[r].proc = p /\ http[r].status \in Open
                              THEN [http[r] EXCEPT !.status = "dropped"]
                              ELSE http[r]]

HandlerTick == ClockTick /\ UNCHANGED http

HandlerNext ==
    \/ \E r \in Ids : Nack(r)
    \/ \E r \in Ids : \E i \in Inputs[r] : Handle(r, i)
    \/ \E r \in Ids : Serve(r) \/ Fault(r) \/ Deadline(r) \/ Dispatch(r)
    \/ \E D \in SUBSET Departures, now \in 0..clock : Search(D, now) /\ UNCHANGED http
    \/ \E k \in Ids : \E S \in (SUBSET BookedSeats(k)) \ {{}} :
          Cancel(k, S) /\ UNCHANGED http
    \/ \E p \in Mortal : HandlerCrash(p)
    \/ HandlerTick

\* Timers fire and posts end, by their own timeout if by nothing else.  Nothing
\* is assumed of the database: a request may stay at an await for ever.
HandlerSpec ==
    /\ HandlerInit /\ [][HandlerNext]_handlerVars
    /\ WF_handlerVars(HandlerTick)
    /\ \A r \in Ids : WF_handlerVars(Deadline(r)) /\ WF_handlerVars(Dispatch(r))

-----------------------------------------------------------------------------
(* Properties.                                                             *)

\* "The request may be retried": whatever the buyer was told the first time
\* (504, 500, a last resort, nothing), a confirm that arrives once the
\* transaction has its sale is answered with that sale, or with an internal
\* error, and never with a refusal or another order.
RetryFindsTheSale ==
    \A r \in Ids :
        KindOf[r] = "confirm" /\ req[r].pc = "done" /\ http[r].sale # {}
            => \/ req[r].answer = "OK" /\ req[r].order \in http[r].sale
               \/ req[r].answer \in {"INTERNAL-ERROR", "BAD-REQUEST"}

\* A connection held open is always answered, though a statement behind it may
\* never return: by its deadline if by nothing else.
EveryConnectionIsAnswered ==
    \A r \in Ids :
        (http[r].status = "open")
            ~> (http[r].status \in {"200", "500", "504", "dropped"})

\* As long as the statements return, a request that was acked is followed up
\* by a post, a confirm that joined another included: silence is left for an
\* answer with no publishable form and for a process that died.
EveryAckIsFollowedUp ==
    (\A r \in Ids : WF_handlerVars(Serve(r) \/ Fault(r))) =>
        \A r \in Ids :
            (http[r].status = "acked")
                ~> (http[r].status \in {"posted", "undelivered", "silent", "dropped"})
=============================================================================
