---------------------------- MODULE FleetManifest ----------------------------
(***************************************************************************)
(* The push of a departure's seat counts to the fleet simulator            *)
(* (order.ts startManifestPush, publishManifestFor; fleetManifest.ts).     *)
(* A push is started after the sale or the cancellation committed, is not  *)
(* waited for, and is bounded by a timeout.  It notes the instant it       *)
(* starts, reads the seats later, and sends PUT with that instant, or      *)
(* DELETE, which carries none, when no seat is claimed.                    *)
(*                                                                         *)
(* One departure.  Holds come and go without a push; the simulator is the  *)
(* other repository's, as the comments here describe it.                   *)
(***************************************************************************)
EXTENDS Naturals, FiniteSets

CONSTANTS Seats,      \* each is held, sold and cancelled by one booking
          MaxPushes,  \* bound on the sales and cancellations
          MaxClock    \* bound on the instants the pushes start at

ASSUME FleetAssumption == MaxPushes \in Nat /\ MaxClock \in Nat /\ IsFiniteSet(Seats)

VARIABLES clock,
          seat,       \* the seat's claim in the store
          change,     \* the request that is selling or cancelling the seat
          push,       \* the pushes: one a sale, one a cancellation
          net,        \* requests on their way to the simulator
          shown,      \* the manifest the simulator holds
          lost,       \* a push failed or its request was lost; at most one does
          crossed     \* a DELETE was on its way together with another request

vars == <<clock, seat, change, push, net, shown, lost, crossed>>

Pushes == Seats \X {"sale", "cancellation"}
Nothing == [asOf |-> 0, booked |-> 0]
NotStarted == [stage |-> "none", asOf |-> 0]

Init ==
    /\ clock = 1
    /\ seat = [s \in Seats |-> "FREE"]
    /\ change = [s \in Seats |-> "none"]
    /\ push = [p \in Pushes |-> NotStarted]
    /\ net = {}
    /\ shown = Nothing
    /\ lost = FALSE
    /\ crossed = FALSE

Booked == {s \in Seats : seat[s] = "BOOKED"}
Claims == {s \in Seats : seat[s] # "FREE"}

-----------------------------------------------------------------------------
(* The store, and the requests that change it.                             *)

\* A hold is placed, or runs out.  Neither starts a push.
Hold(s) ==
    /\ change[s] = "none"
    /\ seat' = [seat EXCEPT ![s] = IF @ = "FREE" THEN "HELD" ELSE "FREE"]
    /\ seat[s] \in {"FREE", "HELD"}
    /\ UNCHANGED <<clock, change, push, net, shown, lost, crossed>>

\* A confirm of the held seat, or the cancellation of the one it sold.
Request(s) ==
    /\ Cardinality({t \in Seats : change[t] # "none"})
         + Cardinality({t \in Seats : change[t] \in {"cancelling", "cancelled"}}) < MaxPushes
    /\ \/ /\ change[s] = "none" /\ seat[s] = "HELD"
          /\ change' = [change EXCEPT ![s] = "selling"]
       \/ /\ change[s] = "sold" /\ push[<<s, "sale">>].stage # "none"
          /\ change' = [change EXCEPT ![s] = "cancelling"]
    /\ UNCHANGED <<clock, seat, push, net, shown, lost, crossed>>

\* The transaction of the change commits.
Commit(s) ==
    /\ \/ change[s] = "selling" /\ change' = [change EXCEPT ![s] = "sold"]
       \/ change[s] = "cancelling" /\ change' = [change EXCEPT ![s] = "cancelled"]
    /\ seat' = [seat EXCEPT ![s] = IF change[s] = "selling" THEN "BOOKED" ELSE "FREE"]
    /\ UNCHANGED <<clock, push, net, shown, lost, crossed>>

-----------------------------------------------------------------------------
(* startManifestPush and publishManifestFor.                               *)

MayStart_BeforeCommit(p) ==
    change[p[1]] \in IF p[2] = "sale" THEN {"selling", "sold"} ELSE {"cancelling", "cancelled"}

\* Started when the change is committed, and not awaited.
MayStart(p) == change[p[1]] = IF p[2] = "sale" THEN "sold" ELSE "cancelled"

\* asOf is the instant now: that of the last push, or a later one.
Start(p) ==
    /\ push[p].stage = "none"
    /\ MayStart(p)
    /\ clock' \in {clock, clock + 1} /\ clock' <= MaxClock
    /\ push' = [push EXCEPT ![p] = [stage |-> "reading", asOf |-> clock']]
    /\ UNCHANGED <<seat, change, net, shown, lost, crossed>>

\* manifestSeatCounts, and which of the two requests is sent.
Message(p) ==
    IF Claims = {} THEN [by |-> p, put |-> FALSE, asOf |-> 0, booked |-> 0]
    ELSE [by |-> p, put |-> TRUE, asOf |-> push[p].asOf, booked |-> Cardinality(Booked)]

Send(p) ==
    /\ push[p].stage = "reading"
    /\ push' = [push EXCEPT ![p].stage = "sent"]
    /\ net' = net \cup {Message(p)}
    /\ crossed' = (crossed \/ \E m \in net : ~m.put \/ ~Message(p).put)
    /\ UNCHANGED <<clock, seat, change, shown, lost>>

\* The service, its seat map or the claims cannot be read: logged, not retried.
ReadFails(p) ==
    /\ push[p].stage = "reading"
    /\ ~lost
    /\ push' = [push EXCEPT ![p].stage = "settled"]
    /\ lost' = TRUE
    /\ UNCHANGED <<clock, seat, change, net, shown, crossed>>

TimesOut_Never(p) == FALSE
\* FLEET_MANIFEST_TIMEOUT_MS, or a failure to connect.  The request may still
\* arrive after it was given up.
TimesOut(p) == push[p].stage = "sent"

Settle(p) ==
    /\ push[p].stage = "answered" \/ TimesOut(p)
    /\ push' = [push EXCEPT ![p].stage = "settled"]
    /\ UNCHANGED <<clock, seat, change, net, shown, lost, crossed>>

-----------------------------------------------------------------------------
(* The network and the simulator.                                          *)

\* A PUT that is not strictly newer than what is held is discarded; a DELETE
\* forgets what is held, and its instant.
Arrive(m) ==
    /\ m \in net
    /\ net' = net \ {m}
    /\ shown' = IF ~m.put THEN Nothing
                ELSE IF m.asOf > shown.asOf THEN [asOf |-> m.asOf, booked |-> m.booked]
                ELSE shown
    /\ push' = [push EXCEPT ![m.by].stage = IF @ = "sent" THEN "answered" ELSE @]
    /\ UNCHANGED <<clock, seat, change, lost, crossed>>

Lose(m) ==
    /\ m \in net
    /\ ~lost
    /\ net' = net \ {m}
    /\ lost' = TRUE
    /\ UNCHANGED <<clock, seat, change, push, shown, crossed>>

Next ==
    \/ \E s \in Seats : Hold(s) \/ Request(s) \/ Commit(s)
    \/ \E p \in Pushes : Start(p) \/ Send(p) \/ ReadFails(p) \/ Settle(p)
    \/ \E m \in net : Arrive(m) \/ Lose(m)

Spec == Init /\ [][Next]_vars

\* The event loop runs what waits, and the timer of a sent request fires.
FairSpec == Spec /\ \A p \in Pushes : WF_vars(Send(p)) /\ WF_vars(Settle(p))

-----------------------------------------------------------------------------
(* Properties.                                                             *)

\* Every change is committed and pushed, and nothing is on its way.
Quiet ==
    /\ net = {}
    /\ \A s \in Seats : change[s] \notin {"selling", "cancelling"}
    /\ \A p \in Pushes : push[p].stage # "reading" /\ (MayStart(p) => push[p].stage # "none")

DistinctInstants ==
    \A p, q \in Pushes : p # q /\ push[p].asOf > 0 => push[p].asOf # push[q].asOf

\* When the pushes are over the simulator shows what is booked, however they
\* overtook each other and whichever change committed first: the newest push
\* read the seats after the last change (startManifestPush's claim).  Except
\* when a push was lost, when two started in the same millisecond, and when a
\* DELETE, which has no instant to be ordered by, crossed another request.
ManifestIsCurrent ==
    Quiet /\ DistinctInstants /\ ~lost /\ ~crossed => shown.booked = Cardinality(Booked)

\* A simulator that never answers keeps no push open: manifestPushesSettled
\* resolves (send's timeout).
PushesSettle ==
    \A p \in Pushes : push[p].stage # "none" ~> push[p].stage = "settled"
=============================================================================
