------------------------ MODULE FleetManifestProofs ------------------------
(***************************************************************************)
(* Proofs about FleetManifest, for any number of seats, pushes and         *)
(* instants: the simulator ends up with what is booked, in whatever order  *)
(* the pushes read, arrive and give up.                                    *)
(***************************************************************************)
EXTENDS FleetManifest, FiniteSetTheorems, TLAPS

Stages == {"none", "reading", "sent", "answered", "settled"}
Sent == {"sent", "answered", "settled"}

\* A DELETE carries no instant and no counts.
Messages == [by : Pushes, put : {TRUE}, asOf : Nat, booked : Nat]
            \cup [by : Pushes, put : {FALSE}, asOf : {0}, booked : {0}]

FleetTypeOK ==
    /\ clock \in Nat \ {0}
    /\ seat \in [Seats -> {"FREE", "HELD", "BOOKED"}]
    /\ change \in [Seats -> {"none", "selling", "sold", "cancelling", "cancelled"}]
    /\ push \in [Pushes -> [stage : Stages, asOf : Nat]]
    /\ net \subseteq Messages
    /\ shown \in [asOf : Nat, booked : Nat]
    /\ lost \in BOOLEAN
    /\ crossed \in BOOLEAN

\* A seat is booked from its sale to its cancellation, and a push comes after the
\* change it is of.
InOrder(s) ==
    /\ seat[s] = "BOOKED" <=> change[s] \in {"sold", "cancelling"}
    /\ change[s] \in {"none", "selling"} => push[<<s, "sale">>].stage = "none"
    /\ change[s] = "cancelling" => push[<<s, "sale">>].stage # "none"
    /\ change[s] # "cancelled" => push[<<s, "cancellation">>].stage = "none"

ChangesInOrder == \A s \in Seats : InOrder(s)

\* The instant of a push that has started is one of the past.
Instants ==
    \A p \in Pushes : IF push[p].stage = "none" THEN push[p].asOf = 0
                      ELSE push[p].asOf \in 1..clock

\* Push p has sent its request, which is on its way no more.
Over(p) == push[p].stage \in Sent /\ \A m \in net : m.by # p

\* A push has one request on its way, with its own instant; without a crossing a
\* DELETE is alone; what the simulator shows came with a request that is over.
Traffic ==
    /\ \A m \in net : /\ push[m.by].stage \in Sent
                      /\ m.put => m.asOf = push[m.by].asOf
    /\ \A m, n \in net : m.by = n.by => m = n
    /\ ~crossed => \A m, n \in net : ~m.put => m = n
    /\ shown.asOf # 0 => \E p \in Pushes : Over(p) /\ push[p].asOf = shown.asOf

\* A committed change whose push has not started.
Unpushed == \E p \in Pushes : MayStart(p) /\ push[p].stage = "none"

\* The request of the newest push will tell, or has told, what is booked.  After
\* it, what else is on its way is as good or is discarded.
Told(p) ==
    \/ push[p].stage = "reading"
    \/ \E m \in net : m.by = p /\ m.booked = Cardinality(Booked)
    \/ /\ Over(p)
       /\ shown.booked = Cardinality(Booked)
       /\ \A m \in net : \/ m.booked = Cardinality(Booked)
                         \/ m.put /\ m.asOf <= shown.asOf

Untouched == /\ \A p \in Pushes : push[p].stage = "none"
             /\ shown = Nothing /\ net = {}

NewestTells ==
    ~lost /\ ~crossed /\ DistinctInstants /\ ~Unpushed =>
        \/ Untouched
        \/ \E p \in Pushes : /\ push[p].stage # "none" /\ push[p].asOf = clock
                             /\ Told(p)

FleetInv ==
    FleetTypeOK /\ ChangesInOrder /\ Instants /\ Traffic /\ NewestTells

-----------------------------------------------------------------------------

\* The pushes of a seat are two different ones.
LEMMA PushesOfASeat ==
    /\ \A s \in Seats : <<s, "sale">> \in Pushes /\ <<s, "cancellation">> \in Pushes
    /\ \A p \in Pushes : /\ p[1] \in Seats
                         /\ p = <<p[1], "sale">> \/ p = <<p[1], "cancellation">>
    /\ \A s \in Seats : /\ MayStart(<<s, "sale">>) <=> change[s] = "sold"
                        /\ MayStart(<<s, "cancellation">>) <=> change[s] = "cancelled"
    /\ \A s \in Seats : /\ MayStart(<<s, "sale">>)' <=> change'[s] = "sold"
                        /\ MayStart(<<s, "cancellation">>)' <=> change'[s] = "cancelled"
BY DEF Pushes, MayStart

\* What is booked is counted.
LEMMA BookedIsCounted ==
    ASSUME FleetTypeOK
    PROVE  Cardinality(Booked) \in Nat /\ (Claims = {} => Cardinality(Booked) = 0)
<1>1. Booked \in SUBSET Seats /\ IsFiniteSet(Seats)
  BY FleetAssumption DEF Booked
<1>2. Cardinality(Booked) \in Nat
  BY <1>1, FS_Subset, FS_CardinalityType
<1>3. Claims = {} => Booked = {}
  BY DEF Booked, Claims
<1> QED
  BY <1>2, <1>3, FS_EmptySet

\* Nothing has happened yet.
LEMMA FleetInit == Init => FleetInv
<1> SUFFICES ASSUME Init PROVE FleetInv
  OBVIOUS
<1> USE DEF Init
<1>0. NotStarted \in [stage : Stages, asOf : Nat] /\ Nothing \in [asOf : Nat, booked : Nat]
  BY DEF Nothing, NotStarted, Stages
<1>1. FleetTypeOK
  <2>1. lost \in BOOLEAN /\ crossed \in BOOLEAN /\ net \subseteq Messages
    BY Zenon
  <2>2. clock \in Nat \ {0} /\ push \in [Pushes -> [stage : Stages, asOf : Nat]]
        /\ shown \in [asOf : Nat, booked : Nat]
    BY <1>0
  <2>3. /\ seat \in [Seats -> {"FREE", "HELD", "BOOKED"}]
        /\ change \in [Seats -> {"none", "selling", "sold", "cancelling", "cancelled"}]
    OBVIOUS
  <2> QED
    BY <2>1, <2>2, <2>3 DEF FleetTypeOK
<1>2. ChangesInOrder
  BY PushesOfASeat DEF ChangesInOrder, InOrder, NotStarted
<1>3. Instants
  BY DEF Instants, NotStarted
<1>4. Traffic
  BY DEF Traffic, Nothing
<1>5. NewestTells
  BY DEF NewestTells, Untouched, NotStarted
<1> QED
  BY <1>1, <1>2, <1>3, <1>4, <1>5 DEF FleetInv

\* A step that leaves the pushes and their requests alone, changes nothing that
\* is booked and no committed change, keeps what the newest push tells.
LEMMA TellsStill ==
    ASSUME NewestTells, UNCHANGED <<clock, push, net, shown, lost, crossed>>,
           Booked' = Booked, Unpushed => Unpushed'
    PROVE  NewestTells'
<1>1. DistinctInstants' <=> DistinctInstants
  BY DEF DistinctInstants
<1>2. Untouched => Untouched'
  BY DEF Untouched
<1>3. \A p \in Pushes : Told(p) => Told(p)'
  BY DEF Told, Over
<1> QED
  BY <1>1, <1>2, <1>3 DEF NewestTells

\* The traffic is the same when pushes and requests are.
LEMMA TrafficStill ==
    ASSUME Instants, Traffic, UNCHANGED <<clock, push, net, shown, lost, crossed>>
    PROVE  Instants' /\ Traffic'
BY DEF Instants, Traffic, Over

\* A hold, its lapse and a request that is only accepted are not counted.
LEMMA HoldInv == ASSUME FleetInv, NEW s \in Seats, Hold(s) PROVE FleetInv'
<1> USE DEF FleetInv
<1>1. FleetTypeOK'
  BY DEF FleetTypeOK, Hold
<1>2. ChangesInOrder'
  BY PushesOfASeat DEF FleetTypeOK, ChangesInOrder, InOrder, Hold
<1>3. Booked' = Booked
  BY DEF FleetTypeOK, Booked, Hold
<1>4. Unpushed' <=> Unpushed
  BY DEF Unpushed, MayStart, Hold
<1>5. NewestTells'
  BY <1>3, <1>4, TellsStill DEF Hold
<1>6. Instants' /\ Traffic'
  BY TrafficStill DEF Hold
<1> QED
  BY <1>1, <1>2, <1>5, <1>6

\* A confirm or a cancellation begins.
LEMMA RequestInv == ASSUME FleetInv, NEW s \in Seats, Request(s) PROVE FleetInv'
<1> USE DEF FleetInv
<1>0. /\ UNCHANGED <<clock, seat, push, net, shown, lost, crossed>>
      /\ \A t \in Seats \ {s} : change'[t] = change[t]
      /\ \/ change[s] = "none" /\ change'[s] = "selling"
         \/ /\ change[s] = "sold" /\ change'[s] = "cancelling"
            /\ push[<<s, "sale">>].stage # "none"
  BY DEF FleetTypeOK, Request
<1>1. FleetTypeOK'
  BY DEF FleetTypeOK, Request
<1>2. ChangesInOrder'
  <2>1. InOrder(s)'
    BY <1>0 DEF ChangesInOrder, InOrder
  <2>2. \A t \in Seats \ {s} : InOrder(t)'
    BY <1>0 DEF ChangesInOrder, InOrder
  <2> QED
    BY <2>1, <2>2 DEF ChangesInOrder
<1>3. Booked' = Booked
  BY DEF Booked, Request
<1>4. Unpushed => Unpushed'
  <2> SUFFICES ASSUME NEW p \in Pushes, MayStart(p), push[p].stage = "none"
               PROVE  MayStart(p)'
    BY <1>0 DEF Unpushed
  <2> QED
    BY <1>0, PushesOfASeat DEF MayStart
<1>5. NewestTells'
  BY <1>3, <1>4, TellsStill DEF Request
<1>6. Instants' /\ Traffic'
  BY TrafficStill DEF Request
<1> QED
  BY <1>1, <1>2, <1>5, <1>6

\* What a commit makes untrue, the push that it leaves to start will put right.
LEMMA CommitInv == ASSUME FleetInv, NEW s \in Seats, Commit(s) PROVE FleetInv'
<1> USE DEF FleetInv
<1>1. FleetTypeOK'
  BY DEF FleetTypeOK, Commit
<1>2. ChangesInOrder'
  <2>1. /\ UNCHANGED <<clock, push, net, shown, lost, crossed>>
        /\ \A t \in Seats \ {s} : change'[t] = change[t] /\ seat'[t] = seat[t]
        /\ \/ change[s] = "selling" /\ change'[s] = "sold" /\ seat'[s] = "BOOKED"
           \/ change[s] = "cancelling" /\ change'[s] = "cancelled" /\ seat'[s] = "FREE"
    BY DEF FleetTypeOK, Commit
  <2>2. InOrder(s)'
    BY <2>1 DEF ChangesInOrder, InOrder
  <2>3. \A t \in Seats \ {s} : InOrder(t)'
    BY <2>1 DEF ChangesInOrder, InOrder
  <2> QED
    BY <2>2, <2>3 DEF ChangesInOrder
<1>3. Unpushed'
  BY PushesOfASeat DEF FleetTypeOK, ChangesInOrder, InOrder, Unpushed, Commit
<1>5. NewestTells'
  BY <1>3 DEF NewestTells
<1>6. Instants' /\ Traffic'
  BY TrafficStill DEF Commit
<1> QED
  BY <1>1, <1>2, <1>5, <1>6

\* A push that has started goes on to stage x, and nothing else moves but the
\* traffic: the changes, the instants and what is booked stay.
LEMMA StageMoves ==
    ASSUME FleetInv, NEW p \in Pushes, NEW x \in Sent, push[p].stage # "none",
           push' = [push EXCEPT ![p].stage = x], UNCHANGED <<clock, seat, change>>
    PROVE  /\ push' \in [Pushes -> [stage : Stages, asOf : Nat]]
           /\ push'[p].stage = x
           /\ \A q \in Pushes : push'[q].asOf = push[q].asOf
           /\ \A q \in Pushes \ {p} : push'[q] = push[q]
           /\ ChangesInOrder' /\ Instants'
           /\ DistinctInstants' <=> DistinctInstants
           /\ Unpushed' <=> Unpushed
           /\ Booked' = Booked
<1> USE DEF FleetInv
<1>1. /\ push' \in [Pushes -> [stage : Stages, asOf : Nat]]
      /\ push'[p].stage = x
      /\ \A q \in Pushes : push'[q].asOf = push[q].asOf
      /\ \A q \in Pushes \ {p} : push'[q] = push[q]
  BY DEF FleetTypeOK, Sent, Stages
<1>2. \A q \in Pushes : push'[q].stage = "none" <=> push[q].stage = "none"
  BY <1>1 DEF Sent
<1>3. ChangesInOrder'
  BY <1>2, PushesOfASeat DEF ChangesInOrder, InOrder
<1>4. Instants'
  BY <1>1, <1>2 DEF Instants
<1>5. DistinctInstants' <=> DistinctInstants
  BY <1>1 DEF DistinctInstants
<1>6. Unpushed' <=> Unpushed
  BY <1>2 DEF Unpushed, MayStart
<1>7. Booked' = Booked
  BY DEF Booked
<1> QED
  BY <1>1, <1>3, <1>4, <1>5, <1>6, <1>7

\* A push that starts is the newest, and has yet to read.
LEMMA StartInv == ASSUME FleetInv, NEW p \in Pushes, Start(p) PROVE FleetInv'
<1> USE DEF FleetInv
<1>0. /\ clock' \in Nat \ {0} /\ clock <= clock' /\ clock \in Nat
      /\ push' = [push EXCEPT ![p] = [stage |-> "reading", asOf |-> clock']]
      /\ push[p].stage = "none" /\ MayStart(p)
      /\ UNCHANGED <<seat, change, net, shown, lost, crossed>>
  BY DEF FleetTypeOK, Start
<1>1. [stage |-> "reading", asOf |-> clock'] \in [stage : Stages, asOf : Nat]
  BY <1>0 DEF Stages
<1>2. /\ push' \in [Pushes -> [stage : Stages, asOf : Nat]]
      /\ push'[p].stage = "reading" /\ push'[p].asOf = clock'
      /\ \A q \in Pushes \ {p} : push'[q] = push[q]
  BY <1>0, <1>1 DEF FleetTypeOK
<1>3. FleetTypeOK'
  BY <1>0, <1>2 DEF FleetTypeOK
<1>4. ChangesInOrder'
  <2>1. \A q \in Pushes : push[q].stage # "none" => push'[q].stage # "none"
    BY <1>0, <1>2
  <2>2. PICK s \in Seats : /\ p = <<s, "sale">> \/ p = <<s, "cancellation">>
                           /\ p = <<s, "sale">> => change[s] = "sold"
                           /\ p = <<s, "cancellation">> => change[s] = "cancelled"
    BY <1>0, PushesOfASeat
  <2>3. InOrder(s)'
    BY <1>0, <1>2, <2>1, <2>2, PushesOfASeat DEF ChangesInOrder, InOrder
  <2>4. ASSUME NEW t \in Seats \ {s} PROVE InOrder(t)'
    <3>1. <<t, "sale">> \in Pushes \ {p} /\ <<t, "cancellation">> \in Pushes \ {p}
      BY <2>2 DEF Pushes
    <3>2. /\ push'[<<t, "sale">>] = push[<<t, "sale">>]
          /\ push'[<<t, "cancellation">>] = push[<<t, "cancellation">>]
      BY <1>2, <3>1
    <3> QED
      BY <1>0, <3>2 DEF ChangesInOrder, InOrder
  <2> QED
    BY <2>3, <2>4 DEF ChangesInOrder
<1>5. Instants'
  BY <1>0, <1>2 DEF Instants, FleetTypeOK
<1>6. Traffic'
  <2>1. \A m \in net : m.by \in Pushes \ {p}
    BY <1>0 DEF Traffic, FleetTypeOK, Messages, Sent
  <2>2. \A q \in Pushes : Over(q) => q # p /\ Over(q)'
    BY <1>0, <1>2 DEF Over, Sent
  <2>3. shown'.asOf # 0 => \E q \in Pushes : Over(q)' /\ push'[q].asOf = shown'.asOf
    BY <1>0, <1>2, <2>2 DEF Traffic
  <2> QED
    BY <1>0, <1>2, <2>1, <2>3 DEF Traffic
<1>7. NewestTells'
  BY <1>2 DEF NewestTells, Told
<1> QED
  BY <1>3, <1>4, <1>5, <1>6, <1>7

\* A push whose read fails is lost.
LEMMA ReadFailsInv == ASSUME FleetInv, NEW p \in Pushes, ReadFails(p) PROVE FleetInv'
<1> USE DEF FleetInv
<1>1. /\ push[p].stage = "reading" /\ lost' = TRUE
      /\ push' = [push EXCEPT ![p].stage = "settled"]
      /\ UNCHANGED <<clock, seat, change, net, shown, crossed>>
  BY DEF ReadFails
<1> DEFINE x == "settled"
<1>2. x \in Sent /\ push' = [push EXCEPT ![p].stage = x] /\ x = "settled"
  BY <1>1 DEF Sent
<1> HIDE DEF x
<1>3. /\ push' \in [Pushes -> [stage : Stages, asOf : Nat]]
      /\ push'[p].stage = x
      /\ \A q \in Pushes : push'[q].asOf = push[q].asOf
      /\ \A q \in Pushes \ {p} : push'[q] = push[q]
      /\ ChangesInOrder' /\ Instants'
  BY <1>1, <1>2, StageMoves
<1>4. FleetTypeOK'
  <2>1. lost' \in BOOLEAN
    BY <1>1, Zenon
  <2> QED
    BY <1>1, <1>3, <2>1 DEF FleetTypeOK
<1>5. Traffic'
  <2>1. \A q \in Pushes : push[q].stage \in Sent => push'[q].stage \in Sent
    BY <1>2, <1>3
  <2>2. \A m \in net : m.by \in Pushes
    BY DEF FleetTypeOK, Messages
  <2>3. \A q \in Pushes : Over(q) => Over(q)'
    BY <1>1, <2>1 DEF Over
  <2> QED
    BY <1>1, <1>3, <2>1, <2>2, <2>3 DEF Traffic
<1>6. NewestTells'
  <2>1. lost'
    BY <1>1, Zenon
  <2> QED
    BY <2>1, Zenon DEF NewestTells
<1> QED
  BY <1>3, <1>4, <1>5, <1>6

\* A push that was answered or gives up leaves its request where it is.
LEMMA SettleInv == ASSUME FleetInv, NEW p \in Pushes, Settle(p) PROVE FleetInv'
<1> USE DEF FleetInv
<1>1. /\ push[p].stage \in Sent
      /\ push' = [push EXCEPT ![p].stage = "settled"]
      /\ UNCHANGED <<clock, seat, change, net, shown, lost, crossed>>
  BY DEF Settle, TimesOut, Sent
<1> DEFINE x == "settled"
<1>2. x \in Sent /\ push' = [push EXCEPT ![p].stage = x] /\ push[p].stage # "none"
  BY <1>1 DEF Sent
<1> HIDE DEF x
<1>3. /\ push' \in [Pushes -> [stage : Stages, asOf : Nat]]
      /\ push'[p].stage = x
      /\ \A q \in Pushes : push'[q].asOf = push[q].asOf
      /\ \A q \in Pushes \ {p} : push'[q] = push[q]
      /\ ChangesInOrder' /\ Instants'
      /\ DistinctInstants' <=> DistinctInstants
      /\ Unpushed' <=> Unpushed
      /\ Booked' = Booked
  BY <1>1, <1>2, StageMoves
<1>4. FleetTypeOK'
  BY <1>1, <1>3 DEF FleetTypeOK
<1>5. \A q \in Pushes : push'[q].stage \in Sent <=> push[q].stage \in Sent
  BY <1>1, <1>2, <1>3
<1>6. \A q \in Pushes : Over(q)' <=> Over(q)
  BY <1>1, <1>5 DEF Over
<1>7. Traffic'
  <2>1. \A m \in net : m.by \in Pushes
    BY DEF FleetTypeOK, Messages
  <2> QED
    BY <1>1, <1>3, <1>5, <1>6, <2>1 DEF Traffic
<1>8. NewestTells'
  <2>1. ASSUME NEW q \in Pushes, push[q].stage # "none", Told(q)
        PROVE  push'[q].stage # "none" /\ Told(q)'
    BY <1>1, <1>3, <1>5, <1>6, <2>1 DEF Told, Sent
  <2>2. ~Untouched
    BY <1>1 DEF Untouched, Sent
  <2> QED
    BY <1>1, <1>3, <2>1, <2>2 DEF NewestTells
<1> QED
  BY <1>3, <1>4, <1>7, <1>8

\* A request has its fields, and a DELETE has no counts.
LEMMA MessageFields ==
    ASSUME NEW m \in Messages
    PROVE  /\ m.by \in Pushes /\ m.asOf \in Nat /\ m.booked \in Nat
           /\ ~m.put => m.booked = 0
<1>1. CASE m \in [by : Pushes, put : {TRUE}, asOf : Nat, booked : Nat]
  <2>1. m.put = TRUE
    BY <1>1
  <2> QED
    BY <1>1, <2>1
<1>2. CASE m \in [by : Pushes, put : {FALSE}, asOf : {0}, booked : {0}]
  <2>1. m.by \in Pushes /\ m.asOf \in {0} /\ m.booked \in {0}
    BY <1>2
  <2> QED
    BY <2>1
<1> QED
  BY <1>1, <1>2 DEF Messages

\* What a push reads now is what is booked now.
LEMMA MessageIsTrue ==
    ASSUME FleetTypeOK, NEW p \in Pushes
    PROVE  /\ Message(p) \in Messages
           /\ Message(p).by = p
           /\ Message(p).put => Message(p).asOf = push[p].asOf
           /\ Message(p).booked = Cardinality(Booked)
<1>1. Cardinality(Booked) \in Nat /\ push[p].asOf \in Nat
  BY BookedIsCounted DEF FleetTypeOK
<1>2. CASE Claims = {}
  <2>1. Message(p) = [by |-> p, put |-> FALSE, asOf |-> 0, booked |-> 0]
    BY <1>2 DEF Message
  <2>2. Cardinality(Booked) = 0
    BY <1>2, BookedIsCounted
  <2> QED
    BY <2>1, <2>2 DEF Messages
<1>3. CASE Claims # {}
  <2>1. Message(p) = [by |-> p, put |-> TRUE, asOf |-> push[p].asOf,
                      booked |-> Cardinality(Booked)]
    BY <1>3 DEF Message
  <2> QED
    BY <1>1, <2>1 DEF Messages
<1> QED
  BY <1>2, <1>3

\* A request is sent.
LEMMA SendInv == ASSUME FleetInv, NEW p \in Pushes, Send(p) PROVE FleetInv'
<1> USE DEF FleetInv
<1> DEFINE x == "sent"
           new == Message(p)
<1>1. /\ push[p].stage = "reading"
      /\ push' = [push EXCEPT ![p].stage = x] /\ x \in Sent
      /\ net' = net \cup {new}
      /\ crossed' = (crossed \/ \E m \in net : ~m.put \/ ~new.put)
      /\ UNCHANGED <<clock, seat, change, shown, lost>>
  BY DEF Send, Sent
<1>2. /\ new \in Messages /\ new.by = p
      /\ new.put => new.asOf = push[p].asOf
      /\ new.booked = Cardinality(Booked)
  BY MessageIsTrue
<1> HIDE DEF x, new
<1>3. /\ push' \in [Pushes -> [stage : Stages, asOf : Nat]]
      /\ push'[p].stage = x
      /\ \A q \in Pushes : push'[q].asOf = push[q].asOf
      /\ \A q \in Pushes \ {p} : push'[q] = push[q]
      /\ ChangesInOrder' /\ Instants'
      /\ DistinctInstants' <=> DistinctInstants
      /\ Unpushed' <=> Unpushed
      /\ Booked' = Booked
  BY <1>1, StageMoves
<1>4. \A m \in net : m.by \in Pushes \ {p}
  BY <1>1 DEF Traffic, FleetTypeOK, Messages, Sent
<1>5. FleetTypeOK'
  <2>1. crossed' \in BOOLEAN
    BY <1>1, Zenon
  <2> QED
    BY <1>1, <1>2, <1>3, <2>1 DEF FleetTypeOK
<1>6. \A q \in Pushes : Over(q) => q # p /\ Over(q)'
  BY <1>1, <1>2, <1>3 DEF Over, Sent
<1>7. ~crossed' => ~crossed /\ \A m \in net : m.put /\ new.put
  BY <1>1, Zenon
<1>8. Traffic'
  <2>1. \A m \in net' : push'[m.by].stage \in Sent /\ (m.put => m.asOf = push'[m.by].asOf)
    BY <1>1, <1>2, <1>3, <1>4 DEF Traffic
  <2>2. \A m, n \in net' : m.by = n.by => m = n
    BY <1>1, <1>2, <1>4 DEF Traffic
  <2>3. ~crossed' => \A m, n \in net' : ~m.put => m = n
    BY <1>1, <1>7 DEF Traffic
  <2>4. shown'.asOf # 0 => \E q \in Pushes : Over(q)' /\ push'[q].asOf = shown'.asOf
    BY <1>1, <1>3, <1>6 DEF Traffic
  <2> QED
    BY <2>1, <2>2, <2>3, <2>4 DEF Traffic
<1>9. NewestTells'
  <2> SUFFICES ASSUME ~lost', ~crossed', DistinctInstants', ~Unpushed'
               PROVE  \E q \in Pushes : /\ push'[q].stage # "none" /\ push'[q].asOf = clock'
                                        /\ Told(q)'
    BY DEF NewestTells
  <2>1. ~Untouched
    BY <1>1 DEF Untouched
  <2>2. PICK q \in Pushes : push[q].stage # "none" /\ push[q].asOf = clock /\ Told(q)
    BY <1>1, <1>3, <1>7, <2>1 DEF NewestTells
  <2>3. push'[q].stage # "none" /\ push'[q].asOf = clock'
    BY <1>1, <1>3, <2>2 DEF Sent
  <2>4. CASE q = p
    BY <1>1, <1>2, <1>3, <2>3, <2>4 DEF Told
  <2>5. CASE q # p
    BY <1>1, <1>2, <1>3, <1>6, <2>2, <2>3, <2>5 DEF Told
  <2> QED
    BY <2>4, <2>5
<1> QED
  BY <1>3, <1>5, <1>8, <1>9

\* A request that is lost is noted as such.
LEMMA LoseInv == ASSUME FleetInv, NEW m \in net, Lose(m) PROVE FleetInv'
<1> USE DEF FleetInv
<1>1. /\ net' = net \ {m} /\ lost' = TRUE
      /\ UNCHANGED <<clock, seat, change, push, shown, crossed>>
  BY DEF Lose
<1>2. FleetTypeOK'
  <2>1. lost' \in BOOLEAN
    BY <1>1, Zenon
  <2> QED
    BY <1>1, <2>1 DEF FleetTypeOK
<1>3. ChangesInOrder' /\ Instants'
  BY <1>1 DEF ChangesInOrder, InOrder, Instants
<1>4. Traffic'
  <2>1. \A q \in Pushes : Over(q) => Over(q)'
    BY <1>1 DEF Over
  <2> QED
    BY <1>1, <2>1 DEF Traffic
<1>5. NewestTells'
  <2>1. lost'
    BY <1>1, Zenon
  <2> QED
    BY <2>1, Zenon DEF NewestTells
<1> QED
  BY <1>2, <1>3, <1>4, <1>5

\* How the stage of a push moves when its request arrives.
LEMMA Answered ==
    ASSUME FleetInv, NEW p \in Pushes, push[p].stage \in Sent,
           push' = [push EXCEPT ![p].stage = IF @ = "sent" THEN "answered" ELSE @]
    PROVE  \E x \in Sent : push' = [push EXCEPT ![p].stage = x]
<1> DEFINE x == IF push[p].stage = "sent" THEN "answered" ELSE push[p].stage
<1>1. x \in Sent
  BY DEF Sent
<1>2. push' = [push EXCEPT ![p].stage = x]
  BY DEF FleetInv, FleetTypeOK
<1> QED
  BY <1>1, <1>2

\* A request arrives: the newest push's is taken over, and an older one changes
\* nothing for the worse after it.
LEMMA ArriveInv == ASSUME FleetInv, NEW m \in net, Arrive(m) PROVE FleetInv'
<1> USE DEF FleetInv
<1>1. /\ net' = net \ {m}
      /\ shown' = IF ~m.put THEN Nothing
                  ELSE IF m.asOf > shown.asOf THEN [asOf |-> m.asOf, booked |-> m.booked]
                  ELSE shown
      /\ UNCHANGED <<clock, seat, change, lost, crossed>>
  BY DEF Arrive
<1>2. /\ m.by \in Pushes /\ m.asOf \in Nat /\ m.booked \in Nat
      /\ push[m.by].stage \in Sent
      /\ m.put => m.asOf = push[m.by].asOf
      /\ ~m.put => m.booked = 0
  <2>1. m \in Messages
    BY DEF FleetTypeOK
  <2> QED
    BY <2>1, MessageFields DEF Traffic
<1>3. PICK x \in Sent : push' = [push EXCEPT ![m.by].stage = x]
  BY <1>2, Answered DEF Arrive
<1>4. /\ push' \in [Pushes -> [stage : Stages, asOf : Nat]]
      /\ push'[m.by].stage = x
      /\ \A q \in Pushes : push'[q].asOf = push[q].asOf
      /\ \A q \in Pushes \ {m.by} : push'[q] = push[q]
      /\ ChangesInOrder' /\ Instants'
      /\ DistinctInstants' <=> DistinctInstants
      /\ Unpushed' <=> Unpushed
      /\ Booked' = Booked
  <2>1. push[m.by].stage # "none"
    BY <1>2 DEF Sent
  <2> QED
    BY <1>1, <1>2, <1>3, <2>1, StageMoves
<1>5. \A q \in Pushes : push'[q].stage \in Sent <=> push[q].stage \in Sent
  BY <1>2, <1>3, <1>4
<1>6. Over(m.by)' /\ \A q \in Pushes : Over(q) => q # m.by /\ Over(q)'
  <2>1. Over(m.by)'
    BY <1>1, <1>2, <1>4, <1>5 DEF Over, Traffic
  <2>2. \A q \in Pushes : Over(q) => q # m.by /\ Over(q)'
    BY <1>1, <1>5 DEF Over
  <2> QED
    BY <2>1, <2>2
<1>7. FleetTypeOK'
  <2>1. shown' \in [asOf : Nat, booked : Nat]
    BY <1>1, <1>2 DEF FleetTypeOK, Nothing
  <2> QED
    BY <1>1, <1>4, <2>1 DEF FleetTypeOK
<1>8. Traffic'
  <2>1. \A n \in net' : push'[n.by].stage \in Sent /\ (n.put => n.asOf = push'[n.by].asOf)
    BY <1>1, <1>4, <1>5 DEF Traffic, FleetTypeOK, Messages
  <2>2. /\ \A n, o \in net' : n.by = o.by => n = o
        /\ ~crossed' => \A n, o \in net' : ~n.put => n = o
    BY <1>1 DEF Traffic
  <2>3. shown'.asOf # 0 => \E q \in Pushes : Over(q)' /\ push'[q].asOf = shown'.asOf
    <3>1. CASE ~m.put
      BY <1>1, <3>1 DEF Nothing
    <3>2. CASE m.put /\ m.asOf > shown.asOf
      BY <1>1, <1>2, <1>4, <1>6, <3>2
    <3>3. CASE m.put /\ ~(m.asOf > shown.asOf)
      BY <1>1, <1>4, <1>6, <3>3 DEF Traffic
    <3> QED
      BY <1>2, <3>1, <3>2, <3>3
  <2> QED
    BY <2>1, <2>2, <2>3 DEF Traffic
<1>9. NewestTells'
  <2> SUFFICES ASSUME ~lost', ~crossed', DistinctInstants', ~Unpushed'
               PROVE  \E q \in Pushes : /\ push'[q].stage # "none" /\ push'[q].asOf = clock'
                                        /\ Told(q)'
    BY DEF NewestTells
  <2>1. ~Untouched /\ ~crossed /\ ~lost
    BY <1>1 DEF Untouched
  <2>2. PICK q \in Pushes : push[q].stage # "none" /\ push[q].asOf = clock /\ Told(q)
    BY <1>4, <2>1 DEF NewestTells
  <2>3. push'[q].stage # "none" /\ push'[q].asOf = clock'
    BY <1>1, <1>4, <2>2 DEF Sent
  <2>4. ~m.put => net' = {}
    BY <1>1, <2>1 DEF Traffic
  <2>5. \A n \in net' : n \in net /\ n.asOf \in Nat /\ n.by \in Pushes
    BY <1>1, MessageFields DEF FleetTypeOK
  <2> DEFINE count == Cardinality(Booked)
  <2>6. count \in Nat /\ Cardinality(Booked)' = count
    BY <1>4, BookedIsCounted
  <2> HIDE DEF count
  <2>7. ASSUME push[q].stage = "reading" PROVE Told(q)'
    <3>1. q # m.by
      BY <1>2, <2>7 DEF Sent
    <3> QED
      BY <1>4, <2>3, <2>7, <3>1 DEF Told
  <2>8. ASSUME NEW n \in net, n.by = q, n.booked = count, n # m
        PROVE  Told(q)'
    BY <1>1, <2>6, <2>8 DEF Told
  <2>9. ASSUME m.by = q, m.booked = count
        PROVE  Told(q)'
    <3>1. shown.asOf < clock
      <4>1. shown.asOf # clock
        <5>1. SUFFICES ASSUME shown.asOf = clock PROVE FALSE
          OBVIOUS
        <5>2. PICK r \in Pushes : Over(r) /\ push[r].asOf = clock
          BY <5>1 DEF Traffic, FleetTypeOK
        <5>3. r # q
          BY <1>6, <2>9, <5>2
        <5> QED
          BY <1>4, <2>2, <5>2, <5>3 DEF DistinctInstants, FleetTypeOK
      <4>2. shown.asOf <= clock
        BY DEF Traffic, Instants, Over, Sent, FleetTypeOK
      <4> QED
        BY <4>1, <4>2 DEF FleetTypeOK
    <3>2. shown'.booked = count
      BY <1>1, <1>2, <2>2, <2>9, <3>1 DEF Nothing, FleetTypeOK
    <3>3. ASSUME NEW n \in net' PROVE n.put /\ n.asOf <= shown'.asOf
      <4>1. m.put /\ n.put
        BY <1>1, <2>1, <2>4, <3>3 DEF Traffic
      <4>2. shown'.asOf = clock
        BY <1>1, <1>2, <2>2, <2>9, <3>1, <4>1
      <4>3. n.asOf = push[n.by].asOf /\ push[n.by].stage # "none"
        BY <2>5, <4>1 DEF Traffic, Sent
      <4>4. n.asOf <= clock
        BY <2>5, <4>3 DEF Instants, FleetTypeOK
      <4> QED
        BY <4>1, <4>2, <4>4
    <3> QED
      BY <1>6, <2>6, <2>9, <3>2, <3>3 DEF Told
  <2>10. ASSUME Over(q), shown.booked = count,
                \A n \in net : n.booked = count \/ (n.put /\ n.asOf <= shown.asOf)
         PROVE  Told(q)'
    <3>1. shown'.booked = count
      BY <1>1, <1>2, <2>10 DEF Nothing, FleetTypeOK
    <3>2. m.put => shown.asOf <= shown'.asOf
      BY <1>1, <1>2 DEF FleetTypeOK
    <3>3. \A n \in net' : n.booked = count \/ (n.put /\ n.asOf <= shown'.asOf)
      BY <1>7, <2>4, <2>5, <2>10, <3>2 DEF FleetTypeOK
    <3> QED
      BY <1>6, <2>6, <2>10, <3>1, <3>3 DEF Told
  <2>11. Told(q)'
    <3>1. ASSUME NEW n \in net, n.by = q, n.booked = count PROVE Told(q)'
      BY <2>8, <2>9, <3>1
    <3>2. \/ push[q].stage = "reading"
          \/ \E n \in net : n.by = q /\ n.booked = count
          \/ /\ Over(q) /\ shown.booked = count
             /\ \A n \in net : n.booked = count \/ (n.put /\ n.asOf <= shown.asOf)
      BY <2>2 DEF Told, count
    <3> QED
      BY <2>7, <2>10, <3>1, <3>2
  <2> QED
    BY <2>3, <2>11
<1> QED
  BY <1>4, <1>7, <1>8, <1>9

\* Every step keeps the invariant.
LEMMA FleetNext == FleetInv /\ [Next]_vars => FleetInv'
<1> SUFFICES ASSUME FleetInv, [Next]_vars PROVE FleetInv'
  OBVIOUS
<1>1. CASE \E s \in Seats : Hold(s) \/ Request(s) \/ Commit(s)
  BY <1>1, HoldInv, RequestInv, CommitInv
<1>2. CASE \E p \in Pushes : Start(p) \/ Send(p) \/ ReadFails(p) \/ Settle(p)
  BY <1>2, StartInv, SendInv, ReadFailsInv, SettleInv
<1>3. CASE \E m \in net : Arrive(m) \/ Lose(m)
  BY <1>3, ArriveInv, LoseInv
<1>4. CASE UNCHANGED vars
  <2>1. FleetTypeOK' /\ ChangesInOrder' /\ Instants' /\ Traffic'
    BY <1>4, TrafficStill
       DEF FleetInv, FleetTypeOK, ChangesInOrder, InOrder, vars
  <2>2. Booked' = Booked /\ (Unpushed => Unpushed')
    BY <1>4 DEF Booked, Unpushed, MayStart, vars
  <2> QED
    BY <1>4, <2>1, <2>2, TellsStill DEF FleetInv, vars
<1> QED
  BY <1>1, <1>2, <1>3, <1>4 DEF Next

-----------------------------------------------------------------------------

\* Seats, pushes, requests and what the simulator shows stay in step, whatever
\* order pushes read, arrive, give up and get lost in (startManifestPush,
\* publishManifestFor and the simulator's rule).
THEOREM FleetInvariant == Spec => []FleetInv
BY FleetInit, FleetNext, PTL DEF Spec

\* Once the pushes are over the simulator shows what is booked, unless one was
\* lost, two share a millisecond or a DELETE crossed another request
\* (startManifestPush).
THEOREM SimulatorIsCurrent == Spec => []ManifestIsCurrent
<1>1. FleetInv => ManifestIsCurrent
  <2> SUFFICES ASSUME FleetInv, Quiet, DistinctInstants, ~lost, ~crossed
               PROVE  shown.booked = Cardinality(Booked)
    BY DEF ManifestIsCurrent
  <2>1. ~Unpushed
    BY DEF Quiet, Unpushed
  <2>2. CASE Untouched
    <3>1. \A s \in Seats : change[s] \notin {"sold", "cancelling"}
      BY <2>1, <2>2, PushesOfASeat
         DEF Untouched, Unpushed, FleetInv, ChangesInOrder, InOrder
    <3>2. Booked = {}
      BY <3>1 DEF Booked, FleetInv, ChangesInOrder, InOrder
    <3> QED
      BY <2>2, <3>2, FS_EmptySet DEF Untouched, Nothing
  <2>3. CASE ~Untouched
    BY <2>1, <2>3 DEF FleetInv, NewestTells, Told, Quiet
  <2> QED
    BY <2>2, <2>3
<1> QED
  BY <1>1, FleetInvariant, PTL
=============================================================================
