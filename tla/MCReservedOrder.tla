-------------------------- MODULE MCReservedOrder --------------------------
(***************************************************************************)
(* ReservedOrder on a handful of requests.                                 *)
(***************************************************************************)
EXTENDS ReservedOrder, TLC

CONSTANTS s1, s2, i1, c1, c2, b1, b2, b3, b4, d1, d2, t1, t2, p1, p2, p3

MCDepartureOf == b1 :> d1 @@ b2 :> d1

MCTwoDepartures == b1 :> d1 @@ b3 :> d1 @@ b2 :> d2 @@ b4 :> d2

Ask(P, T, SS) ==
    [proc : P, txn : T, departure : {d1}, seats : SS, sound : {TRUE}]

AskOf(d, P, T, SS) ==
    [proc : P, txn : T, departure : {d}, seats : SS, sound : {TRUE}]

MCKind == s1 :> "select" @@ s2 :> "select" @@ i1 :> "init"
          @@ c1 :> "confirm" @@ c2 :> "confirm"
MCKindOf == [r \in Ids |-> MCKind[r]]
MCWomen == [r \in Ids |-> "female"]
MCWomanAndMan == [r \in Ids |-> IF r = c1 THEN "female" ELSE "male"]
MCSideBySide == {<<b1, b2>>, <<b2, b1>>}
MCOpenThroughout == [d \in Departures |-> MaxClock]

\* Two transactions after the same berth, and one of them on a second coach as
\* well, through another process.
MCContention ==
    s1 :> Ask({p1}, {t1}, {{b1, b3}})
    @@ s2 :> Ask({p1}, {t1, t2}, {{b1}}) \cup AskOf(d2, {p2}, {t1}, {{b2}})
    @@ c1 :> Ask({p1}, {t1}, {{b1, b3}})
    @@ c2 :> Ask({p1}, {t1, t2}, {{b1}}) \cup AskOf(d2, {p2}, {t1}, {{b2}})

\* The same transaction confirmed twice, through one process or two.
MCTwoProcesses ==
    s1 :> Ask({p1}, {t1}, {{b1}})
    @@ c1 :> Ask({p1}, {t1}, {{b1}}) @@ c2 :> Ask({p1, p2}, {t1}, {{b1}})

\* Two parties beside each other.
MCNeighbours ==
    s1 :> Ask({p1}, {t1}, {{b1}}) @@ s2 :> Ask({p1}, {t2}, {{b2}})
    @@ c1 :> Ask({p1}, {t1}, {{b1}}) @@ c2 :> Ask({p1}, {t2}, {{b2}})

\* One rider on the second coach, and every refusal: a seat the simulation
\* sold, a manifest that is not the hold, a man beside a seated woman, a sale
\* that has closed, a message that is not sound.
MCRefusals ==
    s1 :> AskOf(d2, {p3}, {t1}, {{}, {b2}, {b4}}) @@ s2 :> {}
    @@ i1 :> AskOf(d2, {p3}, {t1}, {{b2}})
    @@ c1 :> AskOf(d2, {p3}, {t1}, SUBSET {b2, b4})
             \cup [proc : {p3}, txn : {t1}, departure : {d2}, seats : {{b2}}, sound : {FALSE}]
    @@ c2 :> AskOf(d2, {p3}, {t1}, {{b2}})

\* Both, one or the other of them in a behaviour: MCOneScenario is the cfg's
\* constraint.
MCContentionOrRefusals ==
    [r \in Ids |-> MCRefusals[r] \cup IF r = i1 THEN {} ELSE MCContention[r]]
MCOneScenario ==
    \A q, r \in Ids : req[q].proc = p3 => req[r].proc \in {p3, None}
MCManAndWoman == [r \in Ids |-> IF r = c1 THEN "male" ELSE "female"]
MCTwoAndFour == {<<b2, b4>>, <<b4, b2>>}
MCSecondClosesAtOnce == [d \in Departures |-> IF d = d2 THEN 0 ELSE MaxClock]
=============================================================================
