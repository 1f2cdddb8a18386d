---------------------- MODULE ReservedMigrationsProofs ----------------------
(***************************************************************************)
(* Theorems about ReservedMigrations, for any processes, builds and        *)
(* migrations, on a local and on a hosted database.                        *)
(*                                                                         *)
(* The migrations carried out are always 1..n, and those on record 1..n    *)
(* or, on a hosted database, 1..(n - 1).  A process has read some 1..k of  *)
(* those on record, and the one it works on is k + 1.  Whoever has changed *)
(* the tables in a transaction holds the write lock, so that k = n and     *)
(* nobody can move n before it commits.  Whoever changed them without one  *)
(* has moved n at once; until it is on record no other change fits the     *)
(* tables, and so it is alone.                                             *)
(***************************************************************************)
EXTENDS ReservedMigrations, FiniteSetTheorems, TLAPS

PCs == {"down", "opened", "migrating", "begun", "changed", "recorded", "failed", "up"}
Working == {"migrating", "begun", "changed", "recorded"}
Writing == {"changed", "recorded"}

ProcTypes == [pc : PCs, files : Builds, read : SUBSET Nat, found : SUBSET Nat,
              spoiled : BOOLEAN, open : BOOLEAN]

MigrationsTypeOK ==
    /\ remote \in BOOLEAN
    /\ applied \in SUBSET Nat /\ changes \in Seq(Nat) /\ half \in SUBSET Nat
    /\ proc \in [Processes -> ProcTypes]

Done == 1..Len(changes)

\* All that was carried out is on record, and at most the next was begun in vain.
AllOnRecord == applied = Done /\ half \subseteq {Len(changes) + 1}

\* The last is not on record.
LastOffRecord == Len(changes) > 0 /\ applied = 1..(Len(changes) - 1) /\ half = {}

InOrder ==
    /\ \A i \in Done : changes[i] = i
    /\ AllOnRecord \/ LastOffRecord
    /\ ~remote => applied = Done /\ half = {}

\* It has changed the tables without a transaction and not recorded that.
Bare(p) == proc[p].pc = "changed" /\ ~proc[p].open

\* What a process on its way knows.
Knows(p) ==
    /\ proc[p].found \subseteq applied
    /\ ~remote => ~proc[p].spoiled /\ (proc[p].pc \in {"begun"} \cup Writing => proc[p].open)
    /\ proc[p].pc \in Working =>
          /\ \E n \in Nat : proc[p].files = 1..n
          /\ \E k \in Nat : proc[p].read = 1..k
          /\ proc[p].read \subseteq proc[p].files /\ proc[p].read \subseteq applied
          /\ proc[p].found \subseteq proc[p].files
    /\ proc[p].pc \in {"begun"} \cup Writing => Missing(p) # {}
    /\ proc[p].pc \in Writing /\ proc[p].open =>
          writer = p /\ Version(p) = Len(changes) + 1 /\ applied = Done /\ half = {}
    /\ Bare(p) => Version(p) = Len(changes) /\ LastOffRecord
    /\ proc[p].pc = "up" =>
          proc[p].files \subseteq applied /\ proc[p].found \subseteq proc[p].files

Alone == \A p, q \in Processes : Bare(p) /\ Bare(q) => p = q

MigrationsInv == MigrationsTypeOK /\ InOrder /\ Alone /\ \A p \in Processes : Knows(p)

\* Of the migrations n that lack the first k the next is k + 1.
LEMMA NextVersion ==
    ASSUME NEW p, NEW n \in Nat, NEW k \in Nat,
           proc[p].files = 1..n, proc[p].read = 1..k, Missing(p) # {}
    PROVE  Version(p) = k + 1 /\ k + 1 \in 1..n
<1>1. Missing(p) = (k + 1)..n
  BY DEF Missing
<1>2. k + 1 \in Missing(p) /\ \A w \in Missing(p) : k + 1 <= w
  BY <1>1
<1>3. \A v \in Missing(p) : (\A w \in Missing(p) : v <= w) => v = k + 1
  BY <1>1, <1>2
<1> QED
  BY <1>1, <1>2, <1>3 DEF Version

\* What the migrations carried out are.
LEMMA DoneIsRange ==
    ASSUME MigrationsTypeOK, InOrder
    PROVE  Range(changes) = Done
<1>1. DOMAIN changes = Done
  BY DEF MigrationsTypeOK, ProcTypes, Done
<1>2. \A i \in Done : changes[i] = i
  BY DEF InOrder
<1>3. Range(changes) = {changes[i] : i \in Done}
  BY <1>1, Zenon DEF Range
<1>4. \A x : x \in {changes[i] : i \in Done} <=> x \in Done
  BY <1>2, Zenon
<1> QED
  BY <1>3, <1>4, Zenon

\* A build without a hole is 1..n.
LEMMA CompleteIsInterval ==
    ASSUME NEW b \in Builds, Complete(b)
    PROVE  \E n \in Nat : b = 1..n
BY MigrationsAssumption, FS_CardinalityType DEF Complete

\* What is on record is 1..n, and was carried out.
LEMMA RecordIsInterval ==
    ASSUME MigrationsTypeOK, InOrder
    PROVE  applied \subseteq Done /\ \E n \in Nat : applied = 1..n
<1>1. Len(changes) \in Nat
  BY DEF MigrationsTypeOK, ProcTypes
<1>2. CASE AllOnRecord
  BY <1>1, <1>2 DEF AllOnRecord, Done
<1>3. CASE LastOffRecord
  <2>1. Len(changes) - 1 \in Nat
    BY <1>1, <1>3 DEF LastOffRecord
  <2> QED
    BY <1>1, <1>3, <2>1 DEF LastOffRecord, Done
<1> QED
  BY <1>2, <1>3 DEF InOrder

\* A field of a process is replaced by a value of its type.
LEMMA ProcTyped ==
    ASSUME NEW x \in ProcTypes
    PROVE  /\ \A v \in PCs : [x EXCEPT !.pc = v] \in ProcTypes
           /\ \A v \in SUBSET Nat : [x EXCEPT !.read = v] \in ProcTypes
           /\ \A v \in SUBSET Nat : [x EXCEPT !.found = v] \in ProcTypes
           /\ \A v \in BOOLEAN : [x EXCEPT !.spoiled = v] \in ProcTypes
           /\ \A v \in BOOLEAN : [x EXCEPT !.open = v] \in ProcTypes
<1>1. \A v \in PCs : [x EXCEPT !.pc = v] \in ProcTypes
  BY DEF ProcTypes
<1>2. \A v \in SUBSET Nat : [x EXCEPT !.read = v] \in ProcTypes
  BY DEF ProcTypes
<1>3. \A v \in SUBSET Nat : [x EXCEPT !.found = v] \in ProcTypes
  BY DEF ProcTypes
<1>4. \A v \in BOOLEAN : [x EXCEPT !.spoiled = v] \in ProcTypes
  BY DEF ProcTypes
<1>5. \A v \in BOOLEAN : [x EXCEPT !.open = v] \in ProcTypes
  BY DEF ProcTypes
<1> QED
  BY <1>1, <1>2, <1>3, <1>4, <1>5

\* Nobody knows anything before the first start.
LEMMA InitInv == Init => MigrationsInv
<1> SUFFICES ASSUME Init PROVE MigrationsInv
  OBVIOUS
<1>1. PICK b \in [Processes -> Builds] : proc = [p \in Processes |-> Stopped(b[p])]
  BY DEF Init
<1>2. MigrationsTypeOK
  BY <1>1 DEF Init, MigrationsTypeOK, ProcTypes, Stopped, PCs
<1>3. Len(changes) = 0 /\ Done = {}
  BY DEF Init, Done
<1>4. InOrder
  BY <1>3 DEF Init, InOrder, AllOnRecord
<1>5. \A p \in Processes : proc[p].pc = "down" /\ proc[p].found = {} /\ proc[p].spoiled = FALSE
  BY <1>1 DEF Stopped
<1>6. (\A p \in Processes : Knows(p)) /\ Alone
  BY <1>5 DEF Knows, Alone, Bare, Working, Writing
<1> QED
  BY <1>2, <1>4, <1>6 DEF MigrationsInv

\* A step that moves one process, leaves the schema alone and takes the lock from
\* nobody but itself keeps what the others know.
LEMMA OthersKnow ==
    ASSUME MigrationsInv, NEW p \in Processes, NEW q \in Processes, p # q,
           proc'[q] = proc[q], UNCHANGED <<remote, applied, changes, half>>,
           writer' = writer \/ writer \in {None, p}
    PROVE  Knows(q)'
<1>1. Knows(q)
  BY DEF MigrationsInv
<1>2. /\ Missing(q)' = Missing(q) /\ Version(q)' = Version(q) /\ Done' = Done
      /\ Bare(q)' = Bare(q) /\ LastOffRecord' = LastOffRecord
  BY DEF Missing, Version, Done, Bare, LastOffRecord
<1>3. proc[q].pc \in Writing /\ proc[q].open => writer = q
  BY <1>1 DEF Knows
<1>4. proc[q].pc \in Writing /\ proc[q].open => writer' = q
  BY <1>3, MigrationsAssumption
<1> QED
  BY <1>1, <1>2, <1>4 DEF Knows

\* One process moves, and the schema does not.
LEMMA StepKeepsInv ==
    ASSUME MigrationsInv, NEW p \in Processes, MigrationsTypeOK', Knows(p)',
           UNCHANGED <<remote, applied, changes, half>>,
           \A q \in Processes \ {p} : proc'[q] = proc[q],
           Bare(p)' => Bare(p),
           writer' = writer \/ (writer \in {None, p})
    PROVE  MigrationsInv'
<1>1. \A q \in Processes \ {p} : Knows(q)'
  BY OthersKnow
<1>2. InOrder'
  BY DEF MigrationsInv, InOrder, AllOnRecord, LastOffRecord, Done
<1>3. \A q \in Processes : Bare(q)' => Bare(q)
  BY DEF Bare
<1>4. Alone'
  BY <1>3 DEF MigrationsInv, Alone
<1> QED
  BY <1>1, <1>2, <1>4 DEF MigrationsInv

\* It starts, and notes what is on record.
LEMMA StartInv ==
    ASSUME MigrationsInv, NEW p \in Processes, Start(p) PROVE MigrationsInv'
<1>1. PICK spoiled \in IF remote THEN BOOLEAN ELSE {FALSE} :
         proc' = [proc EXCEPT ![p].pc = "opened", ![p].found = applied, ![p].spoiled = spoiled]
  BY DEF Start
<1>2. spoiled \in BOOLEAN /\ (~remote => ~spoiled)
  BY <1>1 DEF MigrationsInv, MigrationsTypeOK, ProcTypes
<1>3. MigrationsTypeOK'
  <2> DEFINE x == [proc[p] EXCEPT !.pc = "opened"]
  <2> DEFINE y == [x EXCEPT !.found = applied]
  <2> DEFINE z == [y EXCEPT !.spoiled = spoiled]
  <2>1. proc[p] \in ProcTypes /\ "opened" \in PCs /\ applied \in SUBSET Nat
    BY DEF MigrationsInv, MigrationsTypeOK, PCs
  <2>2. x \in ProcTypes
    BY <2>1, ProcTyped
  <2>3. y \in ProcTypes
    BY <2>1, <2>2, ProcTyped
  <2>4. z \in ProcTypes
    BY <1>2, <2>3, ProcTyped
  <2>5. proc' = [proc EXCEPT ![p] = z]
    BY <1>1 DEF MigrationsInv, MigrationsTypeOK
  <2> QED
    BY <2>4, <2>5 DEF MigrationsInv, MigrationsTypeOK, Start
<1>4. proc'[p].pc = "opened" /\ proc'[p].found = applied /\ proc'[p].spoiled = spoiled
  BY <1>1 DEF MigrationsInv, MigrationsTypeOK, ProcTypes
<1>5. Knows(p)' /\ ~Bare(p)'
  BY <1>2, <1>4 DEF Start, Knows, Bare, Working, Writing
<1>6. \A q \in Processes \ {p} : proc'[q] = proc[q]
  BY <1>1 DEF MigrationsInv, MigrationsTypeOK, ProcTypes
<1> QED
  BY <1>3, <1>5, <1>6, StepKeepsInv DEF Start

\* The process exits, by itself or not, or is replaced.
LEMMA StoppedInv ==
    ASSUME MigrationsInv, NEW p \in Processes, NEW files \in Builds,
           proc' = [proc EXCEPT ![p] = Stopped(files)],
           UNCHANGED <<remote, applied, changes, half>>, writer' = writer \/ writer \in {None, p}
    PROVE  MigrationsInv'
<1>1. MigrationsTypeOK' /\ proc'[p] = Stopped(files)
  BY DEF MigrationsInv, MigrationsTypeOK, ProcTypes, Stopped, PCs
<1>2. Knows(p)' /\ ~Bare(p)'
  BY <1>1 DEF Stopped, Knows, Bare, Working, Writing
<1>3. \A q \in Processes \ {p} : proc'[q] = proc[q]
  BY DEF MigrationsInv, MigrationsTypeOK, ProcTypes
<1> QED
  BY <1>1, <1>2, <1>3, StepKeepsInv

\* It exits, with or without the lock it had.
LEMMA ExitInv ==
    ASSUME MigrationsInv, NEW p \in Processes, Exit(p),
           UNCHANGED <<remote, applied, changes, half>>, writer' = writer \/ writer' = Free(p)
    PROVE  MigrationsInv'
<1>1. proc[p].files \in Builds
  BY DEF MigrationsInv, MigrationsTypeOK, ProcTypes
<1>2. proc' = [proc EXCEPT ![p] = Stopped(proc[p].files)]
  BY DEF Exit, MigrationsInv, MigrationsTypeOK, ProcTypes
<1>3. writer' = writer \/ writer \in {None, p}
  BY DEF Free
<1> QED
  BY <1>1, <1>2, <1>3, StoppedInv

\* Where a process goes, and that nothing else of it changes.
LEMMA GotoMeans ==
    ASSUME MigrationsInv, NEW p \in Processes, NEW pc \in PCs, Goto(p, pc),
           UNCHANGED remote, applied' \in SUBSET Nat, changes' \in Seq(Nat), half' \in SUBSET Nat
    PROVE  /\ MigrationsTypeOK'
           /\ proc'[p].pc = pc /\ proc'[p].files = proc[p].files
           /\ proc'[p].read = proc[p].read /\ proc'[p].found = proc[p].found
           /\ proc'[p].spoiled = proc[p].spoiled /\ proc'[p].open = proc[p].open
           /\ Missing(p)' = Missing(p) /\ Version(p)' = Version(p)
           /\ \A q \in Processes \ {p} :
                 /\ proc'[q] = proc[q] /\ Missing(q)' = Missing(q) /\ Version(q)' = Version(q)
                 /\ Bare(q)' = Bare(q)
<1>1. MigrationsTypeOK'
  BY DEF MigrationsInv, MigrationsTypeOK, ProcTypes, Goto, PCs
<1>2. /\ proc'[p].pc = pc /\ proc'[p].files = proc[p].files
      /\ proc'[p].read = proc[p].read /\ proc'[p].found = proc[p].found
      /\ proc'[p].spoiled = proc[p].spoiled /\ proc'[p].open = proc[p].open
  BY DEF MigrationsInv, MigrationsTypeOK, ProcTypes, Goto
<1>3. Missing(p)' = Missing(p)
  BY <1>2 DEF Missing
<1>4. Version(p)' = Version(p)
  BY <1>3 DEF Version
<1>5. \A q \in Processes \ {p} : proc'[q] = proc[q]
  BY DEF Goto, MigrationsInv, MigrationsTypeOK, ProcTypes
<1>6. \A q \in Processes \ {p} : Missing(q)' = Missing(q) /\ Bare(q)' = Bare(q)
  BY <1>5 DEF Missing, Bare
<1>7. \A q \in Processes \ {p} : Version(q)' = Version(q)
  BY <1>6 DEF Version
<1> QED
  BY <1>1, <1>2, <1>3, <1>4, <1>5, <1>6, <1>7

\* The process gives up a migration.
LEMMA FailedInv ==
    ASSUME MigrationsInv, NEW p \in Processes, Goto(p, "failed"),
           UNCHANGED <<remote, applied, changes, half, writer>>
    PROVE  MigrationsInv'
<1>1. /\ MigrationsTypeOK' /\ proc'[p].pc = "failed" /\ proc'[p].found = proc[p].found
      /\ proc'[p].spoiled = proc[p].spoiled /\ \A q \in Processes \ {p} : proc'[q] = proc[q]
  BY GotoMeans DEF MigrationsInv, MigrationsTypeOK, ProcTypes, PCs
<1>2. Knows(p)' /\ ~Bare(p)'
  BY <1>1 DEF MigrationsInv, Knows, Bare, Working, Writing
<1> QED
  BY <1>1, <1>2, StepKeepsInv

\* It reads the migrations on record.
LEMMA ReadInv ==
    ASSUME MigrationsInv, NEW p \in Processes, Read(p) PROVE MigrationsInv'
<1>1. CASE Complete(proc[p].files) /\ ~Ahead(applied, proc[p].files)
           /\ proc' = [proc EXCEPT ![p].pc = "migrating", ![p].read = applied]
  <2>1. MigrationsTypeOK'
    <3> DEFINE x == [proc[p] EXCEPT !.pc = "migrating"]
    <3> DEFINE y == [x EXCEPT !.read = applied]
    <3>1. proc[p] \in ProcTypes /\ "migrating" \in PCs /\ applied \in SUBSET Nat
      BY DEF MigrationsInv, MigrationsTypeOK, PCs
    <3>2. x \in ProcTypes
      BY <3>1, ProcTyped
    <3>3. y \in ProcTypes
      BY <3>1, <3>2, ProcTyped
    <3>4. proc' = [proc EXCEPT ![p] = y]
      BY <1>1 DEF MigrationsInv, MigrationsTypeOK
    <3> QED
      BY <3>3, <3>4 DEF MigrationsInv, MigrationsTypeOK, Read
  <2>2. /\ proc'[p].pc = "migrating" /\ proc'[p].read = applied
        /\ proc'[p].files = proc[p].files /\ proc'[p].found = proc[p].found
        /\ proc'[p].spoiled = proc[p].spoiled
    BY <1>1 DEF MigrationsInv, MigrationsTypeOK, ProcTypes
  <2>3. proc[p].found \subseteq applied /\ applied \subseteq proc[p].files
    BY <1>1 DEF MigrationsInv, Knows, Ahead
  <2>4. \E n \in Nat : proc[p].files = 1..n
    <3>1. proc[p].files \in Builds
      BY DEF MigrationsInv, MigrationsTypeOK, ProcTypes
    <3> QED
      BY <1>1, <3>1, CompleteIsInterval
  <2>5. \E k \in Nat : proc'[p].read = 1..k
    BY <2>2, RecordIsInterval DEF MigrationsInv
  <2>6. ~remote => ~proc[p].spoiled
    BY DEF MigrationsInv, Knows
  <2>7. Knows(p)' /\ ~Bare(p)'
    BY <2>2, <2>3, <2>4, <2>5, <2>6 DEF Knows, Read, Bare, Writing
  <2>8. \A q \in Processes \ {p} : proc'[q] = proc[q]
    BY <1>1 DEF MigrationsInv, MigrationsTypeOK, ProcTypes
  <2> QED
    BY <2>1, <2>7, <2>8, StepKeepsInv DEF Read
<1>2. CASE Exit(p)
  BY <1>2, ExitInv DEF Read
<1> QED
  BY <1>1, <1>2 DEF Read

\* It begins a transaction, which takes no lock yet, or believes that it does.
LEMMA BeginInv ==
    ASSUME MigrationsInv, NEW p \in Processes, Begin(p) PROVE MigrationsInv'
<1>1. /\ proc[p].pc = "migrating" /\ Missing(p) # {} /\ proc[p].spoiled \in BOOLEAN
      /\ proc' = [proc EXCEPT ![p].pc = "begun", ![p].open = ~proc[p].spoiled,
                              ![p].spoiled = FALSE]
  BY DEF Begin, MigrationsInv, MigrationsTypeOK, ProcTypes
<1>2. MigrationsTypeOK'
  <2> DEFINE x == [proc[p] EXCEPT !.pc = "begun"]
  <2> DEFINE y == [x EXCEPT !.open = ~proc[p].spoiled]
  <2> DEFINE z == [y EXCEPT !.spoiled = FALSE]
  <2>1. proc[p] \in ProcTypes /\ "begun" \in PCs
    BY DEF MigrationsInv, MigrationsTypeOK, PCs
  <2>2. x \in ProcTypes
    BY <2>1, ProcTyped
  <2>3. y \in ProcTypes
    <3>1. \A v \in BOOLEAN : [x EXCEPT !.open = v] \in ProcTypes
      BY <2>2, ProcTyped
    <3>2. (~proc[p].spoiled) \in BOOLEAN
      OBVIOUS
    <3> QED
      BY <3>1, <3>2, Zenon
  <2>4. z \in ProcTypes
    BY <2>3, ProcTyped
  <2>5. proc' = [proc EXCEPT ![p] = z]
    BY <1>1 DEF MigrationsInv, MigrationsTypeOK
  <2> QED
    BY <2>4, <2>5 DEF MigrationsInv, MigrationsTypeOK, Begin
<1>3. /\ proc'[p].pc = "begun" /\ proc'[p].files = proc[p].files
      /\ proc'[p].read = proc[p].read /\ proc'[p].found = proc[p].found
      /\ proc'[p].spoiled = FALSE /\ proc'[p].open = ~proc[p].spoiled
  BY <1>1 DEF MigrationsInv, MigrationsTypeOK, ProcTypes
<1>4. Missing(p)' = Missing(p)
  BY <1>3 DEF Missing
<1>5. Knows(p)
  BY DEF MigrationsInv
<1>6. Knows(p)' /\ ~Bare(p)'
  BY <1>1, <1>3, <1>4, <1>5 DEF Begin, Knows, Bare, Working, Writing
<1>7. \A q \in Processes \ {p} : proc'[q] = proc[q]
  BY <1>1 DEF MigrationsInv, MigrationsTypeOK, ProcTypes
<1> QED
  BY <1>2, <1>6, <1>7, StepKeepsInv DEF Begin

\* Everything of the build is read, and what is read is on record.
LEMMA ServeInv ==
    ASSUME MigrationsInv, NEW p \in Processes, Serve(p) PROVE MigrationsInv'
<1>1. /\ Knows(p) /\ proc[p].pc = "migrating" /\ Missing(p) = {} /\ Goto(p, "up")
      /\ UNCHANGED <<remote, applied, changes, half, writer>>
  BY DEF Serve, MigrationsInv
<1>2. proc[p].files \subseteq applied /\ proc[p].found \subseteq proc[p].files
  BY <1>1 DEF Knows, Working, Missing
<1>3. /\ MigrationsTypeOK' /\ proc'[p].pc = "up" /\ proc'[p].found = proc[p].found
      /\ proc'[p].files = proc[p].files
      /\ proc'[p].spoiled = proc[p].spoiled /\ \A q \in Processes \ {p} : proc'[q] = proc[q]
  BY <1>1, GotoMeans DEF MigrationsInv, MigrationsTypeOK, ProcTypes, PCs
<1>4. Knows(p)' /\ ~Bare(p)'
  BY <1>1, <1>2, <1>3 DEF Knows, Bare, Working, Writing
<1> QED
  BY <1>1, <1>3, <1>4, StepKeepsInv

\* A change that fits the tables is the first that is not done, all before it are
\* on record, and nobody else is at work on them.
LEMMA FitsMeans ==
    ASSUME MigrationsInv, NEW p \in Processes, proc[p].pc = "begun", Fits(p)
    PROVE  /\ Version(p) = Len(changes) + 1 /\ applied = Done /\ half = {} /\ Missing(p) # {}
           /\ \A q \in Processes : ~Bare(q) /\ ~(proc[q].pc \in Writing /\ proc[q].open)
<1>1. Knows(p) /\ Missing(p) # {}
  BY DEF MigrationsInv, Knows
<1>2. PICK n \in Nat, k \in Nat : proc[p].files = 1..n /\ proc[p].read = 1..k
  BY <1>1 DEF Knows, Working
<1>3. Len(changes) \in Nat
  BY DEF MigrationsInv, MigrationsTypeOK, ProcTypes
<1>4. Version(p) = k + 1
  BY <1>1, <1>2, NextVersion
<1>5. k + 1 \notin Done /\ k + 1 \notin half
  BY <1>4, DoneIsRange DEF MigrationsInv, Fits
<1>6. k <= Len(changes) /\ 1..k \subseteq applied
  <2>1. 1..k \subseteq applied /\ applied \subseteq Done
    BY <1>1, <1>2, RecordIsInterval DEF Knows, Working, MigrationsInv
  <2>2. k = 0 \/ k \in Done
    BY <1>2, <2>1
  <2> QED
    BY <1>2, <1>3, <2>1, <2>2 DEF Done
<1>7. k = Len(changes)
  BY <1>2, <1>3, <1>5, <1>6 DEF Done
<1>8. ~LastOffRecord
  <2> SUFFICES ASSUME LastOffRecord PROVE FALSE
    OBVIOUS
  <2>1. k \in 1..k /\ k \notin 1..(k - 1)
    BY <1>2, <1>7 DEF LastOffRecord
  <2> QED
    BY <1>6, <1>7, <2>1 DEF LastOffRecord
<1>9. applied = Done /\ half = {}
  BY <1>5, <1>7, <1>8 DEF MigrationsInv, InOrder, AllOnRecord
<1>10. \A q \in Processes : ~Bare(q)
  BY <1>8 DEF MigrationsInv, Knows
<1>11. \A q \in Processes : ~(proc[q].pc \in Writing /\ proc[q].open)
  BY MigrationsAssumption DEF MigrationsInv, Knows, Fits
<1> QED
  BY <1>1, <1>4, <1>7, <1>9, <1>10, <1>11

\* In a transaction: it has the lock, and nothing shows yet.
LEMMA ChangeOpenInv ==
    ASSUME MigrationsInv, NEW p \in Processes, proc[p].pc = "begun", Fits(p), proc[p].open,
           writer' = p, Goto(p, "changed"), UNCHANGED <<remote, applied, changes, half>>
    PROVE  MigrationsInv'
<1>1. /\ Version(p) = Len(changes) + 1 /\ applied = Done /\ half = {} /\ Missing(p) # {}
      /\ writer = None
  BY FitsMeans DEF Fits
<1>2. /\ MigrationsTypeOK'
      /\ proc'[p].pc = "changed" /\ proc'[p].files = proc[p].files
      /\ proc'[p].read = proc[p].read /\ proc'[p].found = proc[p].found
      /\ proc'[p].spoiled = proc[p].spoiled /\ proc'[p].open = proc[p].open
      /\ Missing(p)' = Missing(p) /\ Version(p)' = Version(p)
      /\ \A q \in Processes \ {p} : proc'[q] = proc[q]
  BY GotoMeans DEF MigrationsInv, MigrationsTypeOK, ProcTypes, PCs
<1>3. Knows(p) /\ Done' = Done
  BY DEF MigrationsInv, Done
<1>4. ~Bare(p)'
  BY <1>2 DEF Bare
<1>5. Knows(p)'
  BY <1>1, <1>2, <1>3, <1>4 DEF Knows, Working, Writing
<1> QED
  BY <1>1, <1>2, <1>4, <1>5, StepKeepsInv

\* The next migration is carried out.
LEMMA OneMore ==
    ASSUME MigrationsInv, changes' = Append(changes, Len(changes) + 1)
    PROVE  /\ Len(changes') = Len(changes) + 1 /\ changes' \in Seq(Nat)
           /\ Done' = Done \cup {Len(changes) + 1} /\ \A i \in Done' : changes'[i] = i
<1> DEFINE L == Len(changes)
<1>1. L \in Nat /\ changes \in Seq(Nat) /\ DOMAIN changes = 1..L
  BY DEF MigrationsInv, MigrationsTypeOK, ProcTypes
<1>2. Len(changes') = L + 1 /\ changes' \in Seq(Nat) /\ Done' = Done \cup {L + 1}
  BY <1>1 DEF Done
<1>3. \A i \in Done : changes'[i] = i
  BY <1>1 DEF MigrationsInv, InOrder, Done
<1>4. changes'[L + 1] = L + 1
  BY <1>1
<1> QED
  BY <1>2, <1>3, <1>4

\* Without one: the last migration is now off the record.
LEMMA ChangeBareInv ==
    ASSUME MigrationsInv, NEW p \in Processes, proc[p].pc = "begun", Fits(p), ~proc[p].open,
           changes' = Append(changes, Version(p)), Goto(p, "changed"),
           UNCHANGED <<remote, applied, half, writer>>
    PROVE  MigrationsInv'
<1> DEFINE L == Len(changes)
<1>1. /\ Version(p) = L + 1 /\ applied = Done /\ half = {} /\ Missing(p) # {}
      /\ \A q \in Processes : ~Bare(q) /\ ~(proc[q].pc \in Writing /\ proc[q].open)
  BY FitsMeans
<1>2. L \in Nat
  BY DEF MigrationsInv, MigrationsTypeOK, ProcTypes
<1>3. /\ Len(changes') = L + 1 /\ changes' \in Seq(Nat)
      /\ Done' = Done \cup {L + 1} /\ \A i \in Done' : changes'[i] = i
  BY <1>1, OneMore
<1>4. /\ MigrationsTypeOK'
      /\ proc'[p].pc = "changed" /\ proc'[p].files = proc[p].files
      /\ proc'[p].read = proc[p].read /\ proc'[p].found = proc[p].found
      /\ proc'[p].spoiled = proc[p].spoiled /\ proc'[p].open = proc[p].open
      /\ Missing(p)' = Missing(p) /\ Version(p)' = Version(p)
      /\ \A q \in Processes \ {p} :
            /\ proc'[q] = proc[q] /\ Missing(q)' = Missing(q) /\ Version(q)' = Version(q)
            /\ Bare(q)' = Bare(q)
  BY <1>3, GotoMeans DEF MigrationsInv, MigrationsTypeOK, ProcTypes, PCs
<1>5. LastOffRecord'
  BY <1>1, <1>2, <1>3 DEF LastOffRecord, Done
<1>6. remote
  BY DEF MigrationsInv, Knows
<1>7. InOrder'
  BY <1>3, <1>5, <1>6 DEF InOrder
<1>8. Alone'
  BY <1>1, <1>4 DEF Alone
<1>9. Knows(p)'
  <2>1. Knows(p)
    BY DEF MigrationsInv
  <2> QED
    BY <1>1, <1>3, <1>4, <1>5, <1>6, <2>1 DEF Knows, Working, Writing
<1>10. \A q \in Processes \ {p} : Knows(q)'
  <2> SUFFICES ASSUME NEW q \in Processes, q # p PROVE Knows(q)'
    OBVIOUS
  <2>1. Knows(q)
    BY DEF MigrationsInv
  <2> QED
    BY <1>1, <1>4, <1>6, <2>1 DEF Knows, Working, Writing
<1> QED
  BY <1>4, <1>7, <1>8, <1>9, <1>10 DEF MigrationsInv

\* A file is carried out or fails as a whole.
LEMMA ChangeInv ==
    ASSUME MigrationsInv, NEW p \in Processes, Change(p) PROVE MigrationsInv'
<1>1. proc[p].pc = "begun" /\ UNCHANGED <<remote, applied, half>>
  BY DEF Change
<1>2. CASE Fits(p) /\ proc[p].open /\ writer' = p /\ Goto(p, "changed") /\ UNCHANGED changes
  BY <1>1, <1>2, ChangeOpenInv
<1>3. CASE /\ Fits(p) /\ ~proc[p].open /\ changes' = Append(changes, Version(p))
           /\ Goto(p, "changed") /\ UNCHANGED writer
  BY <1>1, <1>3, ChangeBareInv
<1>4. CASE Goto(p, "failed") /\ UNCHANGED <<changes, writer>>
  BY <1>1, <1>4, FailedInv
<1> QED
  BY <1>2, <1>3, <1>4 DEF Change

\* A file is cut short: it was the next, and stays so for good.
LEMMA CutShortInv ==
    ASSUME MigrationsInv, NEW p \in Processes, CutShort(p) PROVE MigrationsInv'
<1> DEFINE L == Len(changes)
<1>1. /\ Version(p) = L + 1 /\ applied = Done /\ half = {}
      /\ \A q \in Processes : ~Bare(q) /\ ~(proc[q].pc \in Writing /\ proc[q].open)
  BY FitsMeans DEF CutShort
<1>2. /\ half' = {L + 1} /\ Goto(p, "failed") /\ UNCHANGED <<remote, applied, changes, writer>>
      /\ proc[p].pc = "begun" /\ ~proc[p].open
  BY <1>1 DEF CutShort
<1>3. L \in Nat /\ L + 1 \in Nat /\ half' \in SUBSET Nat
  BY <1>2 DEF MigrationsInv, MigrationsTypeOK, ProcTypes
<1>4. /\ MigrationsTypeOK'
      /\ proc'[p].pc = "failed" /\ proc'[p].found = proc[p].found
      /\ proc'[p].spoiled = proc[p].spoiled
      /\ \A q \in Processes \ {p} :
            /\ proc'[q] = proc[q] /\ Missing(q)' = Missing(q) /\ Version(q)' = Version(q)
            /\ Bare(q)' = Bare(q)
  BY <1>2, <1>3, GotoMeans DEF MigrationsInv, MigrationsTypeOK, ProcTypes, PCs
<1>5. remote
  BY <1>2 DEF MigrationsInv, Knows
<1>6. AllOnRecord' /\ InOrder'
  BY <1>1, <1>2, <1>5 DEF MigrationsInv, InOrder, AllOnRecord, Done
<1>7. ~Bare(p)' /\ Alone'
  BY <1>1, <1>4 DEF Alone, Bare
<1>8. Knows(p)'
  <2>1. Knows(p)
    BY DEF MigrationsInv
  <2> QED
    BY <1>2, <1>4, <1>5, <1>7, <2>1 DEF Knows, Working, Writing
<1>9. \A q \in Processes \ {p} : Knows(q)'
  <2> SUFFICES ASSUME NEW q \in Processes, q # p PROVE Knows(q)'
    OBVIOUS
  <2>1. Knows(q)
    BY DEF MigrationsInv
  <2> QED
    BY <1>1, <1>2, <1>4, <1>5, <2>1 DEF Knows, Working, Writing
<1> QED
  BY <1>4, <1>6, <1>7, <1>8, <1>9 DEF MigrationsInv

\* The row of a change that stands already: all is on record again.
LEMMA RecordBareInv ==
    ASSUME MigrationsInv, NEW p \in Processes, Bare(p), Goto(p, "recorded"),
           applied' = applied \cup {Version(p)}, UNCHANGED <<remote, changes, half, writer>>
    PROVE  MigrationsInv'
<1> DEFINE L == Len(changes)
<1>1. Knows(p) /\ Version(p) = L /\ LastOffRecord /\ proc[p].pc = "changed" /\ ~proc[p].open
  BY DEF MigrationsInv, Knows, Bare
<1>2. L \in Nat /\ L > 0
  BY <1>1 DEF MigrationsInv, MigrationsTypeOK, ProcTypes, LastOffRecord
<1>3. applied' = Done /\ Done' = Done /\ applied \subseteq Done /\ half' = {}
  BY <1>1, <1>2 DEF LastOffRecord, Done
<1>4. applied' \in SUBSET Nat
  BY <1>3 DEF Done
<1>5. /\ MigrationsTypeOK'
      /\ proc'[p].pc = "recorded" /\ proc'[p].files = proc[p].files
      /\ proc'[p].read = proc[p].read /\ proc'[p].found = proc[p].found
      /\ proc'[p].spoiled = proc[p].spoiled /\ proc'[p].open = proc[p].open
      /\ Missing(p)' = Missing(p) /\ Version(p)' = Version(p)
      /\ \A q \in Processes \ {p} :
            /\ proc'[q] = proc[q] /\ Missing(q)' = Missing(q) /\ Version(q)' = Version(q)
            /\ Bare(q)' = Bare(q)
  BY <1>4, GotoMeans DEF MigrationsInv, MigrationsTypeOK, ProcTypes, PCs
<1>6. InOrder'
  BY <1>3 DEF MigrationsInv, InOrder, AllOnRecord
<1>7. ~Bare(p)' /\ (\A q \in Processes : ~Bare(q)') /\ Alone'
  BY <1>5 DEF Alone, Bare, MigrationsInv
<1>8. Knows(p)'
  <2>1. applied \subseteq applied' /\ remote
    BY <1>1, <1>3 DEF Knows, Writing
  <2> QED
    BY <1>1, <1>5, <1>7, <2>1 DEF Knows, Working, Writing
<1>9. \A q \in Processes \ {p} : Knows(q)'
  <2> SUFFICES ASSUME NEW q \in Processes, q # p PROVE Knows(q)'
    OBVIOUS
  <2>1. Knows(q) /\ applied # Done
    BY <1>1, <1>2 DEF MigrationsInv, LastOffRecord, Done
  <2>2. ~(proc[q].pc \in Writing /\ proc[q].open)
    BY <2>1 DEF Knows
  <2>3. applied \subseteq applied'
    BY <1>3
  <2> QED
    BY <1>5, <1>7, <2>1, <2>2, <2>3 DEF Knows, Working, Writing
<1> QED
  BY <1>5, <1>6, <1>7, <1>8, <1>9 DEF MigrationsInv

\* It writes the migration's record.
LEMMA RecordInv ==
    ASSUME MigrationsInv, NEW p \in Processes, Record(p) PROVE MigrationsInv'
<1>1. Knows(p) /\ proc[p].pc = "changed" /\ UNCHANGED <<remote, changes, half, writer>>
  BY DEF Record, MigrationsInv
<1>2. CASE Recordable(p) /\ proc[p].open
  <2>1. Goto(p, "recorded") /\ applied' = applied
    BY <1>2 DEF Record
  <2>2. /\ MigrationsTypeOK'
        /\ proc'[p].pc = "recorded" /\ proc'[p].files = proc[p].files
        /\ proc'[p].read = proc[p].read /\ proc'[p].found = proc[p].found
        /\ proc'[p].spoiled = proc[p].spoiled /\ proc'[p].open = proc[p].open
        /\ Missing(p)' = Missing(p) /\ Version(p)' = Version(p)
        /\ \A q \in Processes \ {p} : proc'[q] = proc[q]
    BY <1>1, <2>1, GotoMeans DEF MigrationsInv, MigrationsTypeOK, ProcTypes, PCs
  <2>3. ~Bare(p)' /\ Done' = Done
    BY <1>1, <2>2 DEF Bare, Done
  <2>4. Knows(p)'
    BY <1>1, <1>2, <2>1, <2>2, <2>3 DEF Knows, Working, Writing
  <2> QED
    BY <1>1, <2>1, <2>2, <2>3, <2>4, StepKeepsInv
<1>3. CASE Recordable(p) /\ ~proc[p].open
  BY <1>1, <1>3, RecordBareInv DEF Record, Bare
<1>4. CASE ~Recordable(p)
  BY <1>1, <1>4, FailedInv DEF Record
<1> QED
  BY <1>2, <1>3, <1>4

\* The next migration goes on record.  Nobody else is writing, so what the others
\* know stays true.
LEMMA CommitInv ==
    ASSUME MigrationsInv, NEW p \in Processes, Commit(p) PROVE MigrationsInv'
<1> DEFINE L == Len(changes)
<1>1. /\ Knows(p) /\ proc[p].pc = "recorded" /\ proc[p].open /\ writer = p
      /\ Missing(p) # {} /\ Version(p) = L + 1 /\ applied = Done /\ half = {}
  BY DEF Commit, MigrationsInv, Knows, Writing
<1>2. L \in Nat
  BY DEF MigrationsInv, MigrationsTypeOK, ProcTypes
<1>3. PICK n \in Nat, k \in Nat : proc[p].files = 1..n /\ proc[p].read = 1..k
  BY <1>1 DEF Knows, Working
<1>4. k = L /\ k + 1 \in 1..n
  <2>1. Version(p) = k + 1 /\ k + 1 \in 1..n
    BY <1>1, <1>3, NextVersion
  <2>2. k + 1 = L + 1
    BY <1>1, <2>1, Zenon
  <2> QED
    BY <1>2, <1>3, <2>1, <2>2
<1>5. /\ changes' = Append(changes, L + 1) /\ applied' = applied \cup {L + 1} /\ writer' = None
      /\ UNCHANGED <<remote, half>>
  BY <1>1 DEF Commit
<1>6. /\ Len(changes') = L + 1 /\ changes' \in Seq(Nat)
      /\ Done' = Done \cup {L + 1} /\ \A i \in Done' : changes'[i] = i
  BY <1>5, OneMore
<1>7. applied' \in SUBSET Nat /\ half' \in SUBSET Nat
  <2>1. L + 1 \in Nat
    BY <1>2
  <2>2. applied \in SUBSET Nat /\ half \in SUBSET Nat
    BY DEF MigrationsInv, MigrationsTypeOK, ProcTypes
  <2> QED
    BY <1>5, <2>1, <2>2
<1>8. InOrder'
  BY <1>1, <1>5, <1>6 DEF InOrder, AllOnRecord
<1>9. /\ \A q \in Processes : ~Bare(q)
      /\ \A q \in Processes \ {p} : ~(proc[q].pc \in Writing /\ proc[q].open)
  <2>1. ~LastOffRecord
    BY <1>1, <1>2 DEF LastOffRecord, Done
  <2> QED
    BY <1>1, <2>1 DEF MigrationsInv, Knows
<1>10. \A q \in Processes \ {p} : proc'[q] = proc[q]
  BY DEF Commit, Goto, MigrationsInv, MigrationsTypeOK, ProcTypes
<1>11. \A q \in Processes \ {p} : Knows(q)'
  <2> SUFFICES ASSUME NEW q \in Processes, q # p PROVE Knows(q)'
    OBVIOUS
  <2>1. Knows(q) /\ ~(proc[q].pc \in Writing /\ proc[q].open) /\ ~Bare(q)
    BY <1>9 DEF MigrationsInv
  <2>2. proc'[q] = proc[q] /\ Missing(q)' = Missing(q) /\ Bare(q)' = Bare(q)
    BY <1>10 DEF Missing, Bare
  <2>3. applied \subseteq applied' /\ remote' = remote
    BY <1>5
  <2> QED
    BY <2>1, <2>2, <2>3 DEF Knows
<1>12. MigrationsTypeOK' /\ Knows(p)' /\ ~Bare(p)'
  <2>1. CASE proc' = [proc EXCEPT ![p].pc = "migrating", ![p].read = @ \cup {Version(p)}]
    <3>1. /\ proc'[p].pc = "migrating" /\ proc'[p].files = proc[p].files
          /\ proc'[p].found = proc[p].found /\ proc'[p].read = proc[p].read \cup {L + 1}
          /\ proc'[p].spoiled = proc[p].spoiled
      BY <1>1, <2>1 DEF MigrationsInv, MigrationsTypeOK, ProcTypes
    <3>2. proc'[p].read = 1..(L + 1) /\ proc'[p].read \subseteq proc'[p].files
      BY <1>2, <1>3, <1>4, <3>1
    <3>3. L + 1 \in Nat /\ proc'[p].read \subseteq applied'
      BY <1>1, <1>2, <1>5, <3>1 DEF Knows, Working
    <3>4. Knows(p)' /\ ~Bare(p)'
      BY <1>1, <1>3, <1>5, <3>1, <3>2, <3>3 DEF Knows, Bare, Working, Writing
    <3>5. MigrationsTypeOK'
      <4>1. proc[p].read \cup {Version(p)} \in SUBSET Nat
        BY <1>1, <1>2 DEF MigrationsInv, MigrationsTypeOK, ProcTypes
      <4> DEFINE r == proc[p].read \cup {Version(p)}
      <4> DEFINE x == [proc[p] EXCEPT !.pc = "migrating"]
      <4> DEFINE y == [x EXCEPT !.read = r]
      <4>2. proc[p] \in ProcTypes /\ "migrating" \in PCs
        BY DEF MigrationsInv, MigrationsTypeOK, PCs
      <4>3. x \in ProcTypes
        BY <4>2, ProcTyped
      <4>4. y \in ProcTypes
        BY <4>1, <4>3, ProcTyped
      <4>5. proc' = [proc EXCEPT ![p] = y]
        BY <2>1, <4>2 DEF MigrationsInv, MigrationsTypeOK, ProcTypes
      <4> QED
        BY <1>5, <1>6, <1>7, <4>4, <4>5 DEF MigrationsInv, MigrationsTypeOK
    <3> QED
      BY <3>4, <3>5
  <2>2. CASE Goto(p, "failed")
    <3>1. /\ MigrationsTypeOK' /\ proc'[p].pc = "failed" /\ proc'[p].found = proc[p].found
          /\ proc'[p].spoiled = proc[p].spoiled
      BY <1>5, <1>6, <1>7, <2>2, GotoMeans DEF PCs
    <3>2. Knows(p)' /\ ~Bare(p)'
      BY <1>1, <1>5, <3>1 DEF Knows, Bare, Working, Writing
    <3> QED
      BY <3>1, <3>2
  <2> QED
    BY <2>1, <2>2 DEF Commit
<1>13. Alone'
  BY <1>9, <1>10, <1>12 DEF Alone, Bare
<1> QED
  BY <1>8, <1>11, <1>12, <1>13 DEF MigrationsInv

\* The inductive invariant: every step of every process keeps it.
THEOREM MigrationsInvariant == Spec => []MigrationsInv
<1>1. MigrationsInv /\ [Next]_vars => MigrationsInv'
  <2> SUFFICES ASSUME MigrationsInv, [Next]_vars PROVE MigrationsInv'
    OBVIOUS
  <2>1. ASSUME NEW p \in Processes, Rollback(p) \/ Crash(p) PROVE MigrationsInv'
    BY <2>1, ExitInv DEF Rollback, Crash
  <2>2. ASSUME NEW p \in Processes, Fault(p) \/ NothingToCommit(p) PROVE MigrationsInv'
    BY <2>2, ExitInv, FailedInv DEF Fault, NothingToCommit
  <2>3. ASSUME NEW p \in Processes, NEW b \in Builds, Deploy(p, b) PROVE MigrationsInv'
    BY <2>3, StoppedInv DEF Deploy
  <2>4. CASE UNCHANGED vars
    BY <2>4 DEF vars, MigrationsInv, MigrationsTypeOK, ProcTypes, InOrder, AllOnRecord, LastOffRecord,
                Alone, Bare, Done, Knows, Missing, Version
  <2> QED
    BY <2>1, <2>2, <2>3, <2>4, StartInv, ReadInv, BeginInv, ChangeInv, CutShortInv, RecordInv,
       CommitInv, ServeInv DEF Next, Step
<1> QED
  BY <1>1, InitInv, PTL DEF Spec

\* However many processes race and wherever their starts are cut off, every
\* migration on record was carried out, once and in order; a local database has no
\* other, and a hosted one whose transactions may not be any has at most the last
\* one off the record (openReservedDatabase).
THEOREM EachMigrationOnce == Spec => []SchemaIsOnRecord
<1>1. MigrationsInv => SchemaIsOnRecord
  <2> SUFFICES ASSUME MigrationsInv PROVE SchemaIsOnRecord
    OBVIOUS
  <2>1. Range(changes) = Done /\ applied \subseteq Done /\ Len(changes) \in Nat
    BY DoneIsRange, RecordIsInterval DEF MigrationsInv, MigrationsTypeOK, ProcTypes
  <2>2. \A i \in DOMAIN changes : changes[i] = i
    BY DEF MigrationsInv, MigrationsTypeOK, ProcTypes, InOrder, Done
  <2>3. ~remote => OffRecord = {}
    BY <2>1 DEF MigrationsInv, InOrder, OffRecord
  <2>4. \A v \in OffRecord : \A w \in Range(changes) \cup half : w <= v
    <3>1. CASE AllOnRecord
      <4>1. OffRecord \subseteq {Len(changes) + 1}
        BY <2>1, <3>1 DEF AllOnRecord, OffRecord
      <4>2. \A w \in Range(changes) \cup half : w <= Len(changes) + 1
        <5>1. \A w \in Done : w <= Len(changes) + 1
          BY <2>1 DEF Done
        <5>2. \A w \in half : w = Len(changes) + 1
          BY <3>1 DEF AllOnRecord
        <5> QED
          BY <2>1, <5>1, <5>2
      <4> QED
        BY <4>1, <4>2
    <3>2. CASE LastOffRecord
      <4>1. OffRecord \subseteq {Len(changes)}
        BY <2>1, <3>2 DEF LastOffRecord, OffRecord, Done
      <4>2. \A w \in Range(changes) \cup half : w <= Len(changes)
        BY <2>1, <3>2 DEF LastOffRecord, Done
      <4> QED
        BY <4>1, <4>2
    <3> QED
      BY <3>1, <3>2 DEF MigrationsInv, InOrder
  <2> QED
    BY <2>1, <2>2, <2>3, <2>4 DEF SchemaIsOnRecord
<1> QED
  BY <1>1, MigrationsInvariant, PTL

\* Whatever is deployed beside it, a process that serves has the tables its build
\* needs, and had none its build does not know when it started
\* (openReservedDatabase, migrationsUnder).
THEOREM ServingIsOnSchema == Spec => []ServesOnItsSchema
<1>1. MigrationsInv => ServesOnItsSchema
  BY DoneIsRange, RecordIsInterval DEF MigrationsInv, Knows, ServesOnItsSchema
<1> QED
  BY <1>1, MigrationsInvariant, PTL
=============================================================================
