-------------------------- MODULE StepStoreProofs --------------------------
(***************************************************************************)
(* Machine-checked proofs about StepStore, for any number of calls: type   *)
(* correctness, the order of the sequence indexes, that no two calls take  *)
(* the same one, and that the queue of a run is released.                  *)
(***************************************************************************)
EXTENDS StepStore, FiniteSetTheorems, TLAPS

\* Calls whose turn has come.
Turned == {c \in Calls : call[c] \notin {"idle", "queued"}}

\* completeRun of store-memory lets a later call overtake; until then, and
\* with store-prisma, the calls stand in one line.
Ordered == run = "RUNNING" \/ adapter = "prisma"

\* The places in the line are different, and the next one is free.
PlaceInv ==
    /\ \A c \in Made : pos[c] < Cardinality(Made)
    /\ \A c, d \in Made : pos[c] = pos[d] => c = d

SettledInv ==
    /\ settled \subseteq Turned
    /\ adapter = "prisma" => \A c \in settled : call[c] \in Ended
    /\ \A c \in DOMAIN rows : call[c] \in {"started", "rejected"}

\* Every call waits for the one before it, and has its turn after all of them.
ChainInv ==
    Ordered =>
        /\ tail = None => Made \subseteq settled
        /\ tail # None => tail \in Made /\ \A c \in Made : pos[c] <= pos[tail]
        /\ \A c \in Turned, d \in Made : pos[d] < pos[c] => d \in settled
        /\ \A c \in Made : prev[c] = None => \A d \in Made : pos[d] < pos[c] => d \in settled
        /\ \A c \in Made : prev[c] # None =>
              /\ prev[c] \in Made
              /\ \A d \in Made : pos[d] < pos[c] => pos[d] <= pos[prev[c]]

\* The entry of store-prisma belongs to a call that has not settled.
QueueInv == adapter = "prisma" /\ tail # None => tail \notin settled

\* The counter of store-memory is ahead of every number given.
CounterInv ==
    adapter = "memory" /\ run = "RUNNING" =>
        /\ counter \in Nat
        /\ \A c \in Turned : number[c] < counter
        /\ \A c, d \in Turned : pos[c] < pos[d] => number[c] < number[d]
        /\ \A c \in DOMAIN rows : rows[c] = number[c]

\* store-prisma: what a transaction has read is ahead of every row.
TableInv ==
    adapter = "prisma" =>
        /\ \A c \in Calls : call[c] = "numbered" => \A d \in DOMAIN rows : rows[d] < number[c]
        /\ DOMAIN rows # {} => \E d \in DOMAIN rows : \A e \in DOMAIN rows : rows[e] <= rows[d]
        /\ \A c, d \in DOMAIN rows : pos[c] < pos[d] => rows[c] < rows[d]

-----------------------------------------------------------------------------
(* Types.                                                                  *)

LEMMA TypeInit == Init => TypeOK
BY CallAssumption DEF CallAssumption, Init, TypeOK, CallAt

LEMMA InsertedType ==
    ASSUME TypeOK, NEW c \in Calls
    PROVE  /\ DOMAIN Inserted(c) = DOMAIN rows \cup {c}
           /\ Inserted(c)[c] = number[c]
           /\ \A d \in DOMAIN rows : d # c => Inserted(c)[d] = rows[d]
           /\ DOMAIN Inserted(c) \subseteq Calls
           /\ Inserted(c) \in [DOMAIN Inserted(c) -> Nat]
BY DEF TypeOK, Inserted

LEMMA NextIndexAhead ==
    ASSUME TypeOK,
           DOMAIN rows # {} => \E d \in DOMAIN rows : \A e \in DOMAIN rows : rows[e] <= rows[d]
    PROVE  NextIndex \in Nat /\ \A d \in DOMAIN rows : rows[d] < NextIndex
<1>1. CASE DOMAIN rows = {}
  BY <1>1 DEF NextIndex
<1>2. CASE DOMAIN rows # {}
  <2> DEFINE Highest(i) == \A j \in Indexes : j <= i
             top == CHOOSE i \in Indexes : Highest(i)
  <2>1. \E i \in Indexes : Highest(i)
    BY <1>2 DEF Indexes
  <2>2. top \in Indexes /\ Highest(top)
    BY <2>1
  <2>3. Indexes \subseteq Nat
    BY DEF TypeOK, Indexes
  <2>4. NextIndex = 1 + top
    BY <1>2 DEF NextIndex
  <2> HIDE DEF top
  <2>5. \A d \in DOMAIN rows : rows[d] <= top
    BY <2>2 DEF Indexes
  <2> QED
    BY <2>2, <2>3, <2>4, <2>5 DEF Indexes, TypeOK
<1> QED
  BY <1>1, <1>2

LEMMA TypeStep == TypeOK /\ TableInv /\ [Next]_vars => TypeOK'
<1> SUFFICES ASSUME TypeOK, TableInv, [Next]_vars PROVE TypeOK'
  OBVIOUS
<1>a. IsFiniteSet(Made)
  BY CallAssumption, FS_Subset DEF CallAssumption, Made
<1>b. Cardinality(Made) \in Nat
  BY <1>a, FS_CardinalityType
<1> USE DEF TypeOK, CallAt
<1>1. ASSUME NEW c \in Calls, Call(c) PROVE TypeOK'
  BY <1>1, <1>b DEF Call
<1>2. ASSUME NEW c \in Calls, NextSeq(c) PROVE TypeOK'
  <2>1. counter' \in Nat /\ number' \in [Calls -> Nat]
    BY <1>2 DEF NextSeq
  <2> QED
    BY <1>2, <2>1 DEF NextSeq
<1>3. ASSUME NEW c \in Calls, InsertInMemory(c) PROVE TypeOK'
  BY <1>3, InsertedType DEF InsertInMemory
<1>4. ASSUME NEW c \in Calls, ReadHighest(c) PROVE TypeOK'
  <2>1. NextIndex \in Nat
    BY <1>4, NextIndexAhead DEF TableInv, ReadHighest
  <2> QED
    BY <1>4, <2>1 DEF ReadHighest
<1>5. ASSUME NEW c \in Calls, InsertAndCommit(c) PROVE TypeOK'
  BY <1>5, InsertedType DEF InsertAndCommit
<1>6. ASSUME NEW c \in Calls, TransactionRejects(c) PROVE TypeOK'
  BY <1>6, InsertedType DEF TransactionRejects
<1>7. ASSUME NEW c \in Calls, Release(c) PROVE TypeOK'
  BY <1>7 DEF Release, LastReleases
<1>8. CASE CompleteRun
  BY <1>8 DEF CompleteRun
<1>9. CASE UNCHANGED vars
  BY <1>9 DEF vars
<1> QED
  BY <1>1, <1>2, <1>3, <1>4, <1>5, <1>6, <1>7, <1>8, <1>9 DEF Next, Serving

-----------------------------------------------------------------------------
(* The line.                                                               *)

\* What a step does to the line, whichever store it is in.
Joins(c) ==
    /\ call[c] = "idle" /\ call' = [call EXCEPT ![c] = "queued"]
    /\ pos' = [pos EXCEPT ![c] = Cardinality(Made)]
    /\ prev' = [prev EXCEPT ![c] = tail]
    /\ tail' = c
    /\ settled' = settled /\ run' = run
HasTurn(c) ==
    /\ Turn(c)
    /\ \E s \in CallAt \ {"idle", "queued"} : call' = [call EXCEPT ![c] = s]
    /\ settled' = settled \/ (adapter = "memory" /\ settled' = settled \cup {c})
    /\ tail' = tail /\ pos' = pos /\ prev' = prev /\ run' = run
GoesOn(c) ==
    /\ call[c] = "numbered" /\ \E s \in Ended : call' = [call EXCEPT ![c] = s]
    /\ settled' = settled
    /\ tail' = tail /\ pos' = pos /\ prev' = prev /\ run' = run
Leaves(c) ==
    /\ call[c] \in Ended /\ adapter = "prisma"
    /\ settled' = settled \cup {c} /\ LastReleases(c)
    /\ call' = call /\ pos' = pos /\ prev' = prev /\ run' = run
Stays ==
    /\ call' = call /\ settled' = settled /\ pos' = pos /\ prev' = prev
    /\ (tail' = tail /\ run' = run) \/ (run' = "OVER" /\ (adapter = "prisma" => tail' = tail))

LEMMA LineSteps ==
    [Next]_vars => /\ adapter' = adapter
                   /\ Stays \/ \E c \in Calls : Joins(c) \/ HasTurn(c) \/ GoesOn(c) \/ Leaves(c)
<1> SUFFICES ASSUME [Next]_vars
             PROVE  /\ adapter' = adapter
                    /\ Stays \/ \E c \in Calls : Joins(c) \/ HasTurn(c) \/ GoesOn(c) \/ Leaves(c)
  OBVIOUS
<1> USE DEF CallAt, Ended
<1>1. ASSUME NEW c \in Calls, Call(c) PROVE adapter' = adapter /\ Joins(c)
  BY <1>1 DEF Call, Joins
<1>2. ASSUME NEW c \in Calls, NextSeq(c) PROVE adapter' = adapter /\ HasTurn(c)
  BY <1>2 DEF NextSeq, HasTurn
<1>3. ASSUME NEW c \in Calls, InsertInMemory(c) PROVE adapter' = adapter /\ GoesOn(c)
  BY <1>3 DEF InsertInMemory, GoesOn
<1>4. ASSUME NEW c \in Calls, ReadHighest(c) PROVE adapter' = adapter /\ HasTurn(c)
  BY <1>4 DEF ReadHighest, HasTurn
<1>5. ASSUME NEW c \in Calls, InsertAndCommit(c) PROVE adapter' = adapter /\ GoesOn(c)
  BY <1>5 DEF InsertAndCommit, GoesOn
<1>6. ASSUME NEW c \in Calls, TransactionRejects(c)
      PROVE  adapter' = adapter /\ (HasTurn(c) \/ GoesOn(c))
  BY <1>6 DEF TransactionRejects, HasTurn, GoesOn
<1>7. ASSUME NEW c \in Calls, Release(c) PROVE adapter' = adapter /\ Leaves(c)
  BY <1>7 DEF Release, SettlesAnyhow, Leaves
<1>8. CASE CompleteRun
  BY <1>8 DEF CompleteRun, Stays
<1>9. CASE UNCHANGED vars
  BY <1>9 DEF vars, Stays
<1> QED
  BY <1>1, <1>2, <1>3, <1>4, <1>5, <1>6, <1>7, <1>8, <1>9 DEF Next, Serving

\* A call whose turn it is has nobody before it.
LEMMA TurnInOrder ==
    ASSUME Ordered, PlaceInv, SettledInv, ChainInv, NEW c \in Calls, Turn(c), TypeOK
    PROVE  \A d \in Made : pos[d] < pos[c] => d \in settled
<1>0. c \in Made
  BY DEF Turn, Made
<1>1. CASE prev[c] = None
  BY <1>0, <1>1 DEF ChainInv
<1>2. CASE prev[c] # None
  <2>1. prev[c] \in settled /\ prev[c] \in Made
    BY <1>0, <1>2 DEF Turn, ChainInv
  <2>2. prev[c] \in Turned
    BY <2>1 DEF SettledInv
  <2> SUFFICES ASSUME NEW d \in Made, pos[d] < pos[c] PROVE d \in settled
    OBVIOUS
  <2>3. pos[d] <= pos[prev[c]]
    BY <1>0, <1>2 DEF ChainInv
  <2>4. pos[d] \in Nat /\ pos[prev[c]] \in Nat
    BY <2>1 DEF TypeOK, Made
  <2>5. CASE pos[d] < pos[prev[c]]
    BY <2>2, <2>5 DEF ChainInv
  <2>6. CASE pos[d] = pos[prev[c]]
    BY <2>1, <2>6 DEF PlaceInv
  <2> QED
    BY <2>3, <2>4, <2>5, <2>6
<1> QED
  BY <1>1, <1>2

\* Nothing but Joins changes who stands in line.
LEMMA MadeSame ==
    ASSUME TypeOK, Stays \/ \E c \in Calls : HasTurn(c) \/ GoesOn(c) \/ Leaves(c)
    PROVE  Made' = Made /\ Turned \subseteq Turned' /\ pos' = pos /\ prev' = prev
<1>1. CASE Stays \/ \E c \in Calls : Leaves(c)
  BY <1>1 DEF Stays, Leaves, Made, Turned
<1>2. ASSUME NEW c \in Calls, HasTurn(c) \/ GoesOn(c)
      PROVE  Made' = Made /\ Turned \subseteq Turned' /\ pos' = pos /\ prev' = prev
  BY <1>2 DEF HasTurn, GoesOn, Turn, TypeOK, Made, Turned, CallAt, Ended
<1> QED
  BY <1>1, <1>2

LEMMA MadeJoined ==
    ASSUME TypeOK, NEW c \in Calls, Joins(c)
    PROVE  /\ Made' = Made \cup {c} /\ c \notin Made /\ Turned' = Turned
           /\ Cardinality(Made) \in Nat /\ Cardinality(Made') = Cardinality(Made) + 1
           /\ \A d \in Made : d # c /\ pos'[d] = pos[d] /\ prev'[d] = prev[d]
           /\ pos'[c] = Cardinality(Made) /\ prev'[c] = tail
<1>1. IsFiniteSet(Made)
  BY CallAssumption, FS_Subset DEF CallAssumption, Made
<1>2. Made' = Made \cup {c} /\ c \notin Made /\ Turned' = Turned
  BY DEF Joins, Made, Turned, TypeOK, CallAt
<1>3. Cardinality(Made) \in Nat /\ Cardinality(Made') = Cardinality(Made) + 1
  BY <1>1, <1>2, FS_AddElement, FS_CardinalityType
<1>4. /\ \A d \in Made : d # c /\ pos'[d] = pos[d] /\ prev'[d] = prev[d]
      /\ pos'[c] = Cardinality(Made) /\ prev'[c] = tail
  BY <1>2 DEF Joins, TypeOK, Made
<1> QED
  BY <1>2, <1>3, <1>4

LEMMA PlaceStep == TypeOK /\ PlaceInv /\ [Next]_vars => PlaceInv'
<1> SUFFICES ASSUME TypeOK, PlaceInv, [Next]_vars PROVE PlaceInv'
  OBVIOUS
<1>1. ASSUME NEW c \in Calls, Joins(c) PROVE PlaceInv'
  <2>1. \A d \in Made : pos[d] \in Nat
    BY DEF TypeOK, Made
  <2> QED
    BY <1>1, <2>1, MadeJoined DEF PlaceInv
<1>2. CASE Stays \/ \E c \in Calls : HasTurn(c) \/ GoesOn(c) \/ Leaves(c)
  BY <1>2, MadeSame DEF PlaceInv
<1> QED
  BY <1>1, <1>2, LineSteps

\* A call ends, with a row of its own or without.
LEMMA EndsSettled ==
    ASSUME TypeOK, SettledInv, NEW c \in Calls, call[c] \notin {"started", "rejected"},
           NEW s \in Ended, call' = [call EXCEPT ![c] = s], settled' = settled, adapter' = adapter,
           rows' = rows \/ (rows' = Inserted(c) /\ s # "collided")
    PROVE  SettledInv'
<1>1. call' \in [Calls -> CallAt] /\ call'[c] = s /\ \A d \in Calls : d # c => call'[d] = call[d]
  BY DEF TypeOK, CallAt, Ended
<1>2. settled \subseteq Calls /\ DOMAIN rows \subseteq Calls
  BY DEF TypeOK
<1>3. settled' \subseteq Turned'
  BY <1>1, <1>2 DEF SettledInv, Turned, Ended
<1>4. adapter = "prisma" => \A d \in settled' : call'[d] \in Ended
  BY <1>1, <1>2 DEF SettledInv
<1>5. \A d \in DOMAIN rows' : call'[d] \in {"started", "rejected"}
  <2>1. \A d \in DOMAIN rows : call'[d] \in {"started", "rejected"}
    BY <1>1, <1>2 DEF SettledInv
  <2>2. DOMAIN rows' = DOMAIN rows \/ (DOMAIN rows' = DOMAIN rows \cup {c} /\ s # "collided")
    BY InsertedType
  <2> QED
    BY <1>1, <2>1, <2>2 DEF Ended
<1> QED
  BY <1>3, <1>4, <1>5 DEF SettledInv

LEMMA SettledStep == TypeOK /\ SettledInv /\ [Next]_vars => SettledInv'
<1> SUFFICES ASSUME TypeOK, SettledInv, [Next]_vars PROVE SettledInv'
  OBVIOUS
<1> USE DEF SettledInv, TypeOK, Turned, CallAt, Ended
<1>1. ASSUME NEW c \in Calls, Call(c) PROVE SettledInv'
  BY <1>1 DEF Call
<1>2. ASSUME NEW c \in Calls, NextSeq(c) PROVE SettledInv'
  BY <1>2 DEF NextSeq, Turn
<1>3. ASSUME NEW c \in Calls, InsertInMemory(c) PROVE SettledInv'
  <2> HIDE DEF SettledInv, TypeOK, Turned, CallAt
  <2> QED
    BY <1>3, EndsSettled DEF InsertInMemory
<1>4. ASSUME NEW c \in Calls, ReadHighest(c) PROVE SettledInv'
  BY <1>4 DEF ReadHighest, Turn
<1>5. ASSUME NEW c \in Calls, InsertAndCommit(c) PROVE SettledInv'
  <2> HIDE DEF SettledInv, TypeOK, Turned, CallAt
  <2> QED
    BY <1>5, EndsSettled DEF InsertAndCommit
<1>6. ASSUME NEW c \in Calls, TransactionRejects(c) PROVE SettledInv'
  <2> HIDE DEF SettledInv, TypeOK, Turned, CallAt
  <2> QED
    BY <1>6, EndsSettled DEF TransactionRejects, Turn
<1>7. ASSUME NEW c \in Calls, Release(c) PROVE SettledInv'
  BY <1>7 DEF Release, SettlesAnyhow
<1>8. CASE CompleteRun \/ UNCHANGED vars
  BY <1>8 DEF CompleteRun, vars
<1> QED
  BY <1>1, <1>2, <1>3, <1>4, <1>5, <1>6, <1>7, <1>8 DEF Next, Serving

LEMMA ChainStep ==
    TypeOK /\ PlaceInv /\ SettledInv /\ ChainInv /\ [Next]_vars => ChainInv'
<1> SUFFICES ASSUME TypeOK, PlaceInv, SettledInv, ChainInv, [Next]_vars, Ordered'
             PROVE  ChainInv'
  BY DEF ChainInv
<1>0. adapter' = adapter
  BY LineSteps
<1>p. \A c \in Made : pos[c] \in Nat /\ c \in Calls
  BY DEF TypeOK, Made
<1>1. ASSUME NEW c \in Calls, Joins(c) PROVE ChainInv'
  <2>0. Ordered
    BY <1>0, <1>1 DEF Ordered, Joins
  <2>1. Made' = Made \cup {c} /\ c \notin Made /\ Turned' = Turned /\ settled' = settled
    BY <1>1, MadeJoined DEF Joins
  <2>2. \A d \in Made : pos'[d] = pos[d] /\ prev'[d] = prev[d] /\ pos[d] < pos'[c]
    BY <1>1, <1>p, MadeJoined DEF PlaceInv
  <2>3. prev'[c] = tail /\ tail' = c /\ c # None /\ pos'[c] \in Nat
    BY <1>1, MadeJoined, CallAssumption DEF CallAssumption, Joins
  <2>4. Turned \subseteq Made
    BY DEF Turned, Made
  <2>5. tail' # None /\ tail' \in Made' /\ \A d \in Made' : pos'[d] <= pos'[tail']
    BY <1>p, <2>1, <2>2, <2>3
  <2>6. \A d \in Turned', e \in Made' : pos'[e] < pos'[d] => e \in settled'
    <3> SUFFICES ASSUME NEW d \in Turned', NEW e \in Made', pos'[e] < pos'[d]
                 PROVE  e \in settled'
      OBVIOUS
    <3>1. d \in Made /\ d \in Turned
      BY <2>1, <2>4
    <3>2. e # c
      BY <1>p, <2>2, <2>3, <3>1
    <3> QED
      BY <2>0, <2>1, <2>2, <3>1, <3>2 DEF ChainInv
  <2>7. ASSUME NEW d \in Made', prev'[d] = None, NEW e \in Made', pos'[e] < pos'[d]
        PROVE  e \in settled'
    <3>1. CASE d = c
      BY <1>p, <2>0, <2>1, <2>3, <2>7, <3>1 DEF ChainInv
    <3>2. CASE d # c
      <4>1. e # c
        BY <1>p, <2>1, <2>2, <2>3, <2>7, <3>2
      <4> QED
        BY <2>0, <2>1, <2>2, <2>7, <3>2, <4>1 DEF ChainInv
    <3> QED
      BY <3>1, <3>2
  <2>8. ASSUME NEW d \in Made', prev'[d] # None
        PROVE  prev'[d] \in Made' /\ \A e \in Made' : pos'[e] < pos'[d] => pos'[e] <= pos'[prev'[d]]
    <3>1. CASE d = c
      <4>1. prev'[d] = tail /\ tail \in Made /\ \A e \in Made : pos[e] <= pos[tail]
        BY <2>0, <2>3, <2>8, <3>1 DEF ChainInv
      <4> QED
        BY <1>p, <2>1, <2>2, <2>3, <3>1, <4>1
    <3>2. CASE d # c
      <4>1. d \in Made /\ prev'[d] = prev[d]
        BY <2>1, <2>2, <3>2
      <4>2. prev[d] \in Made /\ \A e \in Made : pos[e] < pos[d] => pos[e] <= pos[prev[d]]
        BY <2>0, <2>8, <4>1 DEF ChainInv
      <4>3. ~(pos'[c] < pos'[d])
        BY <1>p, <2>2, <2>3, <4>1
      <4> QED
        BY <2>1, <2>2, <4>1, <4>2, <4>3
    <3> QED
      BY <3>1, <3>2
  <2> QED
    BY <2>5, <2>6, <2>7, <2>8 DEF ChainInv
<1>2. ASSUME NEW c \in Calls, HasTurn(c) PROVE ChainInv'
  <2>0. Ordered
    BY <1>0, <1>2 DEF Ordered, HasTurn
  <2>1. Made' = Made /\ pos' = pos /\ prev' = prev /\ tail' = tail /\ settled \subseteq settled'
    BY <1>2, MadeSame DEF HasTurn
  <2>2. Turned' \subseteq Turned \cup {c}
    BY <1>2 DEF HasTurn, Turned, TypeOK
  <2>3. \A d \in Made : pos[d] < pos[c] => d \in settled
    BY <1>2, <2>0, TurnInOrder DEF HasTurn
  <2> QED
    BY <2>0, <2>1, <2>2, <2>3 DEF ChainInv
<1>3. ASSUME NEW c \in Calls, GoesOn(c) PROVE ChainInv'
  <2>0. Ordered
    BY <1>0, <1>3 DEF Ordered, GoesOn
  <2>1. Made' = Made /\ pos' = pos /\ prev' = prev /\ tail' = tail /\ settled = settled'
    BY <1>3, MadeSame DEF GoesOn
  <2>2. Turned' \subseteq Turned
    BY <1>3 DEF GoesOn, Turned, TypeOK
  <2> QED
    BY <2>0, <2>1, <2>2 DEF ChainInv
<1>4. ASSUME NEW c \in Calls, Leaves(c) PROVE ChainInv'
  <2>0. Ordered
    BY <1>4 DEF Ordered, Leaves
  <2>1. /\ Made' = Made /\ pos' = pos /\ prev' = prev /\ Turned' = Turned
        /\ settled' = settled \cup {c}
    BY <1>4 DEF Leaves, Made, Turned
  <2>2. c \in Turned
    BY <1>4 DEF Leaves, Turned, Ended
  <2>3. tail' = tail \/ (tail = c /\ tail' = None)
    BY <1>4 DEF Leaves, LastReleases
  <2>4. ASSUME tail = c, tail' = None PROVE Made \subseteq settled'
    <3>1. \A d \in Made : pos[d] <= pos[c] /\ c \in Made
      BY <2>0, <2>4, CallAssumption DEF ChainInv, CallAssumption
    <3>2. \A d \in Made : d = c \/ pos[d] < pos[c]
      BY <1>p, <3>1 DEF PlaceInv
    <3> QED
      BY <2>0, <2>1, <2>2, <3>2 DEF ChainInv
  <2> QED
    BY <2>0, <2>1, <2>3, <2>4 DEF ChainInv
<1>5. CASE Stays
  <2>1. Ordered /\ tail' = tail
    BY <1>0, <1>5 DEF Ordered, Stays
  <2>2. Made' = Made /\ Turned' = Turned /\ pos' = pos /\ prev' = prev /\ settled' = settled
    BY <1>5 DEF Stays, Made, Turned
  <2> QED
    BY <2>1, <2>2 DEF ChainInv
<1> QED
  BY <1>1, <1>2, <1>3, <1>4, <1>5, LineSteps

LEMMA QueueStep == TypeOK /\ SettledInv /\ QueueInv /\ [Next]_vars => QueueInv'
<1> SUFFICES ASSUME TypeOK, SettledInv, QueueInv, [Next]_vars PROVE QueueInv'
  OBVIOUS
<1>0. adapter' = adapter
  BY LineSteps
<1>1. ASSUME NEW c \in Calls, Joins(c) PROVE QueueInv'
  <2>1. c \notin settled
    BY <1>1 DEF Joins, SettledInv, Turned
  <2> QED
    BY <1>1, <2>1 DEF Joins, QueueInv
<1>2. ASSUME NEW c \in Calls, Leaves(c) PROVE QueueInv'
  BY <1>0, <1>2 DEF Leaves, LastReleases, QueueInv
<1>3. CASE Stays
  BY <1>0, <1>3 DEF Stays, QueueInv
<1>4. ASSUME NEW c \in Calls, HasTurn(c) \/ GoesOn(c) PROVE QueueInv'
  BY <1>0, <1>4 DEF HasTurn, GoesOn, QueueInv
<1> QED
  BY <1>1, <1>2, <1>3, <1>4, LineSteps

-----------------------------------------------------------------------------
(* The indexes.                                                            *)

LEMMA CounterStep ==
    TypeOK /\ PlaceInv /\ SettledInv /\ ChainInv /\ CounterInv /\ [Next]_vars => CounterInv'
<1> SUFFICES ASSUME TypeOK, PlaceInv, SettledInv, ChainInv, CounterInv, [Next]_vars,
                    adapter' = "memory", run' = "RUNNING"
             PROVE  CounterInv'
  BY DEF CounterInv
<1>0. adapter = "memory" /\ run = "RUNNING"
  BY LineSteps DEF Next, Serving, Call, NextSeq, InsertInMemory, ReadHighest, InsertAndCommit,
     TransactionRejects, Release, CompleteRun, vars
<1>c. /\ counter \in Nat
      /\ \A c \in Turned : number[c] < counter
      /\ \A c, d \in Turned : pos[c] < pos[d] => number[c] < number[d]
      /\ \A c \in DOMAIN rows : rows[c] = number[c]
  BY <1>0 DEF CounterInv
<1>t. Turned \subseteq Made /\ DOMAIN rows \subseteq Turned
      /\ \A c \in Calls : number[c] \in Nat /\ pos[c] \in Nat
  BY DEF Turned, Made, SettledInv, TypeOK
<1>1. ASSUME NEW c \in Calls, Call(c) PROVE CounterInv'
  <2>1. Turned' = Turned /\ c \notin Turned
    BY <1>1 DEF Call, Turned, TypeOK, CallAt
  <2>2. \A d \in Turned : pos'[d] = pos[d]
    BY <1>1, <2>1 DEF Call, TypeOK, Turned
  <2>3. counter' = counter /\ number' = number /\ rows' = rows
    BY <1>1 DEF Call
  <2> QED
    BY <1>c, <2>1, <2>2, <2>3 DEF CounterInv
<1>2. ASSUME NEW c \in Calls, NextSeq(c) PROVE CounterInv'
  <2>1. c \notin Turned /\ Turned' = Turned \cup {c} /\ c \in Made
    BY <1>2 DEF NextSeq, Turn, Turned, TypeOK, Made
  <2>2. counter # None
    BY <1>c, CallAssumption DEF CallAssumption
  <2>3. number' = [number EXCEPT ![c] = counter] /\ counter' = counter + 1
    BY <1>2, <2>2 DEF NextSeq
  <2>4. number'[c] = counter /\ \A d \in Turned : number'[d] = number[d]
    BY <2>1, <2>3 DEF TypeOK
  <2>5. pos' = pos /\ rows' = rows
    BY <1>2 DEF NextSeq
  <2>6. \A d \in Turned : ~(pos[c] < pos[d])
    <3>1. c \notin settled
      BY <2>1 DEF SettledInv
    <3> QED
      BY <1>0, <1>t, <2>1, <3>1 DEF ChainInv, Ordered
  <2>7. \A d \in Turned' : number'[d] < counter'
    BY <1>c, <1>t, <2>1, <2>3, <2>4 DEF Turned
  <2>8. \A d, e \in Turned' : pos'[d] < pos'[e] => number'[d] < number'[e]
    BY <1>c, <1>t, <2>1, <2>4, <2>5, <2>6
  <2>9. \A d \in DOMAIN rows' : rows'[d] = number'[d]
    BY <1>c, <1>t, <2>4, <2>5
  <2> QED
    BY <1>c, <2>3, <2>7, <2>8, <2>9 DEF CounterInv
<1>3. ASSUME NEW c \in Calls, InsertInMemory(c) PROVE CounterInv'
  <2>1. Turned' = Turned
    BY <1>3 DEF InsertInMemory, Turned, TypeOK
  <2>2. counter' = counter /\ number' = number /\ pos' = pos /\ rows' = Inserted(c)
    BY <1>3 DEF InsertInMemory
  <2>3. \A d \in DOMAIN rows' : rows'[d] = number[d]
    BY <1>c, <2>2, InsertedType
  <2> QED
    BY <1>c, <2>1, <2>2, <2>3 DEF CounterInv
<1>4. CASE UNCHANGED vars
  BY <1>c, <1>4 DEF vars, CounterInv, Turned
<1> QED
  BY <1>0, <1>1, <1>2, <1>3, <1>4 DEF Next, Serving, ReadHighest, InsertAndCommit,
     TransactionRejects, Release, CompleteRun

\* A row that is ahead of all the others keeps the table in order.
LEMMA InsertAhead ==
    ASSUME TypeOK, PlaceInv, SettledInv, ChainInv, TableInv, adapter = "prisma",
           NEW c \in Calls, call[c] = "numbered"
    PROVE  /\ number[c] \notin Indexes
           /\ \A d \in DOMAIN Inserted(c) : Inserted(c)[d] <= Inserted(c)[c]
           /\ \A d, e \in DOMAIN Inserted(c) :
                 pos[d] < pos[e] => Inserted(c)[d] < Inserted(c)[e]
           /\ \A d \in Calls : call[d] = "numbered" => d = c
<1> DEFINE table == Inserted(c)
<1>1. /\ \A d \in DOMAIN rows : rows[d] < number[c]
      /\ \A d, e \in DOMAIN rows : pos[d] < pos[e] => rows[d] < rows[e]
  BY DEF TableInv
<1>2. /\ DOMAIN table = DOMAIN rows \cup {c} /\ table[c] = number[c]
      /\ \A d \in DOMAIN rows : d # c => table[d] = rows[d]
  BY InsertedType
<1>3. \A d \in DOMAIN rows : rows[d] \in Nat /\ d \in Turned /\ d \in Calls
  BY DEF TypeOK, SettledInv, Turned
<1>4. number[c] \in Nat /\ \A d \in Calls : pos[d] \in Nat
  BY DEF TypeOK
<1>5. c \in Made /\ c \in Turned /\ c \notin settled /\ c \notin DOMAIN rows
  BY DEF Made, Turned, SettledInv, Ended
<1>6. \A d \in Turned : ~(pos[c] < pos[d])
  BY <1>5 DEF ChainInv, Ordered
<1>7. \A d \in Calls : call[d] = "numbered" => d = c
  <2> SUFFICES ASSUME NEW d \in Calls, call[d] = "numbered" PROVE d = c
    OBVIOUS
  <2>1. d \in Made /\ d \in Turned /\ d \notin settled
    BY DEF Made, Turned, SettledInv, Ended
  <2>2. ~(pos[d] < pos[c])
    BY <1>5, <2>1 DEF ChainInv, Ordered
  <2>3. pos[d] = pos[c]
    BY <1>4, <1>6, <2>1, <2>2
  <2> QED
    BY <1>5, <2>1, <2>3 DEF PlaceInv
<1>8. number[c] \notin Indexes
  BY <1>1, <1>3, <1>4 DEF Indexes
<1> HIDE DEF table
<1>9. \A d \in DOMAIN table : table[d] <= table[c]
  BY <1>1, <1>2, <1>3, <1>4, <1>5
<1>10. \A d, e \in DOMAIN table : pos[d] < pos[e] => table[d] < table[e]
  BY <1>1, <1>2, <1>3, <1>4, <1>5, <1>6
<1> QED
  BY <1>7, <1>8, <1>9, <1>10 DEF table

LEMMA TableStep ==
    TypeOK /\ PlaceInv /\ SettledInv /\ ChainInv /\ TableInv /\ [Next]_vars => TableInv'
<1> SUFFICES ASSUME TypeOK, PlaceInv, SettledInv, ChainInv, TableInv, [Next]_vars,
                    adapter' = "prisma"
             PROVE  TableInv'
  BY DEF TableInv
<1>0. adapter = "prisma"
  BY LineSteps
<1>t. /\ \A c \in Calls : call[c] = "numbered" => \A d \in DOMAIN rows : rows[d] < number[c]
      /\ DOMAIN rows # {} => \E d \in DOMAIN rows : \A e \in DOMAIN rows : rows[e] <= rows[d]
      /\ \A c, d \in DOMAIN rows : pos[c] < pos[d] => rows[c] < rows[d]
  BY <1>0 DEF TableInv
<1>1. ASSUME NEW c \in Calls, Call(c) PROVE TableInv'
  <2>1. rows' = rows /\ number' = number /\ c \notin DOMAIN rows
    BY <1>1 DEF Call, SettledInv
  <2>2. \A d \in DOMAIN rows : pos'[d] = pos[d]
    BY <1>1, <2>1 DEF Call, TypeOK
  <2>3. \A d \in Calls : call'[d] = "numbered" => call[d] = "numbered"
    BY <1>1 DEF Call, TypeOK
  <2> QED
    BY <1>t, <2>1, <2>2, <2>3 DEF TableInv
<1>2. ASSUME NEW c \in Calls, ReadHighest(c) PROVE TableInv'
  <2>1. rows' = rows /\ pos' = pos /\ number' = [number EXCEPT ![c] = NextIndex]
    BY <1>2 DEF ReadHighest
  <2>2. \A d \in Calls : call'[d] = "numbered" => d = c \/ call[d] = "numbered"
    BY <1>2 DEF ReadHighest, TypeOK
  <2>3. \A d \in Calls : call'[d] = "numbered" => \A e \in DOMAIN rows : rows[e] < number'[d]
    BY <1>t, <2>1, <2>2, NextIndexAhead DEF TypeOK
  <2> QED
    BY <1>t, <2>1, <2>3 DEF TableInv
<1>3. ASSUME NEW c \in Calls, call[c] = "numbered", rows' = Inserted(c), pos' = pos,
             NEW s \in Ended, call' = [call EXCEPT ![c] = s]
      PROVE  TableInv'
  <2>1. \A d \in Calls : call'[d] # "numbered"
    BY <1>0, <1>3, InsertAhead DEF TypeOK, Ended
  <2>2. c \in DOMAIN rows'
    BY <1>3, InsertedType
  <2> QED
    BY <1>0, <1>3, <2>1, <2>2, InsertAhead DEF TableInv
<1>4. ASSUME NEW c \in Calls, rows' = rows, pos' = pos, number' = number,
             NEW s \in Ended, call' = [call EXCEPT ![c] = s]
      PROVE  TableInv'
  <2>1. \A d \in Calls : call'[d] = "numbered" => call[d] = "numbered"
    BY <1>4 DEF TypeOK, Ended
  <2> QED
    BY <1>4, <1>t, <2>1 DEF TableInv
<1>5. ASSUME NEW c \in Calls, InsertAndCommit(c) \/ TransactionRejects(c) PROVE TableInv'
  BY <1>3, <1>4, <1>5 DEF InsertAndCommit, TransactionRejects, Ended
<1>6. ASSUME NEW c \in Calls, Release(c) PROVE TableInv'
  BY <1>6, <1>t DEF Release, TableInv
<1>7. CASE CompleteRun \/ UNCHANGED vars
  BY <1>7, <1>t DEF CompleteRun, vars, TableInv
<1> QED
  BY <1>0, <1>1, <1>2, <1>5, <1>6, <1>7 DEF Next, Serving, NextSeq, InsertInMemory

-----------------------------------------------------------------------------
(* The theorems.                                                           *)

IInv == TypeOK /\ PlaceInv /\ SettledInv /\ ChainInv /\ QueueInv /\ CounterInv /\ TableInv

THEOREM Invariance == Spec => []IInv
<1>1. Init => IInv
  <2> SUFFICES ASSUME Init PROVE IInv
    OBVIOUS
  <2>1. Made = {} /\ Turned = {} /\ settled = {} /\ DOMAIN rows = {} /\ tail = None
    BY DEF Init, Made, Turned
  <2>2. adapter = "memory" => counter = 0
    BY DEF Init
  <2>3. \A c \in Calls : call[c] = "idle"
    BY DEF Init
  <2> QED
    BY <2>1, <2>2, <2>3, TypeInit
       DEF IInv, PlaceInv, SettledInv, ChainInv, QueueInv, CounterInv, TableInv
<1>2. IInv /\ [Next]_vars => IInv'
  BY TypeStep, PlaceStep, SettledStep, ChainStep, QueueStep, CounterStep, TableStep DEF IInv
<1> QED
  BY <1>1, <1>2, PTL DEF Spec

\* The variables keep their types (TypeOK).
THEOREM TypeCorrect == Spec => []TypeOK
<1>1. IInv => TypeOK
  BY DEF IInv
<1> QED
  BY <1>1, Invariance, PTL

\* Steps are numbered in the order in which they were started, for any number
\* of concurrent calls (contracts.ts StepRecorder).
THEOREM NumbersFollowCalls == Spec => []NumberedInCallOrder
<1>1. IInv => NumberedInCallOrder
  <2> SUFFICES ASSUME IInv, run = "RUNNING" \/ adapter = "prisma",
                      NEW c \in DOMAIN rows, NEW d \in DOMAIN rows, pos[c] < pos[d]
               PROVE  rows[c] < rows[d]
    BY DEF NumberedInCallOrder
  <2>1. CASE adapter = "prisma"
    BY <2>1 DEF IInv, TableInv
  <2>2. CASE adapter = "memory" /\ run = "RUNNING"
    <3>1. c \in Turned /\ d \in Turned
      BY DEF IInv, TypeOK, SettledInv, Turned
    <3> QED
      BY <2>2, <3>1 DEF IInv, CounterInv
  <2> QED
    BY <2>1, <2>2, CallAssumption DEF IInv, TypeOK, CallAssumption
<1> QED
  BY <1>1, Invariance, PTL

\* A start() of store-prisma never takes an index that is taken (serializeByRun).
THEOREM IndexesAreFree == Spec => []NeverCollides
<1>1. IInv /\ NeverCollides /\ [Next]_vars => NeverCollides'
  <2> SUFFICES ASSUME IInv, NeverCollides, [Next]_vars, NEW c \in Calls
               PROVE  call'[c] # "collided"
    BY DEF NeverCollides
  <2>0. call \in [Calls -> CallAt] /\ call[c] # "collided"
    BY DEF IInv, TypeOK, NeverCollides
  <2>1. ASSUME NEW d \in Calls, InsertAndCommit(d) PROVE call'[c] # "collided"
    <3>1. number[d] \notin Indexes
      BY <2>1, InsertAhead DEF IInv, InsertAndCommit
    <3> QED
      BY <2>0, <2>1, <3>1 DEF InsertAndCommit
  <2>2. ASSUME NEW d \in Calls, Call(d) \/ NextSeq(d) \/ InsertInMemory(d) \/ ReadHighest(d)
                                 \/ TransactionRejects(d) \/ Release(d)
        PROVE  call'[c] # "collided"
    BY <2>0, <2>2 DEF Call, NextSeq, InsertInMemory, ReadHighest, TransactionRejects, Release
  <2>3. CASE CompleteRun \/ UNCHANGED vars
    BY <2>0, <2>3 DEF CompleteRun, vars
  <2> QED
    BY <2>1, <2>2, <2>3 DEF Next, Serving
<1>2. Init => NeverCollides
  BY DEF Init, NeverCollides
<1> QED
  BY <1>1, <1>2, Invariance, PTL DEF Spec

\* The map of store-prisma holds nothing when every call has settled
\* (serializeByRun).
THEOREM QueueGoes == Spec => []QueueIsReleased
<1>1. IInv => QueueIsReleased
  <2> SUFFICES ASSUME IInv, adapter = "prisma", Made \subseteq settled, tail # None
               PROVE  FALSE
    BY DEF QueueIsReleased
  <2>1. tail \in Made
    BY DEF IInv, ChainInv, Ordered
  <2>2. tail \notin settled
    BY DEF IInv, QueueInv
  <2> QED
    BY <2>1, <2>2
<1> QED
  BY <1>1, Invariance, PTL
=============================================================================
