----------------------------- MODULE StepStore -----------------------------
(***************************************************************************)
(* The step rows of one run in the two stores of the repository, and how   *)
(* concurrent start() and startChild() calls get their sequenceIndex.      *)
(*                                                                         *)
(* store-memory keeps a counter per run and a promise chain through which  *)
(* the calls read it; completeRun forgets both.  store-prisma keeps a      *)
(* queue of promises per run; each call in turn runs a transaction that    *)
(* reads the highest index and inserts the next one, and may reject.       *)
(* Which store a behaviour uses is fixed by Init.                          *)
(***************************************************************************)
EXTENDS Integers, FiniteSets

CONSTANTS
    Calls,      \* the start() and startChild() calls of the run
    Adapters,   \* the stores looked at: a subset of {"memory", "prisma"}
    None

ASSUME CallAssumption ==
    /\ IsFiniteSet(Calls)
    /\ None \notin Calls \cup Nat
    /\ Adapters \subseteq {"memory", "prisma"}

VARIABLES
    adapter,  \* the store in use
    run,      \* status column of the run row
    call,     \* call[c]: where the call stands
    pos,      \* pos[c]: how many calls had been made when c was made
    prev,     \* prev[c]: the call whose promise c chained onto, or None
    tail,     \* seqLocks / startQueues: the call the map holds for the run, or None
    settled,  \* calls whose chained promise has resolved
    counter,  \* store-memory: seqByRun.get(runId), or None
    number,   \* number[c]: the index c holds between obtaining and inserting it
    rows      \* the step table: call -> sequenceIndex, for the inserted ones

vars == <<adapter, run, call, pos, prev, tail, settled, counter, number, rows>>

CallAt == {"idle", "queued", "numbered", "started", "collided", "rejected"}
Ended  == {"started", "collided", "rejected"}
Made   == {c \in Calls : call[c] # "idle"}
Indexes == {rows[c] : c \in DOMAIN rows}

TypeOK ==
    /\ adapter \in Adapters
    /\ run \in {"RUNNING", "OVER"}
    /\ call \in [Calls -> CallAt]
    /\ pos \in [Calls -> Nat]
    /\ prev \in [Calls -> Calls \cup {None}]
    /\ tail \in Calls \cup {None}
    /\ settled \in SUBSET Calls
    /\ counter \in Nat \cup {None}
    /\ number \in [Calls -> Nat]
    /\ DOMAIN rows \subseteq Calls
    /\ rows \in [DOMAIN rows -> Nat]

\* createRun has returned.
Init ==
    /\ adapter \in Adapters
    /\ run = "RUNNING"
    /\ call = [c \in Calls |-> "idle"]
    /\ pos = [c \in Calls |-> 0]
    /\ prev = [c \in Calls |-> None]
    /\ tail = None
    /\ settled = {}
    /\ counter = IF adapter = "memory" THEN 0 ELSE None
    /\ number = [c \in Calls |-> 0]
    /\ rows = [c \in {} |-> None]

-----------------------------------------------------------------------------
\* start() or startChild(), up to its first await: chain onto the promise the
\* map holds for the run, and become what it holds.
Call(c) ==
    /\ call[c] = "idle"
    /\ call' = [call EXCEPT ![c] = "queued"]
    /\ pos' = [pos EXCEPT ![c] = Cardinality(Made)]
    /\ prev' = [prev EXCEPT ![c] = tail]
    /\ tail' = c
    /\ UNCHANGED <<adapter, run, settled, counter, number, rows>>

\* Mutation: every call runs as soon as it is made.
TurnAtOnce(c) == call[c] = "queued"

Turn(c) ==
    /\ call[c] = "queued"
    /\ prev[c] # None => prev[c] \in settled

Inserted(c) == [d \in DOMAIN rows \cup {c} |->
                   IF d = c THEN number[c] ELSE rows[d]]

(* store-memory                                                            *)

\* The callback of nextSeq: read and bump the counter in one go.  An unknown
\* run counts from 0.
NextSeq(c) ==
    /\ adapter = "memory"
    /\ Turn(c)
    /\ LET current == IF counter = None THEN 0 ELSE counter
       IN  /\ number' = [number EXCEPT ![c] = current]
           /\ counter' = current + 1
    /\ call' = [call EXCEPT ![c] = "numbered"]
    /\ settled' = settled \cup {c}
    /\ UNCHANGED <<adapter, run, pos, prev, tail, rows>>

\* The continuation of start() after nextSeq.
InsertInMemory(c) ==
    /\ adapter = "memory"
    /\ call[c] = "numbered"
    /\ rows' = Inserted(c)
    /\ call' = [call EXCEPT ![c] = "started"]
    /\ UNCHANGED <<adapter, run, pos, prev, tail, settled, counter, number>>

(* store-prisma                                                            *)

\* findFirst orderBy sequenceIndex desc, plus one.
NextIndex ==
    IF DOMAIN rows = {} THEN 0 ELSE 1 + CHOOSE i \in Indexes : \A j \in Indexes : j <= i

\* The transaction of startInternal has read the highest index.
ReadHighest(c) ==
    /\ adapter = "prisma"
    /\ Turn(c)
    /\ number' = [number EXCEPT ![c] = NextIndex]
    /\ call' = [call EXCEPT ![c] = "numbered"]
    /\ UNCHANGED <<adapter, run, pos, prev, tail, settled, counter, rows>>

\* It inserts and commits; @@unique([runId, sequenceIndex]) makes an index
\* that is taken reject.
InsertAndCommit(c) ==
    /\ adapter = "prisma"
    /\ call[c] = "numbered"
    /\ IF number[c] \in Indexes
       THEN call' = [call EXCEPT ![c] = "collided"] /\ UNCHANGED rows
       ELSE call' = [call EXCEPT ![c] = "started"] /\ rows' = Inserted(c)
    /\ UNCHANGED <<adapter, run, pos, prev, tail, settled, counter, number>>

\* The transaction rejects before it reads, before it inserts, or after it
\* committed (the connection is lost: the row is there, the caller fails).
TransactionRejects(c) ==
    /\ adapter = "prisma"
    /\ \/ Turn(c) /\ UNCHANGED rows
       \/ call[c] = "numbered" /\ UNCHANGED rows
       \/ call[c] = "numbered" /\ number[c] \notin Indexes /\ rows' = Inserted(c)
    /\ call' = [call EXCEPT ![c] = "rejected"]
    /\ UNCHANGED <<adapter, run, pos, prev, tail, settled, counter, number>>

\* Mutation: the queue entry is deleted whoever holds it by now.
AnyoneReleases(c) == tail' = None

\* Mutation: the entry is compared with another promise than the one stored.
NobodyReleases(c) == UNCHANGED tail

\* The entry is deleted unless a later call has chained onto it.
LastReleases(c) == tail' = IF tail = c THEN None ELSE tail

\* Mutation: a rejected call never lets the next one run.
SettlesOnSuccess(c) == call[c] = "started"

SettlesAnyhow(c) == call[c] \in Ended

\* The catch().finally() of serializeByRun.
Release(c) ==
    /\ adapter = "prisma"
    /\ SettlesAnyhow(c) /\ c \notin settled
    /\ settled' = settled \cup {c}
    /\ LastReleases(c)
    /\ UNCHANGED <<adapter, run, call, pos, prev, counter, number, rows>>

(* Both                                                                    *)

\* completeRun, for the write that wins: store-memory drops its two entries.
CompleteRun ==
    /\ run = "RUNNING"
    /\ run' = "OVER"
    /\ IF adapter = "memory"
       THEN counter' = None /\ tail' = None
       ELSE UNCHANGED <<counter, tail>>
    /\ UNCHANGED <<adapter, call, pos, prev, settled, number, rows>>

-----------------------------------------------------------------------------
Serving(c) == NextSeq(c) \/ InsertInMemory(c) \/ ReadHighest(c) \/ InsertAndCommit(c)
              \/ TransactionRejects(c) \/ Release(c)

Next ==
    \/ \E c \in Calls : Call(c) \/ Serving(c)
    \/ CompleteRun

Spec == Init /\ [][Next]_vars

\* Promises that are due run, and the database answers or rejects.
FairSpec == Spec /\ \A c \in Calls : WF_vars(Serving(c))
-----------------------------------------------------------------------------
\* While the run is on, and for store-prisma ever after, the steps are numbered
\* in the order in which they were started, and so never alike, whatever
\* happens to the calls in between (contracts.ts StepRecorder: fan-in calls
\* start() concurrently).
NumberedInCallOrder ==
    run = "RUNNING" \/ adapter = "prisma" =>
        \A c, d \in DOMAIN rows : pos[c] < pos[d] => rows[c] < rows[d]

\* The per-run queue of store-prisma is a mutex: a start() is only ever
\* rejected by the database, never by another start() that took its index.
NeverCollides == \A c \in Calls : call[c] # "collided"

\* No queue entry outlives the calls of store-prisma: when every call made has
\* settled, the map is empty (serializeByRun).
QueueIsReleased ==
    adapter = "prisma" /\ Made \subseteq settled => tail = None

\* Every call is served, those queued behind a rejected one included.
CallsEnd == \A c \in Calls : call[c] = "queued" ~> call[c] \in Ended
=============================================================================
