------------------------ MODULE PipelineCacheProofs ------------------------
(***************************************************************************)
(* Machine-checked proofs about PipelineCache, for all pipelines, saves,   *)
(* compiles, clocks and capacities: type correctness, that a run executes  *)
(* the graph it loaded, and that updatedAt grows.                          *)
(***************************************************************************)
EXTENDS PipelineCache, SequenceTheorems, WellFoundedInduction, TLAPS

Graphs == Saves \cup {None}
Row    == [updatedAt : Nat, graph : Graphs]
Save   == [at : {"idle", "open", "saved", "rejected"},
           pipeline : Pipelines \cup {None}, updatedAt : Nat]
Compile == [at : {"idle", "loaded", "validated", "resolving", "served", "rejected"},
            pipeline : Pipelines \cup {None}, updatedAt : Nat, graph : Graphs]

\* CacheTypeOK, folded for the provers.
Types ==
    /\ adapter \in Adapters
    /\ row \in [Pipelines -> Row]
    /\ save \in [Saves -> Save]
    /\ cache \in Seq(Version)
    /\ compile \in [Compiles -> Compile]
    /\ served \in [Compiles -> Graphs]
    /\ overlapped \in BOOLEAN

LEMMA TypeParts == CacheTypeOK <=> Types /\ Len(cache) <= Capacity
BY DEF CacheTypeOK, Types, Row, Save, Compile, Graphs, Version

-----------------------------------------------------------------------------
(* The sequence of the cache.                                              *)

EntriesOf(s) == {s[i] : i \in DOMAIN s}

LEMMA MinOf ==
    ASSUME NEW T, T \subseteq Nat, T # {}
    PROVE  Min(T) \in T
<1> DEFINE R == OpToRel(<, Nat)
<1>1. IsWellFoundedOn(R, Nat)
  BY NatLessThanWellFounded
<1>2. \A i, j \in Nat : j < i => <<j, i>> \in R
  BY Zenon DEF OpToRel
<1> HIDE DEF R
<1>3. PICK i \in T : \A j \in T : ~(<<j, i>> \in R)
  BY <1>1, WFMin
<1>4. \A j \in T : i <= j
  <2> SUFFICES ASSUME NEW j \in T PROVE ~(j < i)
    OBVIOUS
  <2> QED
    BY <1>2, <1>3
<1> QED
  BY <1>3, <1>4 DEF Min

LEMMA Concatenated ==
    ASSUME NEW S, NEW s \in Seq(S), NEW t \in Seq(S)
    PROVE  /\ s \o t \in Seq(S) /\ Len(s \o t) = Len(s) + Len(t)
           /\ EntriesOf(s \o t) = EntriesOf(s) \cup EntriesOf(t)
<1>1. /\ s \o t \in Seq(S) /\ Len(s \o t) = Len(s) + Len(t)
      /\ \A i \in 1..(Len(s) + Len(t)) :
            (s \o t)[i] = IF i <= Len(s) THEN s[i] ELSE t[i - Len(s)]
  BY ConcatProperties
<1>2. DOMAIN (s \o t) = 1..(Len(s) + Len(t)) /\ DOMAIN s = 1..Len(s) /\ DOMAIN t = 1..Len(t)
  BY <1>1
<1>3. Len(s) \in Nat /\ Len(t) \in Nat
  OBVIOUS
<1>4. \A i \in DOMAIN (s \o t) : (s \o t)[i] \in EntriesOf(s) \cup EntriesOf(t)
  BY <1>1, <1>2, <1>3 DEF EntriesOf
<1>5. \A i \in DOMAIN s : s[i] = (s \o t)[i] /\ i \in DOMAIN (s \o t)
  BY <1>1, <1>2, <1>3
<1>6. \A i \in DOMAIN t : t[i] = (s \o t)[i + Len(s)] /\ i + Len(s) \in DOMAIN (s \o t)
  BY <1>1, <1>2, <1>3
<1>7. EntriesOf(s \o t) \subseteq EntriesOf(s) \cup EntriesOf(t)
  BY <1>4, Zenon DEF EntriesOf
<1>8. EntriesOf(s) \subseteq EntriesOf(s \o t)
  BY <1>5, Zenon DEF EntriesOf
<1>9. EntriesOf(t) \subseteq EntriesOf(s \o t)
  BY <1>6, Zenon DEF EntriesOf
<1> QED
  BY <1>1, <1>7, <1>8, <1>9

LEMMA Cut ==
    ASSUME NEW S, NEW s \in Seq(S), NEW m \in Nat \ {0}, NEW n \in Nat, n <= Len(s)
    PROVE  /\ SubSeq(s, m, n) \in Seq(S) /\ Len(SubSeq(s, m, n)) = IF m <= n THEN n - m + 1 ELSE 0
           /\ EntriesOf(SubSeq(s, m, n)) \subseteq EntriesOf(s)
<1>1. /\ m \in Int /\ n \in Int
      /\ \A i \in m..n : s[i] \in S /\ i \in DOMAIN s
  OBVIOUS
<1>2. /\ SubSeq(s, m, n) \in Seq(S)
      /\ Len(SubSeq(s, m, n)) = IF m <= n THEN n - m + 1 ELSE 0
      /\ \A i \in 1..(n - m + 1) : SubSeq(s, m, n)[i] = s[m + i - 1]
  BY <1>1, SubSeqProperties
<1>3. \A i \in DOMAIN SubSeq(s, m, n) : i \in 1..(n - m + 1) /\ m + i - 1 \in m..n
  BY <1>2
<1> QED
  BY <1>1, <1>2, <1>3 DEF EntriesOf

LEMMA Single ==
    ASSUME NEW S, NEW v \in S
    PROVE  <<v>> \in Seq(S) /\ Len(<<v>>) = 1 /\ EntriesOf(<<v>>) = {v}
BY DEF EntriesOf

LEMMA Prepended ==
    ASSUME NEW S, NEW s \in Seq(S), NEW v \in S
    PROVE  /\ <<v>> \o s \in Seq(S) /\ Len(<<v>> \o s) = 1 + Len(s)
           /\ EntriesOf(<<v>> \o s) = {v} \cup EntriesOf(s)
<1> DEFINE first == <<v>>
<1>0. first \in Seq(S)
  BY Single
<1>1. first \in Seq(S) /\ Len(first) = 1 /\ EntriesOf(first) = {v}
  BY Single
<1> HIDE DEF first
<1>2. /\ first \o s \in Seq(S) /\ Len(first \o s) = Len(first) + Len(s)
      /\ EntriesOf(first \o s) = EntriesOf(first) \cup EntriesOf(s)
  BY <1>0, Concatenated
<1>3. /\ first \o s \in Seq(S) /\ Len(first \o s) = 1 + Len(s)
      /\ EntriesOf(first \o s) = {v} \cup EntriesOf(s)
  BY <1>1, <1>2
<1> QED
  BY <1>3 DEF first

\* Moving an entry to the front changes the order only.
LEMMA Moved ==
    ASSUME NEW S, NEW s \in Seq(S), NEW i \in DOMAIN s
    PROVE  /\ <<s[i]>> \o RemoveAt(s, i) \in Seq(S)
           /\ Len(<<s[i]>> \o RemoveAt(s, i)) = Len(s)
           /\ EntriesOf(<<s[i]>> \o RemoveAt(s, i)) \subseteq EntriesOf(s)
<1> DEFINE before == SubSeq(s, 1, i - 1)
           after  == SubSeq(s, i + 1, Len(s))
<1>0. i \in 1..Len(s) /\ Len(s) \in Nat /\ s[i] \in S /\ s[i] \in EntriesOf(s)
  BY DEF EntriesOf
<1>1. before \in Seq(S) /\ Len(before) = i - 1 /\ EntriesOf(before) \subseteq EntriesOf(s)
  <2>1. 1 \in Nat \ {0} /\ i - 1 \in Nat /\ i - 1 <= Len(s)
    BY <1>0
  <2>2. /\ before \in Seq(S) /\ Len(before) = IF 1 <= i - 1 THEN i - 1 - 1 + 1 ELSE 0
        /\ EntriesOf(before) \subseteq EntriesOf(s)
    BY <2>1, Cut
  <2> QED
    BY <1>0, <2>2
<1>2. after \in Seq(S) /\ Len(after) = Len(s) - i /\ EntriesOf(after) \subseteq EntriesOf(s)
  <2>1. i + 1 \in Nat \ {0} /\ Len(s) \in Nat /\ Len(s) <= Len(s)
    BY <1>0
  <2>2. /\ after \in Seq(S)
        /\ Len(after) = IF i + 1 <= Len(s) THEN Len(s) - (i + 1) + 1 ELSE 0
        /\ EntriesOf(after) \subseteq EntriesOf(s)
    BY <2>1, Cut
  <2> QED
    BY <1>0, <2>2
<1>3. RemoveAt(s, i) = before \o after
  BY DEF RemoveAt
<1> HIDE DEF before, after
<1>4. /\ before \o after \in Seq(S) /\ Len(before \o after) = Len(s) - 1
      /\ EntriesOf(before \o after) \subseteq EntriesOf(s)
  <2>1. /\ before \o after \in Seq(S) /\ Len(before \o after) = Len(before) + Len(after)
        /\ EntriesOf(before \o after) = EntriesOf(before) \cup EntriesOf(after)
    BY <1>1, <1>2, Concatenated
  <2> QED
    BY <1>0, <1>1, <1>2, <2>1
<1> DEFINE rest == before \o after
<1>5. rest \in Seq(S) /\ Len(rest) = Len(s) - 1 /\ EntriesOf(rest) \subseteq EntriesOf(s)
  BY <1>4
<1> HIDE DEF rest
<1>6. /\ <<s[i]>> \o rest \in Seq(S) /\ Len(<<s[i]>> \o rest) = 1 + Len(rest)
      /\ EntriesOf(<<s[i]>> \o rest) = {s[i]} \cup EntriesOf(rest)
  BY <1>0, <1>5, Prepended
<1>7. Len(<<s[i]>> \o rest) = Len(s)
  BY <1>0, <1>5, <1>6
<1>8. EntriesOf(<<s[i]>> \o rest) \subseteq EntriesOf(s)
  BY <1>0, <1>5, <1>6
<1> QED
  BY <1>3, <1>6, <1>7, <1>8 DEF rest

\* An insertion adds the one entry, and keeps to the capacity.
LEMMA Inserted ==
    ASSUME NEW S, NEW s \in Seq(S), NEW v \in S, Capacity \in Nat, Len(s) <= Capacity
    PROVE  /\ AtMostCapacity(<<v>> \o s) \in Seq(S)
           /\ Len(AtMostCapacity(<<v>> \o s)) <= Capacity
           /\ EntriesOf(AtMostCapacity(<<v>> \o s)) \subseteq {v} \cup EntriesOf(s)
<1> DEFINE t == <<v>> \o s
<1>1. t \in Seq(S) /\ Len(t) = 1 + Len(s) /\ EntriesOf(t) = {v} \cup EntriesOf(s)
  BY Prepended
<1>2. Len(s) \in Nat
  OBVIOUS
<1> HIDE DEF t
<1>3. CASE Len(t) > Capacity
  <2>1. 1 \in Nat \ {0} /\ Len(t) - 1 \in Nat /\ Len(t) - 1 <= Len(t)
    BY <1>1, <1>2
  <2>2. /\ SubSeq(t, 1, Len(t) - 1) \in Seq(S)
        /\ Len(SubSeq(t, 1, Len(t) - 1)) = IF 1 <= Len(t) - 1 THEN Len(t) - 1 - 1 + 1 ELSE 0
        /\ EntriesOf(SubSeq(t, 1, Len(t) - 1)) \subseteq EntriesOf(t)
    BY <1>1, <2>1, Cut
  <2>3. Len(SubSeq(t, 1, Len(t) - 1)) <= Capacity
    BY <1>1, <1>2, <2>2
  <2>4. AtMostCapacity(t) = SubSeq(t, 1, Len(t) - 1)
    BY <1>3 DEF AtMostCapacity, Front
  <2> QED
    BY <1>1, <2>2, <2>3, <2>4 DEF t
<1>4. CASE ~(Len(t) > Capacity)
  <2>1. AtMostCapacity(t) = t
    BY <1>4 DEF AtMostCapacity
  <2>2. Len(t) <= Capacity
    BY <1>1, <1>2, <1>4
  <2> QED
    BY <1>1, <2>1, <2>2 DEF t
<1> QED
  BY <1>3, <1>4

-----------------------------------------------------------------------------
(* What is known of a pipeline: the versions that were loaded, and cached. *)

Compiled(c) == [pipeline |-> compile[c].pipeline, updatedAt |-> compile[c].updatedAt,
                graph |-> compile[c].graph]

Known == EntriesOf(cache) \cup {Compiled(c) : c \in {c \in Compiles : compile[c].at # "idle"}}

\* The versions the rows hold.
Current == {[pipeline |-> p, updatedAt |-> row[p].updatedAt, graph |-> row[p].graph] :
               p \in Pipelines}

\* Nothing known is newer than the row, and what is as new is the same.
RowLeads ==
    \A v \in Known :
        /\ v.updatedAt <= row[v.pipeline].updatedAt
        /\ v.updatedAt = row[v.pipeline].updatedAt => v.graph = row[v.pipeline].graph

\* A key stands for one graph.
KeysAgree ==
    \A v, w \in Known :
        v.pipeline = w.pipeline /\ v.updatedAt = w.updatedAt => v.graph = w.graph

\* An open transaction has its pipeline for itself, and what it will write is
\* newer than the row.
OpenSaves ==
    \A s \in Saves : save[s].at = "open" =>
        /\ save[s].updatedAt > row[save[s].pipeline].updatedAt
        /\ \A t \in Saves : save[t].at = "open" /\ save[t].pipeline = save[s].pipeline => t = s

HistoryInv == ~overlapped => RowLeads /\ KeysAgree /\ OpenSaves

\* A compile and a transaction that are under way are about a pipeline.
NamedInv ==
    /\ \A c \in Compiles : compile[c].at # "idle" => compile[c].pipeline \in Pipelines
    /\ \A s \in Saves : save[s].at = "open" => save[s].pipeline \in Pipelines /\ adapter = "prisma"

IInv == CacheTypeOK /\ NamedInv /\ HistoryInv /\ ServesWhatWasLoaded

-----------------------------------------------------------------------------
(* Type correctness.                                                       *)

\* A hit is an entry with the key, whichever comes first.
LEMMA HitEntry ==
    ASSUME Types, NEW c \in Compiles, Cached(c)
    PROVE  LET i == SelectInSeq(cache, LAMBDA entry : SameKey(entry, c))
           IN  i \in DOMAIN cache /\ SameKey(cache[i], c)
<1> DEFINE I == {i \in 1..Len(cache) : SameKey(cache[i], c)}
<1>1. DOMAIN cache = 1..Len(cache) /\ I \subseteq Nat
  BY DEF Types
<1>2. I # {}
  BY <1>1 DEF Cached
<1>3. SelectInSeq(cache, LAMBDA entry : SameKey(entry, c)) = Min(I)
  BY <1>2 DEF SelectInSeq
<1>4. Min(I) \in I
  BY <1>1, <1>2, MinOf
<1> QED
  BY <1>1, <1>3, <1>4

\* Monotonic is a date, and later than the previous one.
LEMMA Later ==
    ASSUME NEW now \in Times, NEW previous \in Nat
    PROVE  Monotonic(now, previous) \in Nat /\ Monotonic(now, previous) > previous
BY CacheAssumption DEF CacheAssumption, Monotonic

LEMMA RowUpdate ==
    ASSUME row \in [Pipelines -> Row], NEW p \in Pipelines, NEW new \in Row,
           row' = [row EXCEPT ![p] = new]
    PROVE  /\ row' \in [Pipelines -> Row] /\ row'[p] = new
           /\ \A q \in Pipelines : q # p => row'[q] = row[q]
OBVIOUS

LEMMA SaveUpdate ==
    ASSUME save \in [Saves -> Save], NEW s \in Saves, NEW new \in Save,
           save' = [save EXCEPT ![s] = new]
    PROVE  /\ save' \in [Saves -> Save] /\ save'[s] = new
           /\ \A t \in Saves : t # s => save'[t] = save[t]
OBVIOUS

LEMMA CompileUpdate ==
    ASSUME compile \in [Compiles -> Compile], NEW c \in Compiles, NEW new \in Compile,
           compile' = [compile EXCEPT ![c] = new]
    PROVE  /\ compile' \in [Compiles -> Compile] /\ compile'[c] = new
           /\ \A d \in Compiles : d # c => compile'[d] = compile[d]
OBVIOUS

LEMMA CacheStep ==
    ASSUME Types, NamedInv, Len(cache) <= Capacity, NEW c \in Compiles, Hit(c) \/ Insert(c)
    PROVE  /\ cache' \in Seq(Version) /\ Len(cache') <= Capacity
           /\ EntriesOf(cache') \subseteq Known
<1>0. Capacity \in Nat /\ cache \in Seq(Version)
  BY CacheAssumption DEF CacheAssumption, Types
<1>1. CASE Hit(c)
  <2> DEFINE i == SelectInSeq(cache, LAMBDA entry : SameKey(entry, c))
  <2>1. i \in DOMAIN cache
    BY <1>1, HitEntry DEF Hit
  <2>2. cache' = <<cache[i]>> \o RemoveAt(cache, i)
    BY <1>1 DEF Hit
  <2> HIDE DEF i
  <2>3. cache' \in Seq(Version) /\ Len(cache') = Len(cache) /\ EntriesOf(cache') \subseteq EntriesOf(cache)
    BY <1>0, <2>1, <2>2, Moved
  <2> QED
    BY <2>3 DEF Known
<1>2. CASE Insert(c)
  <2>1. compile[c] \in Compile /\ compile[c].at = "resolving" /\ compile[c].pipeline \in Pipelines
    BY <1>2 DEF Insert, Types, NamedInv
  <2>2. Compiled(c) \in Version /\ Compiled(c) \in Known
    BY <2>1 DEF Compile, Version, Compiled, Graphs, Known
  <2>3. \/ cache' = cache
        \/ cache' = AtMostCapacity(<<Compiled(c)>> \o cache)
    BY <1>2 DEF Insert, Compiled
  <2>4. CASE cache' = cache
    BY <1>0, <2>4 DEF Known
  <2>5. CASE cache' = AtMostCapacity(<<Compiled(c)>> \o cache)
    <3>1. /\ AtMostCapacity(<<Compiled(c)>> \o cache) \in Seq(Version)
          /\ Len(AtMostCapacity(<<Compiled(c)>> \o cache)) <= Capacity
          /\ EntriesOf(AtMostCapacity(<<Compiled(c)>> \o cache))
                \subseteq {Compiled(c)} \cup EntriesOf(cache)
      BY <1>0, <2>2, Inserted
    <3> QED
      BY <2>2, <2>5, <3>1 DEF Known
  <2> QED
    BY <2>3, <2>4, <2>5
<1> QED
  BY <1>1, <1>2

\* How a save changes the rows.
LEMMA SaveStep ==
    ASSUME Types, NamedInv, NEW s \in Saves, NEW p \in Pipelines,
           SaveInMemory(s, p) \/ ReadUpdatedAt(s, p) \/ CommitUpdate(s) \/ UpdateRejects(s)
    PROVE  /\ row' \in [Pipelines -> Row] /\ save' \in [Saves -> Save]
           /\ UNCHANGED <<adapter, cache, compile, served>>
           /\ overlapped' \in BOOLEAN /\ (overlapped => overlapped')
           /\ \A t \in Saves : t # s => save'[t] = save[t]
           /\ save'[s].at = "open" =>
                 save'[s].pipeline \in Pipelines /\ adapter = "prisma"
<1> USE DEF Types
<1>1. CASE SaveInMemory(s, p)
  <2>1. PICK now \in Times :
           row' = [row EXCEPT ![p] = [updatedAt |-> Monotonic(now, row[p].updatedAt), graph |-> s]]
    BY <1>1 DEF SaveInMemory
  <2>2. row[p].updatedAt \in Nat
    BY DEF Row
  <2>3. [updatedAt |-> Monotonic(now, row[p].updatedAt), graph |-> s] \in Row
    BY <2>2, Later DEF Row, Graphs
  <2>4. row' \in [Pipelines -> Row] /\ row'[p] \in Row
    BY <2>1, <2>3, RowUpdate
  <2>5. [at |-> "saved", pipeline |-> p, updatedAt |-> row'[p].updatedAt] \in Save
    BY <2>4 DEF Save, Row
  <2>6. save' = [save EXCEPT ![s] = [at |-> "saved", pipeline |-> p, updatedAt |-> row'[p].updatedAt]]
    BY <1>1 DEF SaveInMemory
  <2>7. /\ save' \in [Saves -> Save] /\ save'[s].at = "saved"
        /\ \A t \in Saves : t # s => save'[t] = save[t]
    BY <2>5, <2>6, SaveUpdate
  <2> QED
    BY <1>1, <2>4, <2>7 DEF SaveInMemory
<1>2. CASE ReadUpdatedAt(s, p)
  <2>1. PICK now \in Times :
           save' = [save EXCEPT ![s] = [at |-> "open", pipeline |-> p,
                                        updatedAt |-> Monotonic(now, row[p].updatedAt)]]
    BY <1>2 DEF ReadUpdatedAt
  <2>2. row[p].updatedAt \in Nat
    BY DEF Row
  <2>3. [at |-> "open", pipeline |-> p, updatedAt |-> Monotonic(now, row[p].updatedAt)] \in Save
    BY <2>2, Later DEF Save
  <2>4. /\ save' \in [Saves -> Save] /\ save'[s].pipeline = p
        /\ \A t \in Saves : t # s => save'[t] = save[t]
    BY <2>1, <2>3, SaveUpdate
  <2>5. overlapped' = (overlapped \/ \E t \in Saves : save[t].at = "open" /\ save[t].pipeline = p)
    BY <1>2 DEF ReadUpdatedAt
  <2>6. overlapped' \in BOOLEAN /\ (overlapped => overlapped')
    BY <2>5, Zenon
  <2> QED
    BY <1>2, <2>4, <2>6 DEF ReadUpdatedAt
<1>3. CASE CommitUpdate(s)
  <2>1. save[s] \in Save /\ save[s].pipeline \in Pipelines
    BY <1>3 DEF CommitUpdate, NamedInv
  <2>2. [updatedAt |-> save[s].updatedAt, graph |-> s] \in Row
    BY <2>1 DEF Save, Row, Graphs
  <2>3. row' \in [Pipelines -> Row]
    BY <1>3, <2>1, <2>2, RowUpdate DEF CommitUpdate
  <2>4. /\ save' \in [Saves -> Save] /\ save'[s].at = "saved"
        /\ \A t \in Saves : t # s => save'[t] = save[t]
    BY <1>3, <2>1 DEF CommitUpdate, Save
  <2> QED
    BY <1>3, <2>3, <2>4 DEF CommitUpdate
<1>4. CASE UpdateRejects(s)
  <2>1. save[s] \in Save
    OBVIOUS
  <2>2. /\ save' \in [Saves -> Save] /\ save'[s].at = "rejected"
        /\ \A t \in Saves : t # s => save'[t] = save[t]
    BY <1>4, <2>1 DEF UpdateRejects, Save
  <2> QED
    BY <1>4, <2>2 DEF UpdateRejects
<1> QED
  BY <1>1, <1>2, <1>3, <1>4

\* How a run changes what has been loaded.
LEMMA CompileStep ==
    ASSUME Types, NamedInv, NEW c \in Compiles, NEW p \in Pipelines,
           Load(c, p) \/ ValidateHook(c) \/ Hit(c) \/ Miss(c) \/ Insert(c) \/ CompileRejects(c)
    PROVE  /\ compile' \in [Compiles -> Compile] /\ UNCHANGED <<adapter, row, save, overlapped>>
           /\ \A d \in Compiles : d # c => compile'[d] = compile[d]
           /\ compile'[c].at # "idle" /\ compile'[c].pipeline \in Pipelines
           /\ Compiled(c)' \in Known \cup Current
<1> USE DEF Types
<1>0. compile[c] \in Compile
  OBVIOUS
<1>1. CASE Load(c, p)
  <2>1. row[p] \in Row
    OBVIOUS
  <2> DEFINE new == [at |-> "loaded", pipeline |-> p,
                     updatedAt |-> row[p].updatedAt, graph |-> row[p].graph]
  <2>2. new \in Compile
    BY <2>1 DEF Compile, Row
  <2>3. compile' = [compile EXCEPT ![c] = new]
    BY <1>1 DEF Load
  <2>4. new.at = "loaded" /\ new.pipeline = p /\ new.updatedAt = row[p].updatedAt /\ new.graph = row[p].graph
    OBVIOUS
  <2> HIDE DEF new
  <2>5. /\ compile' \in [Compiles -> Compile] /\ compile'[c] = new
        /\ \A d \in Compiles : d # c => compile'[d] = compile[d]
    BY <2>2, <2>3, CompileUpdate
  <2>6. Compiled(c)' \in Current
    BY <2>4, <2>5 DEF Compiled, Current
  <2> QED
    BY <1>1, <2>4, <2>5, <2>6 DEF Load
<1>2. CASE ValidateHook(c) \/ Hit(c) \/ Miss(c) \/ Insert(c) \/ CompileRejects(c)
  <2>1. PICK answer \in {"validated", "served", "resolving", "rejected"} :
           compile' = [compile EXCEPT ![c].at = answer]
    BY <1>2 DEF ValidateHook, Hit, Miss, Insert, CompileRejects
  <2>2. compile[c].at # "idle"
    BY <1>2 DEF ValidateHook, Hit, Miss, Insert, CompileRejects
  <2>3. /\ compile' \in [Compiles -> Compile] /\ compile'[c].at = answer
        /\ compile'[c].pipeline = compile[c].pipeline
        /\ compile'[c].updatedAt = compile[c].updatedAt
        /\ compile'[c].graph = compile[c].graph
        /\ \A d \in Compiles : d # c => compile'[d] = compile[d]
    BY <1>0, <2>1 DEF Compile
  <2>4. Compiled(c)' = Compiled(c) /\ Compiled(c) \in Known
    BY <2>2, <2>3 DEF Compiled, Known
  <2>5. compile[c].pipeline \in Pipelines
    BY <2>2 DEF NamedInv
  <2> QED
    BY <1>2, <2>3, <2>4, <2>5 DEF ValidateHook, Hit, Miss, Insert, CompileRejects
<1> QED
  BY <1>1, <1>2

Saving(s, p)    == SaveInMemory(s, p) \/ ReadUpdatedAt(s, p) \/ CommitUpdate(s) \/ UpdateRejects(s)
Compiling(c, p) == Load(c, p) \/ ValidateHook(c) \/ Hit(c) \/ Miss(c) \/ Insert(c) \/ CompileRejects(c)

\* Without a pipeline nothing is ever saved or loaded.
LEMMA Steps ==
    ASSUME NamedInv, Types, Next
    PROVE  \E p \in Pipelines : \/ \E s \in Saves : Saving(s, p)
                                \/ \E c \in Compiles : Compiling(c, p)
<1>1. CASE \E s \in Saves, p \in Pipelines : SaveInMemory(s, p) \/ ReadUpdatedAt(s, p)
  BY <1>1 DEF Saving
<1>2. ASSUME NEW s \in Saves, CommitUpdate(s) \/ UpdateRejects(s)
      PROVE  \E p \in Pipelines : Saving(s, p)
  <2>1. save[s].pipeline \in Pipelines
    BY <1>2 DEF CommitUpdate, UpdateRejects, NamedInv
  <2> QED
    BY <1>2, <2>1 DEF Saving
<1>3. CASE \E c \in Compiles, p \in Pipelines : Load(c, p)
  BY <1>3 DEF Compiling
<1>4. ASSUME NEW c \in Compiles,
             ValidateHook(c) \/ Hit(c) \/ Miss(c) \/ Insert(c) \/ CompileRejects(c)
      PROVE  \E p \in Pipelines : Compiling(c, p)
  <2>1. compile[c].at # "idle"
    BY <1>4 DEF ValidateHook, Hit, Miss, Insert, CompileRejects
  <2>2. compile[c].pipeline \in Pipelines
    BY <2>1 DEF NamedInv
  <2> QED
    BY <1>4, <2>2 DEF Compiling
<1> QED
  BY <1>1, <1>2, <1>3, <1>4 DEF Next

LEMMA SavingStep ==
    ASSUME Types, NamedInv, NEW s \in Saves, NEW p \in Pipelines, Saving(s, p)
    PROVE  /\ row' \in [Pipelines -> Row] /\ save' \in [Saves -> Save]
           /\ UNCHANGED <<adapter, cache, compile, served>>
           /\ overlapped' \in BOOLEAN /\ (overlapped => overlapped')
           /\ \A t \in Saves : t # s => save'[t] = save[t]
           /\ save'[s].at = "open" => save'[s].pipeline \in Pipelines /\ adapter = "prisma"
BY SaveStep DEF Saving

LEMMA CompilingStep ==
    ASSUME Types, NamedInv, Len(cache) <= Capacity,
           NEW c \in Compiles, NEW p \in Pipelines, Compiling(c, p)
    PROVE  /\ compile' \in [Compiles -> Compile] /\ UNCHANGED <<adapter, row, save, overlapped>>
           /\ \A d \in Compiles : d # c => compile'[d] = compile[d]
           /\ compile'[c].at # "idle" /\ compile'[c].pipeline \in Pipelines
           /\ Compiled(c)' \in Known \cup Current
           /\ cache' \in Seq(Version) /\ Len(cache') <= Capacity
           /\ EntriesOf(cache') \subseteq Known
<1>1. /\ compile' \in [Compiles -> Compile] /\ UNCHANGED <<adapter, row, save, overlapped>>
      /\ \A d \in Compiles : d # c => compile'[d] = compile[d]
      /\ compile'[c].at # "idle" /\ compile'[c].pipeline \in Pipelines
      /\ Compiled(c)' \in Known \cup Current
  BY CompileStep DEF Compiling
<1>2. CASE Hit(c) \/ Insert(c)
  BY <1>1, <1>2, CacheStep
<1>3. CASE ~(Hit(c) \/ Insert(c))
  <2>1. cache' = cache
    BY <1>3 DEF Compiling, Load, ValidateHook, Miss, CompileRejects
  <2>2. cache \in Seq(Version)
    BY DEF Types
  <2> QED
    BY <1>1, <2>1, <2>2 DEF Known
<1> QED
  BY <1>2, <1>3

LEMMA ServedType ==
    ASSUME Types, NEW c \in Compiles, NEW p \in Pipelines, Compiling(c, p)
    PROVE  served' \in [Compiles -> Graphs]
<1>1. CASE Hit(c)
  <2> DEFINE i == SelectInSeq(cache, LAMBDA entry : SameKey(entry, c))
  <2>1. i \in DOMAIN cache
    BY <1>1, HitEntry DEF Hit
  <2>2. served' = [served EXCEPT ![c] = cache[i].graph]
    BY <1>1 DEF Hit
  <2> HIDE DEF i
  <2>3. cache[i] \in Version
    BY <2>1 DEF Types
  <2> QED
    BY <2>2, <2>3 DEF Types, Version, Graphs
<1>2. CASE Insert(c)
  <2>1. compile[c] \in Compile
    BY DEF Types
  <2> QED
    BY <1>2, <2>1 DEF Insert, Types, Compile
<1>3. CASE Load(c, p) \/ ValidateHook(c) \/ Miss(c) \/ CompileRejects(c)
  BY <1>3 DEF Load, ValidateHook, Miss, CompileRejects, Types
<1> QED
  BY <1>1, <1>2, <1>3 DEF Compiling

LEMMA TypeStep == CacheTypeOK /\ NamedInv /\ [Next]_vars => CacheTypeOK' /\ NamedInv'
<1> SUFFICES ASSUME Types, Len(cache) <= Capacity, NamedInv, [Next]_vars
             PROVE  Types' /\ (Len(cache) <= Capacity)' /\ NamedInv'
  <2>1. Types' /\ (Len(cache) <= Capacity)' => CacheTypeOK'
    BY DEF CacheTypeOK, Types, Row, Save, Compile, Graphs
  <2> QED
    BY <2>1, TypeParts
<1>1. ASSUME NEW s \in Saves, NEW p \in Pipelines, Saving(s, p)
      PROVE  Types' /\ (Len(cache) <= Capacity)' /\ NamedInv'
  <2>1. /\ row' \in [Pipelines -> Row] /\ save' \in [Saves -> Save]
        /\ UNCHANGED <<adapter, cache, compile, served>>
        /\ overlapped' \in BOOLEAN
        /\ \A t \in Saves : t # s => save'[t] = save[t]
        /\ save'[s].at = "open" => save'[s].pipeline \in Pipelines /\ adapter = "prisma"
    BY <1>1, SavingStep
  <2>2. Types' /\ (Len(cache) <= Capacity)'
    BY <2>1 DEF Types
  <2>3. NamedInv'
    BY <2>1 DEF NamedInv
  <2> QED
    BY <2>2, <2>3
<1>2. ASSUME NEW c \in Compiles, NEW p \in Pipelines, Compiling(c, p)
      PROVE  Types' /\ (Len(cache) <= Capacity)' /\ NamedInv'
  <2>1. /\ compile' \in [Compiles -> Compile] /\ UNCHANGED <<adapter, row, save, overlapped>>
        /\ \A d \in Compiles : d # c => compile'[d] = compile[d]
        /\ compile'[c].pipeline \in Pipelines
        /\ cache' \in Seq(Version) /\ Len(cache') <= Capacity
    BY <1>2, CompilingStep
  <2>2. Types' /\ (Len(cache) <= Capacity)'
    BY <1>2, <2>1, ServedType DEF Types
  <2>3. NamedInv'
    BY <2>1 DEF NamedInv
  <2> QED
    BY <2>2, <2>3
<1>3. CASE UNCHANGED vars
  <2>1. Types'
    BY <1>3, Zenon DEF vars, Types
  <2> QED
    BY <1>3, <2>1 DEF vars, NamedInv
<1> QED
  BY <1>1, <1>2, <1>3, Steps

-----------------------------------------------------------------------------
(* What is known.                                                          *)

LEMMA KnownType == Types /\ NamedInv => Known \subseteq Version
<1> SUFFICES ASSUME Types, NamedInv PROVE Known \subseteq Version
  OBVIOUS
<1>1. EntriesOf(cache) \subseteq Version
  BY DEF Types, EntriesOf
<1>2. ASSUME NEW c \in Compiles, compile[c].at # "idle" PROVE Compiled(c) \in Version
  <2>1. compile[c] \in Compile /\ compile[c].pipeline \in Pipelines
    BY <1>2 DEF Types, NamedInv
  <2> QED
    BY <2>1 DEF Compile, Compiled, Version, Graphs
<1> QED
  BY <1>1, <1>2 DEF Known

\* A run adds what a row holds to what is known, and nothing else.
LEMMA KnownStep ==
    ASSUME Types, NamedInv, Len(cache) <= Capacity,
           NEW c \in Compiles, NEW p \in Pipelines, Compiling(c, p)
    PROVE  Known' \subseteq Known \cup Current
<1>1. /\ \A d \in Compiles : d # c => compile'[d] = compile[d]
      /\ Compiled(c)' \in Known \cup Current
      /\ EntriesOf(cache') \subseteq Known
  BY CompilingStep
<1>2. ASSUME NEW d \in Compiles, d # c, compile'[d].at # "idle" PROVE Compiled(d)' \in Known
  <2>1. Compiled(d)' = Compiled(d) /\ compile[d].at # "idle"
    BY <1>1, <1>2 DEF Compiled
  <2> QED
    BY <2>1 DEF Known
<1>3. \A d \in Compiles : compile'[d].at # "idle" => Compiled(d)' \in Known \cup Current
  BY <1>1, <1>2
<1>4. ASSUME NEW v \in Known' PROVE v \in EntriesOf(cache') \/ \E d \in Compiles :
                                  compile'[d].at # "idle" /\ v = Compiled(d)'
  BY Zenon DEF Known, EntriesOf
<1> QED
  BY <1>1, <1>3, <1>4

\* What the rows hold agrees with all that is known.
LEMMA CurrentAgrees ==
    ASSUME Types, NamedInv, RowLeads, KeysAgree, UNCHANGED row, Known' \subseteq Known \cup Current
    PROVE  RowLeads' /\ KeysAgree'
<1>1. \A v \in Current : /\ v.pipeline \in Pipelines
                         /\ v.updatedAt = row[v.pipeline].updatedAt
                         /\ v.graph = row[v.pipeline].graph
  BY DEF Current
<1>2. \A v \in Current : v.updatedAt \in Nat
  BY <1>1 DEF Types, Row
<1>3. \A v \in Known \cup Current :
          /\ v.updatedAt <= row[v.pipeline].updatedAt
          /\ v.updatedAt = row[v.pipeline].updatedAt => v.graph = row[v.pipeline].graph
  BY <1>1, <1>2 DEF RowLeads
<1>4. \A v, w \in Known \cup Current :
          v.pipeline = w.pipeline /\ v.updatedAt = w.updatedAt => v.graph = w.graph
  BY <1>1, <1>3 DEF KeysAgree
<1>5. RowLeads'
  BY <1>3 DEF RowLeads
<1>6. KeysAgree'
  BY <1>4 DEF KeysAgree
<1> QED
  BY <1>5, <1>6

\* A row that moves on leaves all that is known behind.
LEMMA RowMoves ==
    ASSUME Types, NamedInv, RowLeads, KeysAgree, NEW p \in Pipelines,
           row' \in [Pipelines -> Row], row'[p].updatedAt > row[p].updatedAt,
           \A q \in Pipelines : q # p => row'[q] = row[q],
           Known' = Known
    PROVE  RowLeads' /\ KeysAgree'
<1>1. ASSUME NEW v \in Known
      PROVE  /\ v.updatedAt <= row'[v.pipeline].updatedAt
             /\ v.updatedAt = row'[v.pipeline].updatedAt => v.graph = row'[v.pipeline].graph
  <2>1. v \in Version /\ v.updatedAt \in Nat /\ v.pipeline \in Pipelines
    BY KnownType DEF Version
  <2>2. row[p].updatedAt \in Nat /\ row'[p].updatedAt \in Nat
    BY DEF Types, Row
  <2>3. v.updatedAt <= row[v.pipeline].updatedAt
    BY DEF RowLeads
  <2>4. CASE v.pipeline = p
    BY <2>1, <2>2, <2>3, <2>4
  <2>5. CASE v.pipeline # p
    BY <2>1, <2>5 DEF RowLeads
  <2> QED
    BY <2>4, <2>5
<1>2. RowLeads'
  BY <1>1 DEF RowLeads
<1>3. KeysAgree'
  BY DEF KeysAgree
<1> QED
  BY <1>2, <1>3

-----------------------------------------------------------------------------
(* The rows, one transaction at a time.                                    *)

\* A save that writes a row makes it newer, in a pipeline of its own.
LEMMA Written ==
    ASSUME Types, NamedInv, OpenSaves, NEW s \in Saves, NEW p \in Pipelines, Saving(s, p)
    PROVE  \/ row' = row
           \/ \E q \in Pipelines :
                 /\ row'[q].updatedAt > row[q].updatedAt
                 /\ \A r \in Pipelines : r # q => row'[r] = row[r]
                 /\ save'[s].at = "saved"
                 /\ \A t \in Saves : t # s /\ save[t].at = "open" => save[t].pipeline # q
<1>1. CASE SaveInMemory(s, p)
  <2>1. PICK now \in Times :
           row' = [row EXCEPT ![p] = [updatedAt |-> Monotonic(now, row[p].updatedAt), graph |-> s]]
    BY <1>1 DEF SaveInMemory
  <2>2. row[p].updatedAt \in Nat
    BY DEF Types, Row
  <2>3. Monotonic(now, row[p].updatedAt) > row[p].updatedAt
    BY <2>2, Later
  <2>4. /\ row'[p].updatedAt = Monotonic(now, row[p].updatedAt)
        /\ \A r \in Pipelines : r # p => row'[r] = row[r]
    BY <2>1 DEF Types
  <2>5. save'[s].at = "saved"
    BY <1>1 DEF SaveInMemory, Types
  <2>6. \A t \in Saves : save[t].at # "open"
    BY <1>1 DEF SaveInMemory, NamedInv
  <2> QED
    BY <2>3, <2>4, <2>5, <2>6
<1>2. CASE CommitUpdate(s)
  <2> DEFINE q == save[s].pipeline
  <2>1. save[s].at = "open" /\ q \in Pipelines
    BY <1>2 DEF CommitUpdate, NamedInv
  <2>2. /\ row'[q].updatedAt = save[s].updatedAt
        /\ \A r \in Pipelines : r # q => row'[r] = row[r]
    BY <1>2, <2>1 DEF CommitUpdate, Types
  <2>3. save'[s].at = "saved"
    <3>1. save[s] \in Save
      BY DEF Types
    <3> QED
      BY <1>2, <3>1 DEF CommitUpdate, Types, Save
  <2>4. save[s].updatedAt > row[q].updatedAt
    BY <2>1 DEF OpenSaves
  <2>5. \A t \in Saves : t # s /\ save[t].at = "open" => save[t].pipeline # q
    BY <2>1 DEF OpenSaves
  <2> QED
    BY <2>1, <2>2, <2>3, <2>4, <2>5
<1>3. CASE ReadUpdatedAt(s, p) \/ UpdateRejects(s)
  BY <1>3 DEF ReadUpdatedAt, UpdateRejects
<1> QED
  BY <1>1, <1>2, <1>3 DEF Saving

LEMMA OpenStep ==
    ASSUME Types, NamedInv, OpenSaves, ~overlapped', NEW s \in Saves, NEW p \in Pipelines, Saving(s, p)
    PROVE  OpenSaves'
<1>0. /\ row' \in [Pipelines -> Row] /\ save' \in [Saves -> Save]
      /\ \A t \in Saves : t # s => save'[t] = save[t]
  BY SavingStep
<1>1. CASE ReadUpdatedAt(s, p)
  <2>1. PICK now \in Times :
           save' = [save EXCEPT ![s] = [at |-> "open", pipeline |-> p,
                                        updatedAt |-> Monotonic(now, row[p].updatedAt)]]
    BY <1>1 DEF ReadUpdatedAt
  <2>2. row[p].updatedAt \in Nat
    BY DEF Types, Row
  <2>3. Monotonic(now, row[p].updatedAt) > row[p].updatedAt
    BY <2>2, Later
  <2>4. save'[s].pipeline = p /\ save'[s].updatedAt = Monotonic(now, row[p].updatedAt)
    BY <2>1 DEF Types
  <2>5. row' = row
    BY <1>1 DEF ReadUpdatedAt
  <2>6. \A t \in Saves : save[t].at = "open" => save[t].pipeline # p
    BY <1>1, Zenon DEF ReadUpdatedAt
  <2>7. ASSUME NEW t \in Saves, save'[t].at = "open"
        PROVE  save'[t].updatedAt > row'[save'[t].pipeline].updatedAt
    BY <1>0, <2>3, <2>4, <2>5, <2>7 DEF OpenSaves
  <2>8. ASSUME NEW t \in Saves, NEW u \in Saves, save'[t].at = "open", save'[u].at = "open",
               save'[u].pipeline = save'[t].pipeline
        PROVE  u = t
    BY <1>0, <2>4, <2>6, <2>8 DEF OpenSaves
  <2> QED
    BY <2>7, <2>8 DEF OpenSaves
<1>2. CASE ~ReadUpdatedAt(s, p)
  <2>1. save'[s].at # "open"
    <3>1. save[s] \in Save
      BY DEF Types
    <3> QED
      BY <1>2, <3>1 DEF Saving, SaveInMemory, CommitUpdate, UpdateRejects, Types, Save
  <2>2. \A t \in Saves : save'[t].at = "open" => t # s /\ save'[t] = save[t] /\ save[t].at = "open"
    BY <1>0, <2>1
  <2>3. \A t \in Saves : save'[t].at = "open" => row'[save[t].pipeline] = row[save[t].pipeline]
    BY <2>2, Written DEF NamedInv
  <2> QED
    BY <2>2, <2>3 DEF OpenSaves
<1> QED
  BY <1>1, <1>2

LEMMA HistoryStep ==
    CacheTypeOK /\ NamedInv /\ HistoryInv /\ [Next]_vars => HistoryInv'
<1> SUFFICES ASSUME Types, Len(cache) <= Capacity, NamedInv, HistoryInv, [Next]_vars, ~overlapped'
             PROVE  RowLeads' /\ KeysAgree' /\ OpenSaves'
  BY TypeParts DEF HistoryInv
<1>1. ASSUME NEW s \in Saves, NEW p \in Pipelines, Saving(s, p)
      PROVE  RowLeads' /\ KeysAgree' /\ OpenSaves'
  <2>1. RowLeads /\ KeysAgree /\ OpenSaves
    BY <1>1, SavingStep DEF HistoryInv
  <2>2. row' \in [Pipelines -> Row] /\ cache' = cache /\ compile' = compile
    BY <1>1, SavingStep
  <2>3. Known' = Known
    BY <2>2 DEF Known, Compiled, EntriesOf
  <2>4. OpenSaves'
    BY <1>1, <2>1, OpenStep
  <2>5. CASE row' = row
    BY <2>1, <2>3, <2>4, <2>5 DEF RowLeads, KeysAgree
  <2>6. CASE row' # row
    <3>1. PICK q \in Pipelines : /\ row'[q].updatedAt > row[q].updatedAt
                                /\ \A r \in Pipelines : r # q => row'[r] = row[r]
      BY <1>1, <2>1, <2>6, Written
    <3> QED
      BY <2>1, <2>2, <2>3, <2>4, <3>1, RowMoves
  <2> QED
    BY <2>5, <2>6
<1>2. ASSUME NEW c \in Compiles, NEW p \in Pipelines, Compiling(c, p)
      PROVE  RowLeads' /\ KeysAgree' /\ OpenSaves'
  <2>1. UNCHANGED <<adapter, row, save, overlapped>>
    BY <1>2, CompilingStep
  <2>2. RowLeads /\ KeysAgree /\ OpenSaves
    BY <2>1 DEF HistoryInv
  <2>3. RowLeads' /\ KeysAgree'
    BY <1>2, <2>1, <2>2, KnownStep, CurrentAgrees
  <2>4. OpenSaves'
    BY <2>1, <2>2 DEF OpenSaves
  <2> QED
    BY <2>3, <2>4
<1>3. CASE UNCHANGED vars
  <2>1. RowLeads /\ KeysAgree /\ OpenSaves
    BY <1>3 DEF vars, HistoryInv
  <2>2. Known' = Known
    BY <1>3 DEF vars, Known, Compiled, EntriesOf
  <2> QED
    BY <1>3, <2>1, <2>2 DEF vars, RowLeads, KeysAgree, OpenSaves
<1> QED
  BY <1>1, <1>2, <1>3, Steps

-----------------------------------------------------------------------------
(* What is served.                                                         *)

LEMMA ServeStep ==
    CacheTypeOK /\ NamedInv /\ HistoryInv /\ ServesWhatWasLoaded /\ [Next]_vars
        => ServesWhatWasLoaded'
<1> SUFFICES ASSUME Types, Len(cache) <= Capacity, NamedInv, HistoryInv, ServesWhatWasLoaded,
                    [Next]_vars, ~overlapped', NEW d \in Compiles, compile'[d].at = "served"
             PROVE  served'[d] = compile'[d].graph
  BY TypeParts DEF ServesWhatWasLoaded
<1>1. ASSUME NEW s \in Saves, NEW p \in Pipelines, Saving(s, p)
      PROVE  served'[d] = compile'[d].graph
  BY <1>1, SavingStep DEF ServesWhatWasLoaded
<1>2. ASSUME NEW c \in Compiles, NEW p \in Pipelines, Compiling(c, p)
      PROVE  served'[d] = compile'[d].graph
  <2>1. /\ UNCHANGED <<adapter, row, save, overlapped>>
        /\ \A e \in Compiles : e # c => compile'[e] = compile[e]
    BY <1>2, CompilingStep
  <2>2. ~overlapped /\ (compile[d].at = "served" => served[d] = compile[d].graph)
    BY <2>1 DEF ServesWhatWasLoaded
  <2>3. compile[c] \in Compile /\ served \in [Compiles -> Graphs] /\ compile \in [Compiles -> Compile]
    BY DEF Types
  <2>4. CASE d # c
    <3>1. served'[d] = served[d]
      BY <1>2, <2>3, <2>4 DEF Compiling, Load, ValidateHook, Hit, Miss, Insert, CompileRejects
    <3> QED
      BY <2>1, <2>2, <2>4, <3>1
  <2>5. CASE d = c /\ Hit(c)
    <3> DEFINE i == SelectInSeq(cache, LAMBDA entry : SameKey(entry, c))
    <3>1. i \in DOMAIN cache /\ SameKey(cache[i], c)
      BY <2>5, HitEntry DEF Hit
    <3>2. served' = [served EXCEPT ![c] = cache[i].graph]
      BY <2>5 DEF Hit
    <3> HIDE DEF i
    <3>3. compile[c].at = "validated" /\ compile' = [compile EXCEPT ![c].at = "served"]
      BY <2>5 DEF Hit
    <3>4. cache[i] \in Known /\ Compiled(c) \in Known
      BY <3>1, <3>3 DEF Known, EntriesOf
    <3>5. cache[i].graph = compile[c].graph
      BY <2>2, <3>1, <3>4 DEF SameKey, Compiled, HistoryInv, KeysAgree
    <3>6. compile'[c].graph = compile[c].graph
      BY <2>3, <3>3 DEF Compile
    <3> QED
      BY <2>3, <2>5, <3>2, <3>5, <3>6
  <2>6. CASE d = c /\ Insert(c)
    BY <2>3, <2>6 DEF Insert, Compile
  <2>7. CASE d = c /\ (Load(c, p) \/ ValidateHook(c) \/ Miss(c) \/ CompileRejects(c))
    <3>1. compile'[c].at \in {"loaded", "validated", "resolving", "rejected"}
      BY <2>3, <2>7 DEF Load, ValidateHook, Miss, CompileRejects, Compile
    <3> QED
      BY <2>7, <3>1
  <2> QED
    BY <1>2, <2>4, <2>5, <2>6, <2>7 DEF Compiling
<1>3. CASE UNCHANGED vars
  BY <1>3 DEF vars, ServesWhatWasLoaded
<1> QED
  BY <1>1, <1>2, <1>3, Steps

-----------------------------------------------------------------------------
(* The theorems.                                                           *)

\* The inductive invariant: types, and that a key known to the cache or to a
\* run stands for one graph while no two updates of a pipeline overlap.
THEOREM Invariance == Spec => []IInv
<1>1. Init => IInv
  <2> SUFFICES ASSUME Init PROVE IInv
    OBVIOUS
  <2>1. CacheTypeOK
    <3>1. [updatedAt |-> 0, graph |-> None] \in Row
      BY DEF Row, Graphs
    <3>2. [at |-> "idle", pipeline |-> None, updatedAt |-> 0] \in Save
      BY DEF Save
    <3>3. Idle \in Compile
      BY DEF Idle, Compile, Graphs
    <3>4. cache \in Seq(Version) /\ Len(cache) <= Capacity
      BY CacheAssumption DEF CacheAssumption, Init
    <3>5. Types
      BY <3>1, <3>2, <3>3, <3>4 DEF Init, Types, Graphs
    <3> QED
      BY <3>4, <3>5, TypeParts
  <2>2. EntriesOf(cache) = {}
    BY DEF Init, EntriesOf
  <2>3. \A c \in Compiles : compile[c].at = "idle"
    BY DEF Init, Idle
  <2>4. \A s \in Saves : save[s].at = "idle"
    BY DEF Init
  <2>5. Known = {}
    BY <2>2, <2>3 DEF Known
  <2> QED
    BY <2>1, <2>3, <2>4, <2>5
    DEF IInv, NamedInv, HistoryInv, RowLeads, KeysAgree, OpenSaves, ServesWhatWasLoaded
<1>2. IInv /\ [Next]_vars => IInv'
  BY TypeStep, HistoryStep, ServeStep DEF IInv
<1> QED
  BY <1>1, <1>2, PTL DEF Spec

\* The variables keep their types (CacheTypeOK), the cache its capacity.
THEOREM TypeCorrect == Spec => []CacheTypeOK
<1>1. IInv => CacheTypeOK
  BY DEF IInv
<1> QED
  BY <1>1, Invariance, PTL

\* A run executes the graph it loaded (compiler.ts, #12/S3), however many
\* saves and runs there are and whatever the capacity.
THEOREM NothingStale == Spec => []ServesWhatWasLoaded
<1>1. IInv => ServesWhatWasLoaded
  BY DEF IInv
<1> QED
  BY <1>1, Invariance, PTL

\* updatedAt grows with every save, whatever the clock says (contracts.ts
\* PipelineStore.save).
THEOREM DatesGrow == Spec => UpdatedAtGrows
<1>1. IInv /\ [Next]_vars =>
        (~overlapped => \A p \in Pipelines :
            row'[p].graph # row[p].graph => row'[p].updatedAt > row[p].updatedAt)
  <2> SUFFICES ASSUME IInv, [Next]_vars, ~overlapped, NEW q \in Pipelines,
                      row'[q].graph # row[q].graph
               PROVE  row'[q].updatedAt > row[q].updatedAt
    OBVIOUS
  <2>1. Types /\ Len(cache) <= Capacity /\ NamedInv /\ OpenSaves
    BY TypeParts DEF IInv, HistoryInv
  <2>2. PICK s \in Saves, p \in Pipelines : Saving(s, p)
    BY <2>1, Steps, CompilingStep DEF vars
  <2> QED
    BY <2>1, <2>2, Written
<1> QED
  BY <1>1, Invariance, PTL DEF Spec, UpdatedAtGrows
=============================================================================
