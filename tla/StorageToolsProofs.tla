-------------------------- MODULE StorageToolsProofs --------------------------
(****************************************************************************)
(* Theorems about a storage that is streamed to, queried and purged in      *)
(* turn, for every set of names, events and gtids, any number of purges, of *)
(* kills and of failing calls.                                              *)
(****************************************************************************)
EXTENDS StorageTools, StorageFilesProofs

-----------------------------------------------------------------------------
(* Facts about sequences *)

\* Of two sequences that agree up to a, a longer part of the second continues
\* that part of the first.
LEMMA AgreeContinues ==
  ASSUME NEW p \in Seq(Event), NEW q \in Seq(Event), NEW a \in Nat, NEW b \in Nat,
         a <= b, a <= Len(p), b <= Len(q),
         \A i \in 1 .. a : q[i] = p[i]
  PROVE  Continues(SubSeq(p, 1, a), SubSeq(q, 1, b))
<1>1. /\ SubSeq(p, 1, a) \in Seq(Event) /\ Len(SubSeq(p, 1, a)) = a
      /\ SubSeq(q, 1, b) \in Seq(Event) /\ Len(SubSeq(q, 1, b)) = b
      /\ \A i \in 1 .. a : SubSeq(p, 1, a)[i] = p[i]
      /\ \A i \in 1 .. b : SubSeq(q, 1, b)[i] = q[i]
  OBVIOUS
<1> DEFINE s == SubSeq(p, 1, a)
           t == SubSeq(q, 1, b)
<1> HIDE DEF s, t
<1>2. /\ s \in Seq(Event) /\ Len(s) = a /\ t \in Seq(Event) /\ Len(t) = b
      /\ \A i \in 1 .. a : t[i] = s[i]
  BY <1>1 DEF s, t
<1>3. SubSeq(t, 1, a) = s
  <2>1. SubSeq(t, 1, a) \in Seq(Event) /\ Len(SubSeq(t, 1, a)) = a
    BY <1>2
  <2>2. \A i \in 1 .. a : SubSeq(t, 1, a)[i] = s[i]
    BY <1>2
  <2> QED BY <1>2, <2>1, <2>2
<1> QED BY <1>2, <1>3 DEF Continues, s, t

\* A sequence continues itself, and so does one with a name appended to it.
LEMMA AppendContinues ==
  ASSUME NEW S, NEW s \in Seq(S), NEW n \in S
  PROVE  Continues(s, s) /\ Continues(s, Append(s, n))
BY DEF Continues

-----------------------------------------------------------------------------
(* Purges *)

Object == [kind : {"metadata", "payload"}, name : BinlogName]

\* The files whose object of a kind is still to be removed.
Remaining(kind) ==
  {purge.victims[i].name : i \in {j \in DOMAIN purge.victims : purge.victims[j].kind = kind}}

\* A purge runs while nothing is streamed.  Until it is committed it is going to
\* keep the files behind the k-th one and to remove the objects of the others;
\* from then on none of the objects it removes is of a file of the index, and if
\* nothing fails no other object is left over.
PurgeInv ==
  /\ purge \in [pc : {"idle", "index", "remove"}, kept : Seq(BinlogName), victims : Seq(Object)]
  /\ ~PurgeIsIdle => pc \in Off
  /\ purge.pc = "index" =>
       \E k \in 1 .. Len(index) - 1 :
         /\ purge.kept = SubSeq(index, k + 1, Len(index))
         /\ purge.victims = Victims(SubSeq(index, 1, k))
  /\ purge.pc = "index" => StorageIsValid
  /\ purge.pc = "remove" =>
       /\ \A i \in DOMAIN purge.victims : purge.victims[i].name \notin NameSet(index)
       /\ \A n \in NameSet(index) : Whole(n)
       /\ failures = 0 => /\ payloads \subseteq NameSet(index) \cup Remaining("payload")
                         /\ metas \subseteq NameSet(index) \cup Remaining("metadata")

ToolsInv == FilesOK /\ PurgeInv /\ (PurgeIsIdle => DownInv)

\* While no process streams, only what is said of the objects matters.
LEMMA StoppedPreserves ==
  ASSUME FilesOK, pc \in Off, UNCHANGED <<pc, memory>>,
         (initialized \in BOOLEAN)', (index \in Seq(BinlogName))',
         (payloads \subseteq BinlogName)', (payload \in [BinlogName -> Seq(Event)])',
         (metas \subseteq BinlogName)', (meta \in [BinlogName -> Metadata])',
         (crashes \in 0 .. MaxCrashes)', (failures \in 0 .. MaxFailures)',
         (NameSet(index) \subseteq payloads \cap metas)',
         (\A n \in NameSet(index) :
            /\ meta[n].size <= Len(payload[n])
            /\ meta[n].size = Len(payload[n]) => EndsAtBoundary(payload[n]))',
         Distinct(index')
  PROVE  FilesOK'
<1> USE DEF FilesOK, memory, buffers
<1>1. TypeOK'
  BY DEF IInv, TypeOK
<1>2. StreamInv' /\ BufferInv'
  BY DEF IInv, StreamInv, BufferInv
<1>3. ObjectsInv' /\ SizesInv' /\ CheckpointInv'
  BY DEF ObjectsInv, SizesInv, CheckpointInv, Off, Flushing
<1>4. FilesInv'
  BY DEF FilesInv, Distinct, Off, Flushing
<1>5. ExactInv'
  BY DEF ExactInv, Off, Opening
<1> QED BY <1>1, <1>2, <1>3, <1>4, <1>5 DEF IInv

\* The objects, as they are: what StoppedPreserves asks of them.
LEMMA ObjectsAsTheyAre ==
  ASSUME FilesOK
  PROVE  /\ initialized \in BOOLEAN /\ index \in Seq(BinlogName)
         /\ payloads \subseteq BinlogName /\ payload \in [BinlogName -> Seq(Event)]
         /\ metas \subseteq BinlogName /\ meta \in [BinlogName -> Metadata]
         /\ crashes \in 0 .. MaxCrashes /\ failures \in 0 .. MaxFailures
         /\ NameSet(index) \subseteq payloads \cap metas
         /\ \A n \in NameSet(index) :
              /\ meta[n].size <= Len(payload[n])
              /\ meta[n].size = Len(payload[n]) => EndsAtBoundary(payload[n])
         /\ Distinct(index)
BY DEF FilesOK, IInv, TypeOK, ObjectsInv, SizesInv, FilesInv

\* The files behind the k-th one, and the names that are not among them.
LEMMA SuffixFacts ==
  ASSUME NEW s \in Seq(BinlogName), NEW k \in 1 .. Len(s) - 1
  PROVE  /\ SubSeq(s, k + 1, Len(s)) \in Seq(BinlogName)
         /\ NameSet(SubSeq(s, k + 1, Len(s))) \subseteq NameSet(s)
         /\ NameSet(s) \subseteq NameSet(SubSeq(s, k + 1, Len(s))) \cup {s[j] : j \in 1 .. k}
         /\ Distinct(s) => /\ Distinct(SubSeq(s, k + 1, Len(s)))
                          /\ \A j \in 1 .. k : s[j] \notin NameSet(SubSeq(s, k + 1, Len(s)))
<1> DEFINE t == SubSeq(s, k + 1, Len(s))
<1>1. /\ t \in Seq(BinlogName) /\ Len(t) = Len(s) - k /\ DOMAIN t = 1 .. Len(s) - k
      /\ \A i \in 1 .. Len(s) - k : t[i] = s[k + i]
      /\ DOMAIN s = 1 .. Len(s) /\ Len(s) \in Nat /\ k \in Nat
  OBVIOUS
<1> HIDE DEF t
<1>2. NameSet(t) \subseteq NameSet(s)
  <2> SUFFICES ASSUME NEW i \in DOMAIN t PROVE t[i] \in NameSet(s)
    BY DEF NameSet
  <2>1. t[i] = s[k + i] /\ k + i \in DOMAIN s
    BY <1>1
  <2> QED BY <2>1 DEF NameSet
<1>3. ASSUME Distinct(s)
      PROVE  Distinct(t) /\ \A j \in 1 .. k : s[j] \notin NameSet(t)
  <2>1. ASSUME NEW i \in DOMAIN t, NEW j \in DOMAIN t, t[i] = t[j] PROVE i = j
    <3>1. /\ t[i] = s[k + i] /\ k + i \in DOMAIN s /\ i \in Nat
          /\ t[j] = s[k + j] /\ k + j \in DOMAIN s /\ j \in Nat
      <4>1. i \in 1 .. Len(s) - k /\ j \in 1 .. Len(s) - k
        BY <1>1
      <4>2. t[i] = s[k + i] /\ t[j] = s[k + j]
        BY <1>1, <4>1
      <4>3. k + i \in 1 .. Len(s) /\ k + j \in 1 .. Len(s) /\ i \in Nat /\ j \in Nat
        BY <1>1, <4>1
      <4> QED BY <1>1, <4>2, <4>3
    <3>2. k + i = k + j
      BY <1>3, <2>1, <3>1 DEF Distinct
    <3> QED BY <1>1, <3>1, <3>2
  <2>2. ASSUME NEW j \in 1 .. k, NEW i \in DOMAIN t PROVE s[j] # t[i]
    <3>1. t[i] = s[k + i] /\ k + i \in DOMAIN s /\ j \in DOMAIN s /\ j # k + i
      BY <1>1
    <3> QED BY <1>3, <3>1 DEF Distinct
  <2> QED BY <2>1, <2>2 DEF NameSet, Distinct
<1>4. NameSet(s) \subseteq NameSet(t) \cup {s[j] : j \in 1 .. k}
  <2> SUFFICES ASSUME NEW i \in DOMAIN s, i \notin 1 .. k PROVE s[i] \in NameSet(t)
    BY DEF NameSet
  <2>1. i - k \in 1 .. Len(s) - k /\ k + (i - k) = i
    BY <1>1
  <2>2. t[i - k] = s[i] /\ i - k \in DOMAIN t
    BY <1>1, <2>1
  <2> QED BY <2>2 DEF NameSet
<1> QED BY <1>1, <1>2, <1>3, <1>4 DEF t

\* The names handed to remove_objects are those of the files to be removed, each
\* of them once with either kind.
LEMMA VictimsFacts ==
  ASSUME NEW s \in Seq(BinlogName)
  PROVE  /\ Victims(s) \in Seq(Object)
         /\ \A i \in DOMAIN Victims(s) : \E j \in 1 .. Len(s) : Victims(s)[i].name = s[j]
         /\ \A j \in 1 .. Len(s) :
              /\ \E i \in DOMAIN Victims(s) :
                   Victims(s)[i].kind = "metadata" /\ Victims(s)[i].name = s[j]
              /\ \E i \in DOMAIN Victims(s) :
                   Victims(s)[i].kind = "payload" /\ Victims(s)[i].name = s[j]
<1>1. ASSUME NEW i \in 1 .. 2 * Len(s)
      PROVE  (i + 1) \div 2 \in 1 .. Len(s)
  OBVIOUS
<1>2. \A i \in 1 .. 2 * Len(s) :
        [kind |-> IF i % 2 = 1 THEN "metadata" ELSE "payload", name |-> s[(i + 1) \div 2]]
          \in Object
  <2>1. \A i \in 1 .. 2 * Len(s) : s[(i + 1) \div 2] \in BinlogName
    BY <1>1
  <2> QED BY <2>1 DEF Object
<1>3. /\ DOMAIN Victims(s) = 1 .. 2 * Len(s)
      /\ \A i \in 1 .. 2 * Len(s) :
           Victims(s)[i] = [kind |-> IF i % 2 = 1 THEN "metadata" ELSE "payload",
                            name |-> s[(i + 1) \div 2]]
  BY DEF Victims
<1>4. Victims(s) \in [1 .. 2 * Len(s) -> Object]
  BY <1>2 DEF Victims
<1>5. 2 * Len(s) \in Nat
  OBVIOUS
<1>6. Victims(s) \in Seq(Object)
  BY <1>4, <1>5
<1>7. \A i \in DOMAIN Victims(s) : \E j \in 1 .. Len(s) : Victims(s)[i].name = s[j]
  BY <1>1, <1>3
<1>8. ASSUME NEW j \in 1 .. Len(s)
      PROVE  /\ \E i \in DOMAIN Victims(s) :
                  Victims(s)[i].kind = "metadata" /\ Victims(s)[i].name = s[j]
             /\ \E i \in DOMAIN Victims(s) :
                  Victims(s)[i].kind = "payload" /\ Victims(s)[i].name = s[j]
  <2>1. /\ 2 * j - 1 \in 1 .. 2 * Len(s) /\ 2 * j \in 1 .. 2 * Len(s)
        /\ (2 * j - 1) % 2 = 1 /\ (2 * j) % 2 = 0
        /\ ((2 * j - 1) + 1) \div 2 = j /\ ((2 * j) + 1) \div 2 = j
    OBVIOUS
  <2>2. \A i \in 1 .. 2 * Len(s) :
          /\ Victims(s)[i].kind = (IF i % 2 = 1 THEN "metadata" ELSE "payload")
          /\ Victims(s)[i].name = s[(i + 1) \div 2]
    BY <1>3
  <2>3. PICK odd \in 1 .. 2 * Len(s) : odd % 2 = 1 /\ (odd + 1) \div 2 = j
    BY <2>1
  <2>4. PICK even \in 1 .. 2 * Len(s) : even % 2 = 0 /\ (even + 1) \div 2 = j
    BY <2>1
  <2>5. Victims(s)[odd].kind = "metadata" /\ Victims(s)[odd].name = s[j]
    BY <2>2, <2>3
  <2>6. Victims(s)[even].kind = "payload" /\ Victims(s)[even].name = s[j]
    BY <2>2, <2>4
  <2> QED BY <1>3, <2>3, <2>4, <2>5, <2>6
<1> QED BY <1>6, <1>7, <1>8

\* What a step does to the files, a purge included.
StepKeeps ==
  /\ \/ index' = index
     \/ \E n \in BinlogName : index' = Append(index, n)
     \/ \E k \in 1 .. Len(index) - 1 : index' = SubSeq(index, k + 1, Len(index))
  /\ \A n \in NameSet(index) \cap NameSet(index') :
       /\ meta[n].size <= meta'[n].size
       /\ \A i \in 1 .. meta[n].size : payload'[n][i] = payload[n][i]

\* The storage is the same, but for the counters of kills and failures.
LEMMA SameStorage ==
  ASSUME FilesOK, UNCHANGED <<objects, pc, memory>>,
         (crashes \in 0 .. MaxCrashes)', (failures \in 0 .. MaxFailures)',
         failures' = 0 => failures = 0
  PROVE  FilesOK' /\ StepKeeps
<1> USE DEF objects, memory, buffers
<1>0. IInv /\ FilesInv /\ ExactInv
  BY DEF FilesOK
<1>1. TypeOK'
  BY <1>0 DEF IInv, TypeOK
<1>2. StreamInv' /\ BufferInv'
  BY <1>0 DEF IInv, StreamInv, BufferInv
<1>3. ObjectsInv' /\ SizesInv' /\ CheckpointInv'
  BY <1>0 DEF IInv, ObjectsInv, SizesInv, CheckpointInv
<1>4. FilesInv'
  BY <1>0 DEF FilesInv, Distinct
<1>5. ExactInv'
  <2>1. Settled => Settled'
    BY DEF Settled, Whole, NameSet
  <2>2. Flushed => Flushed'
    BY DEF Flushed, Whole, NameSet, ReadyEvents
  <2>3. Opened => Opened'
    BY DEF Opened, Whole, NameSet
  <2> QED BY <1>0, <2>1, <2>2, <2>3 DEF ExactInv, Retried
<1>6. StepKeeps
  <2>1. index' = index /\ meta' = meta /\ payload' = payload
    OBVIOUS
  <2>2. \A n \in NameSet(index) : meta[n].size \in Nat
    BY <1>0, SizesAreNumbers
  <2> QED BY <2>1, <2>2 DEF StepKeeps
<1> QED BY <1>1, <1>2, <1>3, <1>4, <1>5, <1>6 DEF FilesOK, IInv

LEMMA CountersHaveTypes ==
  ASSUME FilesOK, UNCHANGED bounds \/ Fails
  PROVE  /\ (crashes \in 0 .. MaxCrashes)' /\ (failures \in 0 .. MaxFailures)'
         /\ failures' = 0 => failures = 0
         /\ crashes' + failures' = 0 => UNCHANGED bounds
         /\ Fails => failures' # 0 /\ crashes' + failures' # 0
BY StorageAssumption DEF FilesOK, IInv, TypeOK, bounds, Fails

\* A step that changes neither the purge nor the storage.
LEMMA SamePurge ==
  ASSUME PurgeInv, UNCHANGED <<objects, pc, purge>>, failures' = 0 => failures = 0
  PROVE  PurgeInv'
<1> USE DEF objects
<1>1. /\ purge' \in [pc : {"idle", "index", "remove"}, kept : Seq(BinlogName),
                      victims : Seq(Object)]
      /\ ~PurgeIsIdle' => pc' \in Off
  BY DEF PurgeInv, PurgeIsIdle
<1>2. StorageIsValid => StorageIsValid'
  BY DEF StorageIsValid, NameSet
<1>3. /\ NameSet(index)' = NameSet(index) /\ \A n : Whole(n)' <=> Whole(n)
      /\ Remaining("payload")' = Remaining("payload")
      /\ Remaining("metadata")' = Remaining("metadata")
  BY DEF NameSet, Whole, Remaining
<1> QED BY <1>1, <1>2, <1>3 DEF PurgeInv

\* A query changes nothing.
LEMMA QueryPreserves ==
  ASSUME ToolsInv, Query
  PROVE  ToolsInv' /\ StepKeeps
<1>1. UNCHANGED <<objects, pc, memory, purge>> /\ (UNCHANGED bounds \/ Fails)
  BY DEF Query, ListObjects, LoadBinlogIndex, LoadBinlogMetadata, LoadBinlogMetadataFails,
     Loaded, QueryEnds, vars
<1>2. /\ (crashes \in 0 .. MaxCrashes)' /\ (failures \in 0 .. MaxFailures)'
      /\ failures' = 0 => failures = 0
      /\ crashes' + failures' = 0 => UNCHANGED bounds
  BY <1>1, CountersHaveTypes DEF ToolsInv
<1>3. FilesOK' /\ StepKeeps
  BY <1>1, <1>2, SameStorage DEF ToolsInv
<1>4. PurgeInv'
  BY <1>1, <1>2, SamePurge DEF ToolsInv
<1>5. PurgeIsIdle' => DownInv'
  BY <1>1, <1>2 DEF ToolsInv, PurgeIsIdle, DownInv, StorageIsValid, objects, bounds
<1> QED BY <1>3, <1>4, <1>5 DEF ToolsInv

\* The streaming process runs while there is no purge.
LEMMA StreamingPreserves ==
  ASSUME ToolsInv, Streaming
  PROVE  ToolsInv' /\ StepKeeps
<1>1. PurgeIsIdle /\ Next /\ UNCHANGED purge
  BY DEF Streaming, toolVars
<1>2. FilesOK' /\ DownInv' /\ Keeps
  BY <1>1, NextExact DEF ToolsInv
<1>3. PurgeInv'
  BY <1>1 DEF ToolsInv, PurgeInv, PurgeIsIdle
<1>4. StepKeeps
  BY <1>2 DEF Keeps, StepKeeps
<1> QED BY <1>2, <1>3, <1>4 DEF ToolsInv

\* A purge that ends, however it does.
LEMMA NoPurgePreserves ==
  ASSUME purge' = NoPurge
  PROVE  PurgeInv'
BY DEF NoPurge, PurgeInv, PurgeIsIdle

LEMMA PurgeBeginsPreserves ==
  ASSUME ToolsInv, PurgeBegins
  PROVE  ToolsInv' /\ StepKeeps
<1>1. FilesOK' /\ StepKeeps
  BY CountersHaveTypes, SameStorage DEF ToolsInv, PurgeBegins, vars
<1>2. PICK k \in 1 .. Len(index) - 1 :
        /\ purge' = [pc |-> "index", kept |-> SubSeq(index, k + 1, Len(index)),
                     victims |-> Victims(SubSeq(index, 1, k))]
        /\ StorageIsValid
  BY DEF PurgeBegins, MayPurge
<1>3. /\ index \in Seq(BinlogName) /\ UNCHANGED objects /\ pc' \in Off
  BY ObjectsAsTheyAre DEF ToolsInv, PurgeBegins, vars, Off
<1>4. SubSeq(index, 1, k) \in Seq(BinlogName)
  BY <1>3
<1>5. SubSeq(index, k + 1, Len(index)) \in Seq(BinlogName)
  BY <1>3, SuffixFacts
<1>6. Victims(SubSeq(index, 1, k)) \in Seq(Object)
  BY <1>4, VictimsFacts
<1>7. /\ purge'.pc = "index" /\ purge'.kept = SubSeq(index, k + 1, Len(index))
      /\ purge'.victims = Victims(SubSeq(index, 1, k))
      /\ purge' \in [pc : {"idle", "index", "remove"}, kept : Seq(BinlogName),
                     victims : Seq(Object)]
  BY <1>2, <1>5, <1>6
<1>8. StorageIsValid'
  BY <1>2, <1>3 DEF StorageIsValid, NameSet, objects
<1>9. PurgeInv'
  BY <1>3, <1>7, <1>8 DEF PurgeInv, objects
<1>10. ~PurgeIsIdle'
  BY <1>7 DEF PurgeIsIdle
<1> QED BY <1>1, <1>9, <1>10 DEF ToolsInv

\* The index is replaced by its files behind the k-th one.  The objects that are
\* no longer listed are those the purge is going to remove.
LEMMA PurgedIndex ==
  ASSUME ToolsInv, purge.pc = "index", index' = purge.kept,
         UNCHANGED <<initialized, payloads, payload, metas, meta, pc, memory>>,
         (crashes \in 0 .. MaxCrashes)', (failures \in 0 .. MaxFailures)'
  PROVE  /\ FilesOK' /\ StepKeeps
         /\ \A i \in DOMAIN purge.victims : purge.victims[i].name \notin NameSet(index')
         /\ \A n \in NameSet(index') : Whole(n)
         /\ payloads \subseteq NameSet(index') \cup Remaining("payload")
         /\ metas \subseteq NameSet(index') \cup Remaining("metadata")
<1>1. PICK k \in 1 .. Len(index) - 1 :
        /\ purge.kept = SubSeq(index, k + 1, Len(index))
        /\ purge.victims = Victims(SubSeq(index, 1, k))
  BY DEF ToolsInv, PurgeInv
<1>2. FilesOK /\ IInv /\ pc \in Off
  BY DEF ToolsInv, FilesOK, PurgeInv, PurgeIsIdle
<1>3. index \in Seq(BinlogName) /\ Distinct(index)
  BY <1>2, ObjectsAsTheyAre
<1>4. /\ index' \in Seq(BinlogName) /\ NameSet(index') \subseteq NameSet(index)
      /\ Distinct(index')
      /\ \A j \in 1 .. k : index[j] \notin NameSet(index')
      /\ NameSet(index) \subseteq NameSet(index') \cup {index[j] : j \in 1 .. k}
  BY <1>1, <1>3, SuffixFacts
<1>5. NameSet(index)' = NameSet(index')
  BY DEF NameSet
<1>6. FilesOK'
  BY <1>2, <1>4, <1>5, ObjectsAsTheyAre, StoppedPreserves
<1>7. StepKeeps
  BY <1>1, <1>2, <1>4, SizesAreNumbers DEF StepKeeps
<1> DEFINE old == SubSeq(index, 1, k)
<1>8. /\ old \in Seq(BinlogName) /\ Len(old) = k
      /\ \A j \in 1 .. k : old[j] = index[j]
  BY <1>3
<1> HIDE DEF old
<1>9. /\ \A i \in DOMAIN Victims(old) : \E j \in 1 .. k : Victims(old)[i].name = index[j]
      /\ \A j \in 1 .. k :
           /\ \E i \in DOMAIN Victims(old) :
                Victims(old)[i].kind = "metadata" /\ Victims(old)[i].name = index[j]
           /\ \E i \in DOMAIN Victims(old) :
                Victims(old)[i].kind = "payload" /\ Victims(old)[i].name = index[j]
  <2>1. /\ \A i \in DOMAIN Victims(old) :
             \E j \in 1 .. Len(old) : Victims(old)[i].name = old[j]
        /\ \A j \in 1 .. Len(old) :
             /\ \E i \in DOMAIN Victims(old) :
                  Victims(old)[i].kind = "metadata" /\ Victims(old)[i].name = old[j]
             /\ \E i \in DOMAIN Victims(old) :
                  Victims(old)[i].kind = "payload" /\ Victims(old)[i].name = old[j]
    BY <1>8, VictimsFacts
  <2>2. ASSUME NEW i \in DOMAIN Victims(old)
        PROVE  \E j \in 1 .. k : Victims(old)[i].name = index[j]
    <3>1. PICK j \in 1 .. Len(old) : Victims(old)[i].name = old[j]
      BY <2>1
    <3>2. j \in 1 .. k /\ old[j] = index[j]
      BY <1>8
    <3>3. Victims(old)[i].name = index[j]
      BY <3>1, <3>2, Zenon
    <3> QED BY <3>2, <3>3, Zenon
  <2>3. ASSUME NEW j \in 1 .. k
        PROVE  /\ \E i \in DOMAIN Victims(old) :
                    Victims(old)[i].kind = "metadata" /\ Victims(old)[i].name = index[j]
               /\ \E i \in DOMAIN Victims(old) :
                    Victims(old)[i].kind = "payload" /\ Victims(old)[i].name = index[j]
    <3>1. j \in 1 .. Len(old) /\ old[j] = index[j]
      BY <1>8
    <3>2. /\ \E i \in DOMAIN Victims(old) :
               Victims(old)[i].kind = "metadata" /\ Victims(old)[i].name = old[j]
          /\ \E i \in DOMAIN Victims(old) :
               Victims(old)[i].kind = "payload" /\ Victims(old)[i].name = old[j]
      BY <2>1, <3>1, Zenon
    <3> QED BY <3>1, <3>2, Zenon
  <2> QED BY <2>2, <2>3
<1>10. purge.victims = Victims(old)
  BY <1>1 DEF old
<1>11. \A i \in DOMAIN purge.victims : purge.victims[i].name \notin NameSet(index')
  BY <1>4, <1>9, <1>10
<1>12. {index[j] : j \in 1 .. k} \subseteq Remaining("payload") \cap Remaining("metadata")
  <2>1. ASSUME NEW j \in 1 .. k
        PROVE  index[j] \in Remaining("payload") /\ index[j] \in Remaining("metadata")
    <3>1. PICK i \in DOMAIN purge.victims :
            purge.victims[i].kind = "metadata" /\ purge.victims[i].name = index[j]
      BY <1>9, <1>10
    <3>2. PICK l \in DOMAIN purge.victims :
            purge.victims[l].kind = "payload" /\ purge.victims[l].name = index[j]
      BY <1>9, <1>10
    <3>3. index[j] \in Remaining("metadata")
      BY <3>1, Zenon DEF Remaining
    <3>4. index[j] \in Remaining("payload")
      BY <3>2, Zenon DEF Remaining
    <3> QED BY <3>3, <3>4
  <2> QED BY <2>1
<1>13. /\ payloads = NameSet(index) /\ metas = NameSet(index)
       /\ \A n \in NameSet(index) : Whole(n)
  <2>1. StorageIsValid
    BY DEF ToolsInv, PurgeInv
  <2> QED BY <2>1 DEF StorageIsValid, NameSet, Whole
<1> QED BY <1>4, <1>6, <1>7, <1>11, <1>12, <1>13

LEMMA PurgeSavesPreserves ==
  ASSUME ToolsInv, PurgeSaves \/ PurgeSaveFails
  PROVE  ToolsInv' /\ StepKeeps
<1>1. CASE PurgeSaves
  <2>0. /\ purge.pc = "index" /\ index' = purge.kept
        /\ purge' = [purge EXCEPT !.pc = "remove"]
        /\ UNCHANGED <<initialized, payloads, payload, metas, meta, pc, memory, bounds>>
    BY <1>1 DEF PurgeSaves
  <2>1. /\ FilesOK' /\ StepKeeps
        /\ \A i \in DOMAIN purge.victims : purge.victims[i].name \notin NameSet(index')
        /\ \A n \in NameSet(index') : Whole(n)
        /\ payloads \subseteq NameSet(index') \cup Remaining("payload")
        /\ metas \subseteq NameSet(index') \cup Remaining("metadata")
    BY <2>0, CountersHaveTypes, PurgedIndex DEF ToolsInv
  <2>2. /\ purge'.pc = "remove" /\ purge'.victims = purge.victims
        /\ purge' \in [pc : {"idle", "index", "remove"}, kept : Seq(BinlogName),
                       victims : Seq(Object)]
    BY <2>0 DEF ToolsInv, PurgeInv
  <2>3. pc' \in Off
    BY <2>0 DEF ToolsInv, PurgeInv, PurgeIsIdle
  <2>4. /\ NameSet(index)' = NameSet(index') /\ \A n : Whole(n)' <=> Whole(n)
        /\ Remaining("payload")' = Remaining("payload")
        /\ Remaining("metadata")' = Remaining("metadata")
    BY <2>0, <2>2 DEF NameSet, Whole, Remaining
  <2>5. PurgeInv'
    BY <2>0, <2>1, <2>2, <2>3, <2>4 DEF PurgeInv
  <2>6. ~PurgeIsIdle'
    BY <2>2 DEF PurgeIsIdle
  <2> QED BY <2>1, <2>5, <2>6 DEF ToolsInv
<1>2. CASE PurgeSaveFails
  <2>1. /\ (crashes \in 0 .. MaxCrashes)' /\ (failures \in 0 .. MaxFailures)'
        /\ failures' # 0 /\ crashes' + failures' # 0
    BY <1>2, CountersHaveTypes DEF ToolsInv, PurgeSaveFails
  <2>2. CASE index' = purge.kept
    BY <1>2, <2>1, <2>2, PurgedIndex, NoPurgePreserves DEF ToolsInv, PurgeSaveFails, DownInv
  <2>3. CASE index' = index
    BY <1>2, <2>1, <2>3, SameStorage, NoPurgePreserves
    DEF ToolsInv, PurgeSaveFails, DownInv, objects
  <2> QED BY <1>2, <2>2, <2>3 DEF PurgeSaveFails
<1> QED BY <1>1, <1>2

\* Removing an object of a file that is not in the index.
LEMMA RemovalKeeps ==
  ASSUME ToolsInv, RemovalStep,
         \/ RemoveObject(Head(purge.victims))
         \/ UNCHANGED <<payloads, payload, metas, meta>> /\ failures' # 0,
         (crashes \in 0 .. MaxCrashes)', (failures \in 0 .. MaxFailures)',
         failures' = 0 => failures = 0
  PROVE  ToolsInv' /\ StepKeeps
<1> DEFINE o == Head(purge.victims)
<1>1. /\ FilesOK /\ IInv /\ pc \in Off /\ purge.pc = "remove"
      /\ purge.victims \in Seq(Object) /\ purge.victims # << >>
      /\ purge' = [purge EXCEPT !.victims = Tail(@)]
      /\ UNCHANGED <<initialized, index, pc, memory>>
  BY DEF ToolsInv, FilesOK, PurgeInv, PurgeIsIdle, RemovalStep
<1>2. /\ o \in Object /\ o = purge.victims[1] /\ 1 \in DOMAIN purge.victims
      /\ Tail(purge.victims) \in Seq(Object)
      /\ \A i \in DOMAIN Tail(purge.victims) :
           i + 1 \in DOMAIN purge.victims /\ Tail(purge.victims)[i] = purge.victims[i + 1]
      /\ \A i \in DOMAIN purge.victims :
           i # 1 => i - 1 \in DOMAIN Tail(purge.victims)
                    /\ Tail(purge.victims)[i - 1] = purge.victims[i]
  BY <1>1
<1>3. \/ RemoveObject(o)
      \/ UNCHANGED <<payloads, payload, metas, meta>> /\ failures' # 0
  OBVIOUS
<1>4. o.name \in BinlogName /\ o.name \notin NameSet(index)
  <2>1. o.name \in BinlogName
    BY <1>2 DEF Object
  <2>2. purge.victims[1].name \notin NameSet(index)
    BY <1>1, <1>2 DEF ToolsInv, PurgeInv
  <2> QED BY <1>2, <2>1, <2>2
<1> HIDE DEF o
<1>5. /\ payload \in [BinlogName -> Seq(Event)] /\ meta \in [BinlogName -> Metadata]
      /\ payloads \subseteq BinlogName /\ metas \subseteq BinlogName
      /\ NameSet(index) \subseteq payloads \cap metas
  BY <1>1, ObjectsAsTheyAre
<1>6. /\ payload' \in [BinlogName -> Seq(Event)] /\ meta' \in [BinlogName -> Metadata]
      /\ payloads' \subseteq BinlogName /\ metas' \subseteq BinlogName
      /\ NameSet(index) \subseteq payloads' \cap metas'
      /\ \A n \in NameSet(index) : payload'[n] = payload[n] /\ meta'[n] = meta[n]
  <2>1. CASE UNCHANGED <<payloads, payload, metas, meta>>
    BY <1>5, <2>1
  <2>2. CASE RemoveObject(o) /\ o.kind = "payload"
    <3>1. /\ payloads' = payloads \ {o.name} /\ payload' = [payload EXCEPT ![o.name] = << >>]
          /\ metas' = metas /\ meta' = meta
      BY <2>2 DEF RemoveObject
    <3>2. payload' \in [BinlogName -> Seq(Event)]
      BY <1>4, <1>5, <3>1
    <3>3. \A n \in NameSet(index) : payload'[n] = payload[n]
      BY <1>1, <1>4, <1>5, <3>1, SizesAreNumbers
    <3> QED BY <1>4, <1>5, <3>1, <3>2, <3>3
  <2>3. CASE RemoveObject(o) /\ o.kind # "payload"
    <3>1. /\ metas' = metas \ {o.name} /\ meta' = [meta EXCEPT ![o.name] = EmptyRecord]
          /\ payloads' = payloads /\ payload' = payload
      BY <2>3 DEF RemoveObject
    <3>2. meta' \in [BinlogName -> Metadata]
      BY <1>4, <1>5, <3>1, EmptyTypes
    <3>3. \A n \in NameSet(index) : meta'[n] = meta[n]
      BY <1>1, <1>4, <1>5, <3>1, SizesAreNumbers
    <3> QED BY <1>4, <1>5, <3>1, <3>2, <3>3
  <2> QED BY <1>3, <2>1, <2>2, <2>3
<1>7. NameSet(index)' = NameSet(index) /\ Distinct(index')
  BY <1>1, ObjectsAsTheyAre DEF NameSet
<1>8. FilesOK'
  BY <1>1, <1>6, <1>7, ObjectsAsTheyAre, StoppedPreserves
<1>9. /\ purge'.pc = "remove" /\ purge'.victims = Tail(purge.victims)
      /\ purge' \in [pc : {"idle", "index", "remove"}, kept : Seq(BinlogName),
                     victims : Seq(Object)]
  BY <1>1, <1>2 DEF ToolsInv, PurgeInv
<1>10. failures' = 0 => /\ payloads' \subseteq NameSet(index) \cup Remaining("payload")'
                        /\ metas' \subseteq NameSet(index) \cup Remaining("metadata")'
  <2> SUFFICES ASSUME failures' = 0
               PROVE  /\ payloads' \subseteq NameSet(index) \cup Remaining("payload")'
                      /\ metas' \subseteq NameSet(index) \cup Remaining("metadata")'
    OBVIOUS
  <2>1. /\ RemoveObject(o)
        /\ payloads \subseteq NameSet(index) \cup Remaining("payload")
        /\ metas \subseteq NameSet(index) \cup Remaining("metadata")
    BY <1>1, <1>3 DEF ToolsInv, PurgeInv
  <2>2. ASSUME NEW kind \in {"payload", "metadata"}, NEW n \in Remaining(kind),
               ~(kind = o.kind /\ n = o.name)
        PROVE  n \in Remaining(kind)'
    <3>1. PICK i \in DOMAIN purge.victims :
            purge.victims[i].kind = kind /\ purge.victims[i].name = n
      BY DEF Remaining
    <3>2. i # 1
      BY <1>2, <2>2, <3>1
    <3>3. i - 1 \in DOMAIN purge'.victims /\ purge'.victims[i - 1] = purge.victims[i]
      BY <1>2, <1>9, <3>2
    <3> QED BY <3>1, <3>3 DEF Remaining
  <2>3. CASE o.kind = "payload"
    BY <2>1, <2>2, <2>3 DEF RemoveObject
  <2>4. CASE o.kind = "metadata"
    BY <2>1, <2>2, <2>4 DEF RemoveObject
  <2> QED BY <1>2, <2>3, <2>4 DEF Object
<1>11. PurgeInv'
  <2>1. /\ \A i \in DOMAIN purge.victims : purge.victims[i].name \notin NameSet(index)
        /\ \A n \in NameSet(index) : Whole(n)
    BY <1>1 DEF ToolsInv, PurgeInv
  <2>2. \A i \in DOMAIN purge'.victims : purge'.victims[i].name \notin NameSet(index)
    <3>1. ASSUME NEW i \in DOMAIN purge'.victims
          PROVE  i + 1 \in DOMAIN purge.victims /\ purge'.victims[i] = purge.victims[i + 1]
      BY <1>2, <1>9
    <3> QED BY <2>1, <3>1
  <2>3. \A n \in NameSet(index) : Whole(n)'
    BY <1>6, <2>1 DEF Whole
  <2> QED BY <1>1, <1>7, <1>9, <1>10, <2>2, <2>3 DEF PurgeInv
<1>12. StepKeeps
  BY <1>1, <1>6, <1>7, SizesAreNumbers DEF StepKeeps
<1>13. ~PurgeIsIdle'
  BY <1>9 DEF PurgeIsIdle
<1> QED BY <1>8, <1>11, <1>12, <1>13 DEF ToolsInv

\* A purge that has removed all objects leaves what the constructor accepts.
LEMMA PurgeEndsPreserves ==
  ASSUME ToolsInv, PurgeEnds
  PROVE  ToolsInv' /\ StepKeeps
<1>1. /\ purge.pc = "remove" /\ purge.victims = << >> /\ purge' = NoPurge /\ UNCHANGED vars
  BY DEF PurgeEnds
<1>2. FilesOK' /\ StepKeeps
  BY <1>1, CountersHaveTypes, SameStorage DEF ToolsInv, vars
<1>3. PurgeInv'
  BY <1>1, NoPurgePreserves
<1>4. DownInv'
  <2> SUFFICES ASSUME crashes + failures = 0 PROVE StorageIsValid'
    BY <1>1 DEF DownInv, vars, bounds
  <2>1. failures = 0 /\ index \in Seq(BinlogName) /\ NameSet(index) \subseteq payloads \cap metas
    <3>1. crashes \in Nat /\ failures \in Nat
      BY DEF ToolsInv, FilesOK, IInv, TypeOK
    <3>2. failures = 0
      BY <3>1
    <3> QED BY <3>2, ObjectsAsTheyAre DEF ToolsInv
  <2>2. /\ payloads \subseteq NameSet(index) /\ metas \subseteq NameSet(index)
        /\ \A n \in NameSet(index) : Whole(n)
    BY <1>1, <2>1 DEF ToolsInv, PurgeInv, Remaining
  <2>3. StorageIsValid
    BY <2>1, <2>2, SettledIsValid
  <2> QED BY <1>1, <2>3 DEF StorageIsValid, NameSet, vars, objects
<1> QED BY <1>2, <1>3, <1>4 DEF ToolsInv

LEMMA PurgePreserves ==
  ASSUME ToolsInv, Purge
  PROVE  ToolsInv' /\ StepKeeps
<1>1. CASE PurgeBegins
  BY <1>1, PurgeBeginsPreserves
<1>2. CASE PurgeSaves \/ PurgeSaveFails
  BY <1>2, PurgeSavesPreserves
<1>3. CASE PurgeRemoves
  BY <1>3, CountersHaveTypes, RemovalKeeps DEF ToolsInv, PurgeRemoves
<1>4. CASE PurgeRemoveFails
  BY <1>4, CountersHaveTypes, RemovalKeeps DEF ToolsInv, PurgeRemoveFails
<1>5. CASE PurgeEnds
  BY <1>5, PurgeEndsPreserves
<1>6. CASE PurgeKilled
  <2>1. /\ (crashes \in 0 .. MaxCrashes)' /\ (failures \in 0 .. MaxFailures)'
        /\ failures' = failures /\ crashes' + failures' # 0
    BY <1>6, StorageAssumption DEF ToolsInv, FilesOK, IInv, TypeOK, PurgeKilled
  <2> QED BY <1>6, <2>1, SameStorage, NoPurgePreserves DEF ToolsInv, PurgeKilled, DownInv
<1> QED BY <1>1, <1>2, <1>3, <1>4, <1>5, <1>6 DEF Purge

-----------------------------------------------------------------------------
(* The theorems *)

LEMMA ToolsInitEstablishes == ToolsInit => ToolsInv
<1> SUFFICES ASSUME ToolsInit PROVE ToolsInv
  OBVIOUS
<1>1. FilesOK /\ DownInv
  BY FilesInitEstablishes DEF ToolsInit
<1>2. PurgeInv
  BY DEF ToolsInit, NoPurge, PurgeInv, PurgeIsIdle
<1> QED BY <1>1, <1>2 DEF ToolsInv

LEMMA ToolsNextPreserves ==
  ToolsInv /\ [ToolsNext]_<<vars, toolVars>> => ToolsInv' /\ StepKeeps
<1> SUFFICES ASSUME ToolsInv, [ToolsNext]_<<vars, toolVars>> PROVE ToolsInv' /\ StepKeeps
  OBVIOUS
<1>1. CASE ToolsNext
  BY <1>1, StreamingPreserves, QueryPreserves, PurgePreserves DEF ToolsNext
<1>2. CASE UNCHANGED <<vars, toolVars>>
  <2>1. FilesOK' /\ StepKeeps
    BY <1>2, CountersHaveTypes, SameStorage DEF ToolsInv, vars
  <2>2. PurgeInv'
    BY <1>2, SamePurge DEF ToolsInv, vars, toolVars, bounds
  <2>3. PurgeIsIdle' => DownInv'
    BY <1>2, StutterExact DEF ToolsInv, PurgeIsIdle, toolVars
  <2> QED BY <2>1, <2>2, <2>3 DEF ToolsInv
<1> QED BY <1>1, <1>2

LEMMA ToolsInvariantHolds == ToolsSpec => []ToolsInv
<1>1. ToolsInv /\ [ToolsNext]_<<vars, toolVars>> => ToolsInv'
  BY ToolsNextPreserves
<1> QED BY ToolsInitEstablishes, <1>1, PTL DEF ToolsSpec

\* A file of the index has its payload and its metadata during and after every
\* purge, wherever it is killed and whatever fails: purge_binlogs replaces the
\* index before it removes the first object.
THEOREM PurgedIndexIsComplete == ToolsSpec => []IndexedObjectsExist
<1>1. ToolsInv => IndexedObjectsExist
  BY DEF ToolsInv, FilesOK, IInv, ObjectsInv, IndexedObjectsExist
<1> QED BY <1>1, ToolsInvariantHolds, PTL

\* The files that a purge leaves, and those streamed after it, are accepted only
\* when they end with a whole transaction.
THEOREM PurgedFilesAreWhole == ToolsSpec => []AcceptedFilesEndAtBoundary
<1>1. ToolsInv => AcceptedFilesEndAtBoundary
  BY DEF ToolsInv, FilesOK, IInv, SizesInv, AcceptedFilesEndAtBoundary
<1> QED BY <1>1, ToolsInvariantHolds, PTL

\* A purge that nothing disturbed leaves a storage the constructor accepts, and
\* whatever was purged, killed or failed before, a storage that is streamed to is
\* valid between operations: a purge that was interrupted, and a failed flush, are
\* never mistaken for finished ones.
THEOREM PurgedStorageIsResumable == ToolsSpec => []PurgesAreResumable
<1>1. ToolsInv => PurgesAreResumable
  BY ExactIsResumable DEF ToolsInv, PurgesAreResumable
<1> QED BY <1>1, ToolsInvariantHolds, PTL

\* Whatever is streamed, purged, killed and failing in any order: only whole
\* files leave the index, the oldest ones and never the last, and what has been
\* committed to a file that is listed stays in it.
THEOREM OnlyTheOldestGo == ToolsSpec => OnlyOldestFilesGo
<1> DEFINE A == \A n \in NameSet(index) \cap NameSet(index)' :
                  Continues(Committed(n), Committed(n)')
           B == index # << >> =>
                  \E k \in 1 .. Len(index) : Continues(SubSeq(index, k, Len(index)), index')
<1>1. ASSUME ToolsInv, ToolsInv', StepKeeps PROVE A
  <2> SUFFICES ASSUME NEW n \in NameSet(index) \cap NameSet(index)'
               PROVE  Continues(Committed(n), Committed(n)')
    OBVIOUS
  <2>1. /\ n \in BinlogName /\ payload[n] \in Seq(Event) /\ meta[n].size \in Nat
        /\ meta[n].size <= Len(payload[n])
    BY <1>1, SizesAreNumbers DEF ToolsInv, FilesOK, IInv, SizesInv
  <2>2. NameSet(index)' = NameSet(index')
    BY DEF NameSet
  <2>3. payload'[n] \in Seq(Event) /\ meta'[n].size \in Nat
    <3>1. payload' \in [BinlogName -> Seq(Event)] /\ meta' \in [BinlogName -> Metadata]
      BY <1>1 DEF ToolsInv, FilesOK, IInv, TypeOK
    <3> QED BY <2>1, <3>1 DEF Metadata
  <2>4. meta'[n].size <= Len(payload'[n])
    BY <1>1 DEF ToolsInv, FilesOK, IInv, SizesInv
  <2>5. meta[n].size <= meta'[n].size /\ \A i \in 1 .. meta[n].size : payload'[n][i] = payload[n][i]
    BY <1>1, <2>2 DEF StepKeeps
  <2>6. Continues(SubSeq(payload[n], 1, meta[n].size), SubSeq(payload'[n], 1, meta'[n].size))
    BY <2>1, <2>3, <2>4, <2>5, AgreeContinues
  <2> QED BY <2>6 DEF Committed
<1>2. ASSUME ToolsInv, StepKeeps PROVE B
  <2> SUFFICES ASSUME index # << >>
               PROVE  \E k \in 1 .. Len(index) : Continues(SubSeq(index, k, Len(index)), index')
    OBVIOUS
  <2>1. index \in Seq(BinlogName)
    BY <1>2, SizesAreNumbers DEF ToolsInv, FilesOK
  <2>2. /\ Len(index) \in Nat /\ 1 \in 1 .. Len(index)
        /\ SubSeq(index, 1, Len(index)) = index
    BY <2>1
  <2>3. CASE index' = index \/ \E n \in BinlogName : index' = Append(index, n)
    <3>1. CASE index' = index
      BY <2>1, <2>2, <3>1 DEF Continues
    <3>2. CASE \E n \in BinlogName : index' = Append(index, n)
      <4>1. PICK n \in BinlogName : index' = Append(index, n)
        BY <3>2
      <4>2. Continues(index, Append(index, n))
        BY <2>1, AppendContinues
      <4> QED BY <2>2, <4>1, <4>2
    <3> QED BY <2>3, <3>1, <3>2
  <2>4. CASE \E k \in 1 .. Len(index) - 1 : index' = SubSeq(index, k + 1, Len(index))
    <3>1. PICK k \in 1 .. Len(index) - 1 : index' = SubSeq(index, k + 1, Len(index))
      BY <2>4
    <3>2. index' \in Seq(BinlogName)
      BY <2>1, <3>1, SuffixFacts
    <3>3. Continues(index', index')
      <4>1. Len(index') \in Nat /\ SubSeq(index', 1, Len(index')) = index'
        BY <3>2
      <4> QED BY <4>1 DEF Continues
    <3>4. k + 1 \in 1 .. Len(index)
      BY <2>2
    <3> QED BY <3>1, <3>3, <3>4
  <2> QED BY <1>2, <2>3, <2>4 DEF StepKeeps
<1>3. ToolsInv /\ ToolsInv' /\ [ToolsNext]_<<vars, toolVars>> => [A /\ B]_<<vars, toolVars>>
  BY <1>1, <1>2, ToolsNextPreserves
<1> QED BY <1>3, ToolsInvariantHolds, PTL DEF ToolsSpec, OnlyOldestFilesGo

=============================================================================
