-------------------------- MODULE RemoteFetchProofs --------------------------
(***************************************************************************)
(* Proofs about MetricBuffer, for every set of ULTs, all arguments and     *)
(* every buffer size, and about RemoteFetch, for every set of calls and of *)
(* faults too.  Inductive is preserved action by action; the properties of *)
(* the buffer follow from it.  The handler of a fetch takes no lock: what  *)
(* it relies on is that published samples are settled (StepShape).         *)
(***************************************************************************)
EXTENDS RemoteFetch, Sequences, FiniteSetTheorems, TLAPS


-----------------------------------------------------------------------------
(* Pending calls: a finite set that grows by the ULT that enters and
   shrinks by the one that publishes. *)
LEMMA PendingFinite == IsFiniteSet(Pending)
  BY UltsAssumption, FS_Subset DEF Pending

LEMMA PendingCount == Cardinality(Pending) \in Nat
  BY PendingFinite, FS_CardinalityType

LEMMA PendingGrows ==
  ASSUME NEW u \in Ults, u \notin Pending, Pending' = Pending \cup {u}
  PROVE  Cardinality(Pending') = Cardinality(Pending) + 1
  BY PendingFinite, FS_AddElement

LEMMA PendingShrinks ==
  ASSUME NEW u \in Ults, u \in Pending, Pending' = Pending \ {u}
  PROVE  Cardinality(Pending') = Cardinality(Pending) - 1
  BY PendingFinite, FS_RemoveElement

(* A ULT with a call still to publish leaves the index below the end of the
   buffer: the slot its critical section writes exists. *)
LEMMA SlotExists ==
  ASSUME TypeOK, RoomInv, NEW u \in Ults, u \in Pending
  PROVE  index \in Slots /\ index < BufferSize
<1>1. Cardinality(Pending) # 0
  BY PendingFinite, FS_EmptySet
<1>2. Cardinality(Pending) >= 1
  BY <1>1, PendingCount
<1> QED
  BY <1>2, PendingCount, SizeAssumption DEF TypeOK, RoomInv, Slots

-----------------------------------------------------------------------------
LEMMA InductiveInit == BufferInit => Inductive
<1> SUFFICES ASSUME BufferInit PROVE Inductive
  OBVIOUS
<1> USE DEF BufferInit
<1>1. TypeOK
  BY SizeAssumption DEF TypeOK, Blank, NoArg, Arg, Labels, Slots
<1>2. LockInv
  BY UltsAssumption DEF LockInv, Critical
<1>3. RoomInv
  <2>1. Pending = {}
    BY DEF Pending, Unpublished
  <2> QED
    BY <2>1, FS_EmptySet, SizeAssumption DEF RoomInv
<1>4. StoredInv /\ StampInv /\ ArgInv /\ BaseInv /\ TimerInv
  BY DEF StoredInv, StampInv, ArgInv, BaseInv, TimerInv, Published
<1> QED
  BY <1>1, <1>2, <1>3, <1>4 DEF Inductive

LEMMA EnterInductive ==
  ASSUME Inductive, NEW u \in Ults, NEW op \in {"set", "add"}, NEW v \in Int,
         Enter(u, op, v),
         op = "set" => Accepts(v),
         op = "add" => type = "GAUGE"
  PROVE  Inductive'
<1> USE DEF Inductive, Enter
<1>1. TypeOK'
  BY DEF TypeOK, Arg, Labels
<1>2. LockInv'
  BY DEF TypeOK, LockInv, Critical
<1>3. RoomInv'
  <2>1. u \notin Pending /\ Pending' = Pending \cup {u}
    BY DEF TypeOK, Pending, Unpublished
  <2>2. Cardinality(Pending') = Cardinality(Pending) + 1
    BY <2>1, PendingGrows
  <2> QED
    BY <2>2, PendingCount, SizeAssumption DEF TypeOK, RoomInv, HasRoom
<1>4. StoredInv'
  BY DEF TypeOK, StoredInv, NewVal
<1>5. StampInv'
  BY DEF TypeOK, StampInv, Published
<1>6. ArgInv'
  BY DEF TypeOK, ArgInv, Accepts, Types
<1>7. BaseInv'
  BY SizeAssumption DEF TypeOK, BaseInv, Accepts, Types
<1>8. TimerInv'
  BY DEF TimerInv, Published
<1> QED
  BY <1>1, <1>2, <1>3, <1>4, <1>5, <1>6, <1>7, <1>8

LEMMA RefuseInductive ==
  ASSUME Inductive, NEW u \in Ults, Refuse(u)
  PROVE  Inductive'
<1> USE DEF Inductive, Refuse
<1>1. TypeOK'
  BY DEF TypeOK
<1>2. Pending' = Pending
  BY DEF Pending
<1>3. RoomInv'
  BY <1>2 DEF RoomInv
<1>4. (LockInv /\ StoredInv /\ StampInv)'
  BY DEF LockInv, StoredInv, StampInv, NewVal, Published
<1>5. (ArgInv /\ BaseInv /\ TimerInv)'
  BY DEF ArgInv, BaseInv, TimerInv, Published
<1> QED
  BY <1>1, <1>3, <1>4, <1>5

LEMMA LockInductive ==
  ASSUME Inductive, NEW u \in Ults, Lock(u)
  PROVE  Inductive'
<1> USE DEF Inductive, Lock
<1>1. TypeOK'
  BY DEF TypeOK, Labels, Critical
<1>2. Pending' = Pending
  BY DEF TypeOK, Pending, Unpublished
<1>3. RoomInv'
  BY <1>2 DEF RoomInv
<1>4. LockInv'
  BY UltsAssumption DEF TypeOK, LockInv, Critical
<1>5. (StoredInv /\ StampInv)'
  BY DEF TypeOK, StoredInv, StampInv, NewVal, Published
<1>6. (ArgInv /\ BaseInv /\ TimerInv)'
  BY DEF TypeOK, ArgInv, BaseInv, TimerInv, Published
<1> QED
  BY <1>1, <1>3, <1>4, <1>5, <1>6

(* The value goes into the slot at index, which no reader sees yet. *)
LEMMA StoreValInductive ==
  ASSUME Inductive, NEW u \in Ults, StoreVal(u)
  PROVE  Inductive'
<1> USE DEF Inductive, StoreVal
<1>1. u \in Pending
  BY DEF Pending, Unpublished
<1>2. index \in Slots /\ index < BufferSize
  BY <1>1, SlotExists
<1>3. NewVal(arg[u]) \in Int
  BY SizeAssumption DEF TypeOK, Arg, NewVal, Slots
<1>4. \A i \in Published : buf'[i] = buf[i]
  BY <1>2 DEF TypeOK, Published, Slots
<1>5. buf'[index] = [buf[index] EXCEPT !.val = NewVal(arg[u])]
  BY <1>2 DEF TypeOK
<1>6. TypeOK'
  <2>1. buf' \in [Slots -> [val : Int, by : Ults \cup {NoUlt}]]
    BY <1>2, <1>3 DEF TypeOK
  <2> QED
    BY <2>1 DEF TypeOK, Labels, Critical
<1>7. LockInv'
  BY DEF TypeOK, LockInv, Critical
<1>8. RoomInv'
  <2>1. Pending' = Pending
    BY DEF TypeOK, Pending, Unpublished
  <2> QED
    BY <2>1 DEF RoomInv
<1>9. StoredInv'
  <2> SUFFICES ASSUME NEW w \in Ults, pc'[w] \in {"stamp", "stamped"}
               PROVE  buf'[index].val = NewVal(arg[w])'
    BY DEF StoredInv
  <2>1. w = u
    BY DEF TypeOK, LockInv, Critical
  <2>2. index > 0 => buf'[index - 1].val = buf[index - 1].val
    BY <1>4 DEF TypeOK, Published
  <2>3. NewVal(arg[u])' = NewVal(arg[u])
    BY <2>2 DEF NewVal
  <2>4. buf'[index].val = NewVal(arg[u])
    BY <1>5, <1>2 DEF TypeOK
  <2> QED
    BY <2>1, <2>3, <2>4
<1>10. StampInv'
  <2>1. \A w \in Ults : pc'[w] \notin {"stamped", "published"}
    BY DEF TypeOK, LockInv, Critical
  <2>2. \A w \in Ults : pc[w] # "published"
    BY DEF TypeOK, LockInv, Critical
  <2>3. \A i \in Published : buf[i].by \in Ults
    BY <2>2 DEF StampInv
  <2> QED
    BY <2>1, <2>3, <1>4 DEF StampInv, Published
<1>11. ArgInv'
  BY DEF TypeOK, ArgInv
<1>12. BaseInv'
  BY <1>4 DEF TypeOK, BaseInv, Published
<1>13. TimerInv'
  BY <1>4 DEF TimerInv, Published
<1> QED
  BY <1>6, <1>7, <1>8, <1>9, <1>10, <1>11, <1>12, <1>13

(* The stamp goes into the slot at index or, once that is published, into
   the newest sample; no value changes. *)
LEMMA StoreStampInductive ==
  ASSUME Inductive, NEW u \in Ults, StoreStamp(u)
  PROVE  Inductive'
<1> USE DEF Inductive, StoreStamp
<1> DEFINE at == IF pc[u] = "stamp" THEN index ELSE index - 1
<1>1. at \in Slots
  <2>1. CASE pc[u] = "stamp"
    BY <2>1, SlotExists DEF Pending, Unpublished
  <2>2. CASE pc[u] = "published"
    BY <2>2, SizeAssumption DEF TypeOK, StampInv, Slots
  <2> QED
    BY <2>1, <2>2
<1>2. buf' = [buf EXCEPT ![at].by = u]
  OBVIOUS
<1> HIDE DEF at
<1>3. \A i \in Slots : buf'[i].val = buf[i].val
  BY <1>1, <1>2 DEF TypeOK
<1>4. buf'[at].by = u /\ \A i \in Slots \ {at} : buf'[i] = buf[i]
  BY <1>1, <1>2 DEF TypeOK
<1>5. TypeOK'
  <2>1. buf' \in [Slots -> [val : Int, by : Ults \cup {NoUlt}]]
    BY <1>1, <1>2 DEF TypeOK
  <2> QED
    BY <2>1 DEF TypeOK, Labels, Critical
<1>6. LockInv'
  BY DEF TypeOK, LockInv, Critical
<1>7. RoomInv'
  <2>1. Pending' = Pending
    BY DEF TypeOK, Pending, Unpublished
  <2> QED
    BY <2>1 DEF RoomInv
<1>8. Published \subseteq Slots
  BY SizeAssumption DEF TypeOK, Published, Slots
<1>9. StoredInv'
  <2> SUFFICES ASSUME NEW w \in Ults, pc'[w] \in {"stamp", "stamped"}
               PROVE  buf'[index].val = NewVal(arg[w])'
    BY DEF StoredInv
  <2>1. w = u /\ pc[u] = "stamp"
    BY DEF TypeOK, LockInv, Critical
  <2>2. index \in Slots
    BY <2>1, SlotExists DEF Pending, Unpublished
  <2>3. buf'[index].val = NewVal(arg[u])
    BY <2>1, <2>2, <1>3 DEF StoredInv
  <2>4. index > 0 => buf'[index - 1].val = buf[index - 1].val
    BY <1>3, <1>8 DEF TypeOK, Published
  <2> QED
    BY <2>1, <2>3, <2>4 DEF NewVal
<1>10. StampInv'
  <2>1. \A w \in Ults : pc'[w] = "stamped" => w = u /\ pc[u] = "stamp"
    BY DEF TypeOK, LockInv, Critical
  <2>2. \A w \in Ults : pc'[w] # "published"
    BY DEF TypeOK, LockInv, Critical
  <2>3. \A i \in Published : buf'[i].by \in Ults
    <3> SUFFICES ASSUME NEW i \in Published PROVE buf'[i].by \in Ults
      OBVIOUS
    <3>1. CASE i = at
      BY <3>1, <1>4
    <3>2. CASE i # at
      <4>1. buf'[i] = buf[i]
        BY <3>2, <1>4, <1>8
      <4>2. pc[u] = "published" => i # index - 1
        BY <3>2 DEF at
      <4>3. pc[u] = "stamp" => \A w \in Ults : pc[w] # "published"
        BY DEF TypeOK, LockInv, Critical
      <4> QED
        BY <4>1, <4>2, <4>3 DEF StampInv
    <3> QED
      BY <3>1, <3>2
  <2> QED
    BY <2>1, <2>2, <2>3, <1>4 DEF StampInv, Published, at
<1>11. ArgInv'
  BY DEF TypeOK, ArgInv
<1>12. BaseInv'
  BY <1>3, <1>8 DEF TypeOK, BaseInv, Published
<1>13. TimerInv'
  BY <1>3, <1>8 DEF TimerInv, Published
<1> QED
  BY <1>5, <1>6, <1>7, <1>9, <1>10, <1>11, <1>12, <1>13

(* The slot at index joins the published ones. *)
LEMMA PublishInductive ==
  ASSUME Inductive, NEW u \in Ults, Publish(u)
  PROVE  Inductive'
<1> USE DEF Inductive, Publish
<1>1. u \in Pending
  BY DEF Pending, Unpublished
<1>2. index \in Slots /\ index < BufferSize
  BY <1>1, SlotExists
<1>3. \A i \in Published' : i = index \/ i \in Published
  BY DEF TypeOK, Published
<1>4. TypeOK'
  BY <1>2, SizeAssumption DEF TypeOK, Labels, Critical
<1>5. LockInv'
  BY DEF TypeOK, LockInv, Critical
<1>6. RoomInv'
  <2>1. Pending' = Pending \ {u}
    BY DEF TypeOK, Pending, Unpublished
  <2>2. Cardinality(Pending') = Cardinality(Pending) - 1
    BY <1>1, <2>1, PendingShrinks
  <2> QED
    BY <2>2, PendingCount, SizeAssumption DEF TypeOK, RoomInv
<1>7. \A w \in Ults : w # u => pc'[w] = pc[w] /\ pc[w] \notin Critical
  BY DEF TypeOK, LockInv, Critical
<1>8. StoredInv'
  BY <1>7 DEF TypeOK, StoredInv, Critical
<1>9. StampInv'
  <2>1. \A w \in Ults : pc[w] # "published"
    BY <1>7 DEF Critical
  <2>2. \A i \in Published : buf[i].by \in Ults
    BY <2>1 DEF StampInv
  <2>3. CASE pc[u] = "stamp"
    BY <2>3, <2>2, <1>3, <1>7 DEF TypeOK, StampInv, Critical
  <2>4. CASE pc[u] = "stamped"
    BY <2>4, <2>2, <1>3, <1>7 DEF TypeOK, StampInv, Critical
  <2> QED
    BY <2>3, <2>4
<1>10. ArgInv'
  BY DEF TypeOK, ArgInv
<1>11. BaseInv'
  BY DEF TypeOK, BaseInv
<1>12. TimerInv'
  <2> SUFFICES ASSUME type = "TIMER", NEW i \in Published'
               PROVE  buf[i].val >= 0
    BY DEF TimerInv
  <2>1. CASE i = index
    <3>1. buf[index].val = NewVal(arg[u])
      BY DEF StoredInv
    <3>2. arg[u].op = "set" /\ arg[u].val >= 0
      BY DEF TypeOK, ArgInv, Arg
    <3> QED
      BY <2>1, <3>1, <3>2 DEF NewVal
  <2>2. CASE i \in Published
    BY <2>2 DEF TimerInv
  <2> QED
    BY <2>1, <2>2, <1>3
<1> QED
  BY <1>4, <1>5, <1>6, <1>8, <1>9, <1>10, <1>11, <1>12

LEMMA UnlockInductive ==
  ASSUME Inductive, NEW u \in Ults, Unlock(u)
  PROVE  Inductive'
<1> USE DEF Inductive, Unlock
<1>1. TypeOK'
  BY SizeAssumption DEF TypeOK, Labels, Arg, NoArg
<1>2. LockInv'
  BY UltsAssumption DEF TypeOK, LockInv, Critical
<1>3. RoomInv'
  <2>1. Pending' = Pending
    BY DEF TypeOK, Pending, Unpublished
  <2> QED
    BY <2>1 DEF RoomInv
<1>4. \A w \in Ults : pc'[w] \notin Critical
  BY DEF TypeOK, LockInv, Critical
<1>5. \A w \in Ults : pc[w] # "published"
  BY DEF TypeOK, LockInv, Critical
<1>6. StoredInv'
  BY <1>4 DEF StoredInv, Critical
<1>7. StampInv'
  BY <1>4, <1>5 DEF StampInv, Critical, Published
<1>8. (ArgInv /\ BaseInv /\ TimerInv)'
  BY DEF TypeOK, ArgInv, BaseInv, TimerInv, Published
<1> QED
  BY <1>1, <1>2, <1>3, <1>6, <1>7, <1>8

-----------------------------------------------------------------------------
(* Every step of the specification preserves the inductive invariant. *)
LEMMA InductiveNext == Inductive /\ [BufferNext]_bufferVars => Inductive'
<1> SUFFICES ASSUME Inductive, [BufferNext]_bufferVars PROVE Inductive'
  OBVIOUS
<1>1. CASE UNCHANGED bufferVars
  BY <1>1 DEF bufferVars, Inductive, TypeOK, LockInv, RoomInv, StoredInv, StampInv,
              ArgInv, BaseInv, TimerInv, Pending, NewVal, Published
<1>2. ASSUME NEW u \in Ults, BufferStep(u) PROVE Inductive'
  <2>1. ASSUME NEW v \in Vals, Update(u, v) PROVE Inductive'
    BY <2>1, ArgsAssumption, EnterInductive DEF Update
  <2>2. ASSUME NEW v \in Vals, UpdateInvalid(u, v) PROVE Inductive'
    BY <2>2, RefuseInductive DEF UpdateInvalid
  <2>3. ASSUME NEW d \in Diffs, UpdateGauge(u, d) PROVE Inductive'
    BY <2>3, ArgsAssumption, EnterInductive DEF UpdateGauge
  <2>4. ASSUME UpdateGaugeInvalid(u) PROVE Inductive'
    BY <2>4, RefuseInductive DEF UpdateGaugeInvalid
  <2>5. ASSUME Progress(u) PROVE Inductive'
    BY <2>5, LockInductive, StoreValInductive, StoreStampInductive,
       PublishInductive, UnlockInductive DEF Progress
  <2> QED
    BY <1>2, <2>1, <2>2, <2>3, <2>4, <2>5 DEF BufferStep
<1> QED
  BY <1>1, <1>2 DEF BufferNext

(* The inductive invariant holds in every reachable state: in particular the
   mutex excludes, the slot an accepted call writes exists, and a timer's
   samples are not negative. *)
THEOREM InductiveHolds == BufferSpec => []Inductive
<1>1. BufferInit => Inductive
  BY InductiveInit
<1>2. Inductive /\ [BufferNext]_bufferVars => Inductive'
  BY InductiveNext
<1> QED
  BY <1>1, <1>2, PTL DEF BufferSpec

(* Type correctness of the buffer and of its update functions. *)
THEOREM TypeCorrect == BufferSpec => []TypeOK
<1>1. Inductive => TypeOK
  BY DEF Inductive
<1> QED
  BY <1>1, InductiveHolds, PTL

(* While metric_mutex is free every published sample carries its time and
   sample_id, although the update functions may write them late. *)
THEOREM SamplesStampedHolds == BufferSpec => []SamplesStamped
<1>1. Inductive => SamplesStamped
  <2> SUFFICES ASSUME Inductive, mutex = NoUlt, NEW i \in Published
               PROVE  buf[i].by \in Ults
    BY DEF SamplesStamped
  <2>1. \A u \in Ults : pc[u] # "published"
    BY UltsAssumption DEF Inductive, LockInv, Critical
  <2> QED
    BY <2>1 DEF Inductive, StampInv
<1> QED
  BY <1>1, InductiveHolds, PTL

-----------------------------------------------------------------------------
(* Only Publish moves the index; only StoreVal changes a value, and only in
   the slot at the index. *)
LEMMA StepShape ==
  ASSUME Inductive, [BufferNext]_bufferVars
  PROVE  /\ type' = type
         /\ \/ index' = index
            \/ \E u \in Ults : Publish(u)
         /\ \A i \in Published : buf'[i].val = buf[i].val
<1>1. CASE UNCHANGED bufferVars
  BY <1>1 DEF bufferVars
<1>2. ASSUME NEW u \in Ults, BufferStep(u)
      PROVE  /\ type' = type
             /\ index' = index \/ Publish(u)
             /\ \A i \in Published : buf'[i].val = buf[i].val
  <2>1. CASE StoreVal(u)
    <3>1. index \in Slots
      BY <2>1, SlotExists DEF Inductive, StoreVal, Pending, Unpublished
    <3>2. \A i \in Published : buf'[i] = buf[i]
      BY <2>1, <3>1 DEF Inductive, StoreVal, TypeOK, Published, Slots
    <3> QED
      BY <2>1, <3>2 DEF StoreVal
  <2>2. CASE StoreStamp(u)
    <3>1. Published \subseteq Slots
      BY SizeAssumption DEF Inductive, TypeOK, Published, Slots
    <3>2. \A i \in Slots : buf'[i].val = buf[i].val
      BY <2>2 DEF Inductive, TypeOK, StoreStamp
    <3> QED
      BY <2>2, <3>1, <3>2 DEF StoreStamp
  <2>3. CASE buf' = buf /\ type' = type /\ (index' = index \/ Publish(u))
    BY <2>3
  <2> QED
    BY <1>2, <2>1, <2>2, <2>3
    DEF BufferStep, Progress, Update, UpdateInvalid, UpdateGauge,
        UpdateGaugeInvalid, Enter, Refuse, Lock, Publish, Unlock
<1> QED
  BY <1>1, <1>2 DEF BufferNext

(* Published samples are settled: readers without the mutex may walk the
   prefix below any index they have seen. *)
THEOREM AppendOnlyHolds == BufferSpec => AppendOnly
<1>1. Inductive /\ [BufferNext]_bufferVars
        => [index <= index' /\ \A i \in Published : buf'[i].val = buf[i].val]_bufferVars
  BY StepShape DEF Inductive, TypeOK, Publish
<1> QED
  BY <1>1, InductiveHolds, PTL DEF BufferSpec, AppendOnly

(* A counter value is published only if it is not below the one that was
   newest when its call was checked, whatever went in between. *)
THEOREM NoStaleCounterHolds == BufferSpec => NoStaleCounter
<1> DEFINE Fresh ==
      \A u \in Ults :
        type = "COUNTER" /\ index' > index /\ pc[u] # pc'[u] /\ base[u] > 0
          => buf[base[u] - 1].val <= buf'[index].val
<1>1. ASSUME Inductive, [BufferNext]_bufferVars PROVE Fresh
  <2> SUFFICES ASSUME NEW u \in Ults, type = "COUNTER", index' > index,
                      pc[u] # pc'[u], base[u] > 0
               PROVE  buf[base[u] - 1].val <= buf'[index].val
    BY DEF Fresh
  <2>1. PICK w \in Ults : Publish(w)
    BY <1>1, StepShape DEF Inductive, TypeOK
  <2>2. w = u
    BY <1>1, <2>1 DEF Publish, Inductive, TypeOK
  <2>3. pc[u] \in {"stamp", "stamped"} /\ buf' = buf
    BY <2>1, <2>2 DEF Publish
  <2>4. buf[index].val = arg[u].val
    BY <1>1, <2>3 DEF Inductive, TypeOK, StoredInv, ArgInv, Arg, NewVal
  <2> QED
    BY <1>1, <2>3, <2>4 DEF Inductive, BaseInv
<1>2. Inductive /\ [BufferNext]_bufferVars => [Fresh]_bufferVars
  BY <1>1
<1> QED
  BY <1>2, InductiveHolds, PTL DEF BufferSpec, NoStaleCounter

-----------------------------------------------------------------------------
(* As long as every sample is one ULT's own, nothing is recorded between the
   check of its call and its increment of the index. *)
Mine(u, n) == \A i \in 0 .. n - 1 : buf[i].by = u
Rising == \A i \in Published : i > 0 => buf[i - 1].val <= buf[i].val

(* A slot at or past the index is stamped only by the ULT about to publish it. *)
StampsBehind ==
  \A i \in Slots : i >= index =>
    buf[i].by = NoUlt \/ (i = index /\ \E u \in Ults : pc[u] = "stamped")

OwnBase == \A u \in Ults : Mine(u, index) /\ pc[u] \in Unpublished => base[u] = index

OwnRising ==
  \A u \in Ults : type = "COUNTER" =>
    /\ Mine(u, index) => Rising
    /\ pc[u] = "published" /\ Mine(u, index - 1) => Rising

SoloInv == StampsBehind /\ OwnBase /\ OwnRising

LEMMA SoloQuiet ==
  ASSUME Inductive, SoloInv, NEW u \in Ults,
         UNCHANGED <<type, buf, index>>,
         \A w \in Ults : w # u => pc'[w] = pc[w] /\ base'[w] = base[w],
         pc'[u] \in Unpublished => base'[u] = index \/ (pc[u] \in Unpublished /\ base'[u] = base[u]),
         pc[u] # "stamped", pc'[u] # "published"
  PROVE  SoloInv'
<1>1. StampsBehind'
  BY DEF SoloInv, StampsBehind
<1>2. OwnBase'
  BY DEF SoloInv, OwnBase, Mine
<1>3. OwnRising'
  BY DEF SoloInv, OwnRising, Mine, Rising, Published
<1> QED
  BY <1>1, <1>2, <1>3 DEF SoloInv

LEMMA SoloStoreVal ==
  ASSUME Inductive, SoloInv, NEW u \in Ults, StoreVal(u)
  PROVE  SoloInv'
<1>1. index \in Slots
  BY SlotExists DEF Inductive, StoreVal, Pending, Unpublished
<1>2. /\ \A i \in Slots : buf'[i].by = buf[i].by
      /\ \A i \in Published : buf'[i] = buf[i]
      /\ Published \subseteq Slots
  BY <1>1, SizeAssumption DEF Inductive, TypeOK, StoreVal, Slots, Published
<1>3. \A w \in Ults : /\ pc'[w] = "stamped" <=> pc[w] = "stamped"
                      /\ pc'[w] = "published" <=> pc[w] = "published"
                      /\ pc'[w] \in Unpublished <=> pc[w] \in Unpublished
  BY DEF StoreVal, Inductive, TypeOK, Unpublished
<1>4. StampsBehind'
  BY <1>2, <1>3 DEF SoloInv, StampsBehind, StoreVal
<1>5. \A w \in Ults : /\ Mine(w, index)' <=> Mine(w, index)
                      /\ Mine(w, index - 1)' <=> Mine(w, index - 1)
  BY <1>2 DEF Mine, Published, StoreVal, Inductive, TypeOK
<1>6. OwnBase'
  BY <1>3, <1>5 DEF SoloInv, OwnBase, StoreVal
<1>7. Rising => Rising'
  <2> SUFFICES ASSUME Rising, NEW i \in Published, i > 0
               PROVE  buf'[i - 1].val <= buf'[i].val
    BY DEF Rising, StoreVal, Published
  <2>1. i - 1 \in Published
    BY DEF Published, Inductive, TypeOK
  <2> QED
    BY <1>2, <2>1 DEF Rising
<1>8. OwnRising'
  BY <1>3, <1>5, <1>7 DEF SoloInv, OwnRising, StoreVal
<1> QED
  BY <1>4, <1>6, <1>8 DEF SoloInv

LEMMA SoloStoreStamp ==
  ASSUME Inductive, SoloInv, NEW u \in Ults, StoreStamp(u)
  PROVE  SoloInv'
<1> USE DEF Inductive
<1>1. \A w \in Ults : w # u => pc'[w] = pc[w] /\ pc[w] \notin Critical
  BY DEF StoreStamp, TypeOK, LockInv, Critical
<1>2. \A i \in Slots : buf'[i].val = buf[i].val
  BY DEF StoreStamp, TypeOK
<1>3. Rising => Rising'
  <2> SUFFICES ASSUME Rising, NEW i \in Published, i > 0
               PROVE  buf'[i - 1].val <= buf'[i].val
    BY DEF Rising, StoreStamp, Published
  <2>1. i \in Slots /\ i - 1 \in Slots
    BY SizeAssumption DEF Published, TypeOK, Slots
  <2> QED
    BY <1>2, <2>1 DEF Rising
<1>4. CASE pc[u] = "stamp"
  <2>1. index \in Slots
    BY <1>4, SlotExists DEF Pending, Unpublished
  <2>2. buf' = [buf EXCEPT ![index].by = u] /\ pc' = [pc EXCEPT ![u] = "stamped"] /\ index' = index
        /\ base' = base /\ type' = type
    BY <1>4 DEF StoreStamp
  <2>3. \A i \in Slots : i # index => buf'[i] = buf[i]
    BY <2>1, <2>2 DEF TypeOK
  <2>4. StampsBehind'
    BY <2>2, <2>3, <1>1 DEF SoloInv, StampsBehind, TypeOK, Critical
  <2>5. \A w \in Ults : /\ Mine(w, index)' <=> Mine(w, index)
                        /\ Mine(w, index - 1)' <=> Mine(w, index - 1)
    BY SMTT(30), <2>2, <2>3, SizeAssumption DEF Mine, TypeOK, Slots
  <2>6. OwnBase'
    BY <1>4, <2>2, <2>5 DEF SoloInv, OwnBase, TypeOK, Unpublished
  <2>7. OwnRising'
    BY <1>3, <1>4, <2>2, <2>5 DEF SoloInv, OwnRising, TypeOK
  <2> QED
    BY <2>4, <2>6, <2>7 DEF SoloInv
<1>5. CASE pc[u] = "published"
  <2>1. index > 0 /\ index - 1 \in Slots /\ index \in Nat
    BY <1>5, SizeAssumption DEF StampInv, TypeOK, Slots
  <2>2. buf' = [buf EXCEPT ![index - 1].by = u] /\ pc' = [pc EXCEPT ![u] = "unlock"] /\ index' = index
        /\ base' = base /\ type' = type
    BY <1>5 DEF StoreStamp
  <2>3. /\ \A i \in Slots : i # index - 1 => buf'[i] = buf[i]
        /\ buf'[index - 1].by = u
    BY <2>1, <2>2 DEF TypeOK
  <2>4. StampsBehind'
    <3>1. ~\E w \in Ults : pc[w] = "stamped"
      BY <1>1, <1>5 DEF Critical
    <3> QED
      BY <2>1, <2>2, <2>3, <3>1 DEF SoloInv, StampsBehind, Slots
  <2>5. \A w \in Ults : Mine(w, index)' => w = u /\ Mine(w, index - 1)
    <3> SUFFICES ASSUME NEW w \in Ults, Mine(w, index)'
                 PROVE  w = u /\ Mine(w, index - 1)
      OBVIOUS
    <3>1. index - 1 \in 0 .. index - 1
      BY <2>1
    <3>2. w = u
      BY <2>2, <2>3, <3>1 DEF Mine
    <3>3. ASSUME NEW i \in 0 .. (index - 1) - 1 PROVE buf[i].by = w
      <4>1. i \in Slots /\ i # index - 1 /\ i \in 0 .. index - 1
        BY <2>1, SizeAssumption DEF TypeOK, Slots
      <4> QED
        BY <2>2, <2>3, <4>1 DEF Mine
    <3> QED
      BY <3>2, <3>3 DEF Mine
  <2>6. pc'[u] = "unlock" /\ \A w \in Ults : pc'[w] # "published"
    BY <1>1, <2>2 DEF TypeOK, Critical
  <2>7. OwnBase'
    BY <2>2, <2>5, <2>6 DEF OwnBase, Unpublished
  <2>8. OwnRising'
    BY <1>3, <1>5, <2>2, <2>5, <2>6 DEF SoloInv, OwnRising
  <2> QED
    BY <2>4, <2>7, <2>8 DEF SoloInv
<1> QED
  BY <1>4, <1>5 DEF StoreStamp

LEMMA SoloPublish ==
  ASSUME Inductive, SoloInv, NEW u \in Ults, Publish(u)
  PROVE  SoloInv'
<1> USE DEF Inductive
<1>1. \A w \in Ults : w # u => pc'[w] = pc[w] /\ pc[w] \notin Critical
  BY DEF Publish, TypeOK, LockInv, Critical
<1>2. index \in Slots /\ index \in Nat
  BY SlotExists DEF Publish, Pending, Unpublished, Slots
<1>3. index' = index + 1 /\ buf' = buf /\ base' = base /\ type' = type /\ arg' = arg
  BY DEF Publish
<1>4. /\ \/ pc[u] = "stamp" /\ pc'[u] = "published"
         \/ pc[u] = "stamped" /\ pc'[u] = "unlock"
      /\ \A w \in Ults : pc'[w] # "stamped"
  <2>1. \/ pc[u] = "stamp" /\ pc'[u] = "published"
        \/ pc[u] = "stamped" /\ pc'[u] = "unlock"
    BY DEF Publish, TypeOK
  <2> QED
    BY <1>1, <2>1 DEF Critical
<1>5. StampsBehind'
  BY <1>2, <1>3 DEF SoloInv, StampsBehind, Slots
<1>6. ASSUME NEW w \in Ults, Mine(w, index)' PROVE w = u /\ pc[u] = "stamped" /\ Mine(w, index)
  <2>1. \A i \in 0 .. index : buf[i].by = w
    BY <1>2, <1>3, <1>6 DEF Mine
  <2>2. buf[index].by = w
    BY <1>2, <2>1
  <2>3. CASE pc[u] = "stamped"
    BY <1>2, <2>1, <2>2, <2>3 DEF StampInv, Mine
  <2>4. CASE pc[u] = "stamp"
    <3>1. \A v \in Ults : pc[v] # "stamped"
      BY <1>1, <2>4 DEF Critical
    <3>2. buf[index].by = NoUlt
      BY <1>2, <3>1 DEF SoloInv, StampsBehind
    <3> QED
      BY <2>2, <3>2, UltsAssumption
  <2> QED
    BY <1>4, <2>3, <2>4
<1>7. OwnBase'
  BY <1>4, <1>6 DEF OwnBase, Unpublished
<1>8. ASSUME Mine(u, index), type = "COUNTER" PROVE Rising'
  <2>1. Rising /\ base[u] = index
    BY <1>4, <1>8 DEF SoloInv, OwnRising, OwnBase, Unpublished
  <2>2. buf[index].val = arg[u].val
    BY <1>4, <1>8 DEF TypeOK, StoredInv, ArgInv, Arg, NewVal
  <2>3. index > 0 => buf[index - 1].val <= buf[index].val
    BY <1>2, <1>4, <1>8, <2>1, <2>2 DEF BaseInv
  <2> SUFFICES ASSUME NEW i \in 0 .. index, i > 0 PROVE buf[i - 1].val <= buf[i].val
    BY <1>2, <1>3 DEF Rising, Published
  <2>4. CASE i = index
    BY <2>3, <2>4
  <2>5. CASE i # index
    BY <1>2, <2>1, <2>5 DEF Rising, Published
  <2> QED
    BY <2>4, <2>5
<1>9. OwnRising'
  <2> SUFFICES ASSUME NEW w \in Ults, type = "COUNTER",
                      Mine(w, index)' \/ (pc'[w] = "published" /\ Mine(w, index - 1)')
               PROVE  Rising'
    BY <1>3 DEF OwnRising
  <2>1. CASE Mine(w, index)'
    BY <1>6, <1>8, <2>1
  <2>2. CASE pc'[w] = "published" /\ Mine(w, index - 1)'
    <3>1. w = u
      BY <1>1, <2>2 DEF Critical
    <3>2. index' - 1 = index
      BY <1>2, <1>3
    <3>3. Mine(u, index)
      BY <1>3, <2>2, <3>1, <3>2 DEF Mine
    <3> QED
      BY <1>8, <3>3
  <2> QED
    BY <2>1, <2>2
<1> QED
  BY <1>5, <1>7, <1>9 DEF SoloInv

(* The samples of a counter that one ULT has written never decrease, whatever
   the calls of the others do that have not published (client.c:128-149). *)
THEOREM SoloMonotoneHolds == BufferSpec => []SoloMonotone
<1>1. BufferInit => Inductive /\ SoloInv
  <2> SUFFICES ASSUME BufferInit PROVE SoloInv
    BY InductiveInit
  <2>1. StampsBehind
    BY DEF BufferInit, StampsBehind, Blank
  <2>2. OwnBase /\ OwnRising
    BY DEF BufferInit, OwnBase, OwnRising, Rising, Published, Unpublished
  <2> QED
    BY <2>1, <2>2 DEF SoloInv
<1>2. Inductive /\ SoloInv /\ [BufferNext]_bufferVars => SoloInv'
  <2> SUFFICES ASSUME Inductive, SoloInv, [BufferNext]_bufferVars PROVE SoloInv'
    OBVIOUS
  <2>1. CASE UNCHANGED bufferVars
    BY <2>1 DEF bufferVars, SoloInv, StampsBehind, OwnBase, OwnRising, Mine, Rising, Published
  <2>2. ASSUME NEW u \in Ults, BufferStep(u) PROVE SoloInv'
    <3>1. CASE StoreVal(u)
      BY <3>1, SoloStoreVal
    <3>2. CASE StoreStamp(u)
      BY <3>2, SoloStoreStamp
    <3>3. CASE Publish(u)
      BY <3>3, SoloPublish
    <3>4. CASE Lock(u) \/ Unlock(u)
      BY <3>4, SoloQuiet DEF Lock, Unlock, Inductive, TypeOK, Unpublished
    <3>5. ASSUME NEW op, NEW v, Enter(u, op, v) PROVE SoloInv'
      BY <3>5, SoloQuiet DEF Enter, Inductive, TypeOK
    <3>6. CASE Refuse(u)
      BY <3>6, SoloQuiet DEF Refuse, Inductive, TypeOK, Unpublished
    <3> QED
      BY <2>2, <3>1, <3>2, <3>3, <3>4, <3>5, <3>6
      DEF BufferStep, Progress, Update, UpdateInvalid, UpdateGauge, UpdateGaugeInvalid
  <2> QED
    BY <2>1, <2>2 DEF BufferNext
<1>3. Inductive /\ SoloInv => SoloMonotone
  BY DEF SoloInv, OwnRising, SoloMonotone, Mine, Rising, Published
<1> QED
  BY <1>1, <1>2, <1>3, InductiveHolds, PTL DEF BufferSpec

-----------------------------------------------------------------------------
(* The refinement: the series grows where the index does. *)
LEMMA SeriesIsSeq == TypeOK => Series \in Seq(Int) /\ Len(Series) = index
<1> SUFFICES ASSUME TypeOK PROVE Series \in Seq(Int) /\ Len(Series) = index
  OBVIOUS
<1>1. index \in Nat
  BY SizeAssumption DEF TypeOK
<1>2. \A i \in 1 .. index : buf[i - 1].val \in Int
  BY SizeAssumption DEF TypeOK, Slots
<1> QED
  BY <1>1, <1>2 DEF Series

LEMMA SeriesUnchanged ==
  ASSUME Inductive, [BufferNext]_bufferVars, index' = index
  PROVE  Series' = Series
<1>1. \A i \in 1 .. index : buf'[i - 1].val = buf[i - 1].val
  BY StepShape DEF Inductive, TypeOK, Published
<1> QED
  BY <1>1 DEF Series

LEMMA SeriesAppends ==
  ASSUME Inductive, NEW u \in Ults, Publish(u)
  PROVE  Series' = Append(Series, NewVal(arg[u]))
<1>1. index \in Nat /\ index' = index + 1 /\ buf' = buf
  BY SizeAssumption DEF Inductive, TypeOK, Publish
<1>2. buf[index].val = NewVal(arg[u])
  BY DEF Inductive, StoredInv, Publish
<1>3. Len(Series) = index /\ Series \in Seq(Int)
  BY SeriesIsSeq DEF Inductive
<1>4. Append(Series, NewVal(arg[u]))
        = [i \in 1 .. index + 1 |-> IF i = index + 1 THEN NewVal(arg[u]) ELSE Series[i]]
  BY <1>1, <1>3
<1>5. Series' = [i \in 1 .. index + 1 |-> buf[i - 1].val]
  BY <1>1 DEF Series
<1>6. \A i \in 1 .. index + 1 :
        buf[i - 1].val = IF i = index + 1 THEN NewVal(arg[u]) ELSE Series[i]
  BY <1>1, <1>2 DEF Series
<1> QED
  BY <1>4, <1>5, <1>6

(* The argument check and the recorded value are those of the series. *)
LEMMA SameAccepts ==
  ASSUME TypeOK, NEW v
  PROVE  Accepts(v) <=> TS!Accepts(v)
<1>1. Len(Series) = index /\ (Series # <<>> <=> index >= 1)
  BY SeriesIsSeq, SizeAssumption DEF TypeOK
<1>2. index >= 1 => Series[index] = buf[index - 1].val
  BY SizeAssumption DEF Series, TypeOK
<1> QED
  BY <1>1, <1>2 DEF Accepts, TS!Accepts, TS!Newest

LEMMA SameRecorded ==
  ASSUME TypeOK, NEW a
  PROVE  NewVal(a) = TS!Recorded(a)
<1>1. Len(Series) = index /\ (Series = <<>> <=> ~(index > 0))
  BY SeriesIsSeq, SizeAssumption DEF TypeOK
<1>2. index > 0 => Series[index] = buf[index - 1].val
  BY SizeAssumption DEF Series, TypeOK
<1> QED
  BY <1>1, <1>2 DEF NewVal, TS!Recorded, TS!Newest

LEMMA StepRefines ==
  ASSUME Inductive, NEW u \in Ults, BufferStep(u)
  PROVE  [TS!TSNext]_(TS!tsVars)
<1> [BufferNext]_bufferVars
  BY DEF BufferNext
<1> TypeOK
  BY DEF Inductive
<1>1. ASSUME NEW v \in Vals, Update(u, v) PROVE TS!Call(u, "set", v)
  <2>1. Series' = Series
    BY <1>1, SeriesUnchanged DEF Update, Enter
  <2>2. Phase[u] = "idle" /\ Phase' = [Phase EXCEPT ![u] = "called"]
    BY <1>1 DEF Update, Enter, Phase, Unpublished, TypeOK
  <2> QED
    BY <1>1, <2>1, <2>2, SameAccepts DEF TS!Call, Update, Enter
<1>2. ASSUME NEW v \in Vals, UpdateInvalid(u, v) PROVE TS!Reject(u, "set", v)
  <2>1. Series' = Series
    BY <1>2, SeriesUnchanged DEF UpdateInvalid, Refuse
  <2>2. Phase[u] = "idle" /\ Phase' = Phase
    BY <1>2 DEF UpdateInvalid, Refuse, Phase
  <2> QED
    BY <1>2, <2>1, <2>2, SameAccepts DEF TS!Reject, UpdateInvalid, Refuse
<1>3. ASSUME NEW d \in Diffs, UpdateGauge(u, d) PROVE TS!Call(u, "add", d)
  <2>1. Series' = Series
    BY <1>3, SeriesUnchanged DEF UpdateGauge, Enter
  <2>2. Phase[u] = "idle" /\ Phase' = [Phase EXCEPT ![u] = "called"]
    BY <1>3 DEF UpdateGauge, Enter, Phase, Unpublished, TypeOK
  <2> QED
    BY <1>3, <2>1, <2>2 DEF TS!Call, UpdateGauge, Enter
<1>4. ASSUME UpdateGaugeInvalid(u), NEW d \in Diffs PROVE TS!Reject(u, "add", d)
  <2>1. Series' = Series
    BY <1>4, SeriesUnchanged DEF UpdateGaugeInvalid, Refuse
  <2>2. Phase[u] = "idle" /\ Phase' = Phase
    BY <1>4 DEF UpdateGaugeInvalid, Refuse, Phase
  <2> QED
    BY <1>4, <2>1, <2>2 DEF TS!Reject, UpdateGaugeInvalid, Refuse
<1>5. ASSUME Publish(u) PROVE TS!Record(u)
  <2>1. Series' = Append(Series, TS!Recorded(arg[u]))
    BY <1>5, SeriesAppends, SameRecorded
  <2>2. Phase[u] = "called" /\ Phase' = [Phase EXCEPT ![u] = "recorded"]
    BY <1>5 DEF Publish, Phase, Unpublished, TypeOK
  <2> QED
    BY <1>5, <2>1, <2>2 DEF TS!Record, Publish
<1>6. ASSUME Unlock(u) PROVE TS!Return(u)
  <2>1. Series' = Series
    BY <1>6, SeriesUnchanged DEF Unlock
  <2>2. Phase[u] = "recorded" /\ Phase' = [Phase EXCEPT ![u] = "idle"]
    BY <1>6 DEF Unlock, Phase, Unpublished, TypeOK
  <2> QED
    BY <1>6, <2>1, <2>2 DEF TS!Return, Unlock, NoArg, TS!NoArg
<1>7. ASSUME Lock(u) \/ StoreVal(u) \/ StoreStamp(u) PROVE UNCHANGED TS!tsVars
  <2>1. Series' = Series
    BY <1>7, SeriesUnchanged DEF Lock, StoreVal, StoreStamp
  <2>2. Phase' = Phase
    BY <1>7 DEF Lock, StoreVal, StoreStamp, Phase, Unpublished, TypeOK
  <2> QED
    BY <1>7, <2>1, <2>2 DEF TS!tsVars, Lock, StoreVal, StoreStamp
<1> QED
  BY <1>1, <1>2, <1>3, <1>4, <1>5, <1>6, <1>7 DEF BufferStep, Progress, TS!TSNext

(* The buffer with its mutex implements the time series: every accepted call
   appends exactly one value, at one instant between its call and return. *)
THEOREM Refinement == BufferSpec => ImplementsTimeSeries
<1>1. BufferInit => TS!TSInit
  <2> SUFFICES ASSUME BufferInit PROVE TS!TSInit
    OBVIOUS
  <2>1. Series = <<>>
    BY DEF BufferInit, Series
  <2>2. Phase = [u \in Ults |-> "idle"]
    BY DEF BufferInit, Phase
  <2> QED
    BY <2>1, <2>2 DEF BufferInit, TS!TSInit, Types, TS!Types, NoArg, TS!NoArg
<1>2. Inductive /\ [BufferNext]_bufferVars => [TS!TSNext]_(TS!tsVars)
  <2>1. ASSUME Inductive, UNCHANGED bufferVars PROVE UNCHANGED TS!tsVars
    BY <2>1 DEF bufferVars, TS!tsVars, Series, Phase
  <2> QED
    BY <2>1, StepRefines DEF BufferNext
<1> QED
  BY <1>1, <1>2, InductiveHolds, PTL DEF BufferSpec, ImplementsTimeSeries, TS!TSSpec
-----------------------------------------------------------------------------
(* What a ULT of the provider's process does to a fetch: nothing but move
   the index up, behind which the samples keep their values. *)
LEMMA UltStepShape ==
  ASSUME Inductive, NEW u \in Ults, BufferStep(u)
  PROVE  /\ Inductive'
         /\ index <= index' /\ index' \in Nat
         /\ \A i \in Published : buf'[i].val = buf[i].val
<1>1. [BufferNext]_bufferVars
  BY DEF BufferNext
<1>2. Inductive'
  BY <1>1, InductiveNext
<1> QED
  BY <1>1, <1>2, StepShape, SizeAssumption DEF Inductive, TypeOK, Publish

LEMMA UltKeepsFetch ==
  ASSUME FetchInductive, NEW u \in Ults, UltStep(u)
  PROVE  FetchInductive'
<1> USE DEF FetchInductive, UltStep, fetchVars
<1>1. /\ Inductive'
      /\ index <= index' /\ index \in Nat /\ index' \in Nat
      /\ \A i \in Published : buf'[i].val = buf[i].val
  BY UltStepShape, SizeAssumption DEF Inductive, TypeOK
<1>2. FetchTypeOK'
  BY <1>1 DEF FetchTypeOK, Inductive
<1>3. ASSUME NEW k \in Calls PROVE CallInv(k)'
  <2>1. /\ since[k] \in Nat /\ req[k] \in Nat /\ from[k] \in Nat
        /\ out[k].count \in Int
    BY SizeAssumption DEF FetchTypeOK
  <2>2. since[k] <= index' /\ (srv[k] = "locate" => req[k] <= index')
    BY <1>1, <2>1 DEF CallInv
  <2>3. Located(k)' = Located(k)
    BY DEF Located
  <2>4. Located(k) => from[k] + out[k].count <= index'
    BY <1>1, <2>1 DEF CallInv
  <2>5. Located(k) /\ Fused => Window(k)'
    BY <1>1, <2>1 DEF CallInv, Window
  <2>6. ASSUME Located(k), NEW s, Holds(k, s) PROVE Holds(k, s)'
    <3>1. \A i \in 1 .. out[k].count : from[k] + i - 1 \in Published
      BY <2>6, <2>1, <1>1 DEF CallInv, Published
    <3>2. \A i \in 1 .. out[k].count :
            buf'[from[k] + i - 1].val = buf[from[k] + i - 1].val
      BY <3>1, <1>1
    <3> QED
      BY <2>6, <3>2 DEF Holds
  <2>7. srv[k] = "push" => Holds(k, copy[k])'
    BY <2>6 DEF CallInv, Located
  <2>8. out[k].ret = "SUCCESS" /\ Fused => Holds(k, mem[k])'
    BY <2>6 DEF CallInv, Located
  <2> QED
    BY <2>2, <2>3, <2>4, <2>5, <2>7, <2>8 DEF CallInv
<1> QED
  BY <1>1, <1>2, <1>3

-----------------------------------------------------------------------------
(* A step of one call leaves the buffer and the other calls alone. *)
OnlyCall(k) ==
  \A j \in Calls \ {k} :
    /\ caller'[j] = caller[j] /\ req'[j] = req[j] /\ bulk'[j] = bulk[j]
    /\ mem'[j] = mem[j] /\ got'[j] = got[j] /\ since'[j] = since[j]
    /\ srv'[j] = srv[j] /\ from'[j] = from[j] /\ out'[j] = out[j]
    /\ copy'[j] = copy[j]

LEMMA CallStep ==
  ASSUME FetchInductive, NEW k \in Calls, UNCHANGED bufferVars,
         OnlyCall(k), FetchTypeOK', CallInv(k)'
  PROVE  FetchInductive'
<1>1. Inductive'
  BY InductiveNext DEF FetchInductive
<1>2. ASSUME NEW j \in Calls, j # k PROVE CallInv(j)'
  <2>1. CallInv(j)
    BY DEF FetchInductive
  <2>2. Located(j)' = Located(j) /\ Window(j)' = Window(j)
    BY <1>2 DEF OnlyCall, Located, Window, bufferVars
  <2>3. Holds(j, copy[j])' = Holds(j, copy[j]) /\ Holds(j, mem[j])' = Holds(j, mem[j])
    BY <1>2 DEF OnlyCall, Holds, bufferVars
  <2> QED
    BY SMTT(30), <1>2, <2>1, <2>2, <2>3 DEF OnlyCall, CallInv, bufferVars
<1> QED
  BY <1>1, <1>2 DEF FetchInductive

(* What the types say of one call, in arithmetic. *)
LEMMA CallTypes ==
  ASSUME FetchTypeOK, NEW k \in Calls
  PROVE  /\ index \in Nat /\ req[k] \in Nat /\ since[k] \in Nat /\ from[k] \in Nat
         /\ out[k] \in [ret : Codes, count : Int]
         /\ copy[k] \in Seq(Sample) /\ mem[k] \in Seq(Sample)
  BY SizeAssumption DEF FetchTypeOK, TypeOK

LEMMA AskKeeps ==
  ASSUME FetchInductive, NEW k \in Calls, NEW n \in Int, NEW id \in BOOLEAN,
         NEW handle \in Unfreed, Ask(k, n, id, handle)
  PROVE  FetchInductive'
<1> USE DEF Ask
<1>1. FetchTypeOK /\ CallInv(k)
  BY DEF FetchInductive
<1>2. OnlyCall(k)
  BY <1>1 DEF OnlyCall, FetchTypeOK
<1>3. FetchTypeOK'
  <2>1. Capped(n) \in 0 .. BufferSize
    BY SizeAssumption DEF Capped
  <2>2. TypeOK'
    BY <1>1 DEF FetchTypeOK, TypeOK, bufferVars
  <2> QED
    BY <1>1, <2>1, <2>2 DEF FetchTypeOK, TypeOK, Handler
<1>4. CallInv(k)'
  <2>1. out[k].ret # "SUCCESS" /\ got[k].ret # "SUCCESS"
    BY <1>1 DEF CallInv
  <2>2. srv'[k] = "request" /\ bulk'[k] \in Unfreed /\ since'[k] = index /\ caller'[k] = "waiting"
    BY <1>1 DEF FetchTypeOK
  <2> QED
    BY <1>1, <2>1, <2>2, CallTypes DEF CallInv, Located, bufferVars
<1> QED
  BY <1>2, <1>3, <1>4, CallStep

LEMMA AbortKeeps ==
  ASSUME FetchInductive, NEW k \in Calls, FetchAbort(k)
  PROVE  FetchInductive'
<1> USE DEF FetchAbort, handlerVars
<1>1. FetchTypeOK /\ CallInv(k)
  BY DEF FetchInductive
<1>2. OnlyCall(k)
  BY <1>1 DEF OnlyCall, FetchTypeOK
<1>3. FetchTypeOK'
  <2>1. TypeOK'
    BY <1>1 DEF FetchTypeOK, TypeOK, bufferVars
  <2> QED
    BY <1>1, <2>1 DEF FetchTypeOK
<1>4. CallInv(k)'
  <2>1. caller'[k] = "aborted"
    BY <1>1 DEF FetchTypeOK
  <2>2. UNCHANGED <<since, index, srv, got, out, from, copy, mem, bulk, req, buf>>
    BY DEF bufferVars
  <2> QED
    BY <1>1, <2>1, <2>2 DEF CallInv, Located, Window, Holds
<1> QED
  BY <1>2, <1>3, <1>4, CallStep

LEMMA ReceiveKeeps ==
  ASSUME FetchInductive, NEW k \in Calls, Receive(k)
  PROVE  FetchInductive'
<1> USE DEF Receive, handlerVars
<1>1. FetchTypeOK /\ CallInv(k)
  BY DEF FetchInductive
<1>2. OnlyCall(k)
  BY <1>1 DEF OnlyCall, FetchTypeOK
<1>3. FetchTypeOK'
  <2>1. TypeOK'
    BY <1>1 DEF FetchTypeOK, TypeOK, bufferVars
  <2>2. [ret |-> out[k].ret, num |-> out[k].count] \in [ret : Codes, num : Int]
    BY <1>1, CallTypes
  <2> QED
    BY <1>1, <2>1, <2>2 DEF FetchTypeOK
<1>4. CallInv(k)'
  <2>1. got'[k] = [ret |-> out[k].ret, num |-> out[k].count] /\ caller'[k] = "done"
    BY <1>1 DEF FetchTypeOK
  <2>2. Located(k)' = Located(k) /\ Window(k)' = Window(k)
        /\ Holds(k, mem[k])' = Holds(k, mem[k])
    BY DEF Located, Window, Holds, bufferVars
  <2> QED
    BY <1>1, <2>1, <2>2 DEF CallInv, bufferVars
<1> QED
  BY <1>2, <1>3, <1>4, CallStep DEF bufferVars

LEMMA FetchFailKeeps ==
  ASSUME FetchInductive, NEW k \in Calls, FetchFail(k)
  PROVE  FetchInductive'
<1> USE DEF FetchFail, handlerVars
<1>1. FetchTypeOK /\ CallInv(k)
  BY DEF FetchInductive
<1>2. OnlyCall(k)
  BY <1>1 DEF OnlyCall, FetchTypeOK
<1>3. FetchTypeOK'
  <2>1. TypeOK'
    BY <1>1 DEF FetchTypeOK, TypeOK, bufferVars
  <2>2. [ret |-> "FROM_MERCURY", num |-> req[k]] \in [ret : Codes, num : Int]
    BY <1>1, CallTypes DEF Codes
  <2> QED
    BY <1>1, <2>1, <2>2 DEF FetchTypeOK
<1>4. CallInv(k)'
  <2>1. got'[k].ret = "FROM_MERCURY" /\ caller'[k] = "done"
    BY <1>1 DEF FetchTypeOK
  <2>2. Located(k)' = Located(k) /\ Window(k)' = Window(k)
        /\ Holds(k, mem[k])' = Holds(k, mem[k])
        /\ Holds(k, copy[k])' = Holds(k, copy[k])
    BY DEF Located, Window, Holds, bufferVars
  <2> QED
    BY <1>1, <2>1, <2>2 DEF CallInv, bufferVars
<1> QED
  BY <1>2, <1>3, <1>4, CallStep DEF bufferVars

-----------------------------------------------------------------------------
(* What every step of a handler has in common. *)
LEMMA HandlerStep ==
  ASSUME FetchInductive, NEW k \in Calls, NEW label \in Handler \ {"none", "replied"},
         NEW next \in Handler \ {"none", "request"}, At(k, label, next)
  PROVE  /\ FetchTypeOK /\ CallInv(k) /\ srv[k] = label /\ srv'[k] = next
         /\ UNCHANGED bufferVars /\ UNCHANGED callerVars
         /\ TypeOK' /\ srv' \in [Calls -> Handler]
         /\ \A j \in Calls \ {k} : srv'[j] = srv[j]
         /\ caller[k] # "new" /\ bulk[k] \in Unfreed /\ got[k].ret # "SUCCESS"
<1>1. FetchTypeOK /\ CallInv(k)
  BY DEF FetchInductive
<1>2. srv[k] = label /\ srv'[k] = next
  BY <1>1 DEF At, FetchTypeOK
<1>3. TypeOK'
  BY <1>1 DEF At, FetchTypeOK, TypeOK, bufferVars
<1> QED
  BY <1>1, <1>2, <1>3 DEF At, FetchTypeOK, CallInv, Handler

LEMMA SetupKeeps ==
  ASSUME FetchInductive, NEW k \in Calls, Setup(k)
  PROVE  FetchInductive'
<1> USE DEF Setup
<1>1. /\ FetchTypeOK /\ CallInv(k) /\ srv[k] = "request" /\ srv'[k] = "find"
      /\ UNCHANGED bufferVars /\ UNCHANGED callerVars
      /\ TypeOK' /\ srv' \in [Calls -> Handler]
      /\ \A j \in Calls \ {k} : srv'[j] = srv[j]
      /\ caller[k] # "new" /\ bulk[k] \in Unfreed /\ got[k].ret # "SUCCESS"
  BY HandlerStep DEF Handler
<1>2. OnlyCall(k)
  BY <1>1 DEF OnlyCall, callerVars
<1>3. FetchTypeOK'
  BY <1>1 DEF FetchTypeOK, callerVars
<1>4. CallInv(k)'
  BY <1>1 DEF CallInv, Located, callerVars, bufferVars
<1> QED
  BY <1>1, <1>2, <1>3, <1>4, CallStep

(* The jumps to finish answer with an error code. *)
LEMMA FinishKeeps ==
  ASSUME FetchInductive, NEW k \in Calls, NEW label \in {"request", "find"},
         At(k, label, "respond"), NEW code \in {"INVALID_METRIC", "FROM_MERCURY"},
         NEW c \in Junk, Finish(k, code, c), up' \in BOOLEAN,
         UNCHANGED <<from, copy, mem>>
  PROVE  FetchInductive'
<1>1. /\ FetchTypeOK /\ CallInv(k) /\ srv[k] = label /\ srv'[k] = "respond"
      /\ UNCHANGED bufferVars /\ UNCHANGED callerVars
      /\ TypeOK' /\ srv' \in [Calls -> Handler]
      /\ \A j \in Calls \ {k} : srv'[j] = srv[j]
      /\ caller[k] # "new" /\ bulk[k] \in Unfreed /\ got[k].ret # "SUCCESS"
  BY HandlerStep DEF Handler
<1>2. /\ out'[k] = [ret |-> code, count |-> c]
      /\ out' \in [Calls -> [ret : Codes, count : Int]]
      /\ \A j \in Calls \ {k} : out'[j] = out[j]
  BY <1>1, JunkAssumption DEF Finish, FetchTypeOK, Codes
<1>3. OnlyCall(k)
  BY <1>1, <1>2 DEF OnlyCall, callerVars
<1>4. FetchTypeOK'
  BY <1>1, <1>2 DEF FetchTypeOK, callerVars
<1>5. CallInv(k)'
  BY <1>1, <1>2 DEF CallInv, Located, callerVars, bufferVars
<1> QED
  BY <1>1, <1>3, <1>4, <1>5, CallStep

LEMMA SetupFailKeeps ==
  ASSUME FetchInductive, NEW k \in Calls, SetupFail(k)
  PROVE  FetchInductive'
  BY FinishKeeps DEF SetupFail

LEMMA FindKeeps ==
  ASSUME FetchInductive, NEW k \in Calls, Find(k)
  PROVE  FetchInductive'
<1>1. CASE At(k, "find", "compare") /\ UNCHANGED out
  <2> USE <1>1 DEF Find
  <2>1. /\ FetchTypeOK /\ CallInv(k) /\ srv[k] = "find" /\ srv'[k] = "compare"
        /\ UNCHANGED bufferVars /\ UNCHANGED callerVars
        /\ TypeOK' /\ srv' \in [Calls -> Handler]
        /\ \A j \in Calls \ {k} : srv'[j] = srv[j]
        /\ caller[k] # "new" /\ bulk[k] \in Unfreed /\ got[k].ret # "SUCCESS"
    BY HandlerStep DEF Handler
  <2>2. OnlyCall(k)
    BY <2>1 DEF OnlyCall, callerVars
  <2>3. FetchTypeOK'
    BY <2>1 DEF FetchTypeOK, callerVars
  <2>4. CallInv(k)'
    BY <2>1 DEF CallInv, Located, callerVars, bufferVars
  <2> QED
    BY <2>1, <2>2, <2>3, <2>4, CallStep
<1>2. CASE /\ At(k, "find", "respond")
           /\ \E c \in Junk : Finish(k, "INVALID_METRIC", c)
  <2>1. PICK c \in Junk : Finish(k, "INVALID_METRIC", c)
    BY <1>2
  <2>2. up' \in BOOLEAN /\ UNCHANGED <<from, copy, mem>>
    BY DEF Find, FetchInductive, FetchTypeOK
  <2> QED
    BY <1>2, <2>1, <2>2, FinishKeeps
<1> QED
  BY <1>1, <1>2 DEF Find

(* Settling on a window: n is the value of buffer_index just loaded. *)
LEMMA SettleKeeps ==
  ASSUME FetchInductive, NEW k \in Calls, NEW label \in {"compare", "resize", "locate"},
         At(k, label, "copy"), UNCHANGED <<copy, mem, up>>,
         \/ CopyAll(k, index) /\ (Fused => index < req[k])
         \/ CopyEnd(k, index) /\ index >= req[k]
  PROVE  FetchInductive'
<1>1. /\ FetchTypeOK /\ CallInv(k) /\ srv[k] = label /\ srv'[k] = "copy"
      /\ UNCHANGED bufferVars /\ UNCHANGED callerVars
      /\ TypeOK' /\ srv' \in [Calls -> Handler]
      /\ \A j \in Calls \ {k} : srv'[j] = srv[j]
      /\ caller[k] # "new" /\ bulk[k] \in Unfreed /\ got[k].ret # "SUCCESS"
  BY HandlerStep DEF Handler
<1>2. index \in Nat /\ index <= BufferSize /\ req[k] \in Nat /\ since[k] \in Nat
  BY <1>1, CallTypes DEF FetchTypeOK, TypeOK
<1>3. /\ out'[k].ret = out[k].ret
      /\ from'[k] \in 0 .. BufferSize /\ out'[k].count \in Nat
      /\ from'[k] + out'[k].count = index
      /\ Fused => out'[k].count = Lesser(req[k], index)
      /\ out' \in [Calls -> [ret : Codes, count : Int]]
      /\ from' \in [Calls -> 0 .. BufferSize]
      /\ \A j \in Calls \ {k} : out'[j] = out[j] /\ from'[j] = from[j]
  <2>1. /\ out \in [Calls -> [ret : Codes, count : Int]]
        /\ from \in [Calls -> 0 .. BufferSize]
    BY <1>1 DEF FetchTypeOK
  <2>2. CASE CopyAll(k, index) /\ (Fused => index < req[k])
    <3>1. /\ out' = [out EXCEPT ![k].count = index]
          /\ from' = [from EXCEPT ![k] = 0]
          /\ Fused => index = Lesser(req[k], index)
      BY <1>2, <2>2 DEF CopyAll, Lesser
    <3>2. 0 \in 0 .. BufferSize /\ 0 + index = index
      BY <1>2, SizeAssumption
    <3> QED
      BY <1>2, <2>1, <3>1, <3>2
  <2>3. CASE CopyEnd(k, index) /\ index >= req[k]
    <3>1. /\ out' = [out EXCEPT ![k].count = req[k]]
          /\ from' = [from EXCEPT ![k] = index - req[k]]
          /\ Fused => req[k] = Lesser(req[k], index)
      BY <1>2, <2>3 DEF CopyEnd, Lesser
    <3>2. index - req[k] \in 0 .. BufferSize /\ (index - req[k]) + req[k] = index
      BY <1>2, <2>3, SizeAssumption
    <3> QED
      BY <1>2, <2>1, <3>1, <3>2
  <2> QED
    BY <2>2, <2>3
<1>4. OnlyCall(k)
  BY <1>1, <1>3 DEF OnlyCall, callerVars
<1>5. FetchTypeOK'
  BY <1>1, <1>3 DEF FetchTypeOK, callerVars
<1>6. CallInv(k)'
  <2>1. since[k] <= index
    BY <1>1 DEF CallInv
  <2>2. Fused => Window(k)'
    <3>1. req' = req /\ since' = since /\ index' = index
      BY <1>1 DEF callerVars, bufferVars
    <3> QED
      BY <1>2, <1>3, <2>1, <3>1 DEF Window
  <2>3. out'[k].ret # "SUCCESS"
    BY <1>1, <1>3 DEF CallInv
  <2>4. /\ out'[k].count >= 0
        /\ since'[k] <= from'[k] + out'[k].count
        /\ from'[k] + out'[k].count <= index'
    BY <1>1, <1>2, <1>3, <2>1 DEF callerVars, bufferVars
  <2>5. since'[k] <= index' /\ caller'[k] # "new" /\ bulk'[k] \in Unfreed /\ got'[k].ret # "SUCCESS"
    BY <1>1, <2>1 DEF callerVars, bufferVars
  <2> QED
    BY <1>1, <2>2, <2>3, <2>4, <2>5 DEF CallInv
<1> QED
  BY <1>1, <1>4, <1>5, <1>6, CallStep

LEMMA CompareKeeps ==
  ASSUME FetchInductive, NEW k \in Calls, Compare(k)
  PROVE  FetchInductive'
<1> UNCHANGED <<copy, mem, up>>
  BY DEF Compare
<1>1. CASE Fused /\ index < req[k] /\ At(k, "compare", "copy") /\ CopyAll(k, index)
  BY <1>1, SettleKeeps
<1>2. CASE Fused /\ index >= req[k] /\ At(k, "compare", "copy") /\ CopyEnd(k, index)
  BY <1>2, SettleKeeps
<1>3. ASSUME NEW next \in {"resize", "locate"}, At(k, "compare", next), ~Fused,
             next = "locate" => req[k] <= index, UNCHANGED <<from, out>>
      PROVE  FetchInductive'
  <2>1. /\ FetchTypeOK /\ CallInv(k) /\ srv[k] = "compare" /\ srv'[k] = next
        /\ UNCHANGED bufferVars /\ UNCHANGED callerVars
        /\ TypeOK' /\ srv' \in [Calls -> Handler]
        /\ \A j \in Calls \ {k} : srv'[j] = srv[j]
        /\ caller[k] # "new" /\ bulk[k] \in Unfreed /\ got[k].ret # "SUCCESS"
    BY <1>3, HandlerStep DEF Handler
  <2>2. OnlyCall(k)
    BY <1>3, <2>1 DEF OnlyCall, callerVars
  <2>3. FetchTypeOK'
    BY <1>3, <2>1 DEF FetchTypeOK, callerVars
  <2>4. CallInv(k)'
    BY <1>3, <2>1 DEF CallInv, Located, callerVars, bufferVars
  <2> QED
    BY <2>1, <2>2, <2>3, <2>4, CallStep
<1>4. index < req[k] \/ index >= req[k]
  BY CallTypes DEF FetchInductive
<1> QED
  BY <1>1, <1>2, <1>3, CallTypes DEF Compare, FetchInductive

LEMMA ReloadKeeps ==
  ASSUME FetchInductive, NEW k \in Calls, Reload(k)
  PROVE  FetchInductive'
<1>1. CallInv(k) /\ index \in Nat /\ req[k] \in Nat
  BY CallTypes DEF FetchInductive
<1>2. CASE At(k, "resize", "copy") /\ CopyAll(k, index)
  BY <1>1, <1>2, SettleKeeps DEF Reload, CallInv, At
<1>3. CASE At(k, "locate", "copy") /\ CopyEnd(k, index)
  BY <1>1, <1>3, SettleKeeps DEF Reload, CallInv, At
<1> QED
  BY <1>2, <1>3 DEF Reload

LEMMA CopyKeeps ==
  ASSUME FetchInductive, NEW k \in Calls, Copy(k)
  PROVE  FetchInductive'
<1> USE DEF Copy
<1>1. /\ FetchTypeOK /\ CallInv(k) /\ srv[k] = "copy" /\ srv'[k] = "push"
      /\ UNCHANGED bufferVars /\ UNCHANGED callerVars
      /\ TypeOK' /\ srv' \in [Calls -> Handler]
      /\ \A j \in Calls \ {k} : srv'[j] = srv[j]
      /\ caller[k] # "new" /\ bulk[k] \in Unfreed /\ got[k].ret # "SUCCESS"
  BY HandlerStep DEF Handler
<1> DEFINE n == out[k].count
           s == [i \in 1 .. n |-> buf[from[k] + i - 1]]
<1>2. /\ index \in Nat /\ from[k] \in Nat /\ n \in Nat
      /\ from[k] + n <= index /\ index <= BufferSize
  BY <1>1, CallTypes DEF CallInv, Located, FetchTypeOK, TypeOK
<1>3. \A i \in 1 .. n : from[k] + i - 1 \in Slots /\ from[k] + i - 1 \in Published
  BY <1>2, SizeAssumption DEF Slots, Published
<1>4. \A i \in 1 .. n : buf[from[k] + i - 1] \in Sample
  BY <1>1, <1>3 DEF FetchTypeOK, TypeOK, Sample
<1>5. s \in Seq(Sample) /\ Len(s) = n
  BY <1>2, <1>4
<1>6. \A i \in 1 .. n - 1 : s[i].by \in Ults
  <2> SUFFICES ASSUME NEW i \in 1 .. n - 1 PROVE buf[from[k] + i - 1].by \in Ults
    BY <1>2
  <2>1. from[k] + i - 1 \in Published /\ from[k] + i - 1 # index - 1
    BY <1>2, <1>3
  <2> QED
    BY <2>1 DEF FetchInductive, Inductive, StampInv
<1>7. copy'[k] = s /\ copy' \in [Calls -> Seq(Sample)]
      /\ \A j \in Calls \ {k} : copy'[j] = copy[j]
  BY <1>1, <1>5 DEF FetchTypeOK
<1>8. OnlyCall(k)
  BY <1>1, <1>7 DEF OnlyCall, callerVars
<1>9. FetchTypeOK'
  BY <1>1, <1>7 DEF FetchTypeOK, callerVars
<1>10. CallInv(k)'
  <2>1. Holds(k, copy[k])'
    BY <1>1, <1>5, <1>7 DEF Holds, bufferVars
  <2>2. Window(k)' = Window(k)
    BY <1>1 DEF Window, callerVars, bufferVars
  <2>3. out'[k].ret # "SUCCESS" /\ Located(k) /\ mem' = mem
    BY <1>1 DEF CallInv, Located
  <2>4. \A i \in 1 .. Len(copy'[k]) - 1 : copy'[k][i].by \in Ults
    BY <1>5, <1>6, <1>7
  <2> HIDE DEF n, s
  <2> QED
    BY <1>1, <2>1, <2>2, <2>3, <2>4 DEF CallInv, callerVars, bufferVars
<1> QED
  BY <1>1, <1>8, <1>9, <1>10, CallStep

LEMMA PushKeeps ==
  ASSUME FetchInductive, NEW k \in Calls, Push(k)
  PROVE  FetchInductive'
<1> USE DEF Push
<1>1. /\ FetchTypeOK /\ CallInv(k) /\ srv[k] = "push" /\ srv'[k] = "respond"
      /\ UNCHANGED bufferVars /\ UNCHANGED callerVars
      /\ TypeOK' /\ srv' \in [Calls -> Handler]
      /\ \A j \in Calls \ {k} : srv'[j] = srv[j]
      /\ caller[k] # "new" /\ bulk[k] \in Unfreed /\ got[k].ret # "SUCCESS"
  BY HandlerStep DEF Handler
<1> DEFINE room == Lesser(req[k], Len(copy[k]))
           part == SubSeq(copy[k], 1, room)
<1>2. /\ copy[k] \in Seq(Sample) /\ Len(copy[k]) \in Nat /\ req[k] \in Nat
      /\ room \in Nat /\ room <= Len(copy[k])
  BY <1>1, CallTypes DEF Lesser
<1>3. part \in Seq(Sample) /\ Len(part) = room /\ \A i \in 1 .. room : part[i] = copy[k][i]
  BY <1>2
<1>4. /\ out \in [Calls -> [ret : Codes, count : Int]]
      /\ mem \in [Calls -> Seq(Sample)]
  BY <1>1 DEF FetchTypeOK
<1>5. /\ mem' \in [Calls -> Seq(Sample)]
      /\ \A j \in Calls \ {k} : mem'[j] = mem[j]
      /\ mem'[k] = part \/ mem'[k] = mem[k]
      /\ out' \in [Calls -> [ret : Codes, count : Int]]
      /\ out'[k].count = out[k].count
      /\ \A j \in Calls \ {k} : out'[j] = out[j]
      /\ out'[k].ret = "SUCCESS" => mem'[k] = part
  <2>1. \/ /\ mem' = [mem EXCEPT ![k] = part]
           /\ out' = [out EXCEPT ![k].ret = "SUCCESS"]
        \/ mem' = mem /\ out' = [out EXCEPT ![k].ret = "FROM_MERCURY"]
    OBVIOUS
  <2> HIDE DEF room, part, Push
  <2>2. CASE mem' = [mem EXCEPT ![k] = part] /\ out' = [out EXCEPT ![k].ret = "SUCCESS"]
    BY <1>3, <1>4, <2>2 DEF Codes
  <2>3. CASE mem' = mem /\ out' = [out EXCEPT ![k].ret = "FROM_MERCURY"]
    BY <1>4, <2>3 DEF Codes
  <2> QED
    BY <2>1, <2>2, <2>3
<1>6. OnlyCall(k)
  BY <1>1, <1>5 DEF OnlyCall, callerVars
<1>7. FetchTypeOK'
  BY <1>1, <1>5 DEF FetchTypeOK, callerVars
<1>8. CallInv(k)'
  <2>1. Located(k) /\ Holds(k, copy[k])
    BY <1>1 DEF Located, CallInv
  <2>2. Window(k)' = Window(k)
    BY <1>1, <1>5 DEF Window, callerVars, bufferVars
  <2>3. ASSUME Fused, out'[k].ret = "SUCCESS" PROVE Holds(k, mem[k])'
    <3>1. Len(copy[k]) = out[k].count /\ out[k].count = Lesser(req[k], from[k] + out[k].count)
      BY <1>1, <2>1, <2>3 DEF CallInv, Holds, Window
    <3>2. room = Len(copy[k])
      BY <1>1, <1>2, <3>1, CallTypes DEF Lesser
    <3>3. mem'[k] = part /\ out'[k].count = out[k].count /\ buf' = buf /\ from' = from
      BY <1>1, <1>5, <2>3 DEF bufferVars
    <3>4. Holds(k, part)
      BY <1>3, <2>1, <3>1, <3>2 DEF Holds
    <3> HIDE DEF part, room
    <3> QED
      BY <3>3, <3>4 DEF Holds
  <2>4. \A i \in 1 .. Len(mem'[k]) - 1 : mem'[k][i].by \in Ults
    <3>1. \A i \in 1 .. room - 1 : part[i].by \in Ults
      <4> SUFFICES ASSUME NEW i \in 1 .. room - 1 PROVE part[i].by \in Ults
        OBVIOUS
      <4>1. i \in 1 .. room /\ i \in 1 .. Len(copy[k]) - 1
        BY <1>2
      <4> QED
        BY <1>1, <1>3, <4>1 DEF CallInv
    <3> QED
      BY <1>1, <1>3, <1>5, <3>1 DEF CallInv
  <2> HIDE DEF room, part
  <2>5. since' = since /\ index' = index /\ from' = from /\ copy' = copy
        /\ caller' = caller /\ bulk' = bulk /\ got' = got
    BY <1>1 DEF callerVars, bufferVars
  <2>6. /\ since[k] <= index /\ out[k].count >= 0
        /\ since[k] <= from[k] + out[k].count
        /\ from[k] + out[k].count <= index
        /\ Fused => Window(k)
        /\ \A i \in 1 .. Len(copy[k]) - 1 : copy[k][i].by \in Ults
    BY <1>1, <2>1 DEF CallInv
  <2> QED
    BY <1>1, <1>5, <2>2, <2>3, <2>4, <2>5, <2>6 DEF CallInv
<1> QED
  BY <1>1, <1>6, <1>7, <1>8, CallStep

LEMMA RespondKeeps ==
  ASSUME FetchInductive, NEW k \in Calls, Respond(k)
  PROVE  FetchInductive'
<1> USE DEF Respond
<1>1. /\ FetchTypeOK /\ CallInv(k) /\ srv[k] = "respond" /\ srv'[k] = "replied"
      /\ UNCHANGED bufferVars /\ UNCHANGED callerVars
      /\ TypeOK' /\ srv' \in [Calls -> Handler]
      /\ \A j \in Calls \ {k} : srv'[j] = srv[j]
      /\ caller[k] # "new" /\ bulk[k] \in Unfreed /\ got[k].ret # "SUCCESS"
  BY HandlerStep DEF Handler
<1>2. copy'[k] = <<>> /\ copy' \in [Calls -> Seq(Sample)]
      /\ \A j \in Calls \ {k} : copy'[j] = copy[j]
  BY <1>1 DEF FetchTypeOK
<1>3. OnlyCall(k)
  BY <1>1, <1>2 DEF OnlyCall, callerVars
<1>4. FetchTypeOK'
  BY <1>1, <1>2 DEF FetchTypeOK, callerVars
<1>5. CallInv(k)'
  <2>1. Located(k)' <=> out[k].ret = "SUCCESS"
    BY <1>1 DEF Located
  <2>2. Window(k)' = Window(k) /\ Holds(k, mem[k])' = Holds(k, mem[k])
    BY <1>1 DEF Window, Holds, callerVars, bufferVars
  <2> QED
    BY <1>1, <1>2, <2>1, <2>2 DEF CallInv, Located, callerVars, bufferVars
<1> QED
  BY <1>1, <1>3, <1>4, <1>5, CallStep

-----------------------------------------------------------------------------
LEMMA FetchInductiveInit == FetchInit => FetchInductive
<1> SUFFICES ASSUME FetchInit PROVE FetchInductive
  OBVIOUS
<1>1. Inductive
  BY InductiveInit DEF FetchInit
<1>2. FetchTypeOK
  BY <1>1, SizeAssumption DEF FetchInit, FetchTypeOK, Inductive, Handler, Codes
<1>3. ASSUME NEW k \in Calls PROVE CallInv(k)
  BY DEF FetchInit, BufferInit, CallInv, Located
<1> QED
  BY <1>1, <1>2, <1>3 DEF FetchInductive

LEMMA FetchInductiveNext == FetchInductive /\ [FetchNext]_allVars => FetchInductive'
<1> SUFFICES ASSUME FetchInductive, [FetchNext]_allVars PROVE FetchInductive'
  OBVIOUS
<1>1. CASE UNCHANGED allVars
  <2>1. Inductive'
    BY <1>1, InductiveNext DEF FetchInductive, allVars
  <2>2. FetchTypeOK'
    BY <1>1, <2>1 DEF FetchInductive, FetchTypeOK, Inductive, allVars, fetchVars
  <2>3. ASSUME NEW k \in Calls PROVE CallInv(k)'
    BY <1>1 DEF FetchInductive, CallInv, Located, Window, Holds, allVars,
                bufferVars, fetchVars
  <2> QED
    BY <2>1, <2>2, <2>3 DEF FetchInductive
<1>2. ASSUME NEW u \in Ults, UltStep(u) PROVE FetchInductive'
  BY <1>2, UltKeepsFetch
<1>3. ASSUME NEW k \in Calls, NEW n \in Requests, NEW id \in BOOLEAN,
             Fetch(k, n, id) \/ FetchUnregistered(k, n, id)
      PROVE  FetchInductive'
  <2>1. "registered" \in Unfreed /\ "null" \in Unfreed /\ n \in Int
    BY RequestsAssumption DEF Unfreed
  <2> QED
    BY <1>3, <2>1, AskKeeps DEF Fetch, FetchUnregistered
<1>4. ASSUME NEW k \in Calls, Receive(k) \/ FetchFail(k) \/ FetchAbort(k)
      PROVE  FetchInductive'
  BY <1>4, ReceiveKeeps, FetchFailKeeps, AbortKeeps
<1>5. ASSUME NEW k \in Calls, Serve(k) PROVE FetchInductive'
  BY <1>5, SetupKeeps, SetupFailKeeps, FindKeeps, CompareKeeps, ReloadKeeps,
     CopyKeeps, PushKeeps, RespondKeeps DEF Serve
<1> QED
  BY <1>1, <1>2, <1>3, <1>4, <1>5 DEF FetchNext

(* The inductive invariant of the fetch, in either build. *)
THEOREM FetchInductiveHolds == FetchSpec => []FetchInductive
  BY FetchInductiveInit, FetchInductiveNext, PTL DEF FetchSpec

(* Type correctness of the fetch, its handler and the buffer they read. *)
THEOREM FetchTypeCorrect == FetchSpec => []FetchTypeOK
<1>1. FetchInductive => FetchTypeOK
  BY DEF FetchInductive
<1> QED
  BY <1>1, FetchInductiveHolds, PTL

(* In a build that loads buffer_index once, a fetch that succeeds returns
   the latest samples as they were at one moment between its call and its
   return, with no lock taken and whatever is updated meanwhile. *)
THEOREM FetchLatestHolds ==
  ASSUME Fused
  PROVE  FetchSpec => []FetchLatest
<1>1. FetchInductive => FetchLatest
  BY DEF FetchInductive, FetchLatest, CallInv, Located
<1> QED
  BY <1>1, FetchInductiveHolds, PTL

(* Only the newest fetched sample can lack its time and sample_id. *)
THEOREM FetchStampedHolds == FetchSpec => []FetchStamped
<1>1. FetchInductive => FetchStamped
  BY DEF FetchInductive, FetchStamped, CallInv
<1> QED
  BY <1>1, FetchInductiveHolds, PTL

(* The handler pushes only into memory that is still registered, whatever
   RPCs its callers have given up on. *)
THEOREM PushIntoRegisteredHolds == FetchSpec => []PushIntoRegistered
<1>1. FetchInductive => PushIntoRegistered
  BY DEF FetchInductive, PushIntoRegistered, CallInv
<1> QED
  BY <1>1, FetchInductiveHolds, PTL

(* With one load of buffer_index a fetch returns at most what was asked for. *)
THEOREM FetchWithinRequestHolds ==
  ASSUME Fused
  PROVE  FetchSpec => []FetchWithinRequest
<1>1. FetchInductive => FetchWithinRequest
  <2> SUFFICES ASSUME FetchInductive, NEW k \in Calls, got[k].ret = "SUCCESS"
               PROVE  got[k].num <= req[k]
    BY DEF FetchWithinRequest
  <2>1. got[k].num = out[k].count /\ out[k].count = Lesser(req[k], from[k] + out[k].count)
    BY DEF FetchInductive, CallInv, Located, Window
  <2> QED
    BY <2>1, CallTypes DEF FetchInductive, Lesser
<1> QED
  BY <1>1, FetchInductiveHolds, PTL
=============================================================================
