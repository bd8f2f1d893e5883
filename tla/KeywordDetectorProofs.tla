----------------------- MODULE KeywordDetectorProofs ------------------------
(***************************************************************************)
(* Proofs about KeywordDetector, for any set of keywords, any size of the  *)
(* pool and any time.  The premise NoOverlap is that of the passing run: a *)
(* reset of the fifo does not run while DpcRoutine does.                   *)
(***************************************************************************)
EXTENDS KeywordDetector, SequenceTheorems, TLAPS

NoOverlap == ResetsOverlap = FALSE

\* The types, with what ties a holder to its place in the code.
ListTypes ==
  /\ pool \in Seq(Entries)
  /\ fifo \in Seq(Entries)
  /\ number \in [Entries -> Int]
  /\ currentPacket \in Int
  /\ lastQueued \in Int
  /\ lastRead \in Int
  /\ toQueue \in Int

HolderInv ==
  /\ dpcPc \in {"Idle", "TryPool", "TryFifo", "Queue"}
  /\ dpcPc = "Queue" => dpcEntry \in Entries
  /\ dpcPc # "Queue" => dpcEntry = NoEntry
  /\ pc = "Reading" => readEntry \in Entries
  /\ pc # "Reading" => readEntry = NoEntry

-----------------------------------------------------------------------------
(***************************************************************************)
(* The sequences the lists go through.                                     *)
(***************************************************************************)
LEMMA FullPool ==
  LET full == [i \in Entries |-> i] IN
  /\ full \in Seq(Entries)
  /\ Len(full) = PoolSize
  /\ \A i \in 1 .. Len(full) : full[i] = i
<1> DEFINE full == [i \in Entries |-> i]
<1>1. PoolSize \in Nat
  BY KeywordAssumption
<1>2. full \in [1 .. PoolSize -> Entries]
  BY DEF Entries
<1>3. full \in Seq(Entries)
  BY <1>1, <1>2, SeqDef
<1>4. DOMAIN full = 1 .. PoolSize
  BY DEF Entries
<1>5. Len(full) \in Nat /\ DOMAIN full = 1 .. Len(full)
  BY <1>3, LenProperties
<1>6. Len(full) = PoolSize
  BY <1>1, <1>4, <1>5
<1> QED BY <1>3, <1>6 DEF Entries

\* An overrun drops the head of the fifo.
LEMMA DropIsTail ==
  ASSUME NEW s \in Seq(Entries), s # <<>>
  PROVE  s[Dropped] = Head(s) /\ RemoveAt(s, Dropped) = Tail(s)
<1>1. SubSeq(s, 1, 0) = <<>>
  BY SubSeqEmpty
<1>2. Tail(s) = SubSeq(s, 2, Len(s)) /\ Tail(s) \in Seq(Entries)
  BY TailIsSubSeq, HeadTailProperties
<1>3. <<>> \o Tail(s) = Tail(s)
  BY <1>2, ConcatEmptySeq
<1>4. RemoveAt(s, 1) = Tail(s)
  BY <1>1, <1>2, <1>3 DEF RemoveAt
<1> QED BY <1>4 DEF Dropped

-----------------------------------------------------------------------------
(***************************************************************************)
(* What a step can do to the lists.                                        *)
(***************************************************************************)
\* The step leaves the lists, the numbers and the holders alone, and does not
\* end a capture.
Keeps ==
  /\ UNCHANGED <<pool, fifo, number, lastQueued, lastRead, readEntry, dpcEntry>>
  /\ started => started'
  /\ pc' = "Reading" <=> pc = "Reading"
  /\ toQueue' \in Int
  /\ \/ UNCHANGED <<dpcPc, toQueue>>
     \/ dpcPc = "Idle" /\ dpcPc' = "TryPool" /\ started /\ started'

\* The step empties the fifo while nobody holds an entry.
Resets ==
  /\ ResetFifo
  /\ pc # "Reading" /\ pc' # "Reading"
  /\ UNCHANGED <<readEntry, dpcPc, dpcEntry, toQueue>>

LEMMA DisarmCases ==
  ASSUME toQueue \in Int, NEW k \in Keywords, NEW from \in {"Idle", "Disarm"},
         Disarm(k, from)
  PROVE  Keeps \/ Resets
<1>1. pc # "Reading" /\ pc' # "Reading" /\ UNCHANGED <<readEntry, dpcVars>>
  BY DEF Disarm
<1>2. ResetFifo \/ NoRestart
  BY DEF Disarm
<1>3. CASE ResetFifo
  BY <1>1, <1>3 DEF Resets, dpcVars
<1>4. CASE NoRestart
  BY <1>1, <1>4 DEF Keeps, NoRestart, listVars, startVars, dpcVars
<1> QED BY <1>2, <1>3, <1>4

LEMMA ArmCases ==
  ASSUME toQueue \in Int, NEW k \in Keywords, NEW next \in {"Notify", "Disarm"},
         Arm(k, next)
  PROVE  Keeps
<1>1. pc # "Reading" /\ pc' # "Reading" /\ UNCHANGED <<readEntry, dpcVars>>
  BY DEF Arm
<1>2. StartBufferingStream \/ NoRestart
  BY DEF Arm
<1> QED BY <1>1, <1>2 DEF Keeps, StartBufferingStream, NoRestart, listVars,
             startVars, dpcVars

LEMMA StepCases ==
  ASSUME toQueue \in Int, currentPacket \in Int, lastQueued \in Int, [Next]_vars
  PROVE  \/ Keeps
         \/ Resets
         \/ ReadPacket
         \/ ReadReturn
         \/ DpcTryPool
         \/ DpcTryFifo
         \/ DpcQueue
<1> USE DEF listVars, startVars, dpcVars
<1>1. CASE UNCHANGED vars
  BY <1>1 DEF vars, clientVars, Keeps
<1>2. ASSUME NEW k \in Keywords, NEW next \in {"Notify", "Disarm"}, Arm(k, next)
      PROVE  Keeps
  BY <1>2, ArmCases DEF Arm
<1>3. ASSUME NEW k \in Keywords, NEW from \in {"Idle", "Disarm"},
         Disarm(k, from)
      PROVE  Keeps \/ Resets
  BY <1>3, DisarmCases DEF Disarm
<1>4. CASE NotifyDetection
  BY <1>4 DEF NotifyDetection, NoRestart, Keeps
<1>5. ASSUME NEW reset \in SUBSET Keywords, ResetDetector(reset)
      PROVE  Keeps
  BY <1>5 DEF ResetDetector, Keeps
<1>6. CASE Run
  BY <1>6 DEF Run, StartBufferingStream, NoRestart, Keeps
<1>7. CASE Stop
  BY <1>7 DEF Stop, Resets
<1>8. CASE CancelTimer
  BY <1>8 DEF CancelTimer, Keeps
<1>9. CASE Sample
  BY <1>9 DEF Sample, clientVars, Keeps
<1>10. CASE DpcStart
  BY <1>10 DEF DpcStart, QueueDue, clientVars, Keeps
<1>11. CASE Set_SoundDetectorArmed
  BY <1>2, <1>3, <1>11, KeywordAssumption DEF Set_SoundDetectorArmed
<1>12. CASE Set_SoundDetectorArmed2
  BY <1>2, <1>3, <1>4, <1>12 DEF Set_SoundDetectorArmed2
<1> QED BY <1>1, <1>5, <1>6, <1>7, <1>8, <1>9, <1>10, <1>11, <1>12
        DEF Next, Client, Dpc

-----------------------------------------------------------------------------
(***************************************************************************)
(* Types and holders.                                                      *)
(***************************************************************************)
ListInv ==
  /\ ListTypes
  /\ HolderInv
  /\ dpcPc # "Idle" => started
  /\ toQueue \in Int

LEMMA ListInit == Init => ListInv
<1> SUFFICES ASSUME Init PROVE ListInv
  OBVIOUS
<1>1. pool \in Seq(Entries)
  BY FullPool DEF Init
<1> QED BY <1>1 DEF Init, ListInv, ListTypes, HolderInv

\* Only a step that touches a list can disturb them.
LEMMA CurrentNext ==
  ASSUME currentPacket \in Int, [Next]_vars
  PROVE  currentPacket' \in Int
<1>1. PoolSize \in Int
  BY KeywordAssumption
<1> QED BY <1>1 DEF Next, Client, Dpc, vars, listVars, startVars, Arm, Disarm,
     ResetFifo, StartBufferingStream, NoRestart, NotifyDetection, ResetDetector,
     Run, Stop, CancelTimer, ReadPacket, ReadReturn, Sample, DpcStart, DpcTryPool,
     DpcTryFifo, DpcQueue, Set_SoundDetectorArmed, Set_SoundDetectorArmed2

LEMMA ListNext == ASSUME NoOverlap, ListInv, [Next]_vars PROVE ListInv'
<1>0. currentPacket' \in Int
  BY CurrentNext DEF ListInv, ListTypes
<1> USE DEF ListInv, ListTypes, HolderInv
<1>1. CASE Keeps
  BY <1>0, <1>1 DEF Keeps
<1>2. CASE Resets
  <2>1. pool' \in Seq(Entries) /\ fifo' \in Seq(Entries)
    BY <1>2, FullPool DEF Resets, ResetFifo
  <2>2. dpcPc = "Idle"
    BY <1>2 DEF Resets, ResetFifo, NoOverlap
  <2> QED BY <1>0, <1>2, <2>1, <2>2 DEF Resets, ResetFifo, NumberAfterReset
<1>3. CASE ReadPacket
  <2>1. Head(fifo) \in Entries /\ fifo' \in Seq(Entries)
    BY <1>3, HeadTailProperties DEF ReadPacket
  <2> QED BY <1>0, <1>3, <2>1 DEF ReadPacket, startVars, dpcVars
<1>4. CASE ReadReturn
  <2>1. pool' \in Seq(Entries)
    BY <1>4 DEF ReadReturn, PoolAfterRead
  <2> QED BY <1>0, <1>4, <2>1 DEF ReadReturn, startVars, dpcVars
<1>5. CASE DpcTryPool
  <2>1. CASE pool # <<>>
    <3>1. Head(pool) \in Entries /\ Tail(pool) \in Seq(Entries)
      BY <2>1, HeadTailProperties
    <3> QED BY <1>0, <1>5, <2>1, <3>1 DEF DpcTryPool, startVars, clientVars
  <2>2. CASE pool = <<>>
    BY <1>0, <1>5, <2>2 DEF DpcTryPool, startVars, clientVars
  <2> QED BY <2>1, <2>2
<1>6. CASE DpcTryFifo
  <2>1. CASE fifo # <<>>
    <3>1. fifo[Dropped] \in Entries /\ RemoveAt(fifo, Dropped) \in Seq(Entries)
      BY <2>1, HeadTailProperties, DropIsTail
    <3> QED BY <1>0, <1>6, <2>1, <3>1 DEF DpcTryFifo, startVars, clientVars
  <2>2. CASE fifo = <<>>
    BY <1>0, <1>6, <2>2 DEF DpcTryFifo, startVars, clientVars
  <2> QED BY <2>1, <2>2
<1>7. CASE DpcQueue
  <2>1. fifo' \in Seq(Entries) /\ number' \in [Entries -> Int]
    BY <1>7 DEF DpcQueue, NextNumber
  <2> QED BY <1>0, <1>7, <2>1 DEF DpcQueue, NextNumber, clientVars
<1> QED BY <1>1, <1>2, <1>3, <1>4, <1>5, <1>6, <1>7, StepCases

-----------------------------------------------------------------------------
(***************************************************************************)
(* Where an entry is.                                                      *)
(***************************************************************************)
PlaceInv ==
  /\ \A i, j \in 1 .. Len(pool) : pool[i] = pool[j] => i = j
  /\ \A i, j \in 1 .. Len(fifo) : fifo[i] = fifo[j] => i = j
  /\ \A e \in Entries :
       /\ OnPool(e) \/ OnFifo(e) \/ dpcEntry = e \/ readEntry = e
       /\ OnPool(e) => ~OnFifo(e) /\ dpcEntry # e /\ readEntry # e
       /\ OnFifo(e) => dpcEntry # e /\ readEntry # e
       /\ dpcEntry = e => readEntry # e

LEMMA PlaceImplies == PlaceInv => EntryInOnePlace
<1> SUFFICES ASSUME PlaceInv, NEW e \in Entries
             PROVE  {p \in {"pool", "fifo", "dpc", "reader"} :
                       \/ p = "pool" /\ OnPool(e)
                       \/ p = "fifo" /\ OnFifo(e)
                       \/ p = "dpc" /\ dpcEntry = e
                       \/ p = "reader" /\ readEntry = e} \in
                    {{"pool"}, {"fifo"}, {"dpc"}, {"reader"}}
  BY DEF PlaceInv, EntryInOnePlace
<1> DEFINE A == OnPool(e)
           B == OnFifo(e)
<1>1. /\ A \/ B \/ dpcEntry = e \/ readEntry = e
      /\ A => ~B /\ dpcEntry # e /\ readEntry # e
      /\ B => dpcEntry # e /\ readEntry # e
      /\ dpcEntry = e => readEntry # e
  BY DEF PlaceInv
<1> HIDE DEF A, B
<1> SUFFICES {p \in {"pool", "fifo", "dpc", "reader"} :
                       \/ p = "pool" /\ A
                       \/ p = "fifo" /\ B
                       \/ p = "dpc" /\ dpcEntry = e
                       \/ p = "reader" /\ readEntry = e} \in
                    {{"pool"}, {"fifo"}, {"dpc"}, {"reader"}}
  BY DEF A, B
<1> QED BY <1>1

\* Taking the head of a list takes exactly that entry off it.
LEMMA TakeHead ==
  ASSUME NEW s \in Seq(Entries), s # <<>>,
         \A i, j \in 1 .. Len(s) : s[i] = s[j] => i = j
  PROVE  /\ \A i, j \in 1 .. Len(Tail(s)) : Tail(s)[i] = Tail(s)[j] => i = j
         /\ \A e \in Entries :
              (\E i \in 1 .. Len(Tail(s)) : Tail(s)[i] = e)
                <=> (\E i \in 1 .. Len(s) : s[i] = e) /\ e # Head(s)
         /\ \E i \in 1 .. Len(s) : s[i] = Head(s)
<1>1. /\ Len(s) \in Nat \ {0}
      /\ Head(s) = s[1]
      /\ Len(Tail(s)) = Len(s) - 1
      /\ \A i \in 1 .. Len(Tail(s)) : Tail(s)[i] = s[i + 1]
  BY HeadTailProperties, EmptySeq, LenProperties
<1>2. \A i \in 1 .. Len(Tail(s)) : i + 1 \in 1 .. Len(s) /\ i + 1 # 1
  BY <1>1
<1>3. \A i \in 1 .. Len(s) : i = 1 \/ (i - 1 \in 1 .. Len(Tail(s)) /\ s[i] = Tail(s)[i - 1])
  BY <1>1
<1>4. \A i, j \in 1 .. Len(Tail(s)) : Tail(s)[i] = Tail(s)[j] => i = j
  BY <1>1, <1>2
<1>5. ASSUME NEW e \in Entries
      PROVE  (\E i \in 1 .. Len(Tail(s)) : Tail(s)[i] = e)
                <=> (\E i \in 1 .. Len(s) : s[i] = e) /\ e # Head(s)
  <2>1. ASSUME NEW i \in 1 .. Len(Tail(s)), Tail(s)[i] = e
        PROVE  (\E j \in 1 .. Len(s) : s[j] = e) /\ e # Head(s)
    <3>1. s[i + 1] = e /\ i + 1 \in 1 .. Len(s) /\ i + 1 # 1 /\ 1 \in 1 .. Len(s)
      BY <1>1, <1>2, <2>1
    <3> QED BY <1>1, <3>1
  <2>2. ASSUME NEW i \in 1 .. Len(s), s[i] = e, e # Head(s)
        PROVE  \E j \in 1 .. Len(Tail(s)) : Tail(s)[j] = e
    BY <1>1, <1>3, <2>2
  <2> QED BY <2>1, <2>2
<1>6. \E i \in 1 .. Len(s) : s[i] = Head(s)
  BY <1>1
<1> QED BY <1>4, <1>5, <1>6

\* Putting an entry at the end adds exactly that entry.
LEMMA PutLast ==
  ASSUME NEW s \in Seq(Entries), NEW x \in Entries,
         \A i, j \in 1 .. Len(s) : s[i] = s[j] => i = j,
         ~ \E i \in 1 .. Len(s) : s[i] = x
  PROVE  /\ \A i, j \in 1 .. Len(Append(s, x)) :
              Append(s, x)[i] = Append(s, x)[j] => i = j
         /\ \A e \in Entries :
              (\E i \in 1 .. Len(Append(s, x)) : Append(s, x)[i] = e)
                <=> (\E i \in 1 .. Len(s) : s[i] = e) \/ e = x
<1> DEFINE t == Append(s, x)
<1>1. /\ Len(s) \in Nat
      /\ Len(t) = Len(s) + 1
      /\ \A i \in 1 .. Len(s) : t[i] = s[i]
      /\ t[Len(s) + 1] = x
  BY AppendProperties, LenProperties
<1> HIDE DEF t
<1>2. \A i \in 1 .. Len(t) : i \in 1 .. Len(s) \/ i = Len(s) + 1
  BY <1>1
<1>3. \A i, j \in 1 .. Len(t) : t[i] = t[j] => i = j
  BY <1>1, <1>2
<1>4. ASSUME NEW e \in Entries
      PROVE  (\E i \in 1 .. Len(t) : t[i] = e)
                <=> (\E i \in 1 .. Len(s) : s[i] = e) \/ e = x
  <2>1. ASSUME NEW i \in 1 .. Len(t), t[i] = e
        PROVE  (\E j \in 1 .. Len(s) : s[j] = e) \/ e = x
    BY <1>1, <1>2, <2>1
  <2>2. ASSUME NEW i \in 1 .. Len(s), s[i] = e
        PROVE  \E j \in 1 .. Len(t) : t[j] = e
    <3>1. i \in 1 .. Len(t) /\ t[i] = e
      BY <1>1, <2>2
    <3> QED BY <3>1
  <2>3. ASSUME e = x
        PROVE  \E j \in 1 .. Len(t) : t[j] = e
    <3>1. Len(s) + 1 \in 1 .. Len(t) /\ t[Len(s) + 1] = e
      BY <1>1, <2>3
    <3> QED BY <3>1
  <2> QED BY <2>1, <2>2, <2>3
<1> QED BY <1>3, <1>4 DEF t

LEMMA PlaceInit == Init => PlaceInv
<1> SUFFICES ASSUME Init PROVE PlaceInv
  OBVIOUS
<1>1. fifo = <<>> /\ Len(fifo) = 0
  BY EmptySeq DEF Init
<1>2. Len(pool) = PoolSize /\ \A i \in 1 .. Len(pool) : pool[i] = i
  BY FullPool DEF Init
<1>3. \A e \in Entries : OnPool(e)
  BY <1>2 DEF OnPool, Entries
<1>4. \A e \in Entries : ~OnFifo(e) /\ dpcEntry # e /\ readEntry # e
  BY <1>1 DEF Init, OnFifo, Entries, NoEntry
<1> QED BY <1>1, <1>2, <1>3, <1>4 DEF PlaceInv

\* The oldest packet is taken off the fifo, by the reader or by an overrun.
LEMMA OldestTaken ==
  ASSUME fifo \in Seq(Entries), PlaceInv, fifo # <<>>, fifo' = Tail(fifo)
  PROVE  /\ \A i, j \in 1 .. Len(fifo') : fifo'[i] = fifo'[j] => i = j
         /\ \A e \in Entries : OnFifo(e)' <=> OnFifo(e) /\ e # Head(fifo)
         /\ OnFifo(Head(fifo))
         /\ Head(fifo) \in Entries
<1>1. \A i, j \in 1 .. Len(fifo) : fifo[i] = fifo[j] => i = j
  BY DEF PlaceInv
<1>2. /\ \A i, j \in 1 .. Len(Tail(fifo)) : Tail(fifo)[i] = Tail(fifo)[j] => i = j
      /\ \A e \in Entries :
           (\E i \in 1 .. Len(Tail(fifo)) : Tail(fifo)[i] = e)
             <=> (\E i \in 1 .. Len(fifo) : fifo[i] = e) /\ e # Head(fifo)
      /\ \E i \in 1 .. Len(fifo) : fifo[i] = Head(fifo)
  BY <1>1, TakeHead
<1>3. Head(fifo) \in Entries
  BY HeadTailProperties
<1> QED BY <1>2, <1>3 DEF OnFifo

LEMMA PlaceNext ==
  ASSUME NoOverlap, ListInv, PlaceInv, [Next]_vars
  PROVE  PlaceInv'
<1> USE DEF ListInv, ListTypes, HolderInv
<1>1. CASE Keeps
  BY <1>1 DEF Keeps, PlaceInv, OnPool, OnFifo
<1>2. CASE Resets
  <2>1. fifo' = <<>> /\ Len(fifo') = 0
    BY <1>2, EmptySeq DEF Resets, ResetFifo
  <2>2. Len(pool') = PoolSize /\ \A i \in 1 .. Len(pool') : pool'[i] = i
    BY <1>2, FullPool DEF Resets, ResetFifo
  <2>3. \A e \in Entries : OnPool(e)' /\ ~OnFifo(e)'
    BY <2>1, <2>2 DEF OnPool, OnFifo, Entries
  <2>4. dpcEntry' = NoEntry /\ readEntry' = NoEntry
    BY <1>2 DEF Resets, ResetFifo, NoOverlap
  <2>5. \A e \in Entries : e # NoEntry
    BY DEF Entries, NoEntry
  <2> QED BY <2>1, <2>2, <2>3, <2>4, <2>5 DEF PlaceInv
<1>3. CASE ReadPacket
  <2>1. fifo # <<>> /\ readEntry = NoEntry
    BY <1>3 DEF ReadPacket
  <2>2. /\ \A i, j \in 1 .. Len(fifo') : fifo'[i] = fifo'[j] => i = j
        /\ \A e \in Entries : OnFifo(e)' <=> OnFifo(e) /\ e # Head(fifo)
        /\ OnFifo(Head(fifo))
        /\ Head(fifo) \in Entries
    <3>1. fifo' = Tail(fifo)
      BY <1>3 DEF ReadPacket
    <3> QED BY <2>1, <3>1, OldestTaken
  <2>3. /\ UNCHANGED <<pool, dpcEntry>>
        /\ readEntry' = Head(fifo)
        /\ \A e \in Entries : OnPool(e)' <=> OnPool(e)
    BY <1>3 DEF ReadPacket, dpcVars, OnPool
  <2> QED BY <2>1, <2>2, <2>3 DEF PlaceInv, Entries, NoEntry
<1>4. CASE ReadReturn
  <2>1. readEntry \in Entries /\ ~OnPool(readEntry)
    BY <1>4 DEF ReadReturn, PlaceInv
  <2>2. /\ \A i, j \in 1 .. Len(pool') : pool'[i] = pool'[j] => i = j
        /\ \A e \in Entries : OnPool(e)' <=> OnPool(e) \/ e = readEntry
    BY <1>4, <2>1, PutLast DEF ReadReturn, PoolAfterRead, PlaceInv, OnPool
  <2>3. /\ UNCHANGED <<fifo, dpcEntry>>
        /\ readEntry' = NoEntry
        /\ \A e \in Entries : OnFifo(e)' <=> OnFifo(e)
    BY <1>4 DEF ReadReturn, dpcVars, OnFifo
  <2> QED BY <2>1, <2>2, <2>3 DEF PlaceInv, Entries, NoEntry
<1>5. CASE DpcTryPool
  <2>1. UNCHANGED <<fifo, readEntry>> /\ dpcEntry = NoEntry
    BY <1>5 DEF DpcTryPool, clientVars
  <2>2. \A e \in Entries : OnFifo(e)' <=> OnFifo(e)
    BY <2>1 DEF OnFifo
  <2>3. CASE pool # <<>>
    <3>1. /\ \A i, j \in 1 .. Len(pool') : pool'[i] = pool'[j] => i = j
          /\ \A e \in Entries : OnPool(e)' <=> OnPool(e) /\ e # Head(pool)
          /\ OnPool(Head(pool))
          /\ Head(pool) \in Entries
      <4>1. pool' = Tail(pool) /\ Head(pool) \in Entries
        BY <1>5, <2>3, HeadTailProperties DEF DpcTryPool
      <4>2. \A i, j \in 1 .. Len(pool) : pool[i] = pool[j] => i = j
        BY DEF PlaceInv
      <4>3. /\ \A i, j \in 1 .. Len(Tail(pool)) :
                 Tail(pool)[i] = Tail(pool)[j] => i = j
            /\ \A e \in Entries :
                 (\E i \in 1 .. Len(Tail(pool)) : Tail(pool)[i] = e)
                   <=> (\E i \in 1 .. Len(pool) : pool[i] = e) /\ e # Head(pool)
            /\ \E i \in 1 .. Len(pool) : pool[i] = Head(pool)
        BY <2>3, <4>2, TakeHead
      <4> QED BY <4>1, <4>3 DEF OnPool
    <3>2. dpcEntry' = Head(pool)
      BY <1>5, <2>3 DEF DpcTryPool
    <3> QED BY <2>1, <2>2, <3>1, <3>2 DEF PlaceInv, Entries, NoEntry
  <2>4. CASE pool = <<>>
    <3>1. UNCHANGED <<pool, dpcEntry>>
      BY <1>5, <2>4 DEF DpcTryPool
    <3> QED BY <2>1, <3>1 DEF PlaceInv, OnPool, OnFifo
  <2> QED BY <2>3, <2>4
<1>6. CASE DpcTryFifo
  <2>1. UNCHANGED <<pool, readEntry>> /\ dpcEntry = NoEntry
    BY <1>6 DEF DpcTryFifo, clientVars
  <2>2. \A e \in Entries : OnPool(e)' <=> OnPool(e)
    BY <2>1 DEF OnPool
  <2>3. CASE fifo # <<>>
    <3>0. dpcEntry' = Head(fifo) /\ fifo' = Tail(fifo)
      BY <1>6, <2>3, DropIsTail DEF DpcTryFifo
    <3>1. /\ \A i, j \in 1 .. Len(fifo') : fifo'[i] = fifo'[j] => i = j
          /\ \A e \in Entries : OnFifo(e)' <=> OnFifo(e) /\ e # Head(fifo)
          /\ OnFifo(Head(fifo))
          /\ Head(fifo) \in Entries
      BY <2>3, <3>0, OldestTaken
    <3> QED BY <2>1, <2>2, <3>0, <3>1 DEF PlaceInv, Entries, NoEntry
  <2>4. CASE fifo = <<>>
    <3>1. UNCHANGED <<fifo, dpcEntry>>
      BY <1>6, <2>4 DEF DpcTryFifo
    <3> QED BY <2>1, <3>1 DEF PlaceInv, OnPool, OnFifo
  <2> QED BY <2>3, <2>4
<1>7. CASE DpcQueue
  <2>1. dpcEntry \in Entries /\ ~OnFifo(dpcEntry)
    BY <1>7 DEF DpcQueue, PlaceInv
  <2>2. /\ \A i, j \in 1 .. Len(fifo') : fifo'[i] = fifo'[j] => i = j
        /\ \A e \in Entries : OnFifo(e)' <=> OnFifo(e) \/ e = dpcEntry
    BY <1>7, <2>1, PutLast DEF DpcQueue, PlaceInv, OnFifo
  <2>3. /\ UNCHANGED <<pool, readEntry>>
        /\ dpcEntry' = NoEntry
        /\ \A e \in Entries : OnPool(e)' <=> OnPool(e)
    BY <1>7 DEF DpcQueue, clientVars, OnPool
  <2> QED BY <2>1, <2>2, <2>3 DEF PlaceInv, Entries, NoEntry
<1> QED BY <1>1, <1>2, <1>3, <1>4, <1>5, <1>6, <1>7, StepCases

-----------------------------------------------------------------------------
(***************************************************************************)
(* The numbers on the fifo.                                                *)
(***************************************************************************)
\* What was read is older than everything that is still on the fifo.
NumberInv ==
  /\ FifoConsecutive
  /\ lastRead <= lastQueued - Len(fifo)
  /\ StartsEmpty

LEMMA NumberInit == Init => NumberInv
BY EmptySeq DEF Init, NumberInv, FifoConsecutive, StartsEmpty

\* Without its head the fifo is still consecutive.
LEMMA TailConsecutive ==
  ASSUME ListInv, NumberInv, fifo # <<>>, fifo' = Tail(fifo),
         UNCHANGED <<number, lastQueued>>
  PROVE  /\ FifoConsecutive'
         /\ number[Head(fifo)] = lastQueued - Len(fifo')
         /\ Len(fifo') = Len(fifo) - 1
         /\ Len(fifo) \in Nat \ {0}
<1> USE DEF ListInv, ListTypes
<1>1. /\ Len(fifo) \in Nat \ {0}
      /\ Head(fifo) = fifo[1]
      /\ Len(fifo') = Len(fifo) - 1
      /\ \A i \in 1 .. Len(fifo') : fifo'[i] = fifo[i + 1]
  BY HeadTailProperties, EmptySeq, LenProperties
<1>2. \A i \in 1 .. Len(fifo) : number[fifo[i]] = lastQueued - (Len(fifo) - i)
  BY DEF NumberInv, FifoConsecutive
<1>3. \A i \in 1 .. Len(fifo') : i + 1 \in 1 .. Len(fifo)
  BY <1>1
<1>4. FifoConsecutive'
  BY <1>1, <1>2, <1>3 DEF FifoConsecutive
<1>5. number[Head(fifo)] = lastQueued - Len(fifo')
  BY <1>1, <1>2
<1> QED BY <1>1, <1>4, <1>5

LEMMA NumberNext ==
  ASSUME NoOverlap, ListInv, PlaceInv, NumberInv, [Next]_vars
  PROVE  NumberInv'
<1> USE DEF ListInv, ListTypes, HolderInv
<1>1. CASE Keeps
  <2>1. FifoConsecutive' /\ lastRead' <= lastQueued' - Len(fifo')
    BY <1>1 DEF Keeps, NumberInv, FifoConsecutive
  <2>2. StartsEmpty'
    BY <1>1 DEF Keeps, NumberInv, StartsEmpty
  <2> QED BY <2>1, <2>2 DEF NumberInv
<1>2. CASE Resets
  BY <1>2, EmptySeq DEF Resets, ResetFifo, NumberAfterReset, NumberInv,
     FifoConsecutive, StartsEmpty
<1>3. CASE ReadPacket
  <2>1. /\ fifo # <<>> /\ fifo' = Tail(fifo) /\ UNCHANGED <<number, lastQueued>>
        /\ lastRead' = number[Head(fifo)]
    BY <1>3 DEF ReadPacket, startVars
  <2>2. FifoConsecutive' /\ lastRead' <= lastQueued' - Len(fifo')
    BY <2>1, TailConsecutive
  <2>3. started /\ started' = started
    BY <1>3, <2>1 DEF ReadPacket, startVars, NumberInv, StartsEmpty
  <2> QED BY <2>2, <2>3 DEF NumberInv, StartsEmpty
<1>4. CASE ReadReturn
  <2>1. UNCHANGED <<fifo, number, lastQueued, lastRead>>
    BY <1>4 DEF ReadReturn, startVars
  <2>2. started' = started
    BY <1>4 DEF ReadReturn, startVars
  <2> QED BY <2>1, <2>2 DEF NumberInv, FifoConsecutive, StartsEmpty
<1>5. CASE DpcTryPool
  <2>1. UNCHANGED <<fifo, number, lastQueued, lastRead>>
    BY <1>5 DEF DpcTryPool, startVars, clientVars
  <2>2. started' = started
    BY <1>5 DEF DpcTryPool, startVars
  <2> QED BY <2>1, <2>2 DEF NumberInv, FifoConsecutive, StartsEmpty
<1>6. CASE DpcTryFifo
  <2>0. started /\ started' = started
    BY <1>6 DEF DpcTryFifo, startVars
  <2>1. UNCHANGED <<number, lastQueued, lastRead>>
    BY <1>6 DEF DpcTryFifo, startVars, clientVars
  <2>2. CASE fifo # <<>>
    <3>1. fifo' = Tail(fifo)
      BY <1>6, <2>2, DropIsTail DEF DpcTryFifo
    <3> QED BY <2>0, <2>1, <2>2, <3>1, TailConsecutive DEF NumberInv, StartsEmpty
  <2>3. CASE fifo = <<>>
    <3>1. fifo' = fifo
      BY <1>6, <2>3 DEF DpcTryFifo
    <3> QED BY <2>0, <2>1, <3>1 DEF NumberInv, FifoConsecutive, StartsEmpty
  <2> QED BY <2>2, <2>3
<1>7. CASE DpcQueue
  <2>0. started /\ started' = started
    BY <1>7 DEF DpcQueue
  <2>1. /\ dpcEntry \in Entries /\ ~OnFifo(dpcEntry)
        /\ fifo' = Append(fifo, dpcEntry)
        /\ lastQueued' = lastQueued + 1
        /\ number' = [number EXCEPT ![dpcEntry] = lastQueued + 1]
        /\ lastRead' = lastRead
    BY <1>7 DEF DpcQueue, PlaceInv, NextNumber, clientVars
  <2>2. /\ Len(fifo) \in Nat
        /\ Len(fifo') = Len(fifo) + 1
        /\ \A i \in 1 .. Len(fifo) : fifo'[i] = fifo[i]
        /\ fifo'[Len(fifo) + 1] = dpcEntry
    BY <2>1, AppendProperties, LenProperties
  <2>3. ASSUME NEW i \in 1 .. Len(fifo')
        PROVE  number'[fifo'[i]] = lastQueued' - (Len(fifo') - i)
    <3>1. CASE i \in 1 .. Len(fifo)
      <4>1. fifo[i] \in Entries /\ fifo[i] # dpcEntry
        BY <2>1, <3>1, ElementOfSeq DEF OnFifo
      <4>2. number'[fifo'[i]] = number[fifo[i]]
        BY <2>1, <2>2, <3>1, <4>1
      <4>3. number[fifo[i]] = lastQueued - (Len(fifo) - i)
        BY <3>1 DEF NumberInv, FifoConsecutive
      <4> QED BY <2>1, <2>2, <4>2, <4>3
    <3>2. CASE i = Len(fifo) + 1
      BY <2>1, <2>2, <3>2
    <3> QED BY <2>2, <3>1, <3>2
  <2>4. FifoConsecutive'
    BY <2>3 DEF FifoConsecutive
  <2>5. lastRead' <= lastQueued' - Len(fifo')
    BY <2>1, <2>2 DEF NumberInv
  <2> QED BY <2>0, <2>4, <2>5 DEF NumberInv, StartsEmpty
<1> QED BY <1>1, <1>2, <1>3, <1>4, <1>5, <1>6, <1>7, StepCases

-----------------------------------------------------------------------------
(***************************************************************************)
(* The capture and its queue, when no sibling stream drives DpcRoutine.    *)
(***************************************************************************)
Alone == SiblingRuns = FALSE

\* Without a timer nothing was queued, and a detection that moves the start of
\* the capture finds it so.
CaptureInv ==
  /\ dpcPc # "Idle" => timer /\ toQueue > 0 /\ lastQueued + toQueue <= currentPacket
  /\ ~started => lastQueued = -1
  /\ QueueNotAhead
  /\ streamRunning => timer
  /\ ~streamRunning => lastQueued = -1
  /\ timer /\ ~streamRunning => pc = "CancelTimer"
  /\ pc = "CancelTimer" => ~streamRunning /\ ~started

LEMMA CaptureInit == Init => CaptureInv
BY DEF Init, CaptureInv, QueueNotAhead

\* A start of the capture while it is stopped.
LEMMA CaptureStart ==
  ASSUME ListInv, CaptureInv, ~started, StartBufferingStream, pc = "Idle",
         pc' # "CancelTimer", streamRunning' => timer',
         ~streamRunning' => ~streamRunning,
         timer' /\ ~streamRunning' => timer,
         UNCHANGED dpcVars
  PROVE  CaptureInv'
BY DEF ListInv, ListTypes, HolderInv, CaptureInv, QueueNotAhead,
   StartBufferingStream, listVars, dpcVars

\* A step that leaves the capture alone.
LEMMA CaptureSame ==
  ASSUME ListInv, CaptureInv, UNCHANGED <<startVars, dpcVars>>,
         streamRunning' => timer',
         timer => timer',
         ~streamRunning' => ~streamRunning,
         timer' /\ ~streamRunning' => timer /\ pc # "CancelTimer",
         pc' # "CancelTimer"
  PROVE  CaptureInv'
BY DEF ListInv, ListTypes, HolderInv, CaptureInv, QueueNotAhead, startVars, dpcVars

LEMMA CaptureNext ==
  ASSUME NoOverlap, Alone, ListInv, CaptureInv, [Next]_vars
  PROVE  CaptureInv'
<1>1. CASE UNCHANGED vars
  BY <1>1 DEF vars, startVars, clientVars, dpcVars, CaptureInv, QueueNotAhead
<1>2. ASSUME NEW k \in Keywords, NEW next \in {"Notify", "Disarm"}, Arm(k, next)
      PROVE  CaptureInv'
  <2>1. /\ pc = "Idle" /\ pc' # "CancelTimer"
        /\ UNCHANGED <<streamRunning, timer, dpcVars>>
    BY <1>2 DEF Arm
  <2>2. \/ ~started /\ StartBufferingStream
        \/ NoRestart
    BY <1>2 DEF Arm
  <2>3. CASE ~started /\ StartBufferingStream
    BY <2>1, <2>3, CaptureStart DEF CaptureInv
  <2>4. CASE NoRestart
    BY <2>1, <2>4, CaptureSame DEF CaptureInv, NoRestart
  <2> QED BY <2>2, <2>3, <2>4
<1>3. ASSUME NEW k \in Keywords, NEW from \in {"Idle", "Disarm"}, Disarm(k, from)
      PROVE  CaptureInv'
  <2>1. /\ pc = from /\ pc' = "Idle"
        /\ UNCHANGED <<streamRunning, timer, dpcVars>>
    BY <1>3 DEF Disarm
  <2>2. \/ ~streamRunning /\ ResetFifo
        \/ NoRestart
    BY <1>3 DEF Disarm
  <2>3. CASE ~streamRunning /\ ResetFifo
    BY <2>1, <2>3 DEF CaptureInv, QueueNotAhead, ResetFifo, NumberAfterReset,
       NoOverlap, dpcVars
  <2>4. CASE NoRestart
    BY <2>1, <2>4, CaptureSame DEF CaptureInv, NoRestart
  <2> QED BY <2>2, <2>3, <2>4
<1>4. CASE NotifyDetection
  <2>1. /\ pc = "Notify" /\ pc' = "Idle"
        /\ UNCHANGED <<streamRunning, timer, dpcVars>>
    BY <1>4 DEF NotifyDetection
  <2>2. CASE streamRunning
    <3>1. NoRestart
      BY <1>4, <2>2 DEF NotifyDetection
    <3> QED BY <2>1, <3>1, CaptureSame DEF CaptureInv, NoRestart
  <2>3. CASE ~streamRunning
    <3>1. started' /\ currentPacket' = PoolSize /\ lastQueued' = lastQueued
      BY <1>4, <2>3 DEF NotifyDetection
    <3>2. lastQueued = -1 /\ dpcPc = "Idle" /\ PoolSize \in Nat
      BY <2>1, <2>3, KeywordAssumption DEF CaptureInv
    <3> QED BY <2>1, <2>3, <3>1, <3>2 DEF CaptureInv, QueueNotAhead, dpcVars
  <2> QED BY <2>2, <2>3
<1>5. ASSUME NEW reset \in SUBSET Keywords, ResetDetector(reset)
      PROVE  CaptureInv'
  BY <1>5, CaptureSame DEF CaptureInv, ResetDetector
<1>6. CASE Run
  <2>1. /\ pc = "Idle" /\ pc' = "Idle" /\ ~streamRunning
        /\ streamRunning' = TRUE /\ timer' = TRUE /\ UNCHANGED dpcVars
    BY <1>6 DEF Run
  <2>2. \/ ~started /\ StartBufferingStream
        \/ NoRestart
    BY <1>6 DEF Run
  <2>3. CASE ~started /\ StartBufferingStream
    BY <2>1, <2>3, CaptureStart DEF CaptureInv
  <2>4. CASE NoRestart
    BY <2>1, <2>4, CaptureSame DEF CaptureInv, NoRestart
  <2> QED BY <2>2, <2>3, <2>4
<1>7. CASE Stop
  BY <1>7 DEF Stop, CaptureInv, QueueNotAhead, ResetFifo, NumberAfterReset,
     NoOverlap, dpcVars
<1>8. CASE CancelTimer
  BY <1>8 DEF CancelTimer, CaptureInv, QueueNotAhead, startVars, dpcVars
<1>9. CASE ReadPacket
  BY <1>9, CaptureSame DEF CaptureInv, ReadPacket
<1>10. CASE ReadReturn
  BY <1>10, CaptureSame DEF CaptureInv, ReadReturn
<1>11. CASE Sample
  BY <1>11 DEF Sample, ListInv, ListTypes, CaptureInv, QueueNotAhead, clientVars,
     dpcVars
<1>12. CASE DpcStart
  BY <1>12 DEF DpcStart, QueueDue, Alone, ListInv, ListTypes, CaptureInv,
     QueueNotAhead, startVars, clientVars
<1>13. CASE DpcTryPool
  BY <1>13 DEF DpcTryPool, CaptureInv, QueueNotAhead, startVars, clientVars
<1>14. CASE DpcTryFifo
  BY <1>14 DEF DpcTryFifo, CaptureInv, QueueNotAhead, startVars, clientVars
<1>15. CASE DpcQueue
  <2>1. timer /\ started /\ streamRunning /\ pc # "CancelTimer"
    BY <1>15 DEF DpcQueue, ListInv, CaptureInv
  <2>2. /\ UNCHANGED <<started, currentPacket, streamRunning, timer, pc>>
        /\ lastQueued' = lastQueued + 1
        /\ toQueue' = toQueue - 1
        /\ dpcPc' # "Idle" => toQueue > 1
    BY <1>15 DEF DpcQueue, NextNumber, clientVars
  <2>3. lastQueued' + toQueue' <= currentPacket' /\ lastQueued' <= currentPacket'
    BY <1>15, <2>2 DEF DpcQueue, ListInv, ListTypes, CaptureInv
  <2> QED BY <2>1, <2>2, <2>3 DEF ListInv, ListTypes, CaptureInv, QueueNotAhead
<1>16. CASE Set_SoundDetectorArmed
  BY <1>2, <1>3, <1>16, KeywordAssumption DEF Set_SoundDetectorArmed
<1>17. CASE Set_SoundDetectorArmed2
  BY <1>2, <1>3, <1>4, <1>17 DEF Set_SoundDetectorArmed2
<1> QED BY <1>1, <1>5, <1>6, <1>7, <1>8, <1>9, <1>10, <1>11, <1>12, <1>13, <1>14,
           <1>15, <1>16, <1>17 DEF Next, Client, Dpc

-----------------------------------------------------------------------------
FifoInv == ListInv /\ PlaceInv /\ NumberInv

LEMMA FifoInvariant == ASSUME NoOverlap PROVE Spec => []FifoInv
<1>1. Init => FifoInv
  BY ListInit, PlaceInit, NumberInit DEF FifoInv
<1>2. FifoInv /\ [Next]_vars => FifoInv'
  BY ListNext, PlaceNext, NumberNext DEF FifoInv
<1> QED BY <1>1, <1>2, PTL DEF Spec

\* No entry of the pool is lost, shared or on two lists, for a pool of any size
\* and any number of overruns, reads and resets.
THEOREM EntriesInOnePlace == ASSUME NoOverlap PROVE Spec => []EntryInOnePlace
<1>1. FifoInv => EntryInOnePlace
  BY PlaceImplies DEF FifoInv
<1> QED BY <1>1, FifoInvariant, PTL

\* An overrun drops the oldest packets only: what is queued is consecutive up
\* to the newest packet.
THEOREM QueueIsConsecutive == ASSUME NoOverlap PROVE Spec => []FifoConsecutive
<1>1. FifoInv => FifoConsecutive
  BY DEF FifoInv, NumberInv
<1> QED BY <1>1, FifoInvariant, PTL

\* The assertion of StartBufferingStream that the fifo is empty, as called by
\* Run and SetArmed.
THEOREM CaptureStartsEmpty == ASSUME NoOverlap PROVE Spec => []StartsEmpty
<1>1. FifoInv => StartsEmpty
  BY DEF FifoInv, NumberInv
<1> QED BY <1>1, FifoInvariant, PTL

\* The client reads the packets of a capture in order and none twice, whatever
\* the DPC drops between two reads.
THEOREM PacketsReadInOrder == ASSUME NoOverlap PROVE Spec => ReadsInOrder
<1>1. FifoInv /\ [Next]_vars
        => [readEntry = NoEntry /\ readEntry' # NoEntry
              => lastRead < lastRead']_vars
  <2> SUFFICES ASSUME FifoInv, [Next]_vars, readEntry = NoEntry,
                      readEntry' # NoEntry
               PROVE  lastRead < lastRead'
    OBVIOUS
  <2> USE DEF FifoInv, ListInv, ListTypes
  <2>1. ReadPacket
    BY StepCases DEF Keeps, Resets, ReadReturn, DpcTryPool, DpcTryFifo, DpcQueue,
       clientVars
  <2>2. /\ fifo # <<>> /\ fifo' = Tail(fifo) /\ UNCHANGED <<number, lastQueued>>
        /\ lastRead' = number[Head(fifo)]
    BY <2>1 DEF ReadPacket, startVars
  <2>3. /\ lastRead' = lastQueued - (Len(fifo) - 1)
        /\ Len(fifo) \in Nat
    BY <2>2, TailConsecutive
  <2>4. lastRead <= lastQueued - Len(fifo)
    BY DEF NumberInv
  <2> QED BY <2>3, <2>4
<1> QED BY <1>1, FifoInvariant, PTL DEF Spec, ReadsInOrder

\* The queue is never ahead of the capture while this pin's timer alone drives
\* DpcRoutine, for any time the client takes to arm, detect and stream.
THEOREM QueueBehindCapture ==
  ASSUME NoOverlap, Alone PROVE Spec => []QueueNotAhead
<1>1. Init => ListInv /\ CaptureInv
  BY ListInit, CaptureInit
<1>2. ListInv /\ CaptureInv /\ [Next]_vars => ListInv' /\ CaptureInv'
  BY ListNext, CaptureNext
<1>3. CaptureInv => QueueNotAhead
  BY DEF CaptureInv
<1> QED BY <1>1, <1>2, <1>3, PTL DEF Spec
=============================================================================
