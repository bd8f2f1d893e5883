--------------------------- MODULE SaveDataProofs ---------------------------
(***************************************************************************)
(* Proofs about SaveData, for every ring size, number of work items,       *)
(* number of worker threads and set of write sizes.                        *)
(***************************************************************************)
EXTENDS SaveData, FiniteSetTheorems, TLAPS

-----------------------------------------------------------------------------
(***************************************************************************)
(* Arithmetic of the ring.                                                 *)
(***************************************************************************)

\* Where frame i of N frames of F bytes ends, relative to its neighbours.
LEMMA FrameBounds ==
  ASSUME NEW F \in Nat \ {0}, NEW N \in Nat, NEW i \in 0 .. N - 1
  PROVE  /\ i * F \in Nat
         /\ N * F \in Nat
         /\ (i + 1) * F = i * F + F
         /\ (i + 2) * F = i * F + F + F
         /\ i * F + F <= N * F
         /\ i + 1 = N => i * F + F = N * F
         /\ i + 1 # N => i * F + F + F <= N * F
<1>1. i * F \in Nat /\ N * F \in Nat
  OBVIOUS
<1>2. (i + 1) * F = i * F + F
  OBVIOUS
<1>3. (i + 2) * F = i * F + F + F
  OBVIOUS
<1>4. \A m \in Nat : m <= N => m * F <= N * F
  OBVIOUS
<1>5. i * F + F <= N * F
  BY <1>2, <1>4
<1>6. i + 1 # N => i * F + F + F <= N * F
  <2>1. ASSUME i + 1 # N PROVE (i + 2) * F <= N * F
    BY <1>4, <2>1
  <2> QED BY <2>1, <1>3
<1> QED BY <1>1, <1>2, <1>3, <1>5, <1>6

\* (i + 1) % N stays below N and is the successor, or 0 at the end.
LEMMA NextIndex ==
  ASSUME NEW N \in Nat \ {0}, NEW i \in 0 .. N - 1
  PROVE  /\ (i + 1) % N \in 0 .. N - 1
         /\ i + 1 # N => (i + 1) % N = i + 1
         /\ i + 1 = N => (i + 1) % N = 0
  OBVIOUS

-----------------------------------------------------------------------------
(***************************************************************************)
(* Types and the write cursor.                                             *)
(***************************************************************************)

\* Nothing is saved that is longer than a frame.
SizesFit ==
  /\ saveSize <= frameSize
  /\ \A i \in Items : item[i].size <= frameSize

\* There is a left over only after the ring wrapped, and it is less than a
\* frame.
RestFits ==
  pc = "Rest" => /\ bufferOffset = 0
                 /\ frameIndex = 0
                 /\ rest < frameSize

\* A stream that has not run yet has written and saved nothing.
Fresh ==
  sessions = 0 => /\ bufferOffset = 0
                  /\ frameIndex = 0
                  /\ saveSize = 0
                  /\ \A i \in Items : item[i].size = 0
                  /\ pc \in {"Stopped", "Destroyed"}

CursorInv ==
  /\ TypeOK
  /\ CursorInFrame
  /\ SizesFit
  /\ RestFits
  /\ Fresh
  /\ rest <= offered

\* Copying count numbered bytes yields a ring of numbered bytes.
LEMMA CopiedType ==
  ASSUME NEW offset \in Nat, NEW count \in Nat, NEW first \in Nat,
         TypeOK
  PROVE  Copied(offset, count, first) \in [Offsets -> Nat]
<1> SUFFICES ASSUME NEW k \in Offsets
             PROVE  (IF offset <= k /\ k < offset + count
                     THEN first + (k - offset) ELSE buffer[k]) \in Nat
  BY DEF Copied
<1>1. k \in Int
  BY ConstantsAssumption DEF Offsets, BufferSize, TypeOK
<1>2. buffer[k] \in Nat
  BY DEF TypeOK
<1> QED BY <1>1, <1>2

\* What a work item describes is a sequence of numbered bytes in the ring.
LEMMA FrameDataType ==
  ASSUME TypeOK, SizesFit, NEW i \in Items
  PROVE  /\ FrameData(i) \in Seq(Nat)
         /\ DOMAIN FrameData(i) = 1 .. item[i].size
         /\ \A k \in DOMAIN FrameData(i) : FrameData(i)[k] \in Nat
<1> DEFINE f == item[i].frame
           n == item[i].size
<1>1. /\ f \in 0 .. FrameCount - 1
      /\ n \in Nat
      /\ n <= frameSize
      /\ frameSize \in Nat \ {0}
  BY ConstantsAssumption DEF TypeOK, SizesFit, Frames
<1>2. /\ f * frameSize \in Nat
      /\ FrameCount * frameSize \in Nat
      /\ f * frameSize + frameSize <= FrameCount * frameSize
  BY <1>1, FrameBounds, ConstantsAssumption
<1>3. ASSUME NEW k \in 1 .. n
      PROVE  buffer[f * frameSize + k - 1] \in Nat
  <2> DEFINE start == f * frameSize
             end == FrameCount * frameSize
  <2>0. /\ start \in Nat /\ end \in Nat /\ start + frameSize <= end
        /\ k \in Nat /\ 1 <= k /\ k <= frameSize /\ frameSize \in Nat
    BY <1>1, <1>2
  <2> HIDE DEF start, end
  <2>1. start + k - 1 \in 0 .. end - 1
    BY <2>0
  <2>2. f * frameSize + k - 1 \in Offsets
    BY <2>1 DEF Offsets, BufferSize, start, end
  <2> QED BY <2>2 DEF TypeOK
<1>4. FrameData(i) \in [1 .. n -> Nat]
  BY <1>3 DEF FrameData
<1> QED BY <1>1, <1>4

\* The initial state satisfies the cursor invariant.
LEMMA CursorInit == Init => CursorInv
<1> SUFFICES ASSUME Init PROVE CursorInv
  OBVIOUS
<1>1. 0 \in Frames /\ 0 \in Items
  BY ConstantsAssumption DEF Frames, Items
<1>2. frameSize \in Nat \ {0}
  BY ConstantsAssumption DEF Init
<1>3. TypeOK
  <2>1. buffer \in [Offsets -> Nat] /\ frameSize \in FrameSizes
    BY DEF Init
  <2>2. queue \in Seq(Items) /\ file \in Seq(Nat)
    BY DEF Init
  <2>3. item \in [Items -> [frame : Frames, size : Nat]]
    BY <1>1 DEF Init
  <2>4. /\ scan \in 0 .. ItemCount
        /\ fileSync \in 0 .. WorkerCount
        /\ witem \in [Workers -> Items]
    BY <1>1, ConstantsAssumption DEF Init
  <2> QED BY <1>1, <2>1, <2>2, <2>3, <2>4 DEF Init, TypeOK
<1>4. CursorInFrame
  <2>1. 0 * frameSize = 0 /\ (0 + 1) * frameSize = frameSize
    BY <1>2
  <2> QED BY <1>2, <2>1 DEF Init, CursorInFrame
<1>5. SizesFit /\ RestFits /\ Fresh /\ rest <= offered
  BY <1>2 DEF Init, SizesFit, RestFits, Fresh
<1> QED BY <1>3, <1>4, <1>5 DEF CursorInv

\* WriteData and the left-over copy, the two steps that move the cursor.
LEMMA CursorWriteData ==
  ASSUME CursorInv, NEW n \in WriteSizes, WriteData(n)
  PROVE  CursorInv'
<1> DEFINE count == CutToFrame(n)
           written == SmallerOf(count, BufferSize - bufferOffset)
           end == bufferOffset + written
           base == frameIndex * frameSize
           total == FrameCount * frameSize
           full == end >= (frameIndex + 1) * frameSize \/ end = BufferSize
<1>1. /\ TypeOK /\ CursorInFrame /\ SizesFit /\ Fresh
      /\ frameSize \in Nat \ {0} /\ bufferOffset \in Nat /\ offered \in Nat
      /\ frameIndex \in 0 .. FrameCount - 1
      /\ n \in Nat \ {0}
  BY ConstantsAssumption DEF CursorInv, TypeOK, Frames, WriteData
<1>2. /\ base \in Nat /\ total \in Nat
      /\ (frameIndex + 1) * frameSize = base + frameSize
      /\ (frameIndex + 2) * frameSize = base + frameSize + frameSize
      /\ base + frameSize <= total
      /\ frameIndex + 1 = FrameCount => base + frameSize = total
      /\ frameIndex + 1 # FrameCount => base + frameSize + frameSize <= total
  BY <1>1, FrameBounds, ConstantsAssumption
<1>3. base <= bufferOffset /\ bufferOffset < base + frameSize
  BY <1>1, <1>2 DEF CursorInFrame
<1>4. BufferSize = total
  BY DEF BufferSize
<1>5. /\ pc = "Ready"
      /\ buffer' = Copied(bufferOffset, written, offered + 1)
      /\ bufferOffset' = IF end = total THEN 0 ELSE end
      /\ offered' = offered + count
      /\ rest' = count - written
      /\ IF full
         THEN /\ frameUsed' = [frameUsed EXCEPT ![frameIndex] = TRUE]
              /\ saveFrame' = frameIndex
              /\ saveSize' = frameSize
              /\ frameIndex' = NextFrame
              /\ pc' = IF count # written THEN "Rest" ELSE "Scan"
         ELSE /\ UNCHANGED <<frameUsed, saveFrame, saveSize, frameIndex>>
              /\ pc' = IF count # written THEN "Rest" ELSE "Ready"
      /\ UNCHANGED <<frameSize, disabled, sessions, scan, item, done, lost,
                     workerVars>>
  BY <1>4 DEF WriteData
<1>6. full <=> end >= base + frameSize \/ end = total
  BY <1>2, <1>4
<1>7. /\ count \in Nat \ {0} /\ count <= frameSize
  BY <1>1 DEF CutToFrame, SmallerOf
<1> HIDE DEF base, total, count, full
<1>8. /\ written \in Nat \ {0}
      /\ written <= count
      /\ end \in Nat
      /\ end <= total
      /\ written # count => end = total
  BY <1>1, <1>2, <1>3, <1>4, <1>7 DEF SmallerOf
<1> HIDE DEF written
<1>9. /\ frameIndex + 1 # FrameCount => NextFrame = frameIndex + 1
      /\ frameIndex + 1 = FrameCount => NextFrame = 0
      /\ NextFrame \in 0 .. FrameCount - 1
  BY <1>1, NextIndex, ConstantsAssumption DEF NextFrame
<1>10. full => \/ /\ frameIndex + 1 = FrameCount
                  /\ end = total
               \/ /\ frameIndex + 1 # FrameCount
                  /\ end # total
                  /\ base + frameSize <= end
                  /\ end < base + frameSize + frameSize
  BY <1>1, <1>2, <1>3, <1>6, <1>7, <1>8
<1>11. TypeOK'
  <2>1. buffer' \in [Offsets' -> Nat]
    <3>1. Copied(bufferOffset, written, offered + 1) \in [Offsets -> Nat]
      <4>1. written \in Nat /\ offered + 1 \in Nat
        BY <1>1, <1>8
      <4> QED BY <4>1, <1>1, CopiedType
    <3>2. Offsets' = Offsets
      BY <1>5 DEF Offsets, BufferSize
    <3> QED BY <3>1, <3>2, <1>5
  <2>2. /\ bufferOffset' \in Nat
        /\ offered' \in Nat
        /\ rest' \in Nat
    BY <1>1, <1>5, <1>7, <1>8
  <2>3. /\ frameIndex' \in Frames
        /\ frameUsed' \in [Frames -> BOOLEAN]
        /\ saveFrame' \in Frames
        /\ saveSize' \in Nat
        /\ pc' \in {"Rest", "Scan", "Ready"}
    BY <1>1, <1>5, <1>9 DEF TypeOK, Frames
  <2> QED BY <1>1, <1>5, <2>1, <2>2, <2>3 DEF TypeOK, workerVars
<1>12. CursorInFrame'
  <2>1. CASE full /\ frameIndex + 1 = FrameCount
    <3>1. bufferOffset' = 0 /\ frameIndex' = 0 /\ frameSize' = frameSize
      BY <2>1, <1>5, <1>9, <1>10
    <3>2. 0 * frameSize = 0 /\ (0 + 1) * frameSize = frameSize
      BY <1>1
    <3> QED BY <3>1, <3>2, <1>1 DEF CursorInFrame
  <2>2. CASE full /\ frameIndex + 1 # FrameCount
    <3>1. /\ bufferOffset' = end
          /\ frameIndex' = frameIndex + 1
          /\ frameSize' = frameSize
      BY <2>2, <1>5, <1>9, <1>10
    <3>2. (frameIndex + 1) + 1 = frameIndex + 2
      BY <1>1
    <3> QED BY <3>1, <3>2, <2>2, <1>2, <1>10 DEF CursorInFrame
  <2>3. CASE ~full
    <3>1. /\ bufferOffset' = end
          /\ frameIndex' = frameIndex
          /\ frameSize' = frameSize
      BY <2>3, <1>5, <1>6
    <3>2. base <= end /\ end < base + frameSize
      BY <2>3, <1>1, <1>2, <1>3, <1>6, <1>8
    <3> QED BY <3>1, <3>2, <1>2 DEF CursorInFrame, base
  <2> QED BY <2>1, <2>2, <2>3
<1>13. SizesFit'
  BY <1>1, <1>5 DEF SizesFit
<1>14. RestFits'
  <2> SUFFICES ASSUME pc' = "Rest"
               PROVE  bufferOffset' = 0 /\ frameIndex' = 0 /\ rest' < frameSize'
    BY DEF RestFits
  <2>1. written # count /\ end = total /\ full
    BY <1>5, <1>6, <1>8
  <2> QED BY <2>1, <1>1, <1>5, <1>7, <1>8, <1>9, <1>10
<1>15. Fresh' /\ rest' <= offered'
  BY <1>1, <1>5, <1>7, <1>8 DEF Fresh
<1> QED BY <1>11, <1>12, <1>13, <1>14, <1>15 DEF CursorInv

\* The left-over copy keeps the cursor invariant: what is left over is less
\* than a frame, so it ends in the frame after the wrap around.
LEMMA CursorWriteRest ==
  ASSUME CursorInv, WriteRest
  PROVE  CursorInv'
<1>1. /\ TypeOK /\ SizesFit /\ Fresh
      /\ frameSize \in Nat \ {0} /\ offered \in Nat /\ rest \in Nat
      /\ bufferOffset = 0 /\ frameIndex = 0 /\ rest < frameSize
  BY ConstantsAssumption DEF CursorInv, TypeOK, WriteRest, RestFits
<1>2. /\ pc = "Rest"
      /\ \/ /\ buffer' = Copied(bufferOffset, rest, offered - rest + 1)
            /\ bufferOffset' = rest
            /\ lost' = lost
         \/ /\ lost' = lost \union (offered - rest + 1 .. offered)
            /\ UNCHANGED <<buffer, bufferOffset>>
      /\ rest' = 0
      /\ pc' = "Scan"
      /\ UNCHANGED <<frameSize, frameIndex, frameUsed, disabled, offered,
                     sessions, item, done, saveVars, workerVars>>
  BY <1>1 DEF WriteRest
<1>3. rest <= offered
  BY DEF CursorInv
<1>4. TypeOK'
  <2>1. Offsets' = Offsets
    BY <1>2 DEF Offsets, BufferSize
  <2>2. buffer' \in [Offsets' -> Nat]
    <3>1. offered - rest + 1 \in Nat
      BY <1>1, <1>3
    <3>2. Copied(bufferOffset, rest, offered - rest + 1) \in [Offsets -> Nat]
      BY <3>1, <1>1, CopiedType
    <3> QED BY <3>2, <2>1, <1>1, <1>2 DEF TypeOK
  <2>3. lost' \subseteq Nat
    <3>1. offered - rest + 1 .. offered \subseteq Nat
      BY <1>1, <1>3
    <3> QED BY <3>1, <1>1, <1>2 DEF TypeOK
  <2> QED BY <2>2, <2>3, <1>1, <1>2 DEF TypeOK, saveVars, workerVars
<1>5. CursorInFrame'
  <2>1. 0 * frameSize = 0 /\ (0 + 1) * frameSize = frameSize
    BY <1>1
  <2> QED BY <2>1, <1>1, <1>2 DEF CursorInFrame
<1>6. SizesFit' /\ RestFits'
  BY <1>1, <1>2 DEF SizesFit, RestFits, saveVars
<1>7. Fresh' /\ rest' <= offered'
  BY <1>1, <1>2 DEF Fresh
<1> QED BY <1>4, <1>5, <1>6, <1>7 DEF CursorInv

\* Steps that leave the ring, the cursor and the left over alone.
CursorUnmoved ==
  UNCHANGED <<frameSize, bufferOffset, frameIndex, buffer, rest, sessions>>

\* Steps that leave the cursor and the ring alone keep the cursor invariant.
LEMMA CursorFrame ==
  ASSUME CursorInv, CursorUnmoved, offered <= offered', offered' \in Nat,
         pc' = "Rest" => pc = "Rest",
         sessions = 0 => pc' \in {"Stopped", "Destroyed"} /\ UNCHANGED <<saveSize, item>>
  PROVE  /\ frameSize' \in FrameSizes
         /\ bufferOffset' \in Nat
         /\ frameIndex' \in Frames
         /\ buffer' \in [Offsets' -> Nat]
         /\ rest' \in Nat
         /\ sessions' \in Nat
         /\ CursorInFrame' /\ RestFits' /\ Fresh' /\ rest' <= offered'
<1>1. TypeOK /\ CursorInFrame /\ RestFits /\ Fresh /\ rest <= offered
  BY DEF CursorInv
<1>2. /\ frameSize' \in FrameSizes
      /\ bufferOffset' \in Nat
      /\ frameIndex' \in Frames
      /\ rest' \in Nat
      /\ sessions' \in Nat
  BY <1>1 DEF CursorUnmoved, TypeOK
<1>3. buffer' \in [Offsets' -> Nat]
  <2>1. Offsets' = Offsets
    BY DEF CursorUnmoved, Offsets, BufferSize
  <2> QED BY <2>1, <1>1 DEF CursorUnmoved, TypeOK
<1>4. CursorInFrame'
  BY <1>1 DEF CursorUnmoved, CursorInFrame
<1>5. RestFits'
  BY <1>1 DEF CursorUnmoved, RestFits
<1>6. Fresh'
  BY <1>1 DEF CursorUnmoved, Fresh
<1>7. rest' <= offered'
  BY <1>1 DEF CursorUnmoved, TypeOK
<1> QED BY <1>2, <1>3, <1>4, <1>5, <1>6, <1>7

\* Every step of the stream keeps the cursor invariant.
LEMMA CursorStream ==
  ASSUME CursorInv, Stream
  PROVE  CursorInv'
<1> USE DEF streamVars, saveVars, workerVars
<1>0. TypeOK /\ CursorInFrame /\ SizesFit /\ RestFits /\ Fresh /\ rest <= offered
  BY DEF CursorInv
<1>a. /\ frameSize \in Nat \ {0} /\ bufferOffset \in Nat
      /\ frameIndex \in 0 .. FrameCount - 1 /\ offered \in Nat
  BY <1>0, ConstantsAssumption DEF TypeOK, Frames
<1>1. ASSUME NEW size \in FrameSizes, SetMaxWriteSize(size)
      PROVE  CursorInv'
  <2>1. /\ sessions = 0 /\ bufferOffset' = 0 /\ frameIndex' = 0 /\ pc = "Stopped"
        /\ saveSize' = 0 /\ \A i \in Items : item'[i].size = 0
        /\ frameSize' = size /\ size \in Nat \ {0}
        /\ UNCHANGED <<pc, rest, item, offered, sessions, saveSize>>
    BY <1>1, <1>0, ConstantsAssumption DEF SetMaxWriteSize, Fresh
  <2>2. buffer' \in [Offsets' -> Nat]
    BY <1>1, <2>1 DEF SetMaxWriteSize, Offsets, BufferSize
  <2>3. TypeOK'
    BY <1>1, <1>0, <2>1, <2>2 DEF SetMaxWriteSize, TypeOK
  <2>4. CursorInFrame'
    <3>1. 0 * size = 0 /\ (0 + 1) * size = size
      BY <2>1
    <3> QED BY <2>1, <3>1 DEF CursorInFrame
  <2>5. SizesFit' /\ RestFits' /\ Fresh'
    BY <2>1, <1>0 DEF SizesFit, RestFits, Fresh
  <2> QED BY <2>1, <2>3, <2>4, <2>5, <1>0 DEF CursorInv
<1>2. CASE LeaveStop
  <2>1. /\ UNCHANGED <<frameSize, bufferOffset, frameIndex, buffer, rest,
                       offered, saveSize, item>>
        /\ sessions' = sessions + 1 /\ sessions' \in Nat /\ pc' = "Ready"
    BY <1>2, <1>0 DEF LeaveStop, TypeOK
  <2>2. Offsets' = Offsets
    BY <2>1 DEF Offsets, BufferSize
  <2>3. TypeOK'
    BY <1>2, <1>0, <2>1, <2>2 DEF LeaveStop, TypeOK
  <2>4. CursorInFrame' /\ SizesFit' /\ RestFits'
    BY <1>0, <2>1 DEF CursorInFrame, SizesFit, RestFits
  <2>5. sessions' # 0
    BY <1>0, <2>1 DEF TypeOK
  <2> QED BY <1>0, <2>1, <2>3, <2>4, <2>5 DEF CursorInv, Fresh
<1>3. ASSUME NEW fDisable \in BOOLEAN, Disable(fDisable)
      PROVE  CursorInv'
  <2>1. CursorUnmoved /\ UNCHANGED <<offered, pc, saveSize, item>>
    BY <1>3 DEF Disable, CursorUnmoved
  <2>2. SizesFit'
    BY <1>0, <2>1 DEF SizesFit, CursorUnmoved
  <2> QED BY <1>3, <1>0, <1>a, <2>1, <2>2, CursorFrame
          DEF Disable, CursorInv, TypeOK, Fresh
<1>4. ASSUME NEW n \in WriteSizes, WriteDropped(n)
      PROVE  CursorInv'
  <2>1. /\ CursorUnmoved /\ UNCHANGED <<pc, saveSize, item>>
        /\ offered' = offered + n /\ n \in Nat /\ offered' \in Nat
        /\ sessions # 0
    BY <1>4, <1>0, <1>a, ConstantsAssumption
       DEF WriteDropped, CursorUnmoved, Fresh
  <2>2. SizesFit'
    BY <1>0, <2>1 DEF SizesFit, CursorUnmoved
  <2>3. lost' \subseteq Nat
    BY <1>4, <1>0, <1>a, <2>1 DEF WriteDropped, TypeOK
  <2>4. offered <= offered'
    BY <2>1, <1>a
  <2> QED BY <1>4, <1>0, <2>1, <2>2, <2>3, <2>4, CursorFrame
          DEF WriteDropped, CursorInv, TypeOK
<1>5. ASSUME NEW n \in WriteSizes, WriteData(n)
      PROVE  CursorInv'
  BY <1>5, CursorWriteData
<1>6. CASE WriteRest
  BY <1>6, CursorWriteRest
<1>7. CASE WaitAllWorkItems
  <2>1. /\ CursorUnmoved /\ UNCHANGED <<offered, item>>
        /\ pc' \in {"DrainScan", "Drain"} /\ sessions # 0
    BY <1>7, <1>0 DEF WaitAllWorkItems, CursorUnmoved, Fresh
  <2>2. saveSize' \in Nat /\ saveSize' <= frameSize /\ saveFrame' \in Frames
    <3>1. CASE PartialFrame
      <4> DEFINE base == frameIndex * frameSize
      <4>1. /\ base \in Nat /\ base < bufferOffset
            /\ bufferOffset < base + frameSize
        BY <3>1, <1>0, <1>a, FrameBounds, ConstantsAssumption
           DEF PartialFrame, CursorInFrame
      <4>2. saveSize' = bufferOffset - base /\ saveFrame' = frameIndex
        BY <3>1, <1>7 DEF WaitAllWorkItems, PartialSize
      <4> HIDE DEF base
      <4> QED BY <4>1, <4>2, <1>0, <1>a DEF TypeOK
    <3>2. CASE ~PartialFrame
      BY <3>2, <1>7, <1>0 DEF WaitAllWorkItems, TypeOK, SizesFit
    <3> QED BY <3>1, <3>2
  <2>3. SizesFit'
    BY <1>0, <2>1, <2>2 DEF SizesFit, CursorUnmoved
  <2> QED BY <1>7, <1>0, <1>a, <2>1, <2>2, <2>3, CursorFrame
          DEF WaitAllWorkItems, CursorInv, TypeOK
<1>8. CASE AllItemsDone \/ SkipItem \/ NoItem \/ Destroy
  <2>1. /\ CursorUnmoved /\ UNCHANGED <<offered, item, saveSize>>
        /\ pc' # "Rest" \/ pc' = pc
        /\ sessions = 0 => pc' \in {"Stopped", "Destroyed"}
    BY <1>8, <1>0
       DEF AllItemsDone, SkipItem, NoItem, Destroy, CursorUnmoved, Fresh,
           AfterSaveFrame
  <2>2. SizesFit'
    BY <1>0, <2>1 DEF SizesFit, CursorUnmoved
  <2>3. scan' \in 0 .. ItemCount
    BY <1>8, <1>0, ConstantsAssumption
       DEF AllItemsDone, SkipItem, NoItem, Destroy, PollCount, TypeOK
  <2>4. /\ frameSize' \in FrameSizes
        /\ bufferOffset' \in Nat
        /\ frameIndex' \in Frames
        /\ buffer' \in [Offsets' -> Nat]
        /\ rest' \in Nat
        /\ sessions' \in Nat
        /\ CursorInFrame' /\ RestFits' /\ Fresh' /\ rest' <= offered'
    BY <1>a, <2>1, CursorFrame DEF Fresh
  <2>5. lost' \in SUBSET Nat
    <3>1. {buffer[k] : k \in ToSave} \subseteq Nat
      BY <1>0 DEF ToSave, TypeOK
    <3> QED BY <3>1, <1>8, <1>0
            DEF AllItemsDone, SkipItem, NoItem, Destroy, TypeOK
  <2>6. /\ UNCHANGED <<frameUsed, disabled, saveFrame, saveSize, item, done>>
        /\ UNCHANGED workerVars
        /\ pc' \in {"Stopped", "Ready", "Drain", "Destroyed", pc}
        /\ offered' = offered
    BY <1>8 DEF AllItemsDone, SkipItem, NoItem, Destroy, AfterSaveFrame,
                streamVars
  <2>7. TypeOK'
    BY <1>0, <2>3, <2>4, <2>5, <2>6 DEF workerVars, TypeOK
  <2> QED BY <2>2, <2>4, <2>7 DEF CursorInv
<1>9. CASE TakeItem
  <2>1. /\ CursorUnmoved /\ UNCHANGED <<offered, saveSize>>
        /\ pc' \in {"Ready", "Drain"} /\ sessions # 0
        /\ scan \in Items
        /\ item' = [item EXCEPT ![scan] = [frame |-> saveFrame, size |-> saveSize]]
    BY <1>9, <1>0, ConstantsAssumption
       DEF TakeItem, CursorUnmoved, Fresh, AfterSaveFrame, PollCount, TypeOK, Items
  <2>2. item' \in [Items -> [frame : Frames, size : Nat]]
    BY <1>0, <2>1 DEF TypeOK
  <2>3. SizesFit'
    BY <1>0, <2>1 DEF SizesFit, CursorUnmoved, TypeOK
  <2>4. queue' \in Seq(Items) /\ scan' \in 0 .. ItemCount
    BY <1>9, <1>0, <2>1, ConstantsAssumption DEF TakeItem, TypeOK
  <2>5. /\ frameSize' \in FrameSizes
        /\ bufferOffset' \in Nat
        /\ frameIndex' \in Frames
        /\ buffer' \in [Offsets' -> Nat]
        /\ rest' \in Nat
        /\ sessions' \in Nat
        /\ CursorInFrame' /\ RestFits' /\ Fresh' /\ rest' <= offered'
    BY <1>a, <2>1, CursorFrame
  <2>6. TypeOK'
    BY <1>9, <1>0, <2>1, <2>2, <2>4, <2>5 DEF TakeItem, TypeOK
  <2> QED BY <2>3, <2>5, <2>6 DEF CursorInv
<1> QED BY <1>1, <1>2, <1>3, <1>4, <1>5, <1>6, <1>7, <1>8, <1>9 DEF Stream

\* Every step of a worker thread keeps the cursor invariant.
LEMMA CursorWorker ==
  ASSUME CursorInv, NEW w \in Workers, Worker(w)
  PROVE  CursorInv'
<1> USE DEF streamVars, saveVars
<1>0. TypeOK /\ SizesFit /\ Fresh
  BY DEF CursorInv
<1>1. CursorUnmoved /\ UNCHANGED <<offered, pc, item, saveSize>>
  BY DEF Worker, Dequeue, LockFile, WriteFrame, ReleaseFrame, SignalDone,
         CursorUnmoved
<1>2. offered \in Nat
  BY <1>0 DEF TypeOK
<1>3. /\ frameSize' \in FrameSizes
      /\ bufferOffset' \in Nat
      /\ frameIndex' \in Frames
      /\ buffer' \in [Offsets' -> Nat]
      /\ rest' \in Nat
      /\ sessions' \in Nat
      /\ CursorInFrame' /\ RestFits' /\ Fresh' /\ rest' <= offered'
  BY <1>0, <1>1, <1>2, CursorFrame DEF Fresh
<1>4. SizesFit'
  BY <1>0, <1>1 DEF SizesFit, CursorUnmoved
<1>5. ASSUME file' \in Seq(Nat), lost' \subseteq Nat, queue' \in Seq(Items),
             wpc' \in [Workers -> {"Idle", "Lock", "Write", "Release", "Signal"}],
             witem' \in [Workers -> Items], fileSync' \in 0 .. WorkerCount,
             frameUsed' \in [Frames -> BOOLEAN], done' \in [Items -> BOOLEAN],
             UNCHANGED <<disabled, saveFrame, scan>>
      PROVE  CursorInv'
  BY <1>0, <1>1, <1>3, <1>4, <1>5 DEF CursorInv, TypeOK
<1>6. CASE Dequeue(w)
  <2>1. Head(queue) \in Items /\ Tail(queue) \in Seq(Items)
    BY <1>6, <1>0 DEF Dequeue, TypeOK
  <2> QED BY <2>1, <1>0, <1>5, <1>6 DEF Dequeue, TypeOK
<1>7. CASE LockFile(w)
  BY <1>0, <1>5, <1>7, ConstantsAssumption DEF LockFile, TypeOK, Workers
<1>8. CASE WriteFrame(w)
  <2>1. witem[w] \in Items
    BY <1>0 DEF TypeOK
  <2>2. /\ FrameData(witem[w]) \in Seq(Nat)
        /\ \A k \in DOMAIN FrameData(witem[w]) : FrameData(witem[w])[k] \in Nat
    BY <1>0, <2>1, FrameDataType
  <2> DEFINE data == FrameData(witem[w])
  <2>3. \/ file' = file \o data /\ lost' = lost
        \/ file' = file /\ lost' = lost \union {data[k] : k \in DOMAIN data}
    BY <1>8 DEF WriteFrame
  <2>4. data \in Seq(Nat) /\ \A k \in DOMAIN data : data[k] \in Nat
    BY <2>2
  <2>5. file \in Seq(Nat) /\ lost \subseteq Nat
    BY <1>0 DEF TypeOK
  <2> HIDE DEF data
  <2>6. file' \in Seq(Nat)
    <3>1. file' = file \o data \/ file' = file
      BY <2>3, Zenon
    <3>2. file \o data \in Seq(Nat)
      BY <2>4, <2>5
    <3> QED BY <3>1, <3>2, <2>5, Zenon
  <2>7. lost' \subseteq Nat
    <3>1. {data[k] : k \in DOMAIN data} \subseteq Nat
      BY <2>4, Zenon
    <3> QED BY <3>1, <2>3, <2>5, Zenon
  <2> QED BY <2>6, <2>7, <1>0, <1>5, <1>8 DEF WriteFrame, TypeOK
<1>9. CASE ReleaseFrame(w)
  BY <1>0, <1>5, <1>9, ConstantsAssumption DEF ReleaseFrame, TypeOK
<1>10. CASE SignalDone(w)
  BY <1>0, <1>5, <1>10 DEF SignalDone, TypeOK
<1> QED BY <1>6, <1>7, <1>8, <1>9, <1>10 DEF Worker

\* Stuttering keeps the cursor invariant.
LEMMA CursorStutter ==
  ASSUME CursorInv, UNCHANGED vars
  PROVE  CursorInv'
<1>1. Offsets' = Offsets
  BY DEF vars, Offsets, BufferSize
<1> QED BY <1>1 DEF vars, CursorInv, TypeOK, CursorInFrame, SizesFit, RestFits, Fresh

\* The inductive invariant that types and cursor rest on.
THEOREM CursorInvariant == Spec => []CursorInv
<1>1. Init => CursorInv
  BY CursorInit
<1>2. CursorInv /\ [Next]_vars => CursorInv'
  BY CursorStream, CursorWorker, CursorStutter DEF Next
<1> QED BY <1>1, <1>2, PTL DEF Spec

\* Every variable keeps its type, whatever the constants are.
THEOREM TypeCorrect == Spec => []TypeOK
<1>1. CursorInv => TypeOK
  BY DEF CursorInv
<1> QED BY <1>1, CursorInvariant, PTL

\* The write cursor stays inside the current frame: WriteData never copies
\* past the ring and decides rightly when a frame is full, for every frame
\* count, frame size and sequence of write sizes.
THEOREM CursorCorrect == Spec => []CursorInFrame
<1>1. CursorInv => CursorInFrame
  BY DEF CursorInv
<1> QED BY <1>1, CursorInvariant, PTL

-----------------------------------------------------------------------------
(***************************************************************************)
(* Work items.                                                             *)
(***************************************************************************)

\* Each frame and each worker thread can keep one work item busy.
EnoughItems == FrameCount + WorkerCount <= ItemCount

\* While the stream runs, an item that has not released its frame is the only
\* one for that frame, and the frame about to be saved has no item yet.
FrameOneItem ==
  pc \in {"Ready", "Rest", "Scan"} =>
    /\ \A i \in Items : Unreleased(i) => frameUsed[item[i].frame]
    /\ \A i, j \in Items :
         Unreleased(i) /\ Unreleased(j) /\ item[i].frame = item[j].frame => i = j
    /\ pc # "Ready" =>
         /\ frameUsed[saveFrame]
         /\ \A i \in Items : Unreleased(i) => item[i].frame # saveFrame

\* GetNewWorkItem still has an item ahead of it that is done.
DoneAhead ==
  /\ pc \notin {"Scan", "DrainScan"} => scan = 0
  /\ pc = "Scan" => \E i \in Items : scan <= i /\ done[i]

StoppedDone == pc \in {"Stopped", "Destroyed"} => \A i \in Items : done[i]

ItemInv ==
  /\ ItemOwnedOnce
  /\ FrameOneItem
  /\ StoppedDone

\* What holds on top of it with enough work items.
ServedInv ==
  /\ DoneAhead
  /\ UsedFrameHasSave

\* What is queued after a work item is put at the end of the queue.
LEMMA QueueAppend ==
  ASSUME queue \in Seq(Items), NEW i \in Items, queue' = Append(queue, i)
  PROVE  /\ \A j \in Items : Queued(j)' <=> Queued(j) \/ j = i
         /\ /\ ~Queued(i)
            /\ \A k, l \in 1 .. Len(queue) : queue[k] = queue[l] => k = l
            => \A k, l \in 1 .. Len(queue') : queue'[k] = queue'[l] => k = l
<1>1. /\ Len(queue') = Len(queue) + 1
      /\ \A k \in 1 .. Len(queue) : queue'[k] = queue[k]
      /\ queue'[Len(queue) + 1] = i
      /\ Len(queue) \in Nat
  OBVIOUS
<1>2. 1 .. Len(queue') = (1 .. Len(queue)) \union {Len(queue) + 1}
  BY <1>1
<1> QED BY <1>1, <1>2 DEF Queued

\* What is queued after the first work item is taken off the queue.
LEMMA QueueTail ==
  ASSUME queue \in Seq(Items), queue # <<>>, queue' = Tail(queue),
         \A k, l \in 1 .. Len(queue) : queue[k] = queue[l] => k = l
  PROVE  /\ \A j \in Items : Queued(j)' <=> Queued(j) /\ j # Head(queue)
         /\ \A k, l \in 1 .. Len(queue') : queue'[k] = queue'[l] => k = l
         /\ Queued(Head(queue))
         /\ Head(queue) \in Items
<1>1. /\ Len(queue) \in Nat \ {0}
      /\ Len(queue') = Len(queue) - 1
      /\ \A k \in 1 .. Len(queue') : queue'[k] = queue[k + 1]
      /\ Head(queue) = queue[1]
      /\ Head(queue) \in Items
  OBVIOUS
<1>2. \A k \in 1 .. Len(queue') : k + 1 \in 1 .. Len(queue) /\ k + 1 # 1
  BY <1>1
<1>3. \A k \in 1 .. Len(queue) : k = 1 \/ (k - 1 \in 1 .. Len(queue') /\ (k - 1) + 1 = k)
  BY <1>1
<1>4. \A j \in Items : Queued(j)' <=> Queued(j) /\ j # Head(queue)
  <2> TAKE j \in Items
  <2>1. ASSUME Queued(j)' PROVE Queued(j) /\ j # Head(queue)
    <3>1. PICK k \in 1 .. Len(queue') : queue'[k] = j
      BY <2>1 DEF Queued
    <3>2. k + 1 \in 1 .. Len(queue) /\ k + 1 # 1 /\ queue[k + 1] = j
      BY <3>1, <1>1, <1>2
    <3> QED BY <3>2, <1>1 DEF Queued
  <2>2. ASSUME Queued(j), j # Head(queue) PROVE Queued(j)'
    <3>1. PICK k \in 1 .. Len(queue) : queue[k] = j
      BY <2>2 DEF Queued
    <3>2. k - 1 \in 1 .. Len(queue') /\ queue'[k - 1] = j
      BY <3>1, <2>2, <1>1, <1>3
    <3> QED BY <3>2 DEF Queued
  <2> QED BY <2>1, <2>2
<1>5. \A k, l \in 1 .. Len(queue') : queue'[k] = queue'[l] => k = l
  <2> TAKE k, l \in 1 .. Len(queue')
  <2> HAVE queue'[k] = queue'[l]
  <2>1. k + 1 = l + 1
    BY <1>1, <1>2
  <2> QED BY <2>1, <1>1
<1>6. Queued(Head(queue))
  BY <1>1 DEF Queued
<1> QED BY <1>1, <1>4, <1>5, <1>6

\* If some frame has no unreleased item and no frame has two, then not every
\* work item is busy: a busy item is that of a frame, or of a worker thread
\* that has released the frame and not yet signalled.
LEMMA SomeItemDone ==
  ASSUME EnoughItems, TypeOK, ItemOwnedOnce, NEW f \in Frames,
         \A i \in Items : Unreleased(i) => item[i].frame # f,
         \A i, j \in Items :
           Unreleased(i) /\ Unreleased(j) /\ item[i].frame = item[j].frame => i = j
  PROVE  \E i \in Items : done[i]
<1> SUFFICES ASSUME \A i \in Items : ~done[i]
             PROVE  FALSE
  OBVIOUS
<1> DEFINE Holder(i) == CHOOSE w \in Workers : wpc[w] = "Signal" /\ witem[w] = i
           S == -1 .. ItemCount - 1
           T == 0 .. FrameCount + WorkerCount - 1
           g == [i \in S |-> IF i = -1 THEN f
                             ELSE IF Unreleased(i) THEN item[i].frame
                             ELSE FrameCount + Holder(i) - 1]
<1>0. /\ FrameCount \in Nat /\ WorkerCount \in Nat /\ ItemCount \in Nat
      /\ f \in 0 .. FrameCount - 1
      /\ \A i \in S : i = -1 \/ i \in Items
  BY ConstantsAssumption DEF Frames, Items
<1>1. \A i \in Items : ~Unreleased(i) =>
        /\ Holder(i) \in Workers
        /\ wpc[Holder(i)] = "Signal"
        /\ witem[Holder(i)] = i
  <2> TAKE i \in Items
  <2> HAVE ~Unreleased(i)
  <2>1. Held(i)
    BY DEF ItemOwnedOnce, Unreleased, Unread
  <2>2. \E w \in Workers : wpc[w] = "Signal" /\ witem[w] = i
    BY <2>1 DEF Held, Unreleased, Unread, TypeOK
  <2> QED BY <2>2
<1>2. \A i \in Items : item[i].frame \in 0 .. FrameCount - 1
  BY DEF TypeOK, Frames
<1>3. g \in [S -> T]
  <2> SUFFICES ASSUME NEW i \in S PROVE g[i] \in T
    OBVIOUS
  <2>1. CASE i = -1
    BY <2>1, <1>0
  <2>2. CASE i # -1 /\ Unreleased(i)
    BY <2>2, <1>0, <1>2
  <2>3. CASE i # -1 /\ ~Unreleased(i)
    <3>1. Holder(i) \in 1 .. WorkerCount
      BY <2>3, <1>0, <1>1 DEF Workers
    <3>2. g[i] = FrameCount + Holder(i) - 1
      BY <2>3
    <3> HIDE DEF Holder, g
    <3> QED BY <3>1, <3>2, <1>0
  <2> QED BY <2>1, <2>2, <2>3
<1>4. /\ IsFiniteSet(S) /\ IsFiniteSet(T)
      /\ Cardinality(T) < Cardinality(S)
  <2> DEFINE last == ItemCount - 1
  <2>1. Cardinality(S) = ItemCount + 1 /\ IsFiniteSet(S)
    <3>1. -1 \in Int /\ last \in Int /\ ~(-1 > last) /\ last - (-1) + 1 = ItemCount + 1
      BY <1>0
    <3> HIDE DEF last
    <3>2. /\ IsFiniteSet(-1 .. last)
          /\ Cardinality(-1 .. last) = IF -1 > last THEN 0 ELSE last - (-1) + 1
      BY <3>1, FS_Interval
    <3> QED BY <3>1, <3>2 DEF last
  <2>2. Cardinality(T) = FrameCount + WorkerCount /\ IsFiniteSet(T)
    BY FS_Interval, <1>0
  <2> QED BY <2>1, <2>2, <1>0 DEF EnoughItems
<1> HIDE DEF S, T, g
<1>5. PICK x \in S, y \in S : x # y /\ g[x] = g[y]
  BY <1>3, <1>4, FS_PigeonHole
<1> QED
  <2>1. x # -1 \/ y # -1
    BY <1>5
  <2>2. \A i \in S : i # -1 =>
           /\ i \in Items
           /\ g[i] = IF Unreleased(i) THEN item[i].frame
                     ELSE FrameCount + Holder(i) - 1
    BY <1>0 DEF g, S
  <2>3. \A i \in S : i = -1 => g[i] = f
    BY DEF g
  <2>4. \A i \in Items : ~Unreleased(i) => Holder(i) \in 1 .. WorkerCount
    BY <1>1 DEF Workers
  <2>5. \A i, j \in Items :
          ~Unreleased(i) /\ ~Unreleased(j) /\ Holder(i) = Holder(j) => i = j
    BY <1>1
  <2> HIDE DEF Holder
  <2>6. CASE x = -1
    BY <2>6, <1>0, <1>2, <1>5, <2>1, <2>2, <2>3, <2>4
  <2>7. CASE y = -1
    BY <2>7, <1>0, <1>2, <1>5, <2>1, <2>2, <2>3, <2>4
  <2>8. CASE x # -1 /\ y # -1
    <3>1. CASE Unreleased(x) /\ Unreleased(y)
      BY <3>1, <2>8, <1>5, <2>2
    <3>2. CASE ~Unreleased(x) /\ ~Unreleased(y)
      BY <3>2, <2>8, <1>0, <1>5, <2>2, <2>4, <2>5
    <3>3. CASE Unreleased(x) /\ ~Unreleased(y)
      BY <3>3, <2>8, <1>0, <1>2, <1>5, <2>2, <2>4
    <3>4. CASE ~Unreleased(x) /\ Unreleased(y)
      BY <3>4, <2>8, <1>0, <1>2, <1>5, <2>2, <2>4
    <3> QED BY <3>1, <3>2, <3>3, <3>4
  <2> QED BY <2>6, <2>7, <2>8

\* The initial state satisfies the invariant of the work items.
LEMMA ItemInit == Init => ItemInv /\ ServedInv
<1> SUFFICES ASSUME Init PROVE ItemInv /\ ServedInv
  OBVIOUS
<1>1. \A i \in Items : ~Queued(i) /\ ~Held(i) /\ ~Unreleased(i) /\ done[i]
  BY DEF Init, Queued, Held, Unreleased, Unread
<1>2. ItemOwnedOnce
  BY <1>1 DEF Init, ItemOwnedOnce
<1> QED BY <1>1, <1>2
        DEF Init, ItemInv, ServedInv, FrameOneItem, DoneAhead, StoppedDone,
            UsedFrameHasSave

\* A done item is with nobody.
LEMMA DoneIsFree ==
  ASSUME ItemOwnedOnce, NEW i \in Items, done[i]
  PROVE  ~Queued(i) /\ ~Held(i) /\ ~Unreleased(i)
  BY DEF ItemOwnedOnce, Unreleased, Unread, Held

\* Steps that leave the work items alone.
ItemsUntouched == UNCHANGED <<item, done, queue, wpc, witem>>

\* Steps that leave the work items alone leave alone who has them.
LEMMA ItemFrame ==
  ASSUME ItemOwnedOnce, ItemsUntouched
  PROVE  /\ ItemOwnedOnce'
         /\ \A i \in Items : Unreleased(i)' <=> Unreleased(i)
<1>1. \A i \in Items : /\ Queued(i)' <=> Queued(i)
                       /\ Held(i)' <=> Held(i)
                       /\ Unreleased(i)' <=> Unreleased(i)
  BY DEF ItemsUntouched, Queued, Held, Unreleased, Unread
<1> QED BY <1>1 DEF ItemOwnedOnce, ItemsUntouched

\* Every step of the stream keeps the invariant of the work items.
LEMMA ItemStream ==
  ASSUME CursorInv, ItemInv, Stream
  PROVE  ItemInv' /\ (EnoughItems /\ ServedInv => ServedInv')
<1> USE DEF streamVars, saveVars, workerVars
<1>0. TypeOK /\ ItemOwnedOnce /\ FrameOneItem /\ StoppedDone
  BY DEF CursorInv, ItemInv
<1>1. CASE \/ \E size \in FrameSizes : SetMaxWriteSize(size)
           \/ \E fDisable \in BOOLEAN : Disable(fDisable)
           \/ \E n \in WriteSizes : WriteDropped(n)
           \/ Destroy
  <2>1. /\ ItemsUntouched /\ UNCHANGED <<frameUsed, saveFrame, scan>>
        /\ pc' = pc \/ (pc = "Stopped" /\ pc' = "Destroyed")
    BY <1>1 DEF SetMaxWriteSize, Disable, WriteDropped, Destroy, ItemsUntouched
  <2>2. ItemOwnedOnce' /\ \A i \in Items : Unreleased(i)' <=> Unreleased(i)
    BY <1>0, <2>1, ItemFrame
  <2>3. FrameOneItem'
    BY <1>0, <2>1, <2>2 DEF FrameOneItem, ItemsUntouched
  <2>4. StoppedDone'
    BY <1>0, <2>1 DEF StoppedDone, ItemsUntouched
  <2>5. ServedInv => ServedInv'
    BY <2>1, <2>2 DEF ServedInv, DoneAhead, UsedFrameHasSave, ItemsUntouched
  <2> QED BY <1>0, <2>1, <2>2, <2>3, <2>4, <2>5, ItemFrame DEF ItemInv
<1>2. CASE LeaveStop
  <2>1. /\ ItemsUntouched /\ UNCHANGED <<frameUsed, saveFrame, scan>>
        /\ pc = "Stopped" /\ pc' = "Ready"
    BY <1>2 DEF LeaveStop, ItemsUntouched
  <2>2. ItemOwnedOnce' /\ \A i \in Items : Unreleased(i)' <=> Unreleased(i)
    BY <1>0, <2>1, ItemFrame
  <2>3. \A i \in Items : ~Unreleased(i)
    BY <1>0, <2>1, DoneIsFree DEF StoppedDone
  <2>4. ServedInv => ServedInv'
    BY <2>1, <2>2 DEF ServedInv, DoneAhead, UsedFrameHasSave, ItemsUntouched
  <2> QED BY <1>0, <2>1, <2>2, <2>3, <2>4
          DEF ItemInv, FrameOneItem, StoppedDone
<1>3. ASSUME NEW n \in WriteSizes, WriteData(n)
      PROVE  ItemInv' /\ (EnoughItems /\ ServedInv => ServedInv')
  <2>1. /\ ItemsUntouched /\ scan' = scan /\ pc = "Ready"
        /\ ~frameUsed[frameIndex] /\ frameIndex \in Frames
        /\ \/ /\ frameUsed' = [frameUsed EXCEPT ![frameIndex] = TRUE]
              /\ saveFrame' = frameIndex
              /\ pc' \in {"Rest", "Scan"}
           \/ /\ UNCHANGED <<frameUsed, saveFrame>>
              /\ pc' = "Ready"
    <3> DEFINE count == CutToFrame(n)
               written == SmallerOf(count, BufferSize - bufferOffset)
               end == bufferOffset + written
               full == end >= (frameIndex + 1) * frameSize \/ end = BufferSize
    <3>1. /\ ItemsUntouched /\ scan' = scan /\ pc = "Ready"
          /\ ~frameUsed[frameIndex] /\ frameIndex \in Frames
      BY <1>3, <1>0 DEF WriteData, FrameAvailable, ItemsUntouched, TypeOK
    <3>2. IF full
          THEN /\ frameUsed' = [frameUsed EXCEPT ![frameIndex] = TRUE]
               /\ saveFrame' = frameIndex
               /\ pc' = IF count # written THEN "Rest" ELSE "Scan"
          ELSE /\ UNCHANGED <<frameUsed, saveFrame>>
               /\ pc' = IF count # written THEN "Rest" ELSE "Ready"
      BY <1>3 DEF WriteData
    <3>3. BufferSize \in Int /\ bufferOffset \in Int
      BY <1>0, ConstantsAssumption DEF BufferSize, TypeOK
    <3>4. count # written => end = BufferSize
      BY <3>3 DEF SmallerOf
    <3> HIDE DEF count, written, end
    <3> QED BY <3>1, <3>2, <3>4
  <2>2. ItemOwnedOnce' /\ \A i \in Items : Unreleased(i)' <=> Unreleased(i)
    BY <1>0, <2>1, ItemFrame
  <2>3. \A i \in Items : Unreleased(i) => item[i].frame # frameIndex
    BY <1>0, <2>1 DEF FrameOneItem
  <2>4. FrameOneItem'
    BY <1>0, <2>1, <2>2, <2>3 DEF FrameOneItem, ItemsUntouched, TypeOK
  <2>5. StoppedDone'
    BY <2>1 DEF StoppedDone
  <2>6. ASSUME EnoughItems, ServedInv PROVE ServedInv'
    <3>1. \E i \in Items : done[i]
      BY <1>0, <2>1, <2>3, <2>6, SomeItemDone DEF FrameOneItem
    <3>2. DoneAhead'
      BY <2>1, <2>6, <3>1 DEF ServedInv, DoneAhead, ItemsUntouched, Items
    <3>3. UsedFrameHasSave'
      BY <1>0, <2>1, <2>2, <2>6
         DEF ServedInv, UsedFrameHasSave, ItemsUntouched, TypeOK
    <3> QED BY <3>2, <3>3 DEF ServedInv
  <2> QED BY <2>2, <2>4, <2>5, <2>6 DEF ItemInv
<1>4. CASE WriteRest
  <2>1. /\ ItemsUntouched /\ UNCHANGED <<frameUsed, saveFrame, scan>>
        /\ pc = "Rest" /\ pc' = "Scan"
    BY <1>4 DEF WriteRest, ItemsUntouched
  <2>2. ItemOwnedOnce' /\ \A i \in Items : Unreleased(i)' <=> Unreleased(i)
    BY <1>0, <2>1, ItemFrame
  <2>3. FrameOneItem'
    BY <1>0, <2>1, <2>2 DEF FrameOneItem, ItemsUntouched
  <2>4. StoppedDone'
    BY <2>1 DEF StoppedDone
  <2>5. ASSUME EnoughItems, ServedInv PROVE ServedInv'
    <3>1. \E i \in Items : done[i]
      BY <1>0, <2>1, <2>5, SomeItemDone DEF FrameOneItem, TypeOK
    <3>2. DoneAhead'
      BY <2>1, <2>5, <3>1 DEF ServedInv, DoneAhead, ItemsUntouched, Items
    <3>3. UsedFrameHasSave'
      BY <2>1, <2>2, <2>5 DEF ServedInv, UsedFrameHasSave, ItemsUntouched
    <3> QED BY <3>2, <3>3 DEF ServedInv
  <2> QED BY <2>2, <2>3, <2>4, <2>5 DEF ItemInv
<1>5. CASE WaitAllWorkItems \/ AllItemsDone \/ NoItem
  <2>1. /\ ItemsUntouched /\ UNCHANGED frameUsed
        /\ pc # "Rest"
        /\ \/ pc = "Scan" /\ pc' = "Ready" /\ NoItem
           \/ pc # "Scan" /\ pc' \in {"DrainScan", "Drain", "Stopped"}
        /\ pc' # "DrainScan" => scan' = 0 \/ (scan' = scan /\ pc \in {"Ready", "Drain"})
        /\ pc' = "Stopped" => \A i \in Items : done[i]
    BY <1>5 DEF WaitAllWorkItems, AllItemsDone, NoItem, ItemsUntouched,
                Awaited, AfterSaveFrame
  <2>2. ItemOwnedOnce' /\ \A i \in Items : Unreleased(i)' <=> Unreleased(i)
    BY <1>0, <2>1, ItemFrame
  <2>3. FrameOneItem' /\ StoppedDone'
    BY <1>0, <2>1, <2>2 DEF FrameOneItem, StoppedDone, ItemsUntouched
  <2>4. ASSUME ServedInv PROVE ServedInv'
    <3>1. ~(pc = "Scan" /\ NoItem)
      BY <2>4, ConstantsAssumption
         DEF ServedInv, DoneAhead, NoItem, PollCount, Items
    <3>2. DoneAhead'
      BY <2>1, <2>4, <3>1 DEF ServedInv, DoneAhead
    <3>3. UsedFrameHasSave'
      BY <2>1, <2>2, <2>4, <3>1 DEF ServedInv, UsedFrameHasSave, ItemsUntouched
    <3> QED BY <3>2, <3>3 DEF ServedInv
  <2> QED BY <2>2, <2>3, <2>4 DEF ItemInv
<1>6. CASE SkipItem
  <2>1. /\ ItemsUntouched /\ UNCHANGED <<frameUsed, saveFrame, pc>>
        /\ scan' = scan + 1 /\ scan \in Nat /\ ~done[scan]
        /\ pc \in {"Scan", "DrainScan"}
    BY <1>0, <1>6 DEF SkipItem, ItemsUntouched, ItemDone, TypeOK
  <2>2. ItemOwnedOnce' /\ \A i \in Items : Unreleased(i)' <=> Unreleased(i)
    BY <1>0, <2>1, ItemFrame
  <2>3. FrameOneItem' /\ StoppedDone'
    BY <1>0, <2>1, <2>2 DEF FrameOneItem, StoppedDone, ItemsUntouched
  <2>4. ASSUME ServedInv PROVE ServedInv'
    <3>1. DoneAhead'
      <4> SUFFICES ASSUME pc = "Scan"
                   PROVE  \E i \in Items : scan + 1 <= i /\ done[i]
        BY <2>1 DEF DoneAhead, ItemsUntouched
      <4>1. PICK i \in Items : scan <= i /\ done[i]
        BY <2>4 DEF ServedInv, DoneAhead
      <4>2. scan + 1 <= i
        BY <4>1, <2>1 DEF Items
      <4> QED BY <4>1, <4>2
    <3>2. UsedFrameHasSave'
      BY <2>1, <2>2, <2>4 DEF ServedInv, UsedFrameHasSave, ItemsUntouched
    <3> QED BY <3>1, <3>2 DEF ServedInv
  <2> QED BY <2>2, <2>3, <2>4 DEF ItemInv
<1>7. CASE TakeItem
  <2>1. /\ scan \in Items /\ done[scan]
        /\ done' = [done EXCEPT ![scan] = FALSE]
        /\ item' = [item EXCEPT ![scan] = [frame |-> saveFrame, size |-> saveSize]]
        /\ queue' = Append(queue, scan)
        /\ scan' = 0
        /\ \/ pc = "Scan" /\ pc' = "Ready"
           \/ pc = "DrainScan" /\ pc' = "Drain"
        /\ UNCHANGED <<frameUsed, wpc, witem>>
    BY <1>0, <1>7, ConstantsAssumption
       DEF TakeItem, AfterSaveFrame, PollCount, ItemDone, TypeOK, Items
  <2>2. ~Queued(scan) /\ ~Held(scan) /\ ~Unreleased(scan)
    BY <1>0, <2>1, DoneIsFree
  <2>3. queue \in Seq(Items) /\ done \in [Items -> BOOLEAN]
        /\ item \in [Items -> [frame : Frames, size : Nat]]
    BY <1>0 DEF TypeOK
  <2>4. /\ \A i \in Items : Queued(i)' <=> Queued(i) \/ i = scan
        /\ \A k, l \in 1 .. Len(queue') : queue'[k] = queue'[l] => k = l
    BY <1>0, <2>1, <2>2, <2>3, QueueAppend DEF ItemOwnedOnce
  <2>5. \A i \in Items : /\ Held(i)' <=> Held(i)
                         /\ Unreleased(i)' <=> Unreleased(i) \/ i = scan
    BY <2>1, <2>4 DEF Held, Unreleased, Unread
  <2>6. \A i \in Items : i # scan => done'[i] = done[i] /\ item'[i] = item[i]
    BY <2>1, <2>3
  <2>7. ~done'[scan] /\ item'[scan].frame = saveFrame
    BY <2>1, <2>3
  <2>8. ItemOwnedOnce'
    <3>1. \A i \in Items : ~done'[i] <=> Queued(i)' \/ Held(i)'
      BY <1>0, <2>4, <2>5, <2>6, <2>7 DEF ItemOwnedOnce
    <3>2. \A i \in Items : ~(Queued(i)' /\ Held(i)')
      BY <1>0, <2>2, <2>4, <2>5 DEF ItemOwnedOnce
    <3> QED BY <1>0, <2>1, <2>4, <3>1, <3>2 DEF ItemOwnedOnce
  <2>9. FrameOneItem'
    <3> SUFFICES ASSUME pc = "Scan", pc' = "Ready"
                 PROVE  FrameOneItem'
      BY <2>1 DEF FrameOneItem
    <3>1. \A i \in Items : Unreleased(i)' => frameUsed'[item'[i].frame]
      BY <1>0, <2>1, <2>5, <2>6, <2>7 DEF FrameOneItem
    <3>2. \A i, j \in Items :
            Unreleased(i)' /\ Unreleased(j)' /\ item'[i].frame = item'[j].frame
              => i = j
      BY <1>0, <2>2, <2>5, <2>6, <2>7 DEF FrameOneItem
    <3> QED BY <3>1, <3>2 DEF FrameOneItem
  <2>10. StoppedDone' /\ DoneAhead'
    BY <2>1 DEF DoneAhead, StoppedDone
  <2>11. ServedInv => UsedFrameHasSave'
    <3> SUFFICES ASSUME ServedInv, NEW f \in Frames, frameUsed[f]
                 PROVE  \E i \in Items : Unreleased(i)' /\ item'[i].frame = f
      BY <2>1 DEF UsedFrameHasSave
    <3>1. CASE saveFrame = f
      BY <3>1, <2>1, <2>5, <2>7
    <3>2. CASE saveFrame # f
      <4>1. PICK i \in Items : Unreleased(i) /\ item[i].frame = f
        BY <3>2, <2>1 DEF ServedInv, UsedFrameHasSave
      <4> QED BY <4>1, <2>2, <2>5, <2>6
    <3> QED BY <3>1, <3>2
  <2> QED BY <2>8, <2>9, <2>10, <2>11 DEF ItemInv, ServedInv
<1> QED BY <1>1, <1>2, <1>3, <1>4, <1>5, <1>6, <1>7 DEF Stream

\* Every step of a worker thread keeps the invariant of the work items.
LEMMA ItemWorker ==
  ASSUME CursorInv, ItemInv, NEW w \in Workers, Worker(w)
  PROVE  ItemInv' /\ (EnoughItems /\ ServedInv => ServedInv')
<1> USE DEF streamVars, saveVars
<1>0. TypeOK /\ ItemOwnedOnce /\ FrameOneItem /\ StoppedDone
  BY DEF CursorInv, ItemInv
<1>1. UNCHANGED <<pc, item, saveFrame, scan>>
  BY DEF Worker, Dequeue, LockFile, WriteFrame, ReleaseFrame, SignalDone
<1>2. witem[w] \in Items
  BY <1>0 DEF TypeOK
<1>3. CASE Dequeue(w)
  <2>1. /\ queue # <<>> /\ queue \in Seq(Items) /\ wpc[w] = "Idle"
        /\ queue' = Tail(queue)
        /\ witem' = [witem EXCEPT ![w] = Head(queue)]
        /\ wpc' = [wpc EXCEPT ![w] = "Lock"]
        /\ UNCHANGED <<frameUsed, done>>
    BY <1>0, <1>3 DEF Dequeue, TypeOK
  <2>2. /\ \A j \in Items : Queued(j)' <=> Queued(j) /\ j # Head(queue)
        /\ \A k, l \in 1 .. Len(queue') : queue'[k] = queue'[l] => k = l
        /\ Queued(Head(queue))
        /\ Head(queue) \in Items
    BY <1>0, <2>1, QueueTail DEF ItemOwnedOnce
  <2>3. /\ wpc'[w] = "Lock" /\ witem'[w] = Head(queue)
        /\ \A v \in Workers : v # w => wpc'[v] = wpc[v] /\ witem'[v] = witem[v]
    BY <1>0, <2>1 DEF TypeOK
  <2>4. ~Held(Head(queue))
    BY <1>0, <2>2 DEF ItemOwnedOnce
  <2>5. \A j \in Items : Held(j)' <=> Held(j) \/ j = Head(queue)
    BY <2>1, <2>3 DEF Held
  <2>6. \A j \in Items : Unreleased(j)' <=> Unreleased(j)
    BY <2>1, <2>2, <2>3 DEF Unreleased, Unread
  <2>7. ItemOwnedOnce'
    <3>1. \A j \in Items : /\ ~done'[j] <=> Queued(j)' \/ Held(j)'
                           /\ ~(Queued(j)' /\ Held(j)')
      BY <1>0, <2>1, <2>2, <2>4, <2>5 DEF ItemOwnedOnce
    <3>2. \A u, v \in Workers :
            wpc'[u] # "Idle" /\ wpc'[v] # "Idle" /\ witem'[u] = witem'[v] => u = v
      BY <1>0, <2>3, <2>4 DEF ItemOwnedOnce, Held
    <3> QED BY <2>2, <3>1, <3>2 DEF ItemOwnedOnce
  <2> QED BY <1>0, <1>1, <2>1, <2>6, <2>7
          DEF ItemInv, ServedInv, FrameOneItem, DoneAhead, StoppedDone,
              UsedFrameHasSave
<1>4. CASE LockFile(w) \/ WriteFrame(w)
  <2>1. /\ wpc[w] \in {"Lock", "Write"}
        /\ wpc'[w] \in {"Write", "Release"}
        /\ \A v \in Workers : v # w => wpc'[v] = wpc[v]
        /\ UNCHANGED <<frameUsed, done, queue, witem>>
    BY <1>0, <1>4 DEF LockFile, WriteFrame, TypeOK
  <2>2. \A v \in Workers : wpc'[v] # "Idle" <=> wpc[v] # "Idle"
    BY <2>1
  <2>3. \A j \in Items : /\ Queued(j)' <=> Queued(j)
                         /\ Held(j)' <=> Held(j)
    BY <2>1, <2>2 DEF Queued, Held
  <2>4. \A j \in Items : Unreleased(j)' <=> Unreleased(j)
    BY <2>1, <2>3 DEF Unreleased, Unread
  <2>5. ItemOwnedOnce'
    BY <1>0, <2>1, <2>2, <2>3 DEF ItemOwnedOnce
  <2> QED BY <1>0, <1>1, <2>1, <2>4, <2>5
          DEF ItemInv, ServedInv, FrameOneItem, DoneAhead, StoppedDone,
              UsedFrameHasSave
<1>5. CASE ReleaseFrame(w)
  <2> DEFINE f == item[witem[w]].frame
  <2>1. /\ wpc[w] = "Release" /\ wpc'[w] = "Signal"
        /\ \A v \in Workers : v # w => wpc'[v] = wpc[v]
        /\ f \in Frames
        /\ frameUsed' = [frameUsed EXCEPT ![f] = FALSE]
        /\ UNCHANGED <<done, queue, witem>>
    BY <1>0, <1>2, <1>5 DEF ReleaseFrame, TypeOK
  <2>2. \A v \in Workers : wpc'[v] # "Idle" <=> wpc[v] # "Idle"
    BY <2>1
  <2>3. \A j \in Items : /\ Queued(j)' <=> Queued(j)
                         /\ Held(j)' <=> Held(j)
    BY <2>1, <2>2 DEF Queued, Held
  <2>4. Held(witem[w]) /\ ~Queued(witem[w])
    BY <1>0, <1>2, <2>1 DEF Held, ItemOwnedOnce
  <2>5. Unreleased(witem[w])
    BY <2>1 DEF Unreleased
  <2>6. \A j \in Items : Unreleased(j)' <=> Unreleased(j) /\ j # witem[w]
    <3>1. \A v \in Workers : wpc[v] # "Idle" /\ witem[v] = witem[w] => v = w
      BY <1>0, <2>1 DEF ItemOwnedOnce
    <3> QED BY <2>1, <2>3, <2>4, <3>1 DEF Unreleased, Unread
  <2>7. ItemOwnedOnce'
    BY <1>0, <2>1, <2>2, <2>3 DEF ItemOwnedOnce
  <2>8. FrameOneItem'
    <3> SUFFICES ASSUME pc \in {"Ready", "Rest", "Scan"}
                 PROVE  FrameOneItem'
      BY <1>1 DEF FrameOneItem
    <3>1. \A i \in Items : Unreleased(i)' => frameUsed'[item'[i].frame]
      <4> SUFFICES ASSUME NEW i \in Items, Unreleased(i), i # witem[w]
                   PROVE  frameUsed'[item[i].frame]
        BY <1>1, <2>6
      <4>1. frameUsed[item[i].frame] /\ item[i].frame # f
        BY <1>0, <1>2, <2>5 DEF FrameOneItem
      <4> QED BY <4>1, <1>0, <2>1 DEF TypeOK
    <3>2. pc # "Ready" => frameUsed'[saveFrame']
      BY <1>0, <1>1, <1>2, <2>1, <2>5 DEF FrameOneItem, TypeOK
    <3> QED BY <1>0, <1>1, <2>6, <3>1, <3>2 DEF FrameOneItem
  <2>9. ServedInv => UsedFrameHasSave'
    <3> SUFFICES ASSUME ServedInv, NEW g \in Frames, frameUsed'[g]
                 PROVE  \/ pc \in {"Rest", "Scan"} /\ saveFrame = g
                        \/ \E i \in Items : Unreleased(i)' /\ item[i].frame = g
      BY <1>1 DEF UsedFrameHasSave
    <3>1. frameUsed[g] /\ g # f
      BY <1>0, <2>1 DEF TypeOK
    <3> QED BY <3>1, <1>0, <2>6 DEF ServedInv, UsedFrameHasSave
  <2>10. StoppedDone' /\ (DoneAhead => DoneAhead')
    BY <1>0, <1>1, <2>1 DEF DoneAhead, StoppedDone
  <2> QED BY <2>7, <2>8, <2>9, <2>10 DEF ItemInv, ServedInv
<1>6. CASE SignalDone(w)
  <2>1. /\ wpc[w] = "Signal" /\ wpc'[w] = "Idle"
        /\ \A v \in Workers : v # w => wpc'[v] = wpc[v]
        /\ done'[witem[w]]
        /\ \A i \in Items : i # witem[w] => done'[i] = done[i]
        /\ UNCHANGED <<frameUsed, queue, witem>>
    BY <1>0, <1>2, <1>6 DEF SignalDone, TypeOK
  <2>2. \A v \in Workers : wpc[v] # "Idle" /\ witem[v] = witem[w] => v = w
    BY <1>0, <2>1 DEF ItemOwnedOnce
  <2>3. ~Queued(witem[w]) /\ Held(witem[w])
    BY <1>0, <1>2, <2>1 DEF Held, ItemOwnedOnce
  <2>4. \A j \in Items : /\ Queued(j)' <=> Queued(j)
                         /\ Held(j)' <=> Held(j) /\ j # witem[w]
    BY <2>1, <2>2 DEF Queued, Held
  <2>5. \A j \in Items : Unreleased(j)' <=> Unreleased(j)
    BY <2>1, <2>4 DEF Unreleased, Unread
  <2>6. ItemOwnedOnce'
    <3>1. \A j \in Items : /\ ~done'[j] <=> Queued(j)' \/ Held(j)'
                           /\ ~(Queued(j)' /\ Held(j)')
      BY <1>0, <2>1, <2>3, <2>4 DEF ItemOwnedOnce
    <3>2. \A u, v \in Workers :
            wpc'[u] # "Idle" /\ wpc'[v] # "Idle" /\ witem'[u] = witem'[v] => u = v
      BY <1>0, <2>1 DEF ItemOwnedOnce
    <3> QED BY <1>0, <2>1, <3>1, <3>2 DEF ItemOwnedOnce
  <2>7. StoppedDone' /\ (DoneAhead => DoneAhead')
    BY <1>0, <1>1, <2>1 DEF DoneAhead, StoppedDone
  <2> QED BY <1>0, <1>1, <2>1, <2>5, <2>6, <2>7
          DEF ItemInv, ServedInv, FrameOneItem, UsedFrameHasSave
<1> QED BY <1>3, <1>4, <1>5, <1>6 DEF Worker

\* Every step keeps both.
LEMMA ItemNext ==
  ASSUME CursorInv, ItemInv, [Next]_vars
  PROVE  ItemInv' /\ (EnoughItems /\ ServedInv => ServedInv')
<1>1. CASE Stream
  BY <1>1, ItemStream
<1>2. CASE \E w \in Workers : Worker(w)
  BY <1>2, ItemWorker
<1>3. CASE UNCHANGED vars
  <2>1. ItemsUntouched /\ UNCHANGED <<pc, frameUsed, saveFrame, scan>>
    BY <1>3 DEF vars, ItemsUntouched
  <2>2. ItemOwnedOnce' /\ \A i \in Items : Unreleased(i)' <=> Unreleased(i)
    BY <2>1, ItemFrame DEF ItemInv
  <2> QED BY <2>1, <2>2
          DEF ItemInv, ServedInv, FrameOneItem, DoneAhead, StoppedDone,
              UsedFrameHasSave, ItemsUntouched
<1> QED BY <1>1, <1>2, <1>3 DEF Next

\* The inductive invariant of the work items.
THEOREM ItemInvariant == Spec => []ItemInv
<1>1. Init => ItemInv
  BY ItemInit
<1>2. CursorInv /\ ItemInv /\ [Next]_vars => ItemInv'
  BY ItemNext
<1> QED BY <1>1, <1>2, CursorInvariant, PTL DEF Spec

\* And with enough work items.
LEMMA ServedInvariant == ASSUME EnoughItems PROVE Spec => []ServedInv
<1>1. Init => ServedInv
  BY ItemInit
<1>2. CursorInv /\ ItemInv /\ ServedInv /\ [Next]_vars => ServedInv'
  BY ItemNext
<1> QED BY <1>1, <1>2, CursorInvariant, ItemInvariant, PTL DEF Spec

\* With a work item for each frame and each worker thread, no frame's flag is
\* ever left set for good: SaveFrame always finds a work item for a full frame.
THEOREM UsedFrameSaved == ASSUME EnoughItems PROVE Spec => []UsedFrameHasSave
<1>1. ServedInv => UsedFrameHasSave
  BY DEF ServedInv
<1> QED BY <1>1, ServedInvariant, PTL

\* No work item is ever queued twice, and its event tells whether it is busy,
\* however many worker threads there are.
THEOREM ItemsOwnedOnce == Spec => []ItemOwnedOnce
<1>1. ItemInv => ItemOwnedOnce
  BY DEF ItemInv
<1> QED BY <1>1, ItemInvariant, PTL

\* After the stop transition no work item is queued or running and no frame is
\* in use, so that ~CSaveData may free them.
THEOREM StoppedQuiet == ASSUME EnoughItems PROVE Spec => []StoppedIsQuiescent
<1>1. CursorInv /\ ItemInv /\ ServedInv => StoppedIsQuiescent
  <2> SUFFICES ASSUME CursorInv, ItemInv, ServedInv,
                      pc \in {"Stopped", "Destroyed"}
               PROVE  /\ queue = <<>>
                      /\ \A w \in Workers : wpc[w] = "Idle"
                      /\ \A f \in Frames : ~frameUsed[f]
    BY DEF StoppedIsQuiescent
  <2>1. \A i \in Items : ~Queued(i) /\ ~Held(i) /\ ~Unreleased(i)
    BY DoneIsFree DEF ItemInv, StoppedDone
  <2>2. queue = <<>>
    <3>1. queue \in Seq(Items)
      BY DEF CursorInv, TypeOK
    <3>2. SUFFICES ASSUME queue # <<>> PROVE FALSE
      OBVIOUS
    <3>3. 1 \in 1 .. Len(queue) /\ queue[1] \in Items
      BY <3>1, <3>2
    <3> QED BY <2>1, <3>3 DEF Queued
  <2>3. \A w \in Workers : wpc[w] = "Idle"
    BY <2>1 DEF Held, CursorInv, TypeOK
  <2>4. \A f \in Frames : ~frameUsed[f]
    BY <2>1 DEF ServedInv, UsedFrameHasSave
  <2> QED BY <2>2, <2>3, <2>4
<1> QED BY <1>1, ItemInvariant, ServedInvariant, CursorInvariant, PTL

-----------------------------------------------------------------------------
(***************************************************************************)
(* The bytes in the ring and in the file.                                  *)
(***************************************************************************)

\* Offset k is among the first n of frame f.
InPart(k, f, n) == f * frameSize <= k /\ k < f * frameSize + n

\* Offset k is in the current frame, before the write cursor.
InCurrent(k) == frameIndex * frameSize <= k /\ k < bufferOffset

\* The offsets that hold bytes still to be written to the file.
Live ==
  {k \in Offsets :
     \/ \E i \in Items : Unread(i) /\ InPart(k, item[i].frame, item[i].size)
     \/ pc \in {"Rest", "Scan", "DrainScan"} /\ InPart(k, saveFrame, saveSize)
     \/ pc \in {"Ready", "Rest", "Scan"} /\ InCurrent(k)}

\* A partly filled current frame is not in use.
PartialFree == bufferOffset > frameIndex * frameSize => ~frameUsed[frameIndex]

\* No two saves under way are of one frame, in the stop transition either.
PartsApart ==
  /\ \A i, j \in Items :
       Unread(i) /\ Unread(j) /\ item[i].frame = item[j].frame => i = j
  /\ pc \in {"Rest", "Scan", "DrainScan"} =>
       \A i \in Items : Unread(i) => item[i].frame # saveFrame

\* Nothing empty is saved.
NonEmpty ==
  /\ \A i \in Items : Unread(i) => item[i].size > 0
  /\ pc \in {"Rest", "Scan", "DrainScan"} => saveSize > 0

PartInv ==
  /\ sessions = 0 => offered = 0
  /\ pc # "Rest" => rest = 0
  /\ PartialFree
  /\ PartsApart
  /\ NonEmpty

\* No byte has a number that was not given out.
Numbered ==
  /\ \A k \in Offsets : buffer[k] <= offered - rest
  /\ \A j \in 1 .. Len(file) : file[j] <= offered - rest

InFile(n) == \E j \in 1 .. Len(file) : file[j] = n

\* Every byte that was written is in the file, is still to be, or is lost.
Accounted ==
  \A n \in 1 .. offered - rest :
    n \in lost \/ InFile(n) \/ \E k \in Live : buffer[k] = n

\* No byte is at two offsets that count.
Distinct ==
  \A k, l \in Offsets :
    /\ k \in Live \/ InCurrent(k)
    /\ l \in Live \/ InCurrent(l)
    /\ buffer[k] = buffer[l]
    => k = l

\* Before a restart no byte in the file is there twice or will be again.
Once ==
  sessions <= 1 =>
    /\ SavedOnce
    /\ \A k \in Live : ~InFile(buffer[k])

BytesInv == Numbered /\ Accounted /\ Distinct /\ Once

\* The frame an offset is in.
LEMMA DivFrame ==
  ASSUME NEW F \in Nat \ {0}, NEW f \in Nat, NEW k \in Nat,
         f * F <= k, k < f * F + F
  PROVE  k \div F = f
<1> DEFINE q == k \div F
           r == k % F
<1>1. q \in Nat /\ r \in 0 .. F - 1 /\ k = q * F + r
  <2>1. q \in Nat
    OBVIOUS
  <2>2. r \in 0 .. F - 1
    OBVIOUS
  <2>3. k = q * F + r
    BY SMTT(30)
  <2> QED BY <2>1, <2>2, <2>3
<1> HIDE DEF q, r
<1>2. \A a, b \in Nat : a + 1 <= b => a * F + F <= b * F
  <2> SUFFICES ASSUME NEW a \in Nat, NEW b \in Nat, a + 1 <= b
               PROVE  a * F + F <= b * F
    OBVIOUS
  <2>1. (a + 1) * F = a * F + F
    OBVIOUS
  <2>2. (a + 1) * F <= b * F
    OBVIOUS
  <2> QED BY <2>1, <2>2
<1>3. q * F \in Nat /\ f * F \in Nat
  BY <1>1
<1>4. ~(q + 1 <= f)
  BY <1>1, <1>2, <1>3
<1>5. ~(f + 1 <= q)
  BY <1>1, <1>2, <1>3
<1>6. q = f
  BY <1>1, <1>4, <1>5
<1> QED BY <1>6 DEF q

\* An offset is in a part of one frame only.
LEMMA PartFrame ==
  ASSUME CursorInv, NEW k \in Offsets
  PROVE  /\ \A f, n \in Nat : n <= frameSize /\ InPart(k, f, n) =>
              k \div frameSize = f
         /\ InCurrent(k) => k \div frameSize = frameIndex
<1>1. /\ frameSize \in Nat \ {0} /\ frameIndex \in Nat /\ bufferOffset \in Nat
      /\ k \in Nat
  BY ConstantsAssumption DEF CursorInv, TypeOK, Frames, Offsets, BufferSize
<1>2. ASSUME NEW f \in Nat, NEW n \in Nat, n <= frameSize, InPart(k, f, n)
      PROVE  k \div frameSize = f
  <2>1. f * frameSize \in Nat
    BY <1>1
  <2>2. f * frameSize <= k /\ k < f * frameSize + frameSize
    BY <1>1, <1>2, <2>1 DEF InPart
  <2> QED BY <1>1, <2>2, DivFrame
<1>3. ASSUME InCurrent(k) PROVE k \div frameSize = frameIndex
  <2>1. /\ frameIndex * frameSize \in Nat
        /\ (frameIndex + 1) * frameSize = frameIndex * frameSize + frameSize
    BY <1>1
  <2>2. /\ frameIndex * frameSize <= k
        /\ k < frameIndex * frameSize + frameSize
    BY <1>1, <1>3, <2>1 DEF CursorInv, CursorInFrame, InCurrent
  <2> QED BY <1>1, <2>2, DivFrame
<1> QED BY <1>2, <1>3

\* Who still has to read work items is left alone with them.
LEMMA UnreadSame ==
  ASSUME ItemsUntouched
  PROVE  \A i \in Items : Unread(i)' <=> Unread(i)
BY DEF ItemsUntouched, Unread, Queued

\* Only a write to the file reads an item.
LEMMA UnreadWorker ==
  ASSUME TypeOK, ItemOwnedOnce, NEW w \in Workers, Worker(w)
  PROVE  /\ UNCHANGED <<streamVars, saveVars, buffer, pc, item>>
         /\ \A f \in Frames : frameUsed'[f] => frameUsed[f]
         /\ ~WriteFrame(w) => /\ UNCHANGED <<file, lost>>
                              /\ \A i \in Items : Unread(i)' <=> Unread(i)
         /\ WriteFrame(w) => /\ Unread(witem[w])
                             /\ witem[w] \in Items
                             /\ \A i \in Items :
                                  Unread(i)' <=> Unread(i) /\ i # witem[w]
<1>1. witem[w] \in Items /\ wpc \in [Workers -> {"Idle", "Lock", "Write", "Release", "Signal"}]
      /\ witem \in [Workers -> Items]
  BY DEF TypeOK
<1>2. CASE Dequeue(w)
  <2>1. /\ queue # <<>> /\ queue \in Seq(Items) /\ wpc[w] = "Idle"
        /\ queue' = Tail(queue)
        /\ wpc'[w] = "Lock" /\ witem'[w] = Head(queue)
        /\ \A v \in Workers : v # w => wpc'[v] = wpc[v] /\ witem'[v] = witem[v]
    BY <1>1, <1>2 DEF Dequeue, TypeOK
  <2>2. /\ \A j \in Items : Queued(j)' <=> Queued(j) /\ j # Head(queue)
        /\ Queued(Head(queue))
    BY <2>1, QueueTail DEF ItemOwnedOnce
  <2>3. \A i \in Items : Unread(i)' <=> Unread(i)
    BY <2>1, <2>2 DEF Unread
  <2>4. ~WriteFrame(w)
    BY <2>1 DEF WriteFrame
  <2> QED BY <1>2, <2>3, <2>4 DEF Dequeue
<1>3. CASE LockFile(w)
  <2>1. /\ wpc[w] = "Lock" /\ wpc'[w] = "Write"
        /\ \A v \in Workers : v # w => wpc'[v] = wpc[v]
        /\ UNCHANGED <<queue, witem>>
    BY <1>1, <1>3 DEF LockFile
  <2>2. \A i \in Items : Unread(i)' <=> Unread(i)
    BY <2>1 DEF Unread, Queued
  <2>3. ~WriteFrame(w)
    BY <2>1 DEF WriteFrame
  <2> QED BY <1>3, <2>2, <2>3 DEF LockFile
<1>4. CASE WriteFrame(w)
  <2>1. /\ wpc[w] = "Write" /\ wpc'[w] = "Release"
        /\ \A v \in Workers : v # w => wpc'[v] = wpc[v]
        /\ UNCHANGED <<queue, witem>>
    BY <1>1, <1>4 DEF WriteFrame
  <2>2. \A v \in Workers : wpc[v] # "Idle" /\ witem[v] = witem[w] => v = w
    BY <2>1 DEF ItemOwnedOnce
  <2>3. ~Queued(witem[w])
    BY <1>1, <2>1 DEF ItemOwnedOnce, Held
  <2>4. \A i \in Items : Queued(i)' <=> Queued(i)
    BY <2>1 DEF Queued
  <2>5. \A i \in Items : Unread(i)' <=> Unread(i) /\ i # witem[w]
    BY <2>1, <2>2, <2>3, <2>4 DEF Unread
  <2>6. Unread(witem[w])
    BY <2>1 DEF Unread
  <2> QED BY <1>1, <1>4, <2>5, <2>6 DEF WriteFrame
<1>5. CASE ReleaseFrame(w)
  <2>1. /\ wpc[w] = "Release" /\ wpc'[w] = "Signal"
        /\ \A v \in Workers : v # w => wpc'[v] = wpc[v]
        /\ UNCHANGED <<queue, witem>>
    BY <1>1, <1>5 DEF ReleaseFrame
  <2>2. \A i \in Items : Unread(i)' <=> Unread(i)
    BY <2>1 DEF Unread, Queued
  <2>3. ~WriteFrame(w)
    BY <2>1 DEF WriteFrame
  <2>4. \A f \in Frames : frameUsed'[f] => frameUsed[f]
    BY <1>5 DEF ReleaseFrame, TypeOK
  <2> QED BY <1>5, <2>2, <2>3, <2>4 DEF ReleaseFrame
<1>6. CASE SignalDone(w)
  <2>1. /\ wpc[w] = "Signal" /\ wpc'[w] = "Idle"
        /\ \A v \in Workers : v # w => wpc'[v] = wpc[v]
        /\ UNCHANGED <<queue, witem>>
    BY <1>1, <1>6 DEF SignalDone
  <2>2. \A i \in Items : Unread(i)' <=> Unread(i)
    BY <2>1 DEF Unread, Queued
  <2>3. ~WriteFrame(w)
    BY <2>1 DEF WriteFrame
  <2> QED BY <1>6, <2>2, <2>3 DEF SignalDone
<1> QED BY <1>2, <1>3, <1>4, <1>5, <1>6 DEF Worker

\* TakeItem adds the item it queues.
LEMMA UnreadTake ==
  ASSUME TypeOK, ItemOwnedOnce, TakeItem
  PROVE  /\ scan \in Items /\ ~Unread(scan)
         /\ item' = [item EXCEPT ![scan] = [frame |-> saveFrame, size |-> saveSize]]
         /\ \A i \in Items : i # scan => item'[i] = item[i]
         /\ item'[scan].frame = saveFrame /\ item'[scan].size = saveSize
         /\ \A i \in Items : Unread(i)' <=> Unread(i) \/ i = scan
<1>1. /\ scan \in Items /\ done[scan]
      /\ item' = [item EXCEPT ![scan] = [frame |-> saveFrame, size |-> saveSize]]
      /\ queue' = Append(queue, scan)
      /\ UNCHANGED <<wpc, witem>>
  BY ConstantsAssumption DEF TakeItem, PollCount, ItemDone, TypeOK, Items
<1>2. ~Queued(scan) /\ ~Held(scan) /\ ~Unreleased(scan)
  BY <1>1, DoneIsFree
<1>3. queue \in Seq(Items) /\ item \in [Items -> [frame : Frames, size : Nat]]
  BY DEF TypeOK
<1>4. \A i \in Items : Queued(i)' <=> Queued(i) \/ i = scan
  BY <1>1, <1>3, QueueAppend
<1>5. \A i \in Items : Unread(i)' <=> Unread(i) \/ i = scan
  BY <1>1, <1>4 DEF Unread
<1>6. ~Unread(scan)
  BY <1>2 DEF Unreleased
<1> QED BY <1>1, <1>3, <1>5, <1>6

\* Steps that copy and write nothing, and at most give bytes up: what counts
\* no more is lost, and what is new was lost at once.
LEMMA BytesKept ==
  ASSUME TypeOK, BytesInv,
         UNCHANGED <<frameSize, bufferOffset, frameIndex, buffer, file>>,
         offered' - rest' \in Int,
         offered - rest <= offered' - rest',
         \A n \in 1 .. offered' - rest' : n <= offered - rest \/ n \in lost',
         lost \subseteq lost',
         \A k \in Live : k \in Live' \/ buffer[k] \in lost',
         \A k \in Live' : k \in Live \/ InCurrent(k),
         sessions' <= 1 => sessions <= 1 /\ Live' \subseteq Live
  PROVE  BytesInv'
<1>1. /\ Offsets' = Offsets
      /\ \A k : InCurrent(k)' <=> InCurrent(k)
      /\ \A n : InFile(n)' <=> InFile(n)
  BY DEF Offsets, BufferSize, InCurrent, InFile
<1>2. /\ offered \in Nat /\ rest \in Nat /\ buffer \in [Offsets -> Nat]
      /\ file \in Seq(Nat)
  BY DEF TypeOK
<1>3. Numbered'
  <2>1. \A k \in Offsets : buffer[k] <= offered' - rest'
    BY <1>2 DEF BytesInv, Numbered
  <2>2. \A j \in 1 .. Len(file) : file[j] <= offered' - rest'
    <3> TAKE j \in 1 .. Len(file)
    <3>1. file[j] \in Nat /\ file[j] <= offered - rest
      BY <1>2 DEF BytesInv, Numbered
    <3> QED BY <1>2, <3>1
  <2> QED BY <1>1, <2>1, <2>2 DEF Numbered
<1>4. Accounted'
  <2> SUFFICES ASSUME NEW n \in 1 .. offered' - rest', n \notin lost', ~InFile(n)
               PROVE  \E k \in Live' : buffer[k] = n
    BY <1>1 DEF Accounted
  <2>1. n \in 1 .. offered - rest /\ n \notin lost
    BY <1>2
  <2>2. PICK k \in Live : buffer[k] = n
    BY <2>1 DEF BytesInv, Accounted
  <2> QED BY <2>2
<1>5. Distinct'
  <2> SUFFICES ASSUME NEW k \in Offsets, NEW l \in Offsets,
                      k \in Live' \/ InCurrent(k), l \in Live' \/ InCurrent(l),
                      buffer[k] = buffer[l]
               PROVE  k = l
    BY <1>1 DEF Distinct
  <2> QED BY DEF BytesInv, Distinct
<1>6. Once'
  <2> SUFFICES ASSUME sessions' <= 1
               PROVE  SavedOnce' /\ \A k \in Live' : ~InFile(buffer[k])
    BY <1>1 DEF Once
  <2>1. SavedOnce /\ \A k \in Live : ~InFile(buffer[k])
    BY DEF BytesInv, Once
  <2> QED BY <2>1 DEF SavedOnce
<1> QED BY <1>3, <1>4, <1>5, <1>6 DEF BytesInv

\* Steps that copy the next count bytes to offset and after it, where nothing
\* that counts is overwritten.
LEMMA BytesAdded ==
  ASSUME TypeOK, BytesInv,
         NEW offset \in Nat, NEW count \in Nat,
         buffer' = Copied(offset, count, offered - rest + 1),
         UNCHANGED <<frameSize, file, sessions>>,
         rest <= offered,
         offered' - rest' = offered - rest + count,
         lost \subseteq lost',
         \A k \in Live : buffer'[k] = buffer[k],
         \A k \in Offsets : InCurrent(k) => k \in Live,
         \A k \in Offsets :
           k \in Live' <=> k \in Live \/ (offset <= k /\ k < offset + count),
         \A k \in Offsets : InCurrent(k)' => k \in Live',
         \A k \in Nat : offset <= k /\ k < offset + count => k \in Offsets
  PROVE  BytesInv'
<1> DEFINE New(k) == offset <= k /\ k < offset + count
           last == offered - rest
<1>1. /\ Offsets' = Offsets
      /\ \A n : InFile(n)' <=> InFile(n)
      /\ Live \subseteq Offsets
      /\ Live' \subseteq Offsets'
      /\ \A k \in Offsets : k \in Nat
  BY ConstantsAssumption DEF Offsets, BufferSize, InFile, Live, TypeOK
<1>2. /\ last \in Nat /\ buffer \in [Offsets -> Nat] /\ file \in Seq(Nat)
  BY DEF TypeOK
<1>3. \A k \in Offsets : /\ New(k) => buffer'[k] = last + 1 + (k - offset)
                         /\ ~New(k) => buffer'[k] = buffer[k]
  BY DEF Copied
<1>4. /\ \A k \in Offsets : buffer[k] <= last
      /\ \A j \in 1 .. Len(file) : file[j] <= last
  BY DEF BytesInv, Numbered
<1>5. offered' - rest' = last + count
  OBVIOUS
<1> HIDE DEF last
<1>6. Numbered'
  <2>1. \A k \in Offsets : buffer'[k] <= last + count
    <3> TAKE k \in Offsets
    <3>1. k \in Nat /\ buffer[k] \in Nat /\ buffer[k] <= last
      BY <1>1, <1>2, <1>4
    <3>2. CASE New(k)
      BY <1>2, <1>3, <3>1, <3>2
    <3>3. CASE ~New(k)
      BY <1>2, <1>3, <3>1, <3>3
    <3> QED BY <3>2, <3>3
  <2>2. \A j \in 1 .. Len(file) : file[j] <= last + count
    <3> TAKE j \in 1 .. Len(file)
    <3>1. file[j] \in Nat /\ file[j] <= last
      BY <1>2, <1>4
    <3> QED BY <1>2, <3>1
  <2> QED BY <1>1, <1>5, <2>1, <2>2 DEF Numbered
<1>7. Accounted'
  <2> SUFFICES ASSUME NEW n \in 1 .. last + count, n \notin lost', ~InFile(n)
               PROVE  \E k \in Live' : buffer'[k] = n
    BY <1>1, <1>5 DEF Accounted
  <2>1. CASE n <= last
    <3>1. n \in 1 .. last /\ n \notin lost
      BY <1>2, <2>1
    <3>2. PICK k \in Live : buffer[k] = n
      BY <3>1 DEF BytesInv, Accounted, last
    <3> QED BY <1>1, <3>2
  <2>2. CASE ~(n <= last)
    <3> DEFINE k == offset + (n - (last + 1))
    <3>1. k \in Nat /\ offset <= k /\ k < offset + count
      BY <1>2, <2>2
    <3>2. k \in Offsets /\ k \in Live'
      BY <3>1
    <3>3. buffer'[k] = last + 1 + (k - offset)
      BY <1>3, <3>1, <3>2
    <3>4. last + 1 + (k - offset) = n
      BY <1>2
    <3> QED BY <3>2, <3>3, <3>4
  <2> QED BY <2>1, <2>2
<1>8. Distinct'
  <2> SUFFICES ASSUME NEW k \in Offsets, NEW l \in Offsets,
                      k \in Live', l \in Live', buffer'[k] = buffer'[l]
               PROVE  k = l
    BY <1>1 DEF Distinct
  <2>1. /\ k \in Nat /\ l \in Nat /\ buffer[k] \in Nat /\ buffer[l] \in Nat
        /\ buffer[k] <= last /\ buffer[l] <= last
    BY <1>1, <1>2, <1>4
  <2>2. /\ New(k) \/ (k \in Live /\ buffer'[k] = buffer[k])
        /\ New(l) \/ (l \in Live /\ buffer'[l] = buffer[l])
    OBVIOUS
  <2>3. CASE New(k) /\ New(l)
    BY <1>2, <1>3, <2>1, <2>3
  <2>4. CASE New(k) /\ ~New(l)
    BY <1>2, <1>3, <2>1, <2>2, <2>4
  <2>5. CASE ~New(k) /\ New(l)
    BY <1>2, <1>3, <2>1, <2>2, <2>5
  <2>6. CASE ~New(k) /\ ~New(l)
    BY <2>2, <2>6 DEF BytesInv, Distinct
  <2> QED BY <2>3, <2>4, <2>5, <2>6
<1>9. Once'
  <2> SUFFICES ASSUME sessions <= 1
               PROVE  SavedOnce' /\ \A k \in Live' : ~InFile(buffer'[k])
    BY <1>1 DEF Once
  <2>1. SavedOnce /\ \A k \in Live : ~InFile(buffer[k])
    BY DEF BytesInv, Once
  <2>2. SavedOnce'
    BY <2>1 DEF SavedOnce
  <2>3. ASSUME NEW k \in Live', InFile(buffer'[k]) PROVE FALSE
    <3>1. k \in Offsets /\ k \in Nat
      BY <1>1
    <3>2. CASE New(k)
      <4>1. PICK j \in 1 .. Len(file) : file[j] = buffer'[k]
        BY <2>3 DEF InFile
      <4>2. file[j] \in Nat /\ file[j] <= last
        BY <1>2, <1>4
      <4> QED BY <1>2, <1>3, <3>1, <3>2, <4>1, <4>2
    <3>3. CASE ~New(k)
      BY <2>1, <2>3, <3>1, <3>3
    <3> QED BY <3>2, <3>3
  <2> QED BY <2>2, <2>3
<1> QED BY <1>6, <1>7, <1>8, <1>9 DEF BytesInv

\* What is in a file to which data was appended.
LEMMA AppendedFile ==
  ASSUME file \in Seq(Nat), NEW data \in Seq(Nat), file' = file \o data
  PROVE  /\ \A j \in 1 .. Len(file') :
              \/ j \in 1 .. Len(file) /\ file'[j] = file[j]
              \/ /\ j - Len(file) \in 1 .. Len(data)
                 /\ file'[j] = data[j - Len(file)]
         /\ \A n : InFile(n)' <=> InFile(n) \/ \E m \in 1 .. Len(data) : data[m] = n
<1>1. /\ Len(file) \in Nat /\ Len(data) \in Nat
      /\ Len(file') = Len(file) + Len(data)
      /\ \A j \in 1 .. Len(file) : file'[j] = file[j]
      /\ \A j \in Len(file) + 1 .. Len(file) + Len(data) :
           file'[j] = data[j - Len(file)]
  OBVIOUS
<1>2. \A j \in 1 .. Len(file') :
        \/ j \in 1 .. Len(file) /\ file'[j] = file[j]
        \/ /\ j - Len(file) \in 1 .. Len(data)
           /\ file'[j] = data[j - Len(file)]
  BY <1>1
<1>3. ASSUME NEW n
      PROVE  InFile(n)' <=> InFile(n) \/ \E m \in 1 .. Len(data) : data[m] = n
  <2>1. ASSUME InFile(n)'
        PROVE  InFile(n) \/ \E m \in 1 .. Len(data) : data[m] = n
    BY <1>2, <2>1 DEF InFile
  <2>2. ASSUME InFile(n) PROVE InFile(n)'
    <3>1. PICK j \in 1 .. Len(file) : file[j] = n
      BY <2>2 DEF InFile
    <3>2. j \in 1 .. Len(file') /\ file'[j] = n
      BY <1>1, <3>1
    <3> QED BY <3>2 DEF InFile
  <2>3. ASSUME NEW m \in 1 .. Len(data), data[m] = n PROVE InFile(n)'
    <3>1. /\ Len(file) + m \in 1 .. Len(file')
          /\ Len(file) + m \in Len(file) + 1 .. Len(file) + Len(data)
          /\ (Len(file) + m) - Len(file) = m
      BY <1>1
    <3>2. file'[Len(file) + m] = n
      BY <1>1, <2>3, <3>1
    <3> QED BY <3>1, <3>2 DEF InFile
  <2> QED BY <2>1, <2>2, <2>3
<1> QED BY <1>2, <1>3

\* The bytes that a work item describes, by their place in the frame.
LEMMA FrameDataAt ==
  ASSUME CursorInv, NEW i \in Items
  PROVE  /\ FrameData(i) \in Seq(Nat)
         /\ Len(FrameData(i)) = item[i].size
         /\ \A m \in 1 .. Len(FrameData(i)) :
              LET k == item[i].frame * frameSize + m - 1
              IN  /\ k \in Offsets
                  /\ InPart(k, item[i].frame, item[i].size)
                  /\ FrameData(i)[m] = buffer[k]
         /\ \A k \in Offsets :
              InPart(k, item[i].frame, item[i].size) =>
                LET m == k - item[i].frame * frameSize + 1
                IN  /\ m \in 1 .. Len(FrameData(i))
                    /\ FrameData(i)[m] = buffer[k]
<1> DEFINE start == item[i].frame * frameSize
           n == item[i].size
           data == FrameData(i)
<1>1. data \in Seq(Nat) /\ DOMAIN data = 1 .. n
  BY FrameDataType DEF CursorInv
<1>2. /\ item[i].frame \in 0 .. FrameCount - 1 /\ n \in Nat /\ n <= frameSize
      /\ frameSize \in Nat \ {0}
  BY ConstantsAssumption DEF CursorInv, TypeOK, SizesFit, Frames
<1>3. /\ start \in Nat /\ FrameCount * frameSize \in Nat
      /\ start + frameSize <= FrameCount * frameSize
  BY <1>2, FrameBounds, ConstantsAssumption
<1>4. Len(data) = n
  BY <1>1, <1>2
<1>5. \A m \in 1 .. n : data[m] = buffer[start + m - 1]
  BY DEF FrameData
<1>6. \A k \in Offsets : k \in Nat
  BY <1>2, ConstantsAssumption DEF Offsets, BufferSize
<1> DEFINE total == FrameCount * frameSize
<1>7. Offsets = 0 .. total - 1
  BY DEF Offsets, BufferSize
<1>8. \A k : InPart(k, item[i].frame, n) <=> start <= k /\ k < start + n
  BY DEF InPart
<1>9. /\ start \in Nat /\ total \in Nat /\ n \in Nat /\ frameSize \in Nat
      /\ start + frameSize <= total /\ n <= frameSize
  BY <1>2, <1>3
<1> HIDE DEF start, total, n, data
<1>10. \A m \in 1 .. n : /\ start + m - 1 \in Offsets
                         /\ start <= start + m - 1
                         /\ start + m - 1 < start + n
  BY <1>7, <1>9
<1>11. \A k \in Offsets : start <= k /\ k < start + n =>
          k - start + 1 \in 1 .. n /\ start + (k - start + 1) - 1 = k
  BY <1>6, <1>9
<1>12. ASSUME NEW m \in 1 .. Len(data)
       PROVE  /\ start + m - 1 \in Offsets
              /\ InPart(start + m - 1, item[i].frame, n)
              /\ data[m] = buffer[start + m - 1]
  BY <1>4, <1>5, <1>8, <1>10
<1>13. ASSUME NEW k \in Offsets, InPart(k, item[i].frame, n)
       PROVE  /\ k - start + 1 \in 1 .. Len(data)
              /\ data[k - start + 1] = buffer[k]
  BY <1>4, <1>5, <1>8, <1>11, <1>13
<1> QED BY <1>1, <1>4, <1>12, <1>13 DEF start, n, data

\* The offsets of an item to be read are to be saved, and no other save under
\* way and no write has them.
LEMMA PartAlone ==
  ASSUME CursorInv, ItemInv, PartInv, NEW i \in Items, Unread(i),
         NEW k \in Offsets, InPart(k, item[i].frame, item[i].size)
  PROVE  /\ k \in Live
         /\ \A j \in Items : Unread(j) /\ InPart(k, item[j].frame, item[j].size)
              => j = i
         /\ ~(/\ pc \in {"Rest", "Scan", "DrainScan"}
              /\ InPart(k, saveFrame, saveSize))
         /\ ~(pc \in {"Ready", "Rest", "Scan"} /\ InCurrent(k))
         /\ k \div frameSize = item[i].frame
<1>1. /\ \A j \in Items : /\ item[j].frame \in Nat /\ item[j].size \in Nat
                          /\ item[j].size <= frameSize
      /\ saveFrame \in Nat /\ saveSize \in Nat /\ saveSize <= frameSize
      /\ frameIndex \in Nat /\ bufferOffset \in Nat /\ frameSize \in Nat
  BY ConstantsAssumption DEF CursorInv, TypeOK, SizesFit, Frames
<1>2. k \in Live
  BY DEF Live
<1>3. k \div frameSize = item[i].frame
  BY <1>1, PartFrame
<1>4. \A j \in Items : Unread(j) /\ InPart(k, item[j].frame, item[j].size) => j = i
  <2> SUFFICES ASSUME NEW j \in Items, Unread(j),
                      InPart(k, item[j].frame, item[j].size)
               PROVE  j = i
    OBVIOUS
  <2>1. k \div frameSize = item[j].frame
    BY <1>1, PartFrame
  <2> QED BY <1>3, <2>1 DEF PartInv, PartsApart
<1>5. ASSUME pc \in {"Rest", "Scan", "DrainScan"}, InPart(k, saveFrame, saveSize)
      PROVE  FALSE
  <2>1. k \div frameSize = saveFrame
    BY <1>1, <1>5, PartFrame
  <2> QED BY <1>3, <1>5, <2>1 DEF PartInv, PartsApart
<1>6. ASSUME pc \in {"Ready", "Rest", "Scan"}, InCurrent(k)
      PROVE  FALSE
  <2>1. k \div frameSize = frameIndex
    BY <1>6, PartFrame
  <2>2. frameUsed[frameIndex]
    BY <1>3, <1>6, <2>1 DEF ItemInv, FrameOneItem, Unreleased
  <2>3. bufferOffset > frameIndex * frameSize
    <3>1. frameIndex * frameSize \in Nat /\ k \in Nat
      BY <1>1, ConstantsAssumption DEF Offsets, BufferSize
    <3> QED BY <1>1, <1>6, <3>1 DEF InCurrent
  <2> QED BY <2>2, <2>3 DEF PartInv, PartialFree
<1> QED BY <1>2, <1>3, <1>4, <1>5, <1>6

\* A write to the file.
LEMMA BytesWriteFrame ==
  ASSUME CursorInv, ItemInv, PartInv, BytesInv, NEW w \in Workers, WriteFrame(w)
  PROVE  BytesInv'
<1> DEFINE i == witem[w]
           data == FrameData(i)
           Part(k) == InPart(k, item[i].frame, item[i].size)
<1>1. /\ UNCHANGED <<streamVars, saveVars, buffer, pc, item>>
      /\ i \in Items /\ Unread(i)
      /\ \A j \in Items : Unread(j)' <=> Unread(j) /\ j # i
  <2>1. Worker(w)
    BY DEF Worker
  <2> QED BY <2>1, UnreadWorker DEF CursorInv, ItemInv
<1>2. /\ Offsets' = Offsets
      /\ \A k, f, n : InPart(k, f, n)' <=> InPart(k, f, n)
      /\ \A k : InCurrent(k)' <=> InCurrent(k)
  BY <1>1 DEF Offsets, BufferSize, InPart, InCurrent, streamVars
<1>3. /\ data \in Seq(Nat)
      /\ \A m \in 1 .. Len(data) : \E k \in Offsets :
           /\ Part(k) /\ data[m] = buffer[k]
           /\ m = k - item[i].frame * frameSize + 1
      /\ \A k \in Offsets : Part(k) =>
           \E m \in 1 .. Len(data) : data[m] = buffer[k]
  <2>0. /\ data \in Seq(Nat)
        /\ \A m \in 1 .. Len(data) :
              LET k == item[i].frame * frameSize + m - 1
              IN  /\ k \in Offsets
                  /\ Part(k)
                  /\ data[m] = buffer[k]
        /\ \A k \in Offsets : Part(k) =>
                LET m == k - item[i].frame * frameSize + 1
                IN  /\ m \in 1 .. Len(data)
                    /\ data[m] = buffer[k]
    BY <1>1, FrameDataAt
  <2>1. item[i].frame * frameSize \in Nat
    BY <1>1, ConstantsAssumption DEF CursorInv, TypeOK, Frames
  <2>2. \A m \in 1 .. Len(data) :
          m = (item[i].frame * frameSize + m - 1) - item[i].frame * frameSize + 1
    BY <2>1
  <2> HIDE DEF data, Part
  <2> QED BY <2>0, <2>2
<1>4. \A k \in Offsets :
        k \in Live' <=> k \in Live /\ ~Part(k)
  <2> TAKE k \in Offsets
  <2>1. k \in Live' <=> \/ \E j \in Items : Unread(j)' /\ InPart(k, item[j].frame, item[j].size)
                        \/ pc \in {"Rest", "Scan", "DrainScan"} /\ InPart(k, saveFrame, saveSize)
                        \/ pc \in {"Ready", "Rest", "Scan"} /\ InCurrent(k)
    BY <1>1, <1>2 DEF Live, saveVars
  <2>2. k \in Live <=> \/ \E j \in Items : Unread(j) /\ InPart(k, item[j].frame, item[j].size)
                       \/ pc \in {"Rest", "Scan", "DrainScan"} /\ InPart(k, saveFrame, saveSize)
                       \/ pc \in {"Ready", "Rest", "Scan"} /\ InCurrent(k)
    BY DEF Live
  <2>3. CASE Part(k)
    <3>1. /\ \A j \in Items : Unread(j) /\ InPart(k, item[j].frame, item[j].size)
               => j = i
          /\ ~(/\ pc \in {"Rest", "Scan", "DrainScan"}
               /\ InPart(k, saveFrame, saveSize))
          /\ ~(pc \in {"Ready", "Rest", "Scan"} /\ InCurrent(k))
      BY <1>1, <2>3, PartAlone
    <3> QED BY <1>1, <2>1, <2>3, <3>1
  <2>4. CASE ~Part(k)
    BY <1>1, <2>1, <2>2, <2>4
  <2> QED BY <2>3, <2>4
<1>5. \A k \in Offsets : Part(k) => k \in Live
  BY <1>1, PartAlone
<1>6. Live \subseteq Offsets /\ Live' \subseteq Offsets
  BY <1>2 DEF Live
<1>7. /\ TypeOK /\ offered \in Nat /\ rest \in Nat /\ rest <= offered
      /\ file \in Seq(Nat) /\ lost \subseteq Nat
  BY DEF CursorInv, TypeOK
<1> HIDE DEF data, Part
<1>8. CASE file' = file /\ lost' = lost \union {data[k] : k \in DOMAIN data}
  <2>1. \A k \in Live : k \in Live' \/ buffer[k] \in lost'
    <3> SUFFICES ASSUME NEW k \in Live, Part(k)
                 PROVE  buffer[k] \in lost'
      BY <1>4, <1>6
    <3>1. PICK m \in 1 .. Len(data) : data[m] = buffer[k]
      BY <1>3, <1>6
    <3>2. m \in DOMAIN data
      BY <1>3
    <3> QED BY <1>8, <3>1, <3>2
  <2>2. \A k \in Live' : k \in Live
    BY <1>4, <1>6
  <2>3. /\ UNCHANGED <<frameSize, bufferOffset, frameIndex, buffer, file,
                       sessions, offered, rest>>
        /\ lost \subseteq lost'
    BY <1>1, <1>8 DEF streamVars
  <2>4. /\ offered' - rest' \in Int
        /\ offered - rest <= offered' - rest'
        /\ \A n \in 1 .. offered' - rest' : n <= offered - rest
    BY <1>7, <2>3
  <2> QED BY <1>7, <2>1, <2>2, <2>3, <2>4, BytesKept
<1>9. CASE file' = file \o data /\ lost' = lost
  <2>1. /\ \A j \in 1 .. Len(file') :
              \/ j \in 1 .. Len(file) /\ file'[j] = file[j]
              \/ /\ j - Len(file) \in 1 .. Len(data)
                 /\ file'[j] = data[j - Len(file)]
        /\ \A n : InFile(n)' <=> InFile(n) \/ \E m \in 1 .. Len(data) : data[m] = n
    BY <1>3, <1>7, <1>9, AppendedFile
  <2>2. UNCHANGED <<sessions, offered, rest, buffer, lost>>
    BY <1>1, <1>9 DEF streamVars
  <2>3. Numbered'
    <3>1. \A j \in 1 .. Len(file') : file'[j] <= offered - rest
      BY <1>3, <2>1 DEF BytesInv, Numbered
    <3> QED BY <1>2, <2>2, <3>1 DEF BytesInv, Numbered
  <2>4. Accounted'
    <3> SUFFICES ASSUME NEW n \in 1 .. offered - rest, n \notin lost, ~InFile(n)'
                 PROVE  \E k \in Live' : buffer[k] = n
      BY <2>2 DEF Accounted
    <3>1. PICK k \in Live : buffer[k] = n
      BY <2>1 DEF BytesInv, Accounted
    <3>2. ~Part(k)
      BY <1>3, <1>6, <2>1, <3>1
    <3> QED BY <1>4, <1>6, <3>1, <3>2
  <2>5. Distinct'
    BY <1>2, <1>4, <2>2 DEF BytesInv, Distinct
  <2>6. Once'
    <3> SUFFICES ASSUME sessions <= 1
                 PROVE  SavedOnce' /\ \A k \in Live' : ~InFile(buffer[k])'
      BY <2>2 DEF Once
    <3>1. SavedOnce /\ \A k \in Live : ~InFile(buffer[k])
      BY DEF BytesInv, Once
    <3>2. ASSUME NEW k \in Offsets, NEW l \in Offsets, k \in Live, l \in Live,
                 buffer[k] = buffer[l]
          PROVE  k = l
      BY <3>2 DEF BytesInv, Distinct
    <3>3. ASSUME NEW m \in 1 .. Len(data), NEW p \in 1 .. Len(data),
                 data[m] = data[p]
          PROVE  m = p
      <4>1. PICK k \in Offsets : /\ Part(k) /\ data[m] = buffer[k]
                                 /\ m = k - item[i].frame * frameSize + 1
        BY <1>3
      <4>2. PICK l \in Offsets : /\ Part(l) /\ data[p] = buffer[l]
                                 /\ p = l - item[i].frame * frameSize + 1
        BY <1>3
      <4>3. k = l
        BY <1>5, <3>2, <3>3, <4>1, <4>2
      <4> QED BY <4>1, <4>2, <4>3
    <3>4. ASSUME NEW m \in 1 .. Len(data) PROVE ~InFile(data[m])
      BY <1>3, <1>5, <3>1
    <3>5. SavedOnce'
      <4> SUFFICES ASSUME NEW j \in 1 .. Len(file'), NEW l \in 1 .. Len(file'),
                          file'[j] = file'[l]
                   PROVE  j = l
        BY DEF SavedOnce
      <4>0. Len(file) \in Nat /\ j \in Int /\ l \in Int
        BY <1>7
      <4>1. CASE j \in 1 .. Len(file) /\ l \in 1 .. Len(file)
        <5>1. file'[j] = file[j] /\ file'[l] = file[l]
          BY <1>3, <1>7, <1>9, <4>1
        <5> QED BY <3>1, <4>1, <5>1 DEF SavedOnce
      <4>2. CASE j \in 1 .. Len(file) /\ ~(l \in 1 .. Len(file))
        <5>1. InFile(file[j]) /\ file'[j] = file[j]
          BY <1>3, <1>7, <1>9, <4>2 DEF InFile
        <5>2. l - Len(file) \in 1 .. Len(data) /\ file'[l] = data[l - Len(file)]
          BY <2>1, <4>2
        <5> QED BY <3>4, <5>1, <5>2
      <4>3. CASE ~(j \in 1 .. Len(file)) /\ l \in 1 .. Len(file)
        <5>1. InFile(file[l]) /\ file'[l] = file[l]
          BY <1>3, <1>7, <1>9, <4>3 DEF InFile
        <5>2. j - Len(file) \in 1 .. Len(data) /\ file'[j] = data[j - Len(file)]
          BY <2>1, <4>3
        <5> QED BY <3>4, <5>1, <5>2
      <4>4. CASE ~(j \in 1 .. Len(file)) /\ ~(l \in 1 .. Len(file))
        <5>1. j - Len(file) \in 1 .. Len(data) /\ file'[j] = data[j - Len(file)]
          BY <2>1, <4>4
        <5>2. l - Len(file) \in 1 .. Len(data) /\ file'[l] = data[l - Len(file)]
          BY <2>1, <4>4
        <5>3. j - Len(file) = l - Len(file)
          BY <3>3, <5>1, <5>2
        <5> QED BY <4>0, <5>3
      <4> QED BY <4>1, <4>2, <4>3, <4>4
    <3>6. ASSUME NEW k \in Live', InFile(buffer[k])' PROVE FALSE
      <4>1. k \in Offsets /\ k \in Live /\ ~Part(k)
        BY <1>4, <1>6
      <4>2. PICK m \in 1 .. Len(data) : data[m] = buffer[k]
        BY <2>1, <2>2, <3>1, <3>6, <4>1
      <4>3. PICK l \in Offsets : Part(l) /\ data[m] = buffer[l]
        BY <1>3
      <4>4. k = l
        BY <1>5, <3>2, <4>1, <4>2, <4>3
      <4> QED BY <4>1, <4>3, <4>4
    <3> QED BY <3>5, <3>6
  <2> QED BY <2>3, <2>4, <2>5, <2>6 DEF BytesInv
<1> QED BY <1>8, <1>9 DEF WriteFrame, data, i

\* What one WriteData does to ring, cursor and frames: it copies up to the end
\* of the ring, and when that fills the frame it may go on into the next one.
LEMMA WriteDataShape ==
  ASSUME CursorInv, NEW n \in WriteSizes, WriteData(n)
  PROVE  \E count \in Nat \ {0} :
           LET base == frameIndex * frameSize
               end  == bufferOffset + count
           IN  /\ buffer' = Copied(bufferOffset, count, offered + 1)
               /\ end <= BufferSize
               /\ base <= bufferOffset /\ bufferOffset < base + frameSize
               /\ offered' - rest' = offered + count
               /\ pc' # "Rest" => rest' = 0
               /\ \/ /\ pc' = "Ready"
                     /\ UNCHANGED <<frameUsed, saveFrame, saveSize, frameIndex>>
                     /\ bufferOffset' = end
                     /\ end < base + frameSize
                  \/ /\ pc' \in {"Rest", "Scan"}
                     /\ frameUsed' = [frameUsed EXCEPT ![frameIndex] = TRUE]
                     /\ saveFrame' = frameIndex
                     /\ saveSize' = frameSize
                     /\ base + frameSize <= end
                     /\ \/ /\ frameIndex' = 0
                           /\ bufferOffset' = 0
                           /\ end = base + frameSize
                        \/ /\ frameIndex' = frameIndex + 1
                           /\ frameIndex' \in Frames
                           /\ frameIndex' * frameSize = base + frameSize
                           /\ bufferOffset' = end
                           /\ end < base + frameSize + frameSize
<1> DEFINE given == CutToFrame(n)
           count == SmallerOf(given, BufferSize - bufferOffset)
           end == bufferOffset + count
           base == frameIndex * frameSize
           total == FrameCount * frameSize
           full == end >= (frameIndex + 1) * frameSize \/ end = BufferSize
<1>1. /\ TypeOK /\ CursorInFrame
      /\ frameSize \in Nat \ {0} /\ bufferOffset \in Nat /\ offered \in Nat
      /\ frameIndex \in 0 .. FrameCount - 1
      /\ n \in Nat \ {0}
  BY ConstantsAssumption DEF CursorInv, TypeOK, Frames, WriteData
<1>2. /\ base \in Nat /\ total \in Nat
      /\ (frameIndex + 1) * frameSize = base + frameSize
      /\ base + frameSize <= total
      /\ frameIndex + 1 = FrameCount => base + frameSize = total
      /\ frameIndex + 1 # FrameCount => base + frameSize + frameSize <= total
  BY <1>1, FrameBounds, ConstantsAssumption
<1>3. base <= bufferOffset /\ bufferOffset < base + frameSize
  BY <1>1, <1>2 DEF CursorInFrame
<1>4. BufferSize = total
  BY DEF BufferSize
<1>5. /\ buffer' = Copied(bufferOffset, count, offered + 1)
      /\ bufferOffset' = IF end = total THEN 0 ELSE end
      /\ offered' = offered + given
      /\ rest' = given - count
      /\ IF full
         THEN /\ frameUsed' = [frameUsed EXCEPT ![frameIndex] = TRUE]
              /\ saveFrame' = frameIndex
              /\ saveSize' = frameSize
              /\ frameIndex' = NextFrame
              /\ pc' = IF given # count THEN "Rest" ELSE "Scan"
         ELSE /\ UNCHANGED <<frameUsed, saveFrame, saveSize, frameIndex>>
              /\ pc' = IF given # count THEN "Rest" ELSE "Ready"
  BY <1>4 DEF WriteData
<1>6. full <=> end >= base + frameSize \/ end = total
  BY <1>2, <1>4
<1>7. given \in Nat \ {0} /\ given <= frameSize
  BY <1>1 DEF CutToFrame, SmallerOf
<1> HIDE DEF base, total, given, full
<1>8. /\ count \in Nat \ {0}
      /\ count <= given
      /\ end \in Nat
      /\ end <= total
      /\ count # given => end = total
  BY <1>1, <1>2, <1>3, <1>4, <1>7 DEF SmallerOf
<1> HIDE DEF count
<1>9. /\ frameIndex + 1 # FrameCount => NextFrame = frameIndex + 1
      /\ frameIndex + 1 = FrameCount => NextFrame = 0
      /\ NextFrame \in 0 .. FrameCount - 1
  BY <1>1, NextIndex, ConstantsAssumption DEF NextFrame
<1>10. /\ offered' - rest' = offered + count
       /\ pc' # "Rest" => rest' = 0
  BY <1>1, <1>5, <1>7, <1>8
<1>11. CASE ~full
  <2>1. end < base + frameSize /\ end # total
    BY <1>1, <1>2, <1>6, <1>8, <1>11
  <2>2. /\ pc' = "Ready"
        /\ UNCHANGED <<frameUsed, saveFrame, saveSize, frameIndex>>
        /\ bufferOffset' = end
    BY <1>5, <1>8, <1>11, <2>1
  <2> QED BY <1>3, <1>4, <1>5, <1>8, <1>10, <2>1, <2>2 DEF base
<1>12. CASE full /\ frameIndex + 1 = FrameCount
  <2>1. end = total /\ end = base + frameSize
    BY <1>1, <1>2, <1>3, <1>6, <1>7, <1>8, <1>12
  <2>2. /\ pc' \in {"Rest", "Scan"}
        /\ frameUsed' = [frameUsed EXCEPT ![frameIndex] = TRUE]
        /\ saveFrame' = frameIndex
        /\ saveSize' = frameSize
        /\ frameIndex' = 0
        /\ bufferOffset' = 0
    BY <1>5, <1>9, <1>12, <2>1
  <2>3. base + frameSize <= end
    BY <1>1, <1>2, <2>1
  <2> QED BY <1>3, <1>4, <1>5, <1>8, <1>10, <2>1, <2>2, <2>3 DEF base
<1>13. CASE full /\ frameIndex + 1 # FrameCount
  <2>1. /\ end # total /\ base + frameSize <= end
        /\ end < base + frameSize + frameSize
    BY <1>1, <1>2, <1>3, <1>6, <1>7, <1>8, <1>13
  <2>2. /\ pc' \in {"Rest", "Scan"}
        /\ frameUsed' = [frameUsed EXCEPT ![frameIndex] = TRUE]
        /\ saveFrame' = frameIndex
        /\ saveSize' = frameSize
        /\ frameIndex' = frameIndex + 1
        /\ frameIndex' \in Frames
        /\ bufferOffset' = end
    BY <1>5, <1>9, <1>13, <2>1 DEF Frames
  <2>3. frameIndex' * frameSize = base + frameSize
    BY <1>2, <2>2
  <2> QED BY <1>3, <1>4, <1>5, <1>8, <1>10, <2>1, <2>2, <2>3 DEF base
<1> QED BY <1>11, <1>12, <1>13

\* The bytes of a frame that an item is still to read stay while the stream
\* copies to frames that are not in use.
LEMMA ReadsUndisturbed ==
  ASSUME CursorInv, ItemInv, PartInv, pc \in {"Ready", "Rest", "Scan"}, CopyToFree,
         NEW i \in Items, Unread(i),
         NEW k \in Offsets, InPart(k, item[i].frame, item[i].size)
  PROVE  buffer'[k] = buffer[k]
<1>1. k \div frameSize = item[i].frame
  BY PartAlone
<1>2. frameUsed[item[i].frame]
  BY DEF ItemInv, FrameOneItem, Unreleased
<1> QED BY <1>1, <1>2 DEF CopyToFree

\* WriteData adds its bytes to those to be saved, in the current frame or in
\* the frame it hands over.
LEMMA BytesWriteData ==
  ASSUME CursorInv, ItemInv, PartInv, BytesInv, CopyToFree,
         NEW n \in WriteSizes, WriteData(n)
  PROVE  BytesInv' /\ PartialFree'
<1> DEFINE base == frameIndex * frameSize
<1>1. PICK count \in Nat \ {0} :
           LET end  == bufferOffset + count
           IN  /\ buffer' = Copied(bufferOffset, count, offered + 1)
               /\ end <= BufferSize
               /\ base <= bufferOffset /\ bufferOffset < base + frameSize
               /\ offered' - rest' = offered + count
               /\ \/ /\ pc' = "Ready"
                     /\ UNCHANGED <<frameUsed, saveFrame, saveSize, frameIndex>>
                     /\ bufferOffset' = end
                     /\ end < base + frameSize
                  \/ /\ pc' \in {"Rest", "Scan"}
                     /\ frameUsed' = [frameUsed EXCEPT ![frameIndex] = TRUE]
                     /\ saveFrame' = frameIndex
                     /\ saveSize' = frameSize
                     /\ base + frameSize <= end
                     /\ \/ /\ frameIndex' = 0
                           /\ bufferOffset' = 0
                           /\ end = base + frameSize
                        \/ /\ frameIndex' = frameIndex + 1
                           /\ frameIndex' \in Frames
                           /\ frameIndex' * frameSize = base + frameSize
                           /\ bufferOffset' = end
                           /\ end < base + frameSize + frameSize
  BY WriteDataShape
<1> DEFINE end == bufferOffset + count
           New(k) == bufferOffset <= k /\ k < end
<1>2. /\ pc = "Ready" /\ rest = 0 /\ ItemsUntouched
      /\ UNCHANGED <<frameSize, file, sessions, lost>>
      /\ ~frameUsed[frameIndex]
  BY DEF WriteData, PartInv, ItemsUntouched, workerVars, FrameAvailable
<1>3. /\ TypeOK /\ frameSize \in Nat \ {0} /\ bufferOffset \in Nat /\ offered \in Nat
      /\ frameIndex \in Nat /\ base \in Nat /\ BufferSize \in Nat /\ end \in Nat
      /\ frameUsed \in [Frames -> BOOLEAN] /\ frameIndex \in Frames
      /\ buffer \in [Offsets -> Nat]
  BY ConstantsAssumption DEF CursorInv, TypeOK, Frames, BufferSize
<1>4. \A k \in Nat : New(k) => k \in Offsets
  BY <1>1, <1>3 DEF Offsets
<1>5. \A k \in Offsets : k \in Nat
  BY <1>3 DEF Offsets
<1>6. /\ Offsets' = Offsets
      /\ \A k, f, m : InPart(k, f, m)' <=> InPart(k, f, m)
      /\ \A i \in Items : (Unread(i)' <=> Unread(i)) /\ item'[i] = item[i]
  BY <1>2, UnreadSame DEF Offsets, BufferSize, InPart, ItemsUntouched
<1> DEFINE ToRead(k) == \E i \in Items : Unread(i) /\ InPart(k, item[i].frame, item[i].size)
<1>7. \A k \in Offsets : k \in Live <=> ToRead(k) \/ InCurrent(k)
  BY <1>2 DEF Live
<1>8. \A k \in Offsets : k \in Live' <=>
        \/ ToRead(k)
        \/ pc' \in {"Rest", "Scan"} /\ InPart(k, frameIndex, frameSize)
        \/ InCurrent(k)'
  <2> TAKE k \in Offsets
  <2>1. k \in Live' <=> \/ \E j \in Items : Unread(j)' /\ InPart(k, item[j].frame, item[j].size)'
                        \/ pc' \in {"Rest", "Scan", "DrainScan"} /\ InPart(k, saveFrame, saveSize)'
                        \/ pc' \in {"Ready", "Rest", "Scan"} /\ InCurrent(k)'
    BY <1>6 DEF Live
  <2>2. (\E j \in Items : Unread(j)' /\ InPart(k, item[j].frame, item[j].size)')
          <=> ToRead(k)
    BY <1>2, <1>6 DEF InPart
  <2>3. \/ pc' = "Ready"
        \/ /\ pc' \in {"Rest", "Scan"}
           /\ InPart(k, saveFrame, saveSize)' <=> InPart(k, frameIndex, frameSize)
    BY <1>1, <1>2 DEF InPart
  <2> QED BY <2>1, <2>2, <2>3
<1> HIDE DEF ToRead, base
<1>9. \A k \in Offsets : /\ InCurrent(k) <=> base <= k /\ k < bufferOffset
                         /\ InPart(k, frameIndex, frameSize) <=> base <= k /\ k < base + frameSize
  BY DEF InCurrent, InPart, base
<1>10. \A k \in Offsets : k \in Live' <=> k \in Live \/ New(k)
  <2> TAKE k \in Offsets
  <2>1. CASE pc' = "Ready"
    <3>1. bufferOffset' = end /\ frameIndex' = frameIndex
      BY <1>1, <2>1
    <3>2. InCurrent(k)' <=> base <= k /\ k < end
      BY <1>2, <3>1 DEF InCurrent, base
    <3>3. (base <= k /\ k < end) <=> (base <= k /\ k < bufferOffset) \/ New(k)
      BY <1>1, <1>3, <1>5
    <3> QED BY <1>7, <1>8, <1>9, <2>1, <3>2, <3>3
  <2>2. CASE pc' \in {"Rest", "Scan"}
    <3>1. \/ /\ frameIndex' = 0 /\ bufferOffset' = 0
             /\ end = base + frameSize
          \/ /\ frameIndex' * frameSize = base + frameSize
             /\ bufferOffset' = end
             /\ base + frameSize <= end
      BY <1>1, <2>2
    <3>2. \/ end = base + frameSize /\ ~InCurrent(k)'
          \/ base + frameSize <= end /\ (InCurrent(k)' <=> base + frameSize <= k /\ k < end)
      <4>1. CASE frameIndex' = 0 /\ bufferOffset' = 0 /\ end = base + frameSize
        <5>1. 0 * frameSize = 0
          BY <1>3
        <5>2. InCurrent(k)' <=> 0 <= k /\ k < 0
          BY <1>2, <4>1, <5>1 DEF InCurrent
        <5> QED BY <1>5, <4>1, <5>2
      <4>2. CASE /\ frameIndex' * frameSize = base + frameSize
                 /\ bufferOffset' = end
                 /\ base + frameSize <= end
        BY <1>2, <4>2 DEF InCurrent
      <4> QED BY <3>1, <4>1, <4>2
    <3>3. ((base <= k /\ k < base + frameSize) \/ InCurrent(k)') <=>
            (base <= k /\ k < bufferOffset) \/ New(k)
      BY <1>1, <1>3, <1>5, <3>2
    <3> QED BY <1>7, <1>8, <1>9, <2>2, <3>3
  <2> QED BY <1>1, <2>1, <2>2
<1>11. \A k \in Live : buffer'[k] = buffer[k]
  <2> SUFFICES ASSUME NEW k \in Live PROVE buffer'[k] = buffer[k]
    OBVIOUS
  <2>0. k \in Offsets /\ k \in Nat
    BY <1>5 DEF Live
  <2>1. CASE ToRead(k)
    BY <1>2, <2>0, <2>1, ReadsUndisturbed DEF ToRead
  <2>2. CASE InCurrent(k)
    <3>1. ~(bufferOffset <= k)
      BY <1>3, <1>9, <2>0, <2>2
    <3> QED BY <1>1, <2>0, <3>1 DEF Copied
  <2> QED BY <1>7, <2>0, <2>1, <2>2
<1>12. BytesInv'
  <2>1. /\ buffer' = Copied(bufferOffset, count, offered - rest + 1)
        /\ rest <= offered
        /\ offered' - rest' = offered - rest + count
    <3>1. offered - rest = offered
      BY <1>2, <1>3
    <3> QED BY <1>1, <1>2, <1>3, <3>1
  <2>2. \A k \in Offsets : InCurrent(k)' => k \in Live'
    BY <1>8
  <2>3. \A k \in Offsets : InCurrent(k) => k \in Live
    BY <1>7
  <2>4. lost \subseteq lost' /\ UNCHANGED <<frameSize, file, sessions>>
    BY <1>2
  <2>5. count \in Nat
    OBVIOUS
  <2> QED BY <1>3, <1>4, <1>10, <1>11, <2>1, <2>2, <2>3, <2>4, <2>5, BytesAdded
<1>13. PartialFree'
  <2>1. CASE pc' = "Ready"
    BY <1>1, <1>2, <2>1 DEF PartialFree
  <2>2. CASE pc' \in {"Rest", "Scan"}
    <3>1. CASE frameIndex' = 0 /\ bufferOffset' = 0
      <4>1. 0 * frameSize = 0
        BY <1>3
      <4> QED BY <1>2, <3>1, <4>1 DEF PartialFree
    <3>2. CASE /\ frameIndex' = frameIndex + 1
               /\ frameIndex' \in Frames
               /\ frameIndex' * frameSize = base + frameSize
               /\ bufferOffset' = end
               /\ end < base + frameSize + frameSize
      <4> SUFFICES ASSUME end > base + frameSize
                   PROVE  ~frameUsed'[frameIndex + 1]
        BY <1>2, <3>2 DEF PartialFree
      <4> DEFINE k == base + frameSize
      <4>1. k \in Nat /\ bufferOffset <= k /\ k < end
        BY <1>1, <1>3
      <4>2. k \in Offsets
        BY <1>4, <4>1
      <4>3. k \div frameSize = frameIndex + 1
        <5>1. (frameIndex + 1) * frameSize = k
          BY <3>2
        <5>2. frameIndex + 1 \in Nat /\ k < k + frameSize /\ k <= k
          BY <1>3, <4>1
        <5> HIDE DEF k
        <5> QED BY <1>3, <4>1, <5>1, <5>2, DivFrame
      <4>4. buffer'[k] = offered + 1 + (k - bufferOffset)
        BY <1>1, <4>1, <4>2 DEF Copied
      <4>5. buffer[k] <= offered /\ buffer[k] \in Nat
        BY <1>2, <1>3, <4>2 DEF BytesInv, Numbered
      <4>6. buffer'[k] # buffer[k]
        BY <1>3, <4>1, <4>4, <4>5
      <4>7. ~frameUsed[frameIndex + 1]
        BY <4>2, <4>3, <4>6 DEF CopyToFree
      <4>8. frameIndex + 1 # frameIndex
        BY <1>3
      <4> QED BY <1>1, <1>3, <2>2, <3>2, <4>7, <4>8
    <3> QED BY <1>1, <2>2, <3>1, <3>2
  <2> QED BY <1>1, <2>1, <2>2
<1> QED BY <1>12, <1>13

\* Steps that leave alone who has to save what.
LEMMA LiveSame ==
  ASSUME UNCHANGED <<frameSize, bufferOffset, frameIndex, saveFrame, saveSize>>,
         \A i \in Items : (Unread(i)' <=> Unread(i)) /\ item'[i] = item[i],
         pc' \in {"Rest", "Scan", "DrainScan"} <=> pc \in {"Rest", "Scan", "DrainScan"},
         pc' \in {"Ready", "Rest", "Scan"} <=> pc \in {"Ready", "Rest", "Scan"}
  PROVE  Live' = Live
<1>1. /\ Offsets' = Offsets
      /\ \A k : InCurrent(k)' <=> InCurrent(k)
      /\ \A k : InPart(k, saveFrame, saveSize)' <=> InPart(k, saveFrame, saveSize)
  BY DEF Offsets, BufferSize, InCurrent, InPart
<1>2. ASSUME NEW k
      PROVE  (\E i \in Items : Unread(i)' /\ InPart(k, item[i].frame, item[i].size)')
               <=> \E i \in Items : Unread(i) /\ InPart(k, item[i].frame, item[i].size)
  BY DEF InPart
<1> QED BY <1>1, <1>2 DEF Live

\* Steps that hand no work over leave the saves apart.
LEMMA PartsKept ==
  ASSUME ItemInv', PartInv,
         item' = item,
         \A i \in Items : Unread(i)' => Unread(i),
         pc' = "DrainScan" => pc = "DrainScan" /\ UNCHANGED <<saveFrame, saveSize>>,
         pc' \in {"Rest", "Scan"} => saveSize' > 0
  PROVE  PartsApart' /\ NonEmpty'
<1>1. PartsApart'
  <2>1. \A i, j \in Items :
          Unread(i)' /\ Unread(j)' /\ item'[i].frame = item'[j].frame => i = j
    BY DEF PartInv, PartsApart
  <2>2. pc' \in {"Rest", "Scan"} =>
          \A i \in Items : Unread(i)' => item'[i].frame # saveFrame'
    BY DEF ItemInv, FrameOneItem, Unreleased
  <2>3. pc' = "DrainScan" =>
          \A i \in Items : Unread(i)' => item'[i].frame # saveFrame'
    BY DEF PartInv, PartsApart
  <2> QED BY <2>1, <2>2, <2>3 DEF PartsApart
<1>2. NonEmpty'
  BY DEF PartInv, NonEmpty
<1> QED BY <1>1, <1>2

\* The copy of the left over.
LEMMA BytesWriteRest ==
  ASSUME CursorInv, ItemInv, PartInv, BytesInv, WriteRest
  PROVE  BytesInv' /\ PartialFree'
<1>1. /\ pc = "Rest" /\ pc' = "Scan" /\ rest' = 0 /\ bufferOffset = 0 /\ frameIndex = 0
      /\ rest < frameSize /\ rest <= offered
      /\ ItemsUntouched
      /\ UNCHANGED <<frameSize, frameIndex, frameUsed, offered, sessions,
                     saveFrame, saveSize, file>>
  BY DEF WriteRest, CursorInv, RestFits, ItemsUntouched, workerVars, saveVars
<1>2. /\ TypeOK /\ frameSize \in Nat \ {0} /\ offered \in Nat /\ rest \in Nat
      /\ frameSize <= BufferSize /\ BufferSize \in Nat
      /\ saveFrame \in Nat /\ saveSize \in Nat /\ saveSize <= frameSize
      /\ \A i \in Items : /\ item[i].frame \in Nat /\ item[i].size \in Nat
                          /\ item[i].size <= frameSize
  <2>1. /\ TypeOK /\ frameSize \in Nat \ {0} /\ offered \in Nat /\ rest \in Nat
        /\ saveFrame \in Nat /\ saveSize \in Nat /\ saveSize <= frameSize
        /\ \A i \in Items : /\ item[i].frame \in Nat /\ item[i].size \in Nat
                            /\ item[i].size <= frameSize
    BY ConstantsAssumption DEF CursorInv, TypeOK, SizesFit, Frames
  <2>2. FrameCount \in Nat /\ 0 \in 0 .. FrameCount - 1
    BY ConstantsAssumption
  <2>3. 0 * frameSize + frameSize <= FrameCount * frameSize /\ FrameCount * frameSize \in Nat
    BY <2>1, <2>2, FrameBounds
  <2>4. 0 * frameSize = 0
    BY <2>1
  <2> QED BY <2>1, <2>3, <2>4 DEF BufferSize
<1>3. /\ Offsets' = Offsets /\ Offsets = 0 .. BufferSize - 1
      /\ \A k, f, m : InPart(k, f, m)' <=> InPart(k, f, m)
      /\ \A i \in Items : (Unread(i)' <=> Unread(i)) /\ item'[i] = item[i]
  BY <1>1, UnreadSame DEF Offsets, BufferSize, InPart, ItemsUntouched
<1>4. \A k \in Offsets : ~InCurrent(k)
  <2>1. 0 * frameSize = 0
    BY <1>2
  <2> QED BY <1>1, <1>2, <1>3, <2>1 DEF InCurrent
<1>5. CASE FrameAvailable
  <2>1. /\ buffer' = Copied(0, rest, offered - rest + 1)
        /\ bufferOffset' = rest
        /\ lost' = lost
        /\ ~frameUsed[0]
    BY <1>1, <1>2, <1>5 DEF WriteRest, FrameAvailable
  <2>2. PartialFree'
    BY <1>1, <2>1 DEF PartialFree
  <2> DEFINE New(k) == 0 <= k /\ k < 0 + rest
             Kept(k) == \/ \E i \in Items : Unread(i) /\ InPart(k, item[i].frame, item[i].size)
                        \/ InPart(k, saveFrame, saveSize)
  <2>3. \A k \in Offsets : k \in Live <=> Kept(k)
    BY <1>1, <1>4 DEF Live
  <2>4. \A k \in Offsets : InCurrent(k)' <=> New(k)
    <3>1. 0 * frameSize = 0
      BY <1>2
    <3> QED BY <1>1, <1>2, <1>3, <2>1, <3>1 DEF InCurrent
  <2>5. \A k \in Offsets : k \in Live' <=> Kept(k) \/ InCurrent(k)'
    <3> TAKE k \in Offsets
    <3>1. k \in Live' <=> \/ \E j \in Items : Unread(j)' /\ InPart(k, item[j].frame, item[j].size)'
                          \/ InPart(k, saveFrame, saveSize)'
                          \/ InCurrent(k)'
      BY <1>1, <1>3 DEF Live
    <3>2. (\E j \in Items : Unread(j)' /\ InPart(k, item[j].frame, item[j].size)')
            <=> \E j \in Items : Unread(j) /\ InPart(k, item[j].frame, item[j].size)
      BY <1>1, <1>3 DEF InPart
    <3>3. InPart(k, saveFrame, saveSize)' <=> InPart(k, saveFrame, saveSize)
      BY <1>1 DEF InPart
    <3> QED BY <3>1, <3>2, <3>3
  <2>6. \A k \in Live : buffer'[k] = buffer[k]
    <3> SUFFICES ASSUME NEW k \in Live PROVE buffer'[k] = buffer[k]
      OBVIOUS
    <3>1. k \in Offsets /\ k \in Nat
      BY <1>2, <1>3 DEF Live
    <3>2. frameUsed[k \div frameSize]
      <4>1. CASE InPart(k, saveFrame, saveSize)
        <5>1. k \div frameSize = saveFrame
          BY <1>2, <3>1, <4>1, PartFrame
        <5> QED BY <1>1, <5>1 DEF ItemInv, FrameOneItem
      <4>2. ASSUME NEW i \in Items, Unread(i), InPart(k, item[i].frame, item[i].size)
            PROVE  frameUsed[k \div frameSize]
        <5>1. k \div frameSize = item[i].frame
          BY <1>2, <3>1, <4>2, PartFrame
        <5> QED BY <1>1, <4>2, <5>1 DEF ItemInv, FrameOneItem, Unreleased
      <4> QED BY <2>3, <3>1, <4>1, <4>2
    <3>3. ASSUME New(k) PROVE FALSE
      <4>1. 0 * frameSize <= k /\ k < 0 * frameSize + frameSize
        BY <1>1, <1>2, <3>1, <3>3
      <4>2. k \div frameSize = 0
        BY <1>2, <3>1, <4>1, DivFrame
      <4> QED BY <2>1, <3>2, <4>2
    <3> QED BY <2>1, <3>1, <3>3 DEF Copied
  <2> HIDE DEF Kept
  <2>7. /\ \A k \in Offsets : k \in Live' <=> k \in Live \/ New(k)
        /\ \A k \in Offsets : InCurrent(k)' => k \in Live'
        /\ \A k \in Offsets : InCurrent(k) => k \in Live
        /\ \A k \in Nat : New(k) => k \in Offsets
    BY <1>1, <1>2, <1>3, <1>4, <2>3, <2>4, <2>5
  <2>8. /\ offered' - rest' = offered - rest + rest
        /\ lost \subseteq lost'
        /\ 0 \in Nat
    BY <1>1, <1>2, <2>1
  <2>9. BytesInv'
    BY <1>1, <1>2, <2>1, <2>6, <2>7, <2>8, BytesAdded
  <2> QED BY <2>2, <2>9
<1>6. CASE ~FrameAvailable
  <2>1. /\ lost' = lost \union (offered - rest + 1 .. offered)
        /\ UNCHANGED <<buffer, bufferOffset>>
    BY <1>6 DEF WriteRest
  <2>2. Live' = Live
    BY <1>1, <1>3, <2>1, LiveSame
  <2>3. PartialFree'
    BY <1>1, <2>1 DEF PartInv, PartialFree
  <2>4. /\ offered' - rest' \in Int
        /\ offered - rest <= offered' - rest'
        /\ \A n \in 1 .. offered' - rest' : n <= offered - rest \/ n \in lost'
        /\ lost \subseteq lost'
    BY <1>1, <1>2, <2>1
  <2>5. BytesInv'
    BY <1>1, <1>2, <2>1, <2>2, <2>4, BytesKept
  <2> QED BY <2>3, <2>5
<1> QED BY <1>5, <1>6

\* The types the cursor invariant gives the proofs below.
LEMMA CursorTypes ==
  ASSUME CursorInv
  PROVE  /\ TypeOK /\ frameSize \in Nat \ {0} /\ frameIndex \in Nat
         /\ bufferOffset \in Nat /\ offered \in Nat /\ rest \in Nat
  BY ConstantsAssumption DEF CursorInv, TypeOK, Frames

\* The partial frame is handed over, or there is none.
LEMMA BytesWait ==
  ASSUME CursorInv, CursorInv', ItemInv, PartInv, BytesInv, WaitAllWorkItems
  PROVE  BytesInv' /\ PartInv'
<1>1. /\ pc = "Ready" /\ ItemsUntouched
      /\ UNCHANGED <<frameSize, bufferOffset, frameIndex, frameUsed, buffer, rest,
                     file, offered, lost, sessions>>
  BY DEF WaitAllWorkItems, ItemsUntouched, streamVars, workerVars
<1>2. /\ TypeOK /\ frameSize \in Nat \ {0} /\ frameIndex \in Nat
      /\ bufferOffset \in Nat /\ offered \in Nat /\ rest \in Nat
      /\ frameIndex * frameSize \in Nat
  <2>1. /\ TypeOK /\ frameSize \in Nat \ {0} /\ frameIndex \in Nat
        /\ bufferOffset \in Nat /\ offered \in Nat /\ rest \in Nat
    BY CursorTypes
  <2> QED BY <2>1
<1>3. \A i \in Items : (Unread(i)' <=> Unread(i)) /\ item'[i] = item[i]
  BY <1>1, UnreadSame DEF ItemsUntouched
<1>4. \/ /\ PartialFrame /\ pc' = "DrainScan"
         /\ saveFrame' = frameIndex
         /\ saveSize' = bufferOffset - frameIndex * frameSize
      \/ ~PartialFrame /\ pc' = "Drain"
  BY DEF WaitAllWorkItems, PartialSize
<1>5. Live' = Live
  <2>1. \A k \in Offsets : k \in Nat
    BY <1>2, ConstantsAssumption DEF Offsets, BufferSize
  <2>2. ASSUME NEW k \in Offsets
        PROVE  pc' = "DrainScan" /\ InPart(k, saveFrame, saveSize)' <=> InCurrent(k)
    <3>1. CASE PartialFrame /\ pc' = "DrainScan"
      <4> DEFINE base == frameIndex * frameSize
      <4>1. InPart(k, saveFrame, saveSize)' <=>
              base <= k /\ k < base + (bufferOffset - base)
        BY <1>1, <1>4, <3>1 DEF InPart
      <4>2. InCurrent(k) <=> base <= k /\ k < bufferOffset
        BY DEF InCurrent
      <4>3. base \in Nat /\ bufferOffset \in Nat
        BY <1>2
      <4> HIDE DEF base
      <4>4. base + (bufferOffset - base) = bufferOffset
        BY <4>3
      <4> QED BY <3>1, <4>1, <4>2, <4>4
    <3>2. CASE ~PartialFrame /\ pc' = "Drain"
      <4>1. ~InCurrent(k)
        BY <1>2, <2>1, <3>2 DEF InCurrent, PartialFrame
      <4> QED BY <3>2, <4>1
    <3> QED BY <1>4, <3>1, <3>2
  <2>3. ASSUME NEW k \in Offsets
        PROVE  (\E i \in Items : Unread(i)' /\ InPart(k, item[i].frame, item[i].size)')
                 <=> \E i \in Items : Unread(i) /\ InPart(k, item[i].frame, item[i].size)
    BY <1>1, <1>3 DEF InPart
  <2>4. Offsets' = Offsets
    BY <1>1 DEF Offsets, BufferSize
  <2>5. \A k \in Offsets : k \in Live' <=> k \in Live
    <3> TAKE k \in Offsets
    <3>1. k \in Live' <=> \/ \E j \in Items : Unread(j)' /\ InPart(k, item[j].frame, item[j].size)'
                          \/ pc' = "DrainScan" /\ InPart(k, saveFrame, saveSize)'
      BY <1>3, <1>4, <2>4 DEF Live
    <3>2. k \in Live <=> \/ \E j \in Items : Unread(j) /\ InPart(k, item[j].frame, item[j].size)
                         \/ InCurrent(k)
      BY <1>1 DEF Live
    <3> QED BY <2>2, <2>3, <3>1, <3>2
  <2> QED BY <2>4, <2>5 DEF Live
<1>6. BytesInv'
  <2>1. /\ offered' - rest' \in Int
        /\ offered - rest <= offered' - rest'
        /\ \A n \in 1 .. offered' - rest' : n <= offered - rest
    BY <1>1, <1>2
  <2> QED BY <1>1, <1>2, <1>5, <2>1, BytesKept
<1>7. PartsApart'
  <2>1. \A i, j \in Items :
          Unread(i)' /\ Unread(j)' /\ item'[i].frame = item'[j].frame => i = j
    BY <1>3 DEF PartInv, PartsApart
  <2>2. ASSUME PartialFrame, NEW i \in Items, Unread(i)
        PROVE  item[i].frame # frameIndex
    <3>1. ~frameUsed[frameIndex]
      BY <2>2 DEF PartInv, PartialFree, PartialFrame
    <3>2. frameUsed[item[i].frame]
      BY <1>1, <2>2 DEF ItemInv, FrameOneItem, Unreleased
    <3> QED BY <3>1, <3>2
  <2> QED BY <1>3, <1>4, <2>1, <2>2 DEF PartsApart
<1>8. NonEmpty'
  <2>1. PartialFrame => bufferOffset - frameIndex * frameSize > 0
    BY <1>2 DEF PartialFrame
  <2> QED BY <1>3, <1>4, <2>1 DEF PartInv, NonEmpty
<1> QED BY <1>1, <1>6, <1>7, <1>8 DEF PartInv, PartialFree

\* A work item takes over what SaveFrame was called for.
LEMMA BytesTakeItem ==
  ASSUME CursorInv, ItemInv, PartInv, BytesInv, TakeItem
  PROVE  BytesInv' /\ PartInv'
<1>1. /\ \/ pc = "Scan" /\ pc' = "Ready"
         \/ pc = "DrainScan" /\ pc' = "Drain"
      /\ UNCHANGED <<frameSize, bufferOffset, frameIndex, frameUsed, buffer, rest,
                     file, offered, lost, sessions, saveFrame, saveSize>>
  BY DEF TakeItem, AfterSaveFrame, streamVars
<1>2. PICK s \in Items :
        /\ ~Unread(s)
        /\ \A i \in Items : i # s => item'[i] = item[i]
        /\ item'[s].frame = saveFrame /\ item'[s].size = saveSize
        /\ \A i \in Items : Unread(i)' <=> Unread(i) \/ i = s
  BY UnreadTake DEF CursorInv, ItemInv
<1>3. TypeOK /\ offered \in Nat /\ rest \in Nat
  BY DEF CursorInv, TypeOK
<1>4. Live' = Live
  <2>1. Offsets' = Offsets
    BY <1>1 DEF Offsets, BufferSize
  <2>2. ASSUME NEW k \in Offsets
        PROVE  (\E i \in Items : Unread(i)' /\ InPart(k, item[i].frame, item[i].size)')
                 <=> \/ \E i \in Items : Unread(i) /\ InPart(k, item[i].frame, item[i].size)
                     \/ InPart(k, saveFrame, saveSize)
    <3>1. \A i \in Items : i # s =>
            (InPart(k, item[i].frame, item[i].size)' <=> InPart(k, item[i].frame, item[i].size))
      BY <1>1, <1>2 DEF InPart
    <3>2. InPart(k, item[s].frame, item[s].size)' <=> InPart(k, saveFrame, saveSize)
      BY <1>1, <1>2 DEF InPart
    <3> QED BY <1>2, <3>1, <3>2
  <2>3. \A k \in Offsets : k \in Live' <=> k \in Live
    <3> TAKE k \in Offsets
    <3>1. k \in Live' <=> \/ \E j \in Items : Unread(j)' /\ InPart(k, item[j].frame, item[j].size)'
                          \/ pc' = "Ready" /\ InCurrent(k)'
      BY <1>1, <2>1 DEF Live
    <3>2. k \in Live <=> \/ \E j \in Items : Unread(j) /\ InPart(k, item[j].frame, item[j].size)
                         \/ InPart(k, saveFrame, saveSize)
                         \/ pc = "Scan" /\ InCurrent(k)
      BY <1>1 DEF Live
    <3>3. InCurrent(k)' <=> InCurrent(k)
      BY <1>1 DEF InCurrent
    <3> QED BY <1>1, <2>2, <3>1, <3>2, <3>3
  <2> QED BY <2>1, <2>3 DEF Live
<1>5. BytesInv'
  <2>1. /\ offered' - rest' \in Int
        /\ offered - rest <= offered' - rest'
        /\ \A n \in 1 .. offered' - rest' : n <= offered - rest
    BY <1>1, <1>3
  <2> QED BY <1>1, <1>3, <1>4, <2>1, BytesKept
<1>6. PartsApart'
  <2>1. \A i, j \in Items :
          Unread(i)' /\ Unread(j)' /\ item'[i].frame = item'[j].frame => i = j
    BY <1>1, <1>2 DEF PartInv, PartsApart
  <2> QED BY <1>1, <2>1 DEF PartsApart
<1>7. NonEmpty'
  BY <1>1, <1>2 DEF PartInv, NonEmpty
<1> QED BY <1>1, <1>5, <1>6, <1>7 DEF PartInv, PartialFree

\* There is no work item: what SaveFrame was called for is lost.
LEMMA BytesNoItem ==
  ASSUME CursorInv, ItemInv, ItemInv', PartInv, BytesInv, NoItem
  PROVE  BytesInv' /\ PartInv'
<1>1. /\ \/ pc = "Scan" /\ pc' = "Ready"
         \/ pc = "DrainScan" /\ pc' = "Drain"
      /\ lost' = lost \union {buffer[k] : k \in ToSave}
      /\ UNCHANGED <<frameSize, bufferOffset, frameIndex, frameUsed, buffer, rest,
                     file, offered, sessions, saveFrame, saveSize>>
      /\ ItemsUntouched
  BY DEF NoItem, AfterSaveFrame, streamVars, workerVars, ItemsUntouched
<1>2. \A i \in Items : (Unread(i)' <=> Unread(i)) /\ item'[i] = item[i]
  BY <1>1, UnreadSame DEF ItemsUntouched
<1>3. TypeOK /\ offered \in Nat /\ rest \in Nat
  BY DEF CursorInv, TypeOK
<1>4. /\ \A k \in Live' : k \in Live
      /\ \A k \in Live : k \in Live' \/ buffer[k] \in lost'
  <2>1. Offsets' = Offsets /\ Live \subseteq Offsets /\ Live' \subseteq Offsets'
    BY <1>1 DEF Offsets, BufferSize, Live
  <2>2. ASSUME NEW k \in Offsets
        PROVE  (\E i \in Items : Unread(i)' /\ InPart(k, item[i].frame, item[i].size)')
                 <=> \E i \in Items : Unread(i) /\ InPart(k, item[i].frame, item[i].size)
    BY <1>1, <1>2 DEF InPart
  <2>3. ASSUME NEW k \in Offsets
        PROVE  /\ k \in Live' => k \in Live
               /\ k \in Live => k \in Live' \/ buffer[k] \in lost'
    <3>1. k \in Live' <=> \/ \E j \in Items : Unread(j)' /\ InPart(k, item[j].frame, item[j].size)'
                          \/ pc' = "Ready" /\ InCurrent(k)'
      BY <1>1, <2>1 DEF Live
    <3>2. k \in Live <=> \/ \E j \in Items : Unread(j) /\ InPart(k, item[j].frame, item[j].size)
                         \/ InPart(k, saveFrame, saveSize)
                         \/ pc = "Scan" /\ InCurrent(k)
      BY <1>1 DEF Live
    <3>3. InCurrent(k)' <=> InCurrent(k)
      BY <1>1 DEF InCurrent
    <3>4. InPart(k, saveFrame, saveSize) => buffer[k] \in lost'
      BY <1>1 DEF InPart, ToSave
    <3> QED BY <1>1, <2>2, <3>1, <3>2, <3>3, <3>4
  <2> QED BY <2>1, <2>3
<1>5. BytesInv'
  <2>1. /\ offered' - rest' \in Int
        /\ offered - rest <= offered' - rest'
        /\ \A n \in 1 .. offered' - rest' : n <= offered - rest
        /\ lost \subseteq lost'
    BY <1>1, <1>3
  <2> QED BY <1>1, <1>3, <1>4, <2>1, BytesKept
<1>6. PartsApart' /\ NonEmpty'
  BY <1>1, <1>2, PartsKept DEF ItemsUntouched
<1> QED BY <1>1, <1>5, <1>6 DEF PartInv, PartialFree

\* A new session may add to the partial frame that the last one saved.
LEMMA BytesLeaveStop ==
  ASSUME CursorInv, ItemInv, ItemInv', PartInv, BytesInv, LeaveStop
  PROVE  BytesInv' /\ PartInv'
<1>1. /\ pc = "Stopped" /\ pc' = "Ready" /\ sessions' = sessions + 1
      /\ UNCHANGED <<frameSize, bufferOffset, frameIndex, frameUsed, buffer, rest,
                     file, offered, lost, saveFrame, saveSize>>
      /\ ItemsUntouched
  BY DEF LeaveStop, workerVars, saveVars, ItemsUntouched
<1>2. \A i \in Items : (Unread(i)' <=> Unread(i)) /\ item'[i] = item[i]
  BY <1>1, UnreadSame DEF ItemsUntouched
<1>3. /\ TypeOK /\ offered \in Nat /\ rest \in Nat /\ sessions \in Nat
      /\ frameSize \in Nat
  BY ConstantsAssumption DEF CursorInv, TypeOK
<1>4. \A i \in Items : ~Unread(i)
  BY <1>1, DoneIsFree DEF ItemInv, StoppedDone, Unreleased
<1>5. Live = {}
  BY <1>1, <1>4 DEF Live
<1>6. \A k \in Live' : InCurrent(k) /\ k \in Offsets
  BY <1>1, <1>2, <1>4 DEF Live, InCurrent, Offsets, BufferSize
<1>7. sessions' <= 1 => sessions <= 1 /\ Live' \subseteq Live
  <2> SUFFICES ASSUME sessions' <= 1, NEW k \in Live' PROVE FALSE
    BY <1>1, <1>3
  <2>1. sessions = 0
    BY <1>1, <1>3
  <2>2. bufferOffset = 0 /\ frameIndex = 0
    BY <2>1 DEF CursorInv, Fresh
  <2>3. 0 * frameSize = 0
    BY <1>3
  <2>4. k \in Nat
    BY <1>3, <1>6, ConstantsAssumption DEF Offsets, BufferSize
  <2> QED BY <1>6, <2>2, <2>3, <2>4 DEF InCurrent
<1>8. BytesInv'
  <2>1. /\ offered' - rest' \in Int
        /\ offered - rest <= offered' - rest'
        /\ \A n \in 1 .. offered' - rest' : n <= offered - rest
    BY <1>1, <1>3
  <2> QED BY <1>1, <1>3, <1>5, <1>6, <1>7, <2>1, BytesKept
<1>9. PartsApart' /\ NonEmpty'
  BY <1>1, <1>2, PartsKept DEF ItemsUntouched
<1>10. sessions' # 0
  BY <1>1, <1>3
<1> QED BY <1>1, <1>8, <1>9, <1>10 DEF PartInv, PartialFree

\* Before the first session there is nothing to keep.
LEMMA BytesSetMaxWriteSize ==
  ASSUME CursorInv, ItemInv, ItemInv', PartInv, BytesInv,
         NEW size \in FrameSizes, SetMaxWriteSize(size)
  PROVE  BytesInv' /\ PartInv'
<1>1. /\ pc = "Stopped" /\ pc' = pc /\ sessions = 0
      /\ frameSize' = size
      /\ buffer' = [k \in 0 .. FrameCount * size - 1 |-> 0]
      /\ UNCHANGED <<bufferOffset, frameIndex, frameUsed, rest,
                     file, offered, lost, sessions, saveFrame, saveSize>>
      /\ ItemsUntouched
  BY DEF SetMaxWriteSize, workerVars, saveVars, ItemsUntouched
<1>2. \A i \in Items : (Unread(i)' <=> Unread(i)) /\ item'[i] = item[i]
  BY <1>1, UnreadSame DEF ItemsUntouched
<1>3. offered = 0 /\ rest = 0 /\ bufferOffset = 0 /\ frameIndex = 0
  BY <1>1 DEF PartInv, CursorInv, Fresh
<1>4. \A i \in Items : ~Unread(i)
  BY <1>1, DoneIsFree DEF ItemInv, StoppedDone, Unreleased
<1>5. /\ size \in Nat \ {0} /\ FrameCount * size \in Nat
      /\ 0 * size = 0
  <2>1. size \in Nat \ {0} /\ FrameCount \in Nat
    BY ConstantsAssumption
  <2> QED BY <2>1
<1>6. Offsets' = 0 .. FrameCount * size - 1 /\ \A k \in Offsets' : k \in Nat
  BY <1>1, <1>5 DEF Offsets, BufferSize
<1>7. Live' = {} /\ \A k \in Offsets' : ~InCurrent(k)'
  BY <1>1, <1>2, <1>3, <1>4, <1>5, <1>6 DEF Live, InCurrent
<1>8. Numbered'
  <2>1. offered' - rest' = 0 /\ offered - rest = 0
    BY <1>1, <1>3
  <2>2. \A k \in Offsets' : buffer'[k] <= 0
    BY <1>1, <1>6
  <2> QED BY <1>1, <2>1, <2>2 DEF BytesInv, Numbered
<1>9. Accounted'
  BY <1>1, <1>3 DEF Accounted
<1>10. Distinct' /\ Once'
  BY <1>1, <1>7 DEF BytesInv, Distinct, Once, SavedOnce
<1>11. PartsApart' /\ NonEmpty'
  BY <1>1, <1>2, PartsKept DEF ItemsUntouched
<1>12. PartialFree'
  BY <1>1, <1>3, <1>5 DEF PartialFree
<1> QED BY <1>1, <1>3, <1>8, <1>9, <1>10, <1>11, <1>12 DEF PartInv, BytesInv

\* The bytes are kept by every step whose writes reach into no other frame that
\* is in use.
LEMMA BytesNext ==
  ASSUME CursorInv, CursorInv', ItemInv, ItemInv', PartInv, BytesInv,
         [FittingNext]_vars
  PROVE  BytesInv' /\ PartInv'
<1>1. /\ TypeOK /\ offered \in Nat /\ rest \in Nat /\ sessions \in Nat
  BY DEF CursorInv, TypeOK
<1>2. ASSUME ItemsUntouched,
             UNCHANGED <<frameSize, bufferOffset, frameIndex, frameUsed, buffer,
                         rest, file, sessions, saveFrame, saveSize>>,
             offered' \in Nat, offered <= offered',
             \A n \in 1 .. offered' - rest' : n <= offered - rest \/ n \in lost',
             lost \subseteq lost',
             \/ pc' = pc
             \/ /\ pc \notin {"Rest", "Scan", "DrainScan", "Ready"}
                /\ pc' \notin {"Rest", "Scan", "DrainScan", "Ready"},
             sessions = 0 => offered' = 0
      PROVE  BytesInv' /\ PartInv'
  <2>1. \A i \in Items : (Unread(i)' <=> Unread(i)) /\ item'[i] = item[i]
    BY <1>2, UnreadSame DEF ItemsUntouched
  <2>2. Live' = Live
    BY <1>2, <2>1, LiveSame
  <2>3. offered' - rest' \in Int /\ offered - rest <= offered' - rest'
    <3>1. offered' - rest' = offered' - rest
      BY <1>2
    <3>2. offered' \in Nat /\ offered <= offered'
      BY <1>2
    <3>3. \A a, b, c \in Nat : a <= c => c - b \in Int /\ a - b <= c - b
      OBVIOUS
    <3>4. offered' - rest \in Int /\ offered - rest <= offered' - rest
      BY <1>1, <3>2, <3>3, Zenon
    <3> QED BY <3>1, <3>4
  <2>4. BytesInv'
    BY <1>1, <1>2, <2>2, <2>3, BytesKept
  <2>5. PartsApart' /\ NonEmpty'
    <3>1. /\ pc' = "DrainScan" => pc = "DrainScan"
          /\ pc' \in {"Rest", "Scan"} => saveSize' > 0
      BY <1>2 DEF PartInv, NonEmpty
    <3> QED BY <1>2, <2>1, <3>1, PartsKept DEF ItemsUntouched
  <2>6. PartialFree' /\ (sessions' = 0 => offered' = 0) /\ (pc' # "Rest" => rest' = 0)
    BY <1>2 DEF PartInv, PartialFree
  <2> QED BY <2>4, <2>5, <2>6 DEF PartInv
<1>3. ASSUME NEW size \in FrameSizes, SetMaxWriteSize(size)
      PROVE  BytesInv' /\ PartInv'
  BY <1>3, BytesSetMaxWriteSize
<1>4. CASE LeaveStop
  BY <1>4, BytesLeaveStop
<1>5. CASE \/ \E fDisable \in BOOLEAN : Disable(fDisable)
           \/ AllItemsDone \/ SkipItem \/ Destroy \/ UNCHANGED vars
  <2>1. /\ ItemsUntouched
        /\ UNCHANGED <<frameSize, bufferOffset, frameIndex, frameUsed, buffer,
                       rest, file, sessions, saveFrame, saveSize, offered, lost>>
        /\ \/ pc' = pc
           \/ /\ pc \notin {"Rest", "Scan", "DrainScan", "Ready"}
              /\ pc' \notin {"Rest", "Scan", "DrainScan", "Ready"}
    BY <1>5 DEF Disable, AllItemsDone, SkipItem, Destroy, vars, ItemsUntouched,
       streamVars, saveVars, workerVars
  <2>2. /\ offered' \in Nat /\ offered <= offered'
        /\ \A n \in 1 .. offered' - rest' : n <= offered - rest
        /\ sessions = 0 => offered' = 0
    BY <1>1, <2>1 DEF PartInv
  <2> QED BY <1>2, <2>1, <2>2
<1>6. ASSUME NEW n \in WriteSizes, WriteDropped(n)
      PROVE  BytesInv' /\ PartInv'
  <2>1. /\ ItemsUntouched
        /\ UNCHANGED <<frameSize, bufferOffset, frameIndex, frameUsed, buffer,
                       rest, file, sessions, saveFrame, saveSize>>
        /\ pc' = pc /\ pc = "Ready"
        /\ offered' = offered + n
        /\ lost' = lost \union (offered + 1 .. offered + n)
    BY <1>6 DEF WriteDropped, ItemsUntouched, saveVars, workerVars
  <2>2. n \in Nat /\ rest = 0 /\ sessions # 0
    BY <2>1, ConstantsAssumption DEF PartInv, CursorInv, Fresh
  <2>3. /\ offered' \in Nat /\ offered <= offered' /\ lost \subseteq lost'
        /\ \A m \in 1 .. offered' - rest' : m <= offered - rest \/ m \in lost'
    BY <1>1, <2>1, <2>2
  <2> QED BY <1>2, <2>1, <2>2, <2>3
<1>7. ASSUME NEW n \in WriteSizes, WriteData(n), CopyToFree
      PROVE  BytesInv' /\ PartInv'
  <2>1. BytesInv' /\ PartialFree'
    BY <1>7, BytesWriteData
  <2>2. /\ item' = item /\ ItemsUntouched /\ sessions' = sessions
        /\ pc = "Ready"
    BY <1>7 DEF WriteData, ItemsUntouched, workerVars
  <2>3. \A i \in Items : Unread(i)' => Unread(i)
    BY <2>2, UnreadSame
  <2>4. /\ pc' \in {"Ready", "Rest", "Scan"}
        /\ pc' # "Rest" => rest' = 0
        /\ pc' \in {"Rest", "Scan"} => saveSize' = frameSize
    BY <1>7, WriteDataShape
  <2>5. frameSize > 0
    BY <1>1, ConstantsAssumption DEF TypeOK
  <2>6. PartsApart' /\ NonEmpty'
    BY <2>2, <2>3, <2>4, <2>5, PartsKept
  <2>7. sessions # 0
    BY <2>2 DEF CursorInv, Fresh
  <2> QED BY <2>1, <2>2, <2>4, <2>6, <2>7 DEF PartInv
<1>8. CASE WriteRest
  <2>1. BytesInv' /\ PartialFree'
    BY <1>8, BytesWriteRest
  <2>2. /\ item' = item /\ ItemsUntouched /\ sessions' = sessions /\ rest' = 0
        /\ pc = "Rest" /\ pc' = "Scan" /\ saveSize' = saveSize
    BY <1>8 DEF WriteRest, ItemsUntouched, workerVars, saveVars
  <2>3. \A i \in Items : Unread(i)' => Unread(i)
    BY <2>2, UnreadSame
  <2>4. PartsApart' /\ NonEmpty'
    BY <2>2, <2>3, PartsKept DEF PartInv, NonEmpty
  <2>5. sessions # 0
    BY <2>2 DEF CursorInv, Fresh
  <2> QED BY <2>1, <2>2, <2>4, <2>5 DEF PartInv
<1>9. CASE WaitAllWorkItems
  BY <1>9, BytesWait
<1>10. CASE TakeItem
  BY <1>10, BytesTakeItem
<1>11. CASE NoItem
  BY <1>11, BytesNoItem
<1>12. ASSUME NEW w \in Workers, Worker(w)
       PROVE  BytesInv' /\ PartInv'
  <2>1. /\ UNCHANGED <<streamVars, saveVars, buffer, pc, item>>
        /\ \A f \in Frames : frameUsed'[f] => frameUsed[f]
        /\ ~WriteFrame(w) => /\ UNCHANGED <<file, lost>>
                             /\ \A i \in Items : Unread(i)' <=> Unread(i)
        /\ WriteFrame(w) => \A i \in Items : Unread(i)' => Unread(i)
    BY <1>1, <1>12, UnreadWorker DEF ItemInv
  <2>2. UNCHANGED <<frameSize, bufferOffset, frameIndex, rest, offered, sessions,
                    saveFrame, saveSize>>
    BY <2>1 DEF streamVars, saveVars
  <2>3. PartsApart' /\ NonEmpty'
    <3>1. /\ \A i \in Items : Unread(i)' => Unread(i)
          /\ pc' \in {"Rest", "Scan"} => saveSize' > 0
      BY <2>1, <2>2 DEF PartInv, NonEmpty
    <3> QED BY <2>1, <2>2, <3>1, PartsKept
  <2>4. PartialFree'
    BY <1>1, <2>1, <2>2 DEF PartInv, PartialFree, TypeOK
  <2>5. BytesInv'
    <3>1. CASE WriteFrame(w)
      BY <3>1, BytesWriteFrame
    <3>2. CASE ~WriteFrame(w)
      <4>1. \A i \in Items : (Unread(i)' <=> Unread(i)) /\ item'[i] = item[i]
        BY <2>1, <3>2
      <4>2. Live' = Live
        BY <2>1, <2>2, <4>1, LiveSame
      <4>3. /\ offered' - rest' \in Int
            /\ offered - rest <= offered' - rest'
            /\ \A n \in 1 .. offered' - rest' : n <= offered - rest
        BY <1>1, <2>2
      <4> QED BY <1>1, <2>1, <2>2, <3>2, <4>2, <4>3, BytesKept
    <3> QED BY <3>1, <3>2
  <2> QED BY <2>1, <2>2, <2>3, <2>4, <2>5 DEF PartInv
<1> QED BY <1>3, <1>4, <1>5, <1>6, <1>7, <1>8, <1>9, <1>10, <1>11, <1>12
        DEF FittingNext

\* At first there are no bytes.
LEMMA BytesInit == Init => BytesInv /\ PartInv
<1> SUFFICES ASSUME Init PROVE BytesInv /\ PartInv
  OBVIOUS
<1>1. \A i \in Items : ~Unread(i)
  BY DEF Init, Unread, Queued
<1>2. /\ frameSize \in Nat \ {0} /\ 0 * frameSize = 0
  <2>1. frameSize \in Nat \ {0}
    BY ConstantsAssumption DEF Init
  <2> QED BY <2>1
<1>3. \A k \in Offsets : k \in Nat
  BY <1>2, ConstantsAssumption DEF Offsets, BufferSize
<1>4. Live = {} /\ \A k \in Offsets : ~InCurrent(k)
  BY <1>1, <1>2, <1>3 DEF Init, Live, InCurrent
<1>5. BytesInv
  <2>1. Numbered /\ Accounted
    BY DEF Init, Numbered, Accounted
  <2>2. Distinct /\ Once
    BY <1>4 DEF Init, Distinct, Once, SavedOnce
  <2> QED BY <2>1, <2>2 DEF BytesInv
<1>6. PartInv
  BY <1>1, <1>2 DEF Init, PartInv, PartialFree, PartsApart, NonEmpty
<1> QED BY <1>5, <1>6

\* Such a stream is one of those that CSaveData serves.
LEMMA FittingStep == [FittingNext]_vars => [Next]_vars
BY DEF FittingNext, Next, Stream

LEMMA FittingIsSpec == FittingSpec => Spec
BY FittingStep, PTL DEF FittingSpec, Spec

\* The inductive invariant of the bytes.
LEMMA BytesInvariant == FittingSpec => [](BytesInv /\ PartInv)
<1>1. Init => BytesInv /\ PartInv
  BY BytesInit
<1>2. /\ CursorInv /\ CursorInv' /\ ItemInv /\ ItemInv' /\ BytesInv /\ PartInv
      /\ [FittingNext]_vars
      => (BytesInv /\ PartInv)'
  BY BytesNext
<1> QED BY <1>1, <1>2, FittingIsSpec, CursorInvariant, ItemInvariant, PTL
        DEF FittingSpec

\* Nothing is left to be saved when the stream has stopped.
LEMMA StoppedLive ==
  ASSUME CursorInv, ItemInv, PartInv, BytesInv
  PROVE  StoppedSavedAll
<1> SUFFICES ASSUME pc \in {"Stopped", "Destroyed"},
                    NEW n \in 1 .. offered, n \notin lost
             PROVE  \E k \in 1 .. Len(file) : file[k] = n
  BY DEF StoppedSavedAll
<1>1. \A i \in Items : ~Unread(i)
  BY DoneIsFree DEF ItemInv, StoppedDone, Unreleased
<1>2. Live = {}
  BY <1>1 DEF Live
<1>3. rest = 0 /\ offered \in Nat
  BY DEF PartInv, CursorInv, TypeOK
<1>4. n \in 1 .. offered - rest
  BY <1>3
<1> QED BY <1>2, <1>4 DEF BytesInv, Accounted, InFile

\* When the stream has stopped, every byte is in the file but those that a
\* refusal, a failed file write or the lack of a work item has cost, if no write
\* reached into a frame in use: for any ring, number of work items and worker
\* threads, writes and restarts.
THEOREM StoppedIsSaved == FittingSpec => []StoppedSavedAll
<1>1. CursorInv /\ ItemInv /\ BytesInv /\ PartInv => StoppedSavedAll
  BY StoppedLive
<1> QED BY <1>1, FittingIsSpec, BytesInvariant, CursorInvariant, ItemInvariant, PTL

\* And until the stream is restarted no byte is in the file twice.  (A restart
\* after a stop in mid-frame saves the partial frame again.)
THEOREM SavedAtMostOnce == FittingSpec => [](sessions <= 1 => SavedOnce)
<1>1. BytesInv => (sessions <= 1 => SavedOnce)
  BY DEF BytesInv, Once
<1> QED BY <1>1, BytesInvariant, PTL

-----------------------------------------------------------------------------
(***************************************************************************)
(* The ring and its work items implement the log of chunks.                *)
(***************************************************************************)

\* The chunks in flight: what the work items describe that are still unread.
Chunks == {FrameData(i) : i \in {j \in Items : Unread(j)}}

\* Two items never describe the same chunk.
ChunksApart ==
  \A i, j \in Items :
    Unread(i) /\ Unread(j) /\ FrameData(i) = FrameData(j) => i = j

\* Their first bytes are at two offsets that count.
LEMMA ChunksAreApart ==
  ASSUME CursorInv, ItemInv, PartInv, BytesInv
  PROVE  ChunksApart
<1> SUFFICES ASSUME NEW i \in Items, NEW j \in Items, Unread(i), Unread(j),
                    FrameData(i) = FrameData(j)
             PROVE  i = j
  BY DEF ChunksApart
<1>1. ASSUME NEW h \in Items, Unread(h)
      PROVE  \E k \in Offsets : /\ InPart(k, item[h].frame, item[h].size)
                                /\ FrameData(h)[1] = buffer[k]
  <2>1. item[h].size \in Nat /\ item[h].size > 0
    BY <1>1, CursorTypes DEF PartInv, NonEmpty, TypeOK
  <2>2. Len(FrameData(h)) = item[h].size
    BY FrameDataAt
  <2>3. 1 \in 1 .. Len(FrameData(h))
    BY <2>1, <2>2
  <2>4. \A m \in 1 .. Len(FrameData(h)) :
          \E k \in Offsets : /\ InPart(k, item[h].frame, item[h].size)
                             /\ FrameData(h)[m] = buffer[k]
    BY FrameDataAt
  <2> QED BY <2>3, <2>4
<1>2. PICK k \in Offsets : /\ InPart(k, item[i].frame, item[i].size)
                           /\ FrameData(i)[1] = buffer[k]
  BY <1>1
<1>3. PICK l \in Offsets : /\ InPart(l, item[j].frame, item[j].size)
                           /\ FrameData(j)[1] = buffer[l]
  BY <1>1
<1>4. k \in Live /\ l \in Live
  BY <1>2, <1>3, PartAlone
<1>5. k = l
  BY <1>2, <1>3, <1>4 DEF BytesInv, Distinct
<1> QED BY <1>2, <1>3, <1>5, PartAlone

\* A chunk stays what it is when its bytes in the ring do.
LEMMA ChunkKept ==
  ASSUME CursorInv, NEW i \in Items, frameSize' = frameSize, item'[i] = item[i],
         \A k \in Offsets : InPart(k, item[i].frame, item[i].size) =>
           buffer'[k] = buffer[k]
  PROVE  FrameData(i)' = FrameData(i)
<1>1. \A m \in 1 .. Len(FrameData(i)) :
        LET k == item[i].frame * frameSize + m - 1
        IN  k \in Offsets /\ InPart(k, item[i].frame, item[i].size)
  BY FrameDataAt
<1>2. Len(FrameData(i)) = item[i].size
  BY FrameDataAt
<1>3. \A m \in 1 .. item[i].size :
        buffer'[item[i].frame * frameSize + m - 1] = buffer[item[i].frame * frameSize + m - 1]
  BY <1>1, <1>2
<1> QED BY <1>3 DEF FrameData

LEMMA ChunksKept ==
  ASSUME \A i \in Items : Unread(i)' <=> Unread(i),
         \A i \in Items : Unread(i) => FrameData(i)' = FrameData(i)
  PROVE  Chunks' = Chunks
BY DEF Chunks

\* The chunks are of different frames, and the frame that is handed over has
\* none: there is room for its chunk.
LEMMA RoomForChunk ==
  ASSUME CursorInv, PartInv, pc \in {"Scan", "DrainScan"}
  PROVE  Cardinality(Chunks) < FrameCount
<1> DEFINE Of(c) == CHOOSE i \in Items : Unread(i) /\ FrameData(i) = c
           T == Frames \ {saveFrame}
           g == [c \in Chunks |-> item[Of(c)].frame]
<1>1. \A c \in Chunks : Of(c) \in Items /\ Unread(Of(c)) /\ FrameData(Of(c)) = c
  BY DEF Chunks
<1>2. \A i \in Items : item[i].frame \in Frames
  BY CursorTypes DEF TypeOK
<1>3. /\ \A i, j \in Items :
           Unread(i) /\ Unread(j) /\ item[i].frame = item[j].frame => i = j
      /\ \A i \in Items : Unread(i) => item[i].frame # saveFrame
  BY DEF PartInv, PartsApart
<1> HIDE DEF Of
<1>4. g \in [Chunks -> T]
  BY <1>1, <1>2, <1>3
<1>5. \A c, d \in Chunks : g[c] = g[d] => c = d
  BY <1>1, <1>3
<1>6. g \in Injection(Chunks, T)
  BY <1>4, <1>5 DEF Injection, IsInjective
<1>7. IsFiniteSet(T) /\ Cardinality(T) = FrameCount - 1
  <2>1. FrameCount \in Nat \ {0} /\ saveFrame \in Frames
    BY ConstantsAssumption, CursorTypes DEF TypeOK
  <2>2. IsFiniteSet(Frames) /\ Cardinality(Frames) = FrameCount
    <3>1. 0 \in Int /\ FrameCount - 1 \in Int /\ ~(0 > FrameCount - 1)
          /\ FrameCount - 1 - 0 + 1 = FrameCount
      BY <2>1
    <3> DEFINE last == FrameCount - 1
    <3> HIDE DEF last
    <3>2. /\ IsFiniteSet(0 .. last)
          /\ Cardinality(0 .. last) = IF 0 > last THEN 0 ELSE last - 0 + 1
      BY <3>1, FS_Interval DEF last
    <3> QED BY <3>1, <3>2 DEF last, Frames
  <2> QED BY <2>1, <2>2, FS_RemoveElement
<1> HIDE DEF g, T
<1>8. IsFiniteSet(Chunks) /\ Cardinality(Chunks) <= Cardinality(T)
  BY <1>6, <1>7, FS_Injection
<1>9. Cardinality(Chunks) \in Nat
  BY <1>8, FS_CardinalityType
<1> QED BY <1>7, <1>8, <1>9, ConstantsAssumption

\* A write to the file commits the item's chunk, or loses it.
LEMMA LogWriteFrame ==
  ASSUME CursorInv, ItemInv, ChunksApart, NEW w \in Workers, WriteFrame(w)
  PROVE  \E chunk \in Chunks :
           /\ Chunks' = Chunks \ {chunk}
           /\ file' = file \o chunk \/ file' = file
<1> DEFINE i == witem[w]
<1>1. /\ UNCHANGED <<frameSize, buffer, item>>
      /\ i \in Items /\ Unread(i)
      /\ \A j \in Items : Unread(j)' <=> Unread(j) /\ j # i
  <2>1. Worker(w)
    BY DEF Worker
  <2> QED BY <2>1, UnreadWorker DEF CursorInv, ItemInv, streamVars
<1> HIDE DEF i
<1>2. \A j \in Items : FrameData(j)' = FrameData(j)
  BY <1>1 DEF FrameData
<1>3. Chunks' = Chunks \ {FrameData(i)}
  BY <1>1, <1>2 DEF Chunks, ChunksApart
<1>4. FrameData(i) \in Chunks
  BY <1>1 DEF Chunks
<1>5. file' = file \o FrameData(i) \/ file' = file
  BY DEF WriteFrame, i
<1> QED BY <1>3, <1>4, <1>5

\* A work item that is taken submits the chunk it describes.
LEMMA LogTakeItem ==
  ASSUME CursorInv, CursorInv', ItemInv, PartInv, ChunksApart', TakeItem
  PROVE  /\ file' = file
         /\ \E chunk : /\ chunk # <<>>
                       /\ Cardinality(Chunks) < FrameCount
                       /\ chunk \notin Chunks
                       /\ Chunks' = Chunks \union {chunk}
<1>1. /\ pc \in {"Scan", "DrainScan"}
      /\ UNCHANGED <<frameSize, buffer, file>>
  BY DEF TakeItem, streamVars
<1>2. PICK s \in Items :
        /\ ~Unread(s)
        /\ \A i \in Items : i # s => item'[i] = item[i]
        /\ item'[s].frame = saveFrame /\ item'[s].size = saveSize
        /\ \A i \in Items : Unread(i)' <=> Unread(i) \/ i = s
  BY UnreadTake DEF CursorInv, ItemInv
<1>3. \A i \in Items : i # s => FrameData(i)' = FrameData(i)
  BY <1>1, <1>2 DEF FrameData
<1>4. PICK chunk : chunk = FrameData(s)'
  OBVIOUS
<1>5. Chunks' = Chunks \union {chunk}
  BY <1>2, <1>3, <1>4 DEF Chunks
<1>6. chunk \notin Chunks
  BY <1>2, <1>3, <1>4 DEF Chunks, ChunksApart
<1>7. chunk # <<>>
  <2>1. saveSize \in Nat /\ saveSize > 0
    BY <1>1, CursorTypes DEF PartInv, NonEmpty, TypeOK
  <2>2. chunk = [k \in 1 .. saveSize |-> buffer'[item'[s].frame * frameSize' + k - 1]]
    BY <1>2, <1>4 DEF FrameData
  <2>3. 1 \in DOMAIN chunk
    BY <2>1, <2>2
  <2> QED BY <2>3
<1>8. Cardinality(Chunks) < FrameCount
  BY <1>1, RoomForChunk
<1> QED BY <1>1, <1>5, <1>6, <1>7, <1>8

\* The left over is copied only to a frame that is not in use, whose flag
\* WriteData has tested again.
LEMMA RestToFree ==
  ASSUME CursorInv, WriteRest
  PROVE  CopyToFree
<1> SUFFICES ASSUME NEW k \in Offsets, frameUsed[k \div frameSize],
                    buffer'[k] # buffer[k]
             PROVE  FALSE
  BY DEF CopyToFree
<1>1. bufferOffset = 0 /\ frameIndex = 0 /\ rest < frameSize
  BY DEF CursorInv, RestFits, WriteRest
<1>2. /\ FrameAvailable
      /\ buffer' = Copied(bufferOffset, rest, offered - rest + 1)
  BY DEF WriteRest
<1>3. bufferOffset <= k /\ k < bufferOffset + rest
  BY <1>2 DEF Copied
<1>4. /\ frameSize \in Nat \ {0} /\ rest \in Nat /\ k \in Nat
      /\ 0 * frameSize = 0
  <2>1. frameSize \in Nat \ {0} /\ rest \in Nat
    BY CursorTypes
  <2> QED BY <2>1, ConstantsAssumption DEF Offsets, BufferSize
<1>5. k \div frameSize = 0
  <2>1. 0 * frameSize <= k /\ k < 0 * frameSize + frameSize
    BY <1>1, <1>3, <1>4
  <2> QED BY <1>4, <2>1, DivFrame
<1> QED BY <1>1, <1>2, <1>5 DEF FrameAvailable

\* The other steps neither submit nor commit: who copies leaves alone the bytes
\* that are still to be read.
LEMMA LogOtherStep ==
  ASSUME CursorInv, ItemInv, PartInv, [FittingNext]_vars, ~TakeItem,
         \A w \in Workers : ~WriteFrame(w)
  PROVE  Chunks' = Chunks /\ file' = file
<1>1. ASSUME \A i \in Items : (Unread(i)' <=> Unread(i)) /\ item'[i] = item[i],
             UNCHANGED <<frameSize, file>>,
             \A i \in Items : Unread(i) =>
               \A k \in Offsets : InPart(k, item[i].frame, item[i].size) =>
                 buffer'[k] = buffer[k]
      PROVE  Chunks' = Chunks /\ file' = file
  <2>1. \A i \in Items : Unread(i) => FrameData(i)' = FrameData(i)
    BY <1>1, ChunkKept
  <2> QED BY <1>1, <2>1, ChunksKept
<1>2. ASSUME ItemsUntouched, UNCHANGED <<frameSize, buffer, file>>
      PROVE  Chunks' = Chunks /\ file' = file
  <2>1. \A i \in Items : (Unread(i)' <=> Unread(i)) /\ item'[i] = item[i]
    BY <1>2, UnreadSame DEF ItemsUntouched
  <2> QED BY <1>1, <1>2, <2>1
<1>3. ASSUME NEW size \in FrameSizes, SetMaxWriteSize(size)
      PROVE  Chunks' = Chunks /\ file' = file
  <2>1. pc = "Stopped" /\ ItemsUntouched /\ file' = file
    BY <1>3 DEF SetMaxWriteSize, workerVars, ItemsUntouched
  <2>2. \A i \in Items : ~Unread(i)
    BY <2>1, DoneIsFree DEF ItemInv, StoppedDone, Unreleased
  <2>3. \A i \in Items : Unread(i)' <=> Unread(i)
    BY <2>1, UnreadSame
  <2> QED BY <2>1, <2>2, <2>3, ChunksKept
<1>4. ASSUME NEW n \in WriteSizes, WriteData(n), CopyToFree
      PROVE  Chunks' = Chunks /\ file' = file
  <2>1. pc = "Ready" /\ ItemsUntouched /\ UNCHANGED <<frameSize, file, item>>
    BY <1>4 DEF WriteData, workerVars, ItemsUntouched
  <2>2. \A i \in Items : Unread(i)' <=> Unread(i)
    BY <2>1, UnreadSame
  <2>3. \A i \in Items : Unread(i) =>
          \A k \in Offsets : InPart(k, item[i].frame, item[i].size) =>
            buffer'[k] = buffer[k]
    BY <1>4, <2>1, ReadsUndisturbed
  <2> QED BY <1>1, <2>1, <2>2, <2>3
<1>5. CASE WriteRest
  <2>1. pc = "Rest" /\ ItemsUntouched /\ UNCHANGED <<frameSize, file, item>>
    BY <1>5 DEF WriteRest, workerVars, ItemsUntouched
  <2>2. \A i \in Items : Unread(i)' <=> Unread(i)
    BY <2>1, UnreadSame
  <2>3. CopyToFree
    BY <1>5, RestToFree
  <2>4. \A i \in Items : Unread(i) =>
          \A k \in Offsets : InPart(k, item[i].frame, item[i].size) =>
            buffer'[k] = buffer[k]
    BY <2>1, <2>3, ReadsUndisturbed
  <2> QED BY <1>1, <2>1, <2>2, <2>4
<1>6. CASE \/ LeaveStop
           \/ \E fDisable \in BOOLEAN : Disable(fDisable)
           \/ \E n \in WriteSizes : WriteDropped(n)
           \/ WaitAllWorkItems \/ AllItemsDone \/ SkipItem \/ NoItem \/ Destroy
           \/ UNCHANGED vars
  <2>1. ItemsUntouched /\ UNCHANGED <<frameSize, buffer, file>>
    BY <1>6 DEF LeaveStop, Disable, WriteDropped, WaitAllWorkItems, AllItemsDone,
       SkipItem, NoItem, Destroy, vars, streamVars, workerVars, ItemsUntouched
  <2> QED BY <1>2, <2>1
<1>7. ASSUME NEW w \in Workers, Worker(w)
      PROVE  Chunks' = Chunks /\ file' = file
  <2>1. ~WriteFrame(w)
    OBVIOUS
  <2>2. /\ UNCHANGED <<frameSize, buffer, item, file>>
        /\ \A i \in Items : Unread(i)' <=> Unread(i)
    BY <1>7, <2>1, UnreadWorker DEF CursorInv, ItemInv, streamVars
  <2> QED BY <1>1, <2>2
<1> QED BY <1>3, <1>4, <1>5, <1>6, <1>7 DEF FittingNext

\* Every step is one of the log, or none.
LEMMA LogStep ==
  ASSUME CursorInv, CursorInv', ItemInv, PartInv, ChunksApart, ChunksApart',
         [FittingNext]_vars
  PROVE  [Log!Next]_(Log!logVars)
<1>1. ASSUME NEW w \in Workers, WriteFrame(w)
      PROVE  Log!Next
  <2>1. PICK chunk \in Chunks : /\ Chunks' = Chunks \ {chunk}
                                /\ file' = file \o chunk \/ file' = file
    BY <1>1, LogWriteFrame
  <2>2. Log!Commit(chunk) \/ Log!Lose(chunk)
    BY <2>1 DEF Log!Commit, Log!Lose, Chunks
  <2> QED BY <2>1, <2>2 DEF Log!Next, Chunks
<1>2. CASE TakeItem
  <2>1. /\ file' = file
        /\ \E chunk : /\ chunk # <<>>
                      /\ Cardinality(Chunks) < FrameCount
                      /\ chunk \notin Chunks
                      /\ Chunks' = Chunks \union {chunk}
    BY <1>2, LogTakeItem
  <2>2. PICK chunk : /\ chunk # <<>>
                     /\ Cardinality(Chunks) < FrameCount
                     /\ chunk \notin Chunks
                     /\ Chunks' = Chunks \union {chunk}
    BY <2>1
  <2>3. Log!Submit(chunk)
    <3>1. Log!Cardinality(Chunks) = Cardinality(Chunks)
      BY DEF Log!Cardinality, Cardinality
    <3> QED BY <2>1, <2>2, <3>1 DEF Log!Submit, Chunks
  <2>4. chunk \in Chunks' \ Chunks
    BY <2>2
  <2> QED BY <2>3, <2>4 DEF Log!Next, Chunks
<1>3. CASE ~TakeItem /\ \A w \in Workers : ~WriteFrame(w)
  <2>1. Chunks' = Chunks /\ file' = file
    BY <1>3, LogOtherStep
  <2> QED BY <2>1 DEF Log!logVars, Chunks
<1> QED BY <1>1, <1>2, <1>3

\* The ring with its work items and worker threads is a log of chunks: what a
\* stream hands over is appended to the file whole, once and as it was when it
\* was handed over, or lost as a whole, with at most as many chunks in flight
\* as there are frames.  For any ring, work items, worker threads, writes that
\* reach into no other frame in use, and restarts.
THEOREM LogImplemented == FittingSpec => ImplementsLog
<1>1. Init => Log!Init
  <2> SUFFICES ASSUME Init PROVE Log!Init
    OBVIOUS
  <2>1. \A i \in Items : ~Unread(i)
    BY DEF Init, Unread, Queued
  <2> QED BY <2>1 DEF Init, Log!Init
<1>2. CursorInv /\ ItemInv /\ PartInv /\ BytesInv => ChunksApart
  BY ChunksAreApart
<1>3. /\ CursorInv /\ CursorInv' /\ ItemInv /\ PartInv /\ ChunksApart /\ ChunksApart'
      /\ [FittingNext]_vars
      => [Log!Next]_(Log!logVars)
  BY LogStep
<1> QED BY <1>1, <1>2, <1>3, FittingIsSpec, CursorInvariant, ItemInvariant,
           BytesInvariant, PTL DEF FittingSpec, ImplementsLog, Log!Spec
=============================================================================
