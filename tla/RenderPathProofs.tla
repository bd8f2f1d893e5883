-------------------------- MODULE RenderPathProofs --------------------------
(***************************************************************************)
(* Proofs about RenderPath, for a DMA buffer of any size, any frame factor *)
(* and any displacements: what ReadBytes calls is a behaviour of SaveData, *)
(* so that the theorems of SaveDataProofs hold of the stream, and its runs *)
(* never reach past the frame they begin in.                               *)
(***************************************************************************)
EXTENDS RenderPath, SaveDataProofs

RenderType ==
  /\ dmaOffset \in 0 .. DmaSize - 1
  /\ displacement \in Nat

-----------------------------------------------------------------------------
(***************************************************************************)
(* The stream drives SaveData as SaveData may be driven.                   *)
(***************************************************************************)
LEMMA RunInBuffer ==
  ASSUME RenderType, displacement > 0
  PROVE  /\ RunWrite \in WriteSizes
         /\ RunWrite \in 1 .. DmaSize
         /\ RunWrite <= displacement
         /\ RunWrite <= DmaSize - dmaOffset
         /\ OffsetAfter(RunWrite) = IF dmaOffset + RunWrite = DmaSize
                                    THEN 0 ELSE dmaOffset + RunWrite
<1>1. DmaSize \in Nat \ {0} /\ WriteSizes = 1 .. DmaSize
  BY RenderAssumption
<1>2. /\ RunWrite \in 1 .. DmaSize
      /\ RunWrite <= displacement
      /\ RunWrite <= DmaSize - dmaOffset
  BY <1>1 DEF RunWrite, SmallerOf, RenderType
<1>3. dmaOffset + RunWrite \in 1 .. DmaSize
  BY <1>1, <1>2 DEF RenderType
<1>4. CASE dmaOffset + RunWrite = DmaSize
  <2>1. DmaSize % DmaSize = 0
    BY <1>1
  <2> QED BY <1>1, <1>2, <1>4, <2>1 DEF OffsetAfter
<1>5. CASE dmaOffset + RunWrite < DmaSize
  <2>1. (dmaOffset + RunWrite) % DmaSize = dmaOffset + RunWrite
    BY <1>1, <1>3, <1>5
  <2> QED BY <1>1, <1>2, <1>5, <2>1 DEF OffsetAfter
<1> QED BY <1>1, <1>3, <1>4, <1>5

LEMMA RenderTypeNext ==
  ASSUME RenderType, [RenderNext]_renderVars
  PROVE  RenderType'
<1>1. CASE UNCHANGED renderVars
  BY <1>1 DEF renderVars, RenderType
<1>2. ASSUME NEW bytes \in Displacements, UpdatePosition(bytes)
      PROVE  RenderType'
  BY <1>2, RenderAssumption DEF UpdatePosition, RenderType
<1>3. CASE ReadBytes
  <2>1. displacement > 0
    BY <1>3 DEF ReadBytes
  <2>2. dmaOffset' = OffsetAfter(RunWrite) /\ displacement' = displacement - RunWrite
    BY <1>3 DEF ReadBytes
  <2>3. /\ RunWrite \in 1 .. DmaSize
        /\ RunWrite <= displacement
        /\ RunWrite <= DmaSize - dmaOffset
        /\ OffsetAfter(RunWrite) = IF dmaOffset + RunWrite = DmaSize
                                   THEN 0 ELSE dmaOffset + RunWrite
    BY <2>1, RunInBuffer
  <2>4. dmaOffset' \in 0 .. DmaSize - 1
    BY <2>2, <2>3, RenderAssumption DEF RenderType
  <2>5. displacement' \in Nat
    BY <2>2, <2>3 DEF RenderType
  <2> QED BY <2>4, <2>5 DEF RenderType
<1>4. CASE Stop
  BY <1>4, RenderAssumption DEF Stop, RenderType
<1>5. CASE SaveDataStep
  BY <1>5 DEF SaveDataStep, RenderType
<1> QED BY <1>1, <1>2, <1>3, <1>4, <1>5 DEF RenderNext

LEMMA RenderStep ==
  ASSUME RenderType, [RenderNext]_renderVars
  PROVE  [Next]_vars
<1>1. CASE UNCHANGED renderVars
  BY <1>1 DEF renderVars
<1>2. ASSUME NEW bytes \in Displacements, UpdatePosition(bytes)
      PROVE  [Next]_vars
  BY <1>2 DEF UpdatePosition
<1>3. CASE ReadBytes
  <2>1. RunWrite \in WriteSizes
    BY <1>3, RunInBuffer DEF ReadBytes
  <2> QED BY <1>3, <2>1 DEF ReadBytes, Next, Stream
<1>4. CASE Stop
  BY <1>4 DEF Stop, Next, Stream
<1>5. CASE SaveDataStep
  BY <1>5 DEF SaveDataStep, Next, Stream
<1> QED BY <1>1, <1>2, <1>3, <1>4, <1>5 DEF RenderNext

LEMMA RenderTypeInvariant == RenderSpec => []RenderType
<1>1. RenderInit => RenderType
  BY RenderAssumption DEF RenderInit, RenderType
<1>2. RenderType /\ [RenderNext]_renderVars => RenderType'
  BY RenderTypeNext
<1> QED BY <1>1, <1>2, PTL DEF RenderSpec

\* A stream that plays from its cyclic buffer is one of the writers CSaveData
\* was proved for, whatever displacements the clock produces.
THEOREM StreamDrivesSaveData == RenderSpec => Spec
<1>1. RenderInit => Init
  BY DEF RenderInit
<1>2. RenderType /\ [RenderNext]_renderVars => [Next]_vars
  BY RenderStep
<1> QED BY <1>1, <1>2, RenderTypeInvariant, PTL DEF RenderSpec, Spec

-----------------------------------------------------------------------------
(***************************************************************************)
(* The write cursor and the DMA position.                                  *)
(***************************************************************************)
\* The cursor is a number of whole DMA buffers and the DMA position.
Aligned ==
  \E q \in Nat : bufferOffset = q * DmaSize + dmaOffset

AlignedInv ==
  /\ frameSize = DmaSize * FrameFactor
  /\ sessions = 0 => /\ pc \in {"Stopped", "Destroyed"}
                     /\ bufferOffset = 0 /\ dmaOffset = 0
  /\ lost = {} /\ sessions <= 1 =>
       /\ rest = 0
       /\ pc # "Rest"
       /\ pc \in {"Ready", "Scan"} => Aligned

\* A run that ends in its DMA buffer ends in the ring, which is a number of
\* whole DMA buffers.
LEMMA RunInRing ==
  ASSUME NEW D \in Nat \ {0}, NEW K \in Nat, NEW q \in Nat,
         NEW d \in 0 .. D - 1, NEW r \in 1 .. D - d,
         q * D + d < K * D
  PROVE  /\ q * D + d + r <= K * D
         /\ q * D + d + r = K * D => d + r = D
<1>1. q < K
  <2>1. ASSUME K <= q PROVE FALSE
    <3>1. K * D <= q * D
      BY <2>1
    <3> QED BY <3>1
  <2> QED BY <2>1
<1>2. (q + 1) * D <= K * D
  <2>1. q + 1 <= K
    BY <1>1
  <2> QED BY <2>1
<1>3. (q + 1) * D = q * D + D
  OBVIOUS
<1>4. q * D \in Nat /\ K * D \in Nat
  OBVIOUS
<1>5. q * D + d + r <= q * D + D
  BY <1>4
<1> QED BY <1>2, <1>3, <1>4, <1>5

LEMMA AlignedInit == RenderInit => AlignedInv
BY DEF RenderInit, Init, AlignedInv

\* A write that is not refused takes the whole run, and the cursor moves on
\* with the DMA position.
LEMMA WriteAligned ==
  ASSUME RenderType, CursorInv, AlignedInv, displacement > 0,
         lost = {}, sessions = 1, WriteData(RunWrite),
         dmaOffset' = OffsetAfter(RunWrite)
  PROVE  rest' = 0 /\ pc' # "Rest" /\ Aligned'
<1> DEFINE run == RunWrite
           D == DmaSize
           K == FrameCount * FrameFactor
<1>1. /\ D \in Nat \ {0} /\ FrameFactor \in Nat \ {0} /\ FrameCount \in Nat \ {0}
      /\ K \in Nat
  BY RenderAssumption, ConstantsAssumption
<1>2. /\ run \in 1 .. D - dmaOffset
      /\ run \in 1 .. D
      /\ dmaOffset' = IF dmaOffset + run = D THEN 0 ELSE dmaOffset + run
  BY <1>1, RunInBuffer DEF RenderType
<1>3. frameSize = D * FrameFactor /\ pc = "Ready" /\ rest = 0
  BY DEF AlignedInv, WriteData
<1>4. PICK q \in Nat : bufferOffset = q * D + dmaOffset
  BY <1>3 DEF AlignedInv, Aligned
<1>5. BufferSize = K * D
  <2>1. FrameCount * (D * FrameFactor) = (FrameCount * FrameFactor) * D
    BY <1>1
  <2> QED BY <1>3, <2>1 DEF BufferSize
<1>6. bufferOffset < BufferSize
  <2>1. /\ frameSize \in Nat \ {0} /\ FrameCount \in Nat
        /\ frameIndex \in 0 .. FrameCount - 1 /\ bufferOffset \in Nat
        /\ bufferOffset < (frameIndex + 1) * frameSize
    BY ConstantsAssumption DEF CursorInv, CursorInFrame, TypeOK, Frames
  <2>2. (frameIndex + 1) * frameSize <= FrameCount * frameSize
    BY <2>1, FrameBounds
  <2>3. (frameIndex + 1) * frameSize \in Nat /\ FrameCount * frameSize \in Nat
    BY <2>1, FrameBounds
  <2> QED BY <2>1, <2>2, <2>3 DEF BufferSize
<1> HIDE DEF run, D, K
<1>7. dmaOffset \in 0 .. D - 1
  BY DEF RenderType, D
<1>8. /\ bufferOffset + run <= BufferSize
      /\ bufferOffset + run = BufferSize => dmaOffset + run = D
  <2>1. q * D + dmaOffset < K * D
    BY <1>4, <1>5, <1>6
  <2>2. /\ q * D + dmaOffset + run <= K * D
        /\ q * D + dmaOffset + run = K * D => dmaOffset + run = D
    BY <1>1, <1>2, <1>7, <2>1, RunInRing
  <2> QED BY <1>4, <1>5, <2>2
<1>9. CutToFrame(run) = run
  <2>1. D <= D * FrameFactor
    BY <1>1
  <2>2. run <= frameSize
    BY <1>1, <1>2, <1>3, <2>1
  <2> QED BY <2>2 DEF CutToFrame, SmallerOf
<1>10. bufferOffset \in Nat /\ BufferSize \in Nat
  BY <1>1, <1>5 DEF CursorInv, TypeOK
<1>11. SmallerOf(run, BufferSize - bufferOffset) = run
  BY <1>2, <1>8, <1>10 DEF SmallerOf
<1>12. /\ rest' = run - run
       /\ bufferOffset' = IF bufferOffset + run = BufferSize THEN 0
                          ELSE bufferOffset + run
       /\ pc' \in {"Scan", "Ready"}
  BY <1>9, <1>11 DEF WriteData, run
<1>13. rest' = 0
  BY <1>2, <1>12
<1>14. Aligned'
  <2>1. CASE bufferOffset + run = BufferSize
    <3>1. bufferOffset' = 0 * DmaSize + dmaOffset'
      BY <1>1, <1>2, <1>8, <1>12, <2>1 DEF D
    <3> QED BY <3>1 DEF Aligned
  <2>2. CASE bufferOffset + run # BufferSize /\ dmaOffset + run = D
    <3>1. bufferOffset' = q * D + D /\ dmaOffset' = 0
      BY <1>1, <1>2, <1>4, <1>7, <1>12, <2>2
    <3>2. bufferOffset' = (q + 1) * DmaSize + dmaOffset'
      BY <1>1, <3>1 DEF D
    <3>3. q + 1 \in Nat
      OBVIOUS
    <3> QED BY <3>2, <3>3 DEF Aligned
  <2>3. CASE bufferOffset + run # BufferSize /\ dmaOffset + run # D
    <3>1. bufferOffset' = q * D + dmaOffset + run /\ dmaOffset' = dmaOffset + run
      BY <1>2, <1>4, <1>12, <2>3
    <3>2. q * D \in Nat
      BY <1>1
    <3>3. bufferOffset' = q * DmaSize + dmaOffset'
      BY <1>2, <1>7, <3>1, <3>2 DEF D
    <3> QED BY <3>3 DEF Aligned
  <2> QED BY <2>1, <2>2, <2>3
<1> QED BY <1>12, <1>13, <1>14

LEMMA AlignedNext ==
  ASSUME RenderType, CursorInv, AlignedInv, [RenderNext]_renderVars
  PROVE  AlignedInv'
<1>1. CASE UNCHANGED renderVars
  BY <1>1 DEF renderVars, vars, AlignedInv, Aligned
<1>2. ASSUME NEW bytes \in Displacements, UpdatePosition(bytes)
      PROVE  AlignedInv'
  BY <1>2 DEF UpdatePosition, vars, AlignedInv, Aligned
<1>3. CASE ReadBytes
  <2>1. /\ pc = "Ready" /\ displacement > 0
        /\ sessions # 0 /\ sessions' = sessions /\ frameSize' = frameSize
        /\ pc' # "Stopped"
    BY <1>3 DEF ReadBytes, WriteDropped, WriteData, AlignedInv
  <2>2. CASE WriteDropped(RunWrite)
    <3>1. RunWrite \in 1 .. DmaSize
      BY <2>1, RunInBuffer
    <3>2. offered + 1 \in lost'
      BY <2>2, <3>1, RenderAssumption DEF WriteDropped, CursorInv, TypeOK
    <3> QED BY <2>1, <3>2 DEF AlignedInv
  <2>3. CASE WriteData(RunWrite)
    <3>1. lost' = lost /\ dmaOffset' = OffsetAfter(RunWrite)
      BY <1>3, <2>3 DEF ReadBytes, WriteData
    <3>2. lost = {} /\ sessions <= 1 => rest' = 0 /\ pc' # "Rest" /\ Aligned'
      <4>1. sessions <= 1 => sessions = 1
        BY <2>1 DEF CursorInv, TypeOK
      <4> QED BY <2>1, <2>3, <3>1, <4>1, WriteAligned
    <3> QED BY <2>1, <3>1, <3>2 DEF AlignedInv
  <2> QED BY <1>3, <2>2, <2>3 DEF ReadBytes
<1>4. CASE Stop
  <2>1. /\ pc = "Ready" /\ pc' \in {"Drain", "DrainScan"}
        /\ UNCHANGED <<frameSize, rest, lost, sessions>>
    BY <1>4 DEF Stop, WaitAllWorkItems, streamVars
  <2> QED BY <2>1 DEF AlignedInv
<1>5. CASE SaveDataStep
  <2> USE DEF AlignedInv
  <2>0. UNCHANGED <<dmaOffset, displacement>>
    BY <1>5 DEF SaveDataStep
  <2>1. CASE LeaveStop
    <3>1. /\ UNCHANGED <<frameSize, bufferOffset, rest, lost>>
          /\ pc = "Stopped" /\ pc' = "Ready" /\ sessions' = sessions + 1
      BY <2>1 DEF LeaveStop
    <3>2. sessions' # 0 /\ (sessions' <= 1 => sessions = 0 /\ sessions <= 1)
      BY <3>1 DEF CursorInv, TypeOK
    <3>3. sessions = 0 => Aligned'
      <4>1. sessions = 0 => bufferOffset' = 0 * DmaSize + dmaOffset'
        BY <2>0, <3>1, RenderAssumption
      <4> QED BY <4>1 DEF Aligned
    <3> QED BY <2>0, <3>1, <3>2, <3>3
  <2>2. ASSUME NEW fDisable \in BOOLEAN, Disable(fDisable)
        PROVE  AlignedInv'
    <3>1. UNCHANGED <<frameSize, bufferOffset, rest, lost, pc, sessions>>
      BY <2>2 DEF Disable
    <3> QED BY <2>0, <3>1 DEF Aligned
  <2>3. CASE WriteRest
    <3>1. /\ pc = "Rest" /\ pc' = "Scan" /\ UNCHANGED <<frameSize, sessions>>
          /\ lost' = {} => lost = {}
      BY <2>3 DEF WriteRest
    <3> QED BY <2>0, <3>1
  <2>4. CASE AllItemsDone
    <3>1. /\ pc = "Drain" /\ pc' = "Stopped"
          /\ UNCHANGED <<frameSize, rest, lost, sessions>>
      BY <2>4 DEF AllItemsDone, streamVars
    <3> QED BY <2>0, <3>1
  <2>5. CASE TakeItem \/ SkipItem \/ NoItem
    <3>1. /\ pc \in {"Scan", "DrainScan"}
          /\ pc = "Scan" => pc' \in {"Scan", "Ready"}
          /\ pc = "DrainScan" => pc' \in {"DrainScan", "Drain"}
          /\ UNCHANGED <<frameSize, bufferOffset, rest, sessions>>
          /\ lost' = {} => lost = {}
      BY <2>5 DEF TakeItem, SkipItem, NoItem, AfterSaveFrame, streamVars
    <3> QED BY <2>0, <3>1 DEF Aligned
  <2>6. CASE Destroy
    <3>1. /\ pc = "Stopped" /\ pc' = "Destroyed"
          /\ UNCHANGED <<frameSize, bufferOffset, rest, lost, sessions>>
      BY <2>6 DEF Destroy, streamVars
    <3> QED BY <2>0, <3>1
  <2>7. ASSUME NEW w \in Workers, Worker(w)
        PROVE  AlignedInv'
    <3>1. UNCHANGED <<frameSize, bufferOffset, rest, sessions, pc>>
      BY <2>7 DEF Worker, Dequeue, LockFile, WriteFrame, ReleaseFrame, SignalDone,
         streamVars
    <3>2. lost' = {} => lost = {}
      BY <2>7 DEF Worker, Dequeue, LockFile, WriteFrame, ReleaseFrame, SignalDone
    <3> QED BY <2>0, <3>1, <3>2 DEF Aligned
  <2> QED BY <1>5, <2>1, <2>2, <2>3, <2>4, <2>5, <2>6, <2>7 DEF SaveDataStep
<1> QED BY <1>1, <1>2, <1>3, <1>4, <1>5 DEF RenderNext

\* The cursor is aligned as long as nothing was lost.
LEMMA AlignedInvariant == RenderSpec => []AlignedInv
<1>1. RenderInit => AlignedInv
  BY AlignedInit
<1>2. RenderType /\ CursorInv /\ AlignedInv /\ [RenderNext]_renderVars => AlignedInv'
  BY AlignedNext
<1> QED BY <1>1, <1>2, RenderTypeInvariant, StreamDrivesSaveData, CursorInvariant,
           PTL DEF RenderSpec

LEMMA AlignedImplies ==
  ASSUME RenderType, CursorInv, AlignedInv
  PROVE  WritesFitFrames
<1> SUFFICES ASSUME lost = {}, sessions <= 1, pc = "Ready"
             PROVE  bufferOffset % DmaSize = dmaOffset
  BY DEF WritesFitFrames, AlignedInv
<1>1. PICK q \in Nat : bufferOffset = q * DmaSize + dmaOffset
  BY DEF AlignedInv, Aligned
<1>2. DmaSize \in Nat \ {0} /\ dmaOffset \in 0 .. DmaSize - 1
  BY RenderAssumption DEF RenderType
<1>3. (q * DmaSize + dmaOffset) % DmaSize = dmaOffset
  BY <1>2
<1> QED BY <1>1, <1>3

\* No write reaches past its frame and the left over branch never runs, for
\* any sizes, until a byte is lost or the stream is restarted.
THEOREM RunsFitFrames == RenderSpec => []WritesFitFrames
<1>1. RenderType /\ CursorInv /\ AlignedInv => WritesFitFrames
  BY AlignedImplies
<1> QED BY <1>1, AlignedInvariant, RenderTypeInvariant, StreamDrivesSaveData,
           CursorInvariant, PTL

\* What is proved of CSaveData holds of the stream that drives it.
THEOREM StreamFramesSaved ==
  ASSUME EnoughItems
  PROVE  RenderSpec => [](ItemOwnedOnce /\ UsedFrameHasSave /\ StoppedIsQuiescent)
BY StreamDrivesSaveData, ItemsOwnedOnce, UsedFrameSaved, StoppedQuiet, PTL

-----------------------------------------------------------------------------
(***************************************************************************)
(* What the stream played is what is saved.                                *)
(***************************************************************************)
\* A run that begins in a frame ends in it, because a frame is a number of
\* whole DMA buffers: so it is copied to no other frame.
LEMMA RunToFree ==
  ASSUME RenderType, CursorInv, AlignedInv, displacement > 0,
         lost = {}, sessions <= 1, WriteData(RunWrite)
  PROVE  CopyToFree
<1> DEFINE run == RunWrite
           D == DmaSize
           K == (frameIndex + 1) * FrameFactor
           written == SmallerOf(CutToFrame(run), BufferSize - bufferOffset)
<1> SUFFICES ASSUME NEW k \in Offsets, frameUsed[k \div frameSize],
                    buffer'[k] # buffer[k]
             PROVE  FALSE
  BY DEF CopyToFree
<1>1. /\ frameSize \in Nat \ {0} /\ frameIndex \in Nat /\ bufferOffset \in Nat
      /\ k \in Nat /\ BufferSize \in Nat
  <2>1. frameSize \in Nat \ {0} /\ frameIndex \in Nat /\ bufferOffset \in Nat
    BY CursorTypes
  <2> QED BY <2>1, ConstantsAssumption DEF Offsets, BufferSize
<1>2. /\ pc = "Ready" /\ ~frameUsed[frameIndex]
      /\ buffer' = Copied(bufferOffset, written, offered + 1)
  BY DEF WriteData, FrameAvailable
<1>3. bufferOffset <= k /\ k < bufferOffset + written
  BY <1>2 DEF Copied
<1>4. D \in Nat \ {0} /\ K \in Nat
  BY <1>1, RenderAssumption
<1>5. run \in 1 .. D - dmaOffset /\ dmaOffset \in 0 .. D - 1
  BY <1>4, RunInBuffer DEF RenderType
<1>6. PICK q \in Nat : bufferOffset = q * D + dmaOffset
  BY <1>2 DEF AlignedInv, Aligned
<1>7. /\ K * D = (frameIndex + 1) * frameSize
      /\ (frameIndex + 1) * frameSize = frameIndex * frameSize + frameSize
      /\ frameIndex * frameSize \in Nat
  <2>1. frameSize = D * FrameFactor
    BY DEF AlignedInv
  <2>2. ((frameIndex + 1) * FrameFactor) * D = (frameIndex + 1) * (D * FrameFactor)
    BY <1>1, RenderAssumption
  <2>3. /\ (frameIndex + 1) * frameSize = frameIndex * frameSize + frameSize
        /\ frameIndex * frameSize \in Nat
    BY <1>1
  <2> QED BY <2>1, <2>2, <2>3
<1>8. written <= run
  <2>1. run \in Nat
    BY <1>4, <1>5
  <2> QED BY <1>1, <2>1 DEF CutToFrame, SmallerOf
<1>9. /\ frameIndex * frameSize <= bufferOffset
      /\ bufferOffset < (frameIndex + 1) * frameSize
  BY DEF CursorInv, CursorInFrame
<1> HIDE DEF run, K, written, D
<1>10. bufferOffset + run <= K * D
  <2>1. q * D + dmaOffset < K * D
    BY <1>6, <1>7, <1>9
  <2> QED BY <1>4, <1>5, <1>6, <2>1, RunInRing
<1>11. k < frameIndex * frameSize + frameSize /\ frameIndex * frameSize <= k
  <2>1. written \in Int
    BY <1>1, <1>4, <1>5 DEF written, run, CutToFrame, SmallerOf
  <2>2. run \in Nat
    BY <1>4, <1>5
  <2> QED BY <1>1, <1>3, <1>7, <1>8, <1>9, <1>10, <2>1, <2>2
<1>12. k \div frameSize = frameIndex
  BY <1>1, <1>11, DivFrame
<1> QED BY <1>2, <1>12

\* Until a byte is lost or the stream is restarted.
Whole == lost = {} /\ sessions <= 1

\* What is lost stays lost, and sessions are counted up.
LEMMA WholeBefore ==
  ASSUME CursorInv, [Next]_vars, Whole'
  PROVE  Whole
<1>1. sessions \in Nat
  BY DEF CursorInv, TypeOK
<1>2. lost \subseteq lost'
  BY DEF Next, Stream, Worker, SetMaxWriteSize, LeaveStop, Disable, WriteDropped,
     WriteData, WriteRest, WaitAllWorkItems, AllItemsDone, TakeItem, SkipItem,
     NoItem, Destroy, Dequeue, LockFile, WriteFrame, ReleaseFrame, SignalDone, vars
<1>3. sessions' = sessions \/ sessions' = sessions + 1
  BY DEF Next, Stream, Worker, SetMaxWriteSize, LeaveStop, Disable, WriteDropped,
     WriteData, WriteRest, WaitAllWorkItems, AllItemsDone, TakeItem, SkipItem,
     NoItem, Destroy, Dequeue, LockFile, WriteFrame, ReleaseFrame, SignalDone, vars,
     streamVars
<1> QED BY <1>1, <1>2, <1>3 DEF Whole

\* So long every step of the stream is one of those that keep the bytes.
LEMMA RenderFits ==
  ASSUME RenderType, CursorInv, AlignedInv, [RenderNext]_renderVars, Whole
  PROVE  [FittingNext]_vars
<1>1. CASE UNCHANGED renderVars
  BY <1>1 DEF renderVars
<1>2. ASSUME NEW bytes \in Displacements, UpdatePosition(bytes)
      PROVE  [FittingNext]_vars
  BY <1>2 DEF UpdatePosition
<1>3. CASE ReadBytes
  <2>1. displacement > 0
    BY <1>3 DEF ReadBytes
  <2>2. RunWrite \in WriteSizes
    BY <2>1, RunInBuffer
  <2>3. CASE WriteDropped(RunWrite)
    BY <2>2, <2>3 DEF FittingNext
  <2>4. CASE WriteData(RunWrite)
    <3>1. CopyToFree
      BY <2>1, <2>4, RunToFree DEF Whole
    <3> QED BY <2>2, <2>4, <3>1 DEF FittingNext
  <2> QED BY <1>3, <2>3, <2>4 DEF ReadBytes
<1>4. CASE Stop
  BY <1>4 DEF Stop, FittingNext
<1>5. CASE SaveDataStep
  BY <1>5 DEF SaveDataStep, FittingNext
<1> QED BY <1>1, <1>2, <1>3, <1>4, <1>5 DEF RenderNext

WholeInv == Whole => BytesInv /\ PartInv

LEMMA WholeInvariant == RenderSpec => []WholeInv
<1>1. RenderInit => WholeInv
  BY BytesInit DEF RenderInit, WholeInv
<1>2. /\ RenderType /\ CursorInv /\ CursorInv' /\ ItemInv /\ ItemInv' /\ AlignedInv
      /\ WholeInv /\ [RenderNext]_renderVars
      => WholeInv'
  <2> SUFFICES ASSUME RenderType, CursorInv, CursorInv', ItemInv, ItemInv', AlignedInv,
                      WholeInv, [RenderNext]_renderVars, Whole'
               PROVE  BytesInv' /\ PartInv'
    BY DEF WholeInv
  <2>1. Whole
    BY RenderStep, WholeBefore
  <2>2. [FittingNext]_vars
    BY <2>1, RenderFits
  <2> QED BY <2>1, <2>2, BytesNext DEF WholeInv
<1> QED BY <1>1, <1>2, RenderTypeInvariant, AlignedInvariant, StreamDrivesSaveData,
           CursorInvariant, ItemInvariant, PTL DEF RenderSpec

\* A stream that was stopped once and lost nothing has all that it played in
\* the file and no byte twice, for any DMA buffer, frame factor, displacements,
\* frames, work items and worker threads: no premise about its writes is left.
THEOREM PlayedIsSaved ==
  RenderSpec => [](lost = {} /\ sessions <= 1 => StoppedSavedAll /\ SavedOnce)
<1>1. CursorInv /\ ItemInv /\ WholeInv =>
        (lost = {} /\ sessions <= 1 => StoppedSavedAll /\ SavedOnce)
  <2> SUFFICES ASSUME CursorInv, ItemInv, WholeInv, lost = {}, sessions <= 1
               PROVE  StoppedSavedAll /\ SavedOnce
    OBVIOUS
  <2>1. BytesInv /\ PartInv
    BY DEF WholeInv, Whole
  <2> QED BY <2>1, StoppedLive DEF BytesInv, Once
<1> QED BY <1>1, WholeInvariant, StreamDrivesSaveData, CursorInvariant, ItemInvariant,
           PTL

\* Until then no copy goes into a frame that is in use: the defect that
\* CopyOnlyToFreeFrame shows needs a loss or a restart first.
THEOREM CopiesToFreeFrames ==
  RenderSpec => [][lost = {} /\ sessions <= 1 => CopyToFree]_renderVars
<1>1. RenderType /\ CursorInv /\ AlignedInv /\ [RenderNext]_renderVars
      => [lost = {} /\ sessions <= 1 => CopyToFree]_renderVars
  <2> SUFFICES ASSUME RenderType, CursorInv, AlignedInv, RenderNext, Whole
               PROVE  CopyToFree
    BY DEF Whole
  <2>1. buffer' = buffer => CopyToFree
    BY DEF CopyToFree
  <2>2. CASE ReadBytes
    <3>1. CASE WriteDropped(RunWrite)
      BY <2>1, <3>1 DEF WriteDropped
    <3>2. CASE WriteData(RunWrite)
      BY <2>2, <3>2, RunToFree DEF ReadBytes, Whole
    <3> QED BY <2>2, <3>1, <3>2 DEF ReadBytes
  <2>3. CASE SaveDataStep
    <3>1. CASE WriteRest
      BY <3>1, RestToFree
    <3>2. ~WriteRest => buffer' = buffer
      BY <2>3 DEF SaveDataStep, LeaveStop, Disable, AllItemsDone, TakeItem, SkipItem,
         NoItem, Destroy, Worker, Dequeue, LockFile, WriteFrame, ReleaseFrame,
         SignalDone
    <3> QED BY <2>1, <3>1, <3>2
  <2>4. CASE Stop \/ \E bytes \in Displacements : UpdatePosition(bytes)
    BY <2>1, <2>4 DEF Stop, WaitAllWorkItems, UpdatePosition, vars
  <2> QED BY <2>2, <2>3, <2>4 DEF RenderNext
<1> QED BY <1>1, RenderTypeInvariant, AlignedInvariant, StreamDrivesSaveData,
           CursorInvariant, PTL DEF RenderSpec

\* And so long the stream's steps are steps of the log of chunks.
THEOREM StreamIsLogged ==
  RenderSpec => [][lost = {} /\ sessions <= 1 => [Log!Next]_(Log!logVars)]_renderVars
<1>1. CursorInv /\ ItemInv /\ PartInv /\ BytesInv => ChunksApart
  BY ChunksAreApart
<1>2. /\ RenderType /\ CursorInv /\ CursorInv' /\ ItemInv /\ ItemInv' /\ AlignedInv
      /\ WholeInv /\ [RenderNext]_renderVars
      /\ (CursorInv /\ ItemInv /\ PartInv /\ BytesInv => ChunksApart)'
      => [lost = {} /\ sessions <= 1 => [Log!Next]_(Log!logVars)]_renderVars
  <2> SUFFICES ASSUME RenderType, CursorInv, CursorInv', ItemInv, ItemInv', AlignedInv,
                      WholeInv, RenderNext, Whole,
                      (CursorInv /\ ItemInv /\ PartInv /\ BytesInv => ChunksApart)'
               PROVE  [Log!Next]_(Log!logVars)
    BY DEF Whole
  <2>1. [FittingNext]_vars
    BY RenderFits
  <2>2. BytesInv /\ PartInv /\ BytesInv' /\ PartInv'
    BY <2>1, BytesNext DEF WholeInv
  <2>3. ChunksApart /\ ChunksApart'
    BY <2>2, ChunksAreApart
  <2> QED BY <2>1, <2>2, <2>3, LogStep
<1> QED BY <1>1, <1>2, WholeInvariant, RenderTypeInvariant, AlignedInvariant,
           StreamDrivesSaveData, CursorInvariant, ItemInvariant, PTL DEF RenderSpec
=============================================================================
