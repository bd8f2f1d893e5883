----------------------------- MODULE RenderPath -----------------------------
(***************************************************************************)
(* A render stream and its CSaveData together: UpdatePosition moves the    *)
(* DMA position on by what was played, ReadBytes hands the played part of  *)
(* the cyclic DMA buffer to WriteData in runs that end at the end of that  *)
(* buffer, and SetState(KSSTATE_STOP) puts the DMA position, but not the   *)
(* write cursor of CSaveData, back to the start                            *)
(* (src/audio/sysvad/EndpointsCommon/minwavertstream.cpp).                 *)
(***************************************************************************)
EXTENDS SaveData

CONSTANTS
  DmaSize,        \* m_ulDmaBufferSize
  FrameFactor,    \* 4 in AllocateBufferWithNotification
  Displacements   \* bytes one UpdatePosition may have to account for

ASSUME RenderAssumption ==
  /\ DmaSize \in Nat \ {0}
  /\ FrameFactor \in Nat \ {0}
  /\ Displacements \subseteq Nat \ {0}
  /\ WriteSizes = 1 .. DmaSize

VARIABLES
  dmaOffset,      \* bufferOffset of ReadBytes: m_ullLinearPosition % DmaSize
  displacement    \* ByteDisplacement of the ReadBytes loop under way

renderVars == <<dmaOffset, displacement, vars>>

RenderInit ==
  /\ Init
  /\ frameSize = DmaSize * FrameFactor
  /\ dmaOffset = 0
  /\ displacement = 0

\* UpdatePosition calls ReadBytes for the bytes that were played.
UpdatePosition(bytes) ==
  /\ pc = "Ready"
  /\ displacement = 0
  /\ offered + bytes <= MaxOffered
  /\ displacement' = bytes
  /\ UNCHANGED <<dmaOffset, vars>>

\* The bytes up to the end of the DMA buffer, at most.
RunWrite == SmallerOf(displacement, DmaSize - dmaOffset)

\* A bug to be caught: the offset does not wrap at the end of the DMA buffer.
Bug_OffsetUnwrapped(bytes) == dmaOffset + bytes

OffsetAfter(bytes) == (dmaOffset + bytes) % DmaSize

\* One turn of the loop of ReadBytes.
ReadBytes ==
  /\ displacement > 0
  /\ WriteDropped(RunWrite) \/ WriteData(RunWrite)
  /\ dmaOffset' = OffsetAfter(RunWrite)
  /\ displacement' = displacement - RunWrite

\* SetState(KSSTATE_STOP): the positions are reset, then the work items are
\* waited for.
Stop ==
  /\ displacement = 0
  /\ dmaOffset' = 0
  /\ WaitAllWorkItems
  /\ UNCHANGED displacement

\* The steps of CSaveData that are not calls of ReadBytes or SetState.
SaveDataStep ==
  /\ \/ LeaveStop
     \/ \E fDisable \in BOOLEAN : Disable(fDisable)
     \/ WriteRest
     \/ AllItemsDone
     \/ TakeItem
     \/ SkipItem
     \/ NoItem
     \/ Destroy
     \/ \E w \in Workers : Worker(w)
  /\ UNCHANGED <<dmaOffset, displacement>>

RenderNext ==
  \/ \E bytes \in Displacements : UpdatePosition(bytes)
  \/ ReadBytes
  \/ Stop
  \/ SaveDataStep

RenderSpec == RenderInit /\ [][RenderNext]_renderVars

-----------------------------------------------------------------------------
\* As long as no byte was lost and the stream was not restarted, the write
\* cursor stays at the DMA position within the DMA-sized parts of the ring, so
\* that no write reaches past its frame and the left-over branch never runs.
WritesFitFrames ==
  lost = {} /\ sessions <= 1 =>
    /\ rest = 0
    /\ pc = "Ready" => bufferOffset % DmaSize = dmaOffset

\* "Write the left over if the next frame is available": no copy goes into a
\* frame that is in use, whatever happened before.
CopyOnlyToFreeFrame == [][CopyToFree]_renderVars
=============================================================================
