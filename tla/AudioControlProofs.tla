-------------------------- MODULE AudioControlProofs ------------------------
(***************************************************************************)
(* Proofs about AudioControl, for any number of streams and bands, any     *)
(* volumes and samples, and any widths in the proportion AudioAssumption   *)
(* states.                                                                 *)
(***************************************************************************)
EXTENDS AudioControl, TLAPS

-----------------------------------------------------------------------------
(***************************************************************************)
(* The arithmetic of the scaling.                                          *)
(***************************************************************************)

\* A percentage of a sample that is not negative is a product that a ULONG
\* holds.
LEMMA ProductBounds ==
  ASSUME NEW x \in 0 .. ShortMax, NEW v \in 0 .. 100
  PROVE  /\ x * v \in Nat
         /\ x * v <= 100 * x
         /\ x * v < ULong
<1> USE AudioAssumption
<1>1. x \in Nat /\ v \in Nat /\ 100 - v \in Nat
  OBVIOUS
<1>2. x * v \in Nat /\ x * (100 - v) \in Nat
  BY <1>1
<1>3. x * v + x * (100 - v) = 100 * x
  BY <1>1
<1>4. 100 * x < ULong
  OBVIOUS
<1> QED BY <1>2, <1>3, <1>4

\* Such a sample is scaled without wrapping or clamping.
LEMMA ScalePositive ==
  ASSUME NEW x \in 0 .. ShortMax, NEW v \in 0 .. 100
  PROVE  Scale(x, v) = Percentage(x * v)
<1> DEFINE y == x * v
<1> USE AudioAssumption
<1>1. y \in Nat /\ y <= 100 * x /\ y < ULong
  BY ProductBounds
<1> HIDE DEF y
<1>2. y % ULong = y
  BY <1>1
<1>3. y \div 100 \in Nat /\ y \div 100 <= x
  BY <1>1
<1>4. Clamp(y \div 100) = y \div 100
  BY <1>3 DEF Clamp
<1>5. Scale(x, v) = Clamp((y % ULong) \div 100)
  BY DEF Scale, y
<1>6. Percentage(y) = y \div 100
  BY <1>1 DEF Percentage
<1> QED BY <1>2, <1>4, <1>5, <1>6 DEF y

\* At volume 0 nothing is heard, whatever the sign.
LEMMA ScaleSilent ==
  ASSUME NEW x \in Shorts
  PROVE  Scale(x, 0) = 0
<1> USE AudioAssumption
<1>1. x * 0 = 0
  BY DEF Shorts
<1>2. 0 % ULong = 0 /\ 0 \div 100 = 0
  OBVIOUS
<1> QED BY <1>1, <1>2 DEF Scale, Clamp

\* Whatever a wrapped product is, the clamp makes a SHORT of it.
LEMMA ScaleIsShort ==
  ASSUME NEW x \in Shorts, NEW v \in 0 .. 100
  PROVE  Scale(x, v) \in Shorts
<1> USE AudioAssumption
<1>1. x * v \in Int
  BY DEF Shorts
<1>2. (x * v) % ULong \in Int
  BY <1>1
<1>3. ((x * v) % ULong) \div 100 \in Int
  BY <1>2
<1> QED BY <1>3 DEF Scale, Clamp, Shorts
-----------------------------------------------------------------------------
(***************************************************************************)
(* Types.                                                                  *)
(***************************************************************************)
SavedChunks == [head : Shorts, rest : Shorts \union {None}]

LEMMA ChunkTypes == /\ Chunks \subseteq SavedChunks
                    /\ 0 \in Shorts
                    /\ [head |-> 0, rest |-> None] \in SavedChunks
<1>1. Samples \subseteq Shorts /\ 0 \in Shorts
  BY AudioAssumption DEF Shorts
<1> QED BY <1>1 DEF Chunks, SavedChunks

LEMMA TypeInit == Init => TypeOK
<1> SUFFICES ASSUME Init PROVE TypeOK
  OBVIOUS
<1>1. input \in [Streams -> SavedChunks]
  BY ChunkTypes DEF Init
<1>2. volume \in 0 .. 100 /\ vol \in [Streams -> 0 .. 100]
      /\ sounded \in [Streams -> 0 .. 2]
  BY DEF Init
<1>3. /\ coeffs \in [Bands -> {Zero, Flat}]
      /\ eqBands \in [Bands -> {Zero, Flat}]
      /\ pc \in [Streams -> {"Idle", "Volume", "MutedEq", "Eq"}]
  BY DEF Init
<1>4. muted \in BOOLEAN
  BY DEF Init
<1>5. chunk = input /\ saved = input
  BY DEF Init
<1> QED BY <1>1, <1>2, <1>3, <1>4, <1>5 DEF TypeOK, SavedChunks

\* Every IOCTL keeps the types.
LEMMA TypeIoctl ==
  ASSUME TypeOK, Ioctl
  PROVE  TypeOK'
<1>1. UNCHANGED <<pc, input, chunk, vol, saved, eqBands>>
  BY DEF Ioctl, SetVolume, Mute, Unmute, SetBiquadCoeffs, streamVars
<1>2. volume' \in 0 .. 100
  <2>1. ASSUME NEW v \in Volumes, SetVolume(v) PROVE volume' \in 0 .. 100
    BY <2>1, AudioAssumption DEF SetVolume, ValidVolume
  <2>2. CASE UNCHANGED volume
    BY <2>2 DEF TypeOK
  <2> QED BY <2>1, <2>2 DEF Ioctl, Mute, Unmute, SetBiquadCoeffs
<1>3. muted' \in BOOLEAN
  BY DEF TypeOK, Ioctl, SetVolume, Mute, Unmute, SetBiquadCoeffs
<1>4. coeffs' \in [Bands -> {Zero, Flat}]
  BY DEF TypeOK, Ioctl, SetVolume, Mute, Unmute, SetBiquadCoeffs
<1>5. sounded' \in [Streams -> 0 .. 2]
  BY DEF TypeOK, Ioctl, SetVolume, Mute, Unmute, SetBiquadCoeffs, streamVars
<1> QED BY <1>1, <1>2, <1>3, <1>4, <1>5 DEF TypeOK

LEMMA TypeStream ==
  ASSUME TypeOK, NEW s \in Streams, Stream(s)
  PROVE  TypeOK'
<1>1. UNCHANGED controlVars
  BY DEF Stream, WriteData, ScaleChunk, CopyChunk
<1>2. CASE \E c \in Chunks : WriteData(s, c)
  <2>1. PICK c \in Chunks : WriteData(s, c)
    BY <1>2
  <2>2. c \in SavedChunks /\ [c EXCEPT !.head = 0] \in SavedChunks
    BY ChunkTypes DEF SavedChunks
  <2>3. input' \in [Streams -> SavedChunks] /\ chunk' \in [Streams -> SavedChunks]
    <3>1. input' = [input EXCEPT ![s] = c]
      BY <2>1 DEF WriteData
    <3>2. \/ chunk' = [chunk EXCEPT ![s] = c]
          \/ chunk' = [chunk EXCEPT ![s] = [c EXCEPT !.head = 0]]
      BY <2>1 DEF WriteData
    <3>3. input \in [Streams -> SavedChunks] /\ chunk \in [Streams -> SavedChunks]
      BY DEF TypeOK, SavedChunks
    <3> QED BY <2>2, <3>1, <3>2, <3>3
  <2>4. pc' \in [Streams -> {"Idle", "Volume", "MutedEq", "Eq"}]
    BY <2>1 DEF TypeOK, WriteData
  <2>5. UNCHANGED <<vol, saved, sounded>>
    BY <2>1 DEF WriteData
  <2> QED BY <1>1, <2>3, <2>4, <2>5 DEF TypeOK, SavedChunks, controlVars
<1>3. CASE ScaleChunk(s)
  <2> DEFINE v == IF volume > 100 THEN 100 ELSE volume
  <2>1. v \in 0 .. 100
    BY DEF TypeOK
  <2>2. Scale(chunk[s].head, v) \in Shorts
    BY <2>1, ScaleIsShort DEF TypeOK
  <2>3. /\ vol' = [vol EXCEPT ![s] = v]
        /\ chunk' = [chunk EXCEPT ![s].head = Scale(chunk[s].head, v)]
        /\ pc' = [pc EXCEPT ![s] = "Eq"]
        /\ UNCHANGED <<input, saved, sounded>>
    BY <1>3 DEF ScaleChunk
  <2> HIDE DEF v
  <2>4. chunk' \in [Streams -> SavedChunks]
    BY <2>2, <2>3 DEF TypeOK, SavedChunks
  <2>5. vol' \in [Streams -> 0 .. 100]
    BY <2>1, <2>3 DEF TypeOK
  <2>6. pc' \in [Streams -> {"Idle", "Volume", "MutedEq", "Eq"}]
    BY <2>3 DEF TypeOK
  <2> QED BY <1>1, <2>3, <2>4, <2>5, <2>6 DEF TypeOK, SavedChunks, controlVars
<1>4. CASE CopyChunk(s)
  <2>1. PICK copied \in {chunk[s].rest, None} :
          saved' = [saved EXCEPT ![s] =
                      [head |-> EqOutput(eqBands, chunk[s].head), rest |-> copied]]
    BY <1>4 DEF CopyChunk
  <2>2. EqOutput(eqBands, chunk[s].head) \in Shorts
    BY ChunkTypes DEF TypeOK, EqOutput
  <2>3. copied \in Shorts \union {None}
    BY <2>1 DEF TypeOK
  <2>4. saved' \in [Streams -> SavedChunks]
    BY <2>1, <2>2, <2>3 DEF TypeOK, SavedChunks
  <2>5. sounded' \in [Streams -> 0 .. 2]
    <3>1. sounded \in [Streams -> 0 .. 2]
      BY DEF TypeOK
    <3>2. \/ sounded' = sounded
          \/ sounded[s] < 2 /\ sounded' = [sounded EXCEPT ![s] = sounded[s] + 1]
      BY <1>4 DEF CopyChunk
    <3> QED BY <3>1, <3>2
  <2>6. pc' \in [Streams -> {"Idle", "Volume", "MutedEq", "Eq"}]
    BY <1>4 DEF CopyChunk, TypeOK
  <2>7. UNCHANGED <<input, chunk, vol>>
    BY <1>4 DEF CopyChunk
  <2> QED BY <1>1, <2>4, <2>5, <2>6, <2>7 DEF TypeOK, SavedChunks, controlVars
<1> QED BY <1>2, <1>3, <1>4 DEF Stream

LEMMA TypeNext ==
  ASSUME TypeOK, [Next]_vars
  PROVE  TypeOK'
<1>1. CASE UNCHANGED vars
  BY <1>1 DEF TypeOK, vars, controlVars, streamVars
<1> QED BY <1>1, TypeIoctl, TypeStream DEF Next

-----------------------------------------------------------------------------
(***************************************************************************)
(* What is scaled is what came, and once the device is muted no new chunk  *)
(* sounds.                                                                 *)
(***************************************************************************)
NotScaledYet ==
  \A s \in Streams : pc[s] = "Volume" => chunk[s].head = input[s].head

\* A stream that has ended a chunk that sounds since the device was muted has
\* no other one under way.
Faded ==
  muted => \A s \in Streams :
             sounded[s] > 0 => sounded[s] = 1 /\ pc[s] \in {"Idle", "MutedEq"}

AudioInv == TypeOK /\ NotScaledYet /\ PositiveScaled /\ Faded

LEMMA AudioInit == Init => AudioInv
<1> SUFFICES ASSUME Init PROVE AudioInv
  OBVIOUS
<1>1. \A s \in Streams : pc[s] = "Idle" /\ sounded[s] = 0
  BY DEF Init
<1> QED BY <1>1, TypeInit DEF AudioInv, NotScaledYet, PositiveScaled, Faded

LEMMA AudioIoctl ==
  ASSUME AudioInv, Ioctl
  PROVE  AudioInv'
<1>1. UNCHANGED <<pc, input, chunk, vol>>
  BY DEF Ioctl, SetVolume, Mute, Unmute, SetBiquadCoeffs, streamVars
<1>2. NotScaledYet' /\ PositiveScaled'
  BY <1>1 DEF AudioInv, NotScaledYet, PositiveScaled
<1>3. \/ ~muted'
      \/ muted /\ muted' /\ UNCHANGED sounded
      \/ \A s \in Streams : sounded'[s] = 0
  BY DEF Ioctl, SetVolume, Mute, Unmute, SetBiquadCoeffs, streamVars
<1>4. Faded'
  BY <1>1, <1>3 DEF AudioInv, Faded
<1> QED BY <1>2, <1>4, TypeIoctl DEF AudioInv

LEMMA AudioStream ==
  ASSUME AudioInv, NEW s \in Streams, Stream(s)
  PROVE  AudioInv'
<1> USE DEF TypeOK
<1>1. TypeOK' /\ UNCHANGED muted
  BY TypeStream DEF AudioInv, Stream, WriteData, ScaleChunk, CopyChunk, controlVars
<1>2. \A t \in Streams : t # s =>
        /\ pc'[t] = pc[t] /\ input'[t] = input[t] /\ chunk'[t] = chunk[t]
        /\ vol'[t] = vol[t] /\ sounded'[t] = sounded[t]
  BY DEF AudioInv, Stream, WriteData, ScaleChunk, CopyChunk
<1> SUFFICES /\ pc'[s] = "Volume" => chunk'[s].head = input'[s].head
             /\ pc'[s] = "Eq" =>
                  /\ input'[s].head >= 0 =>
                       chunk'[s].head = Percentage(input'[s].head * vol'[s])
                  /\ vol'[s] = 0 => chunk'[s].head = 0
             /\ muted' /\ sounded'[s] > 0 =>
                  sounded'[s] = 1 /\ pc'[s] \in {"Idle", "MutedEq"}
  <2>1. NotScaledYet'
    BY <1>2 DEF AudioInv, NotScaledYet
  <2>2. PositiveScaled'
    BY <1>2 DEF AudioInv, PositiveScaled
  <2>3. Faded'
    BY <1>1, <1>2 DEF AudioInv, Faded
  <2> QED BY <1>1, <2>1, <2>2, <2>3 DEF AudioInv
<1>3. CASE \E c \in Chunks : WriteData(s, c)
  BY <1>1, <1>3 DEF WriteData, MutedNow, AudioInv, Faded
<1>4. CASE ScaleChunk(s)
  <2> DEFINE v == IF volume > 100 THEN 100 ELSE volume
             x == chunk[s].head
  <2>1. /\ pc[s] = "Volume" /\ pc'[s] = "Eq"
        /\ vol'[s] = v /\ chunk'[s].head = Scale(x, v)
        /\ UNCHANGED <<input, sounded>>
    BY <1>4 DEF ScaleChunk, AudioInv
  <2>2. v \in 0 .. 100 /\ x \in Shorts /\ x = input[s].head
    BY <2>1 DEF AudioInv, NotScaledYet
  <2> HIDE DEF v, x
  <2>3. x >= 0 => Scale(x, v) = Percentage(x * v)
    <3>1. x >= 0 => x \in 0 .. ShortMax
      BY <2>2 DEF Shorts
    <3> QED BY <2>2, <3>1, ScalePositive
  <2>4. v = 0 => Scale(x, v) = 0
    BY <2>2, ScaleSilent
  <2>5. muted' /\ sounded'[s] > 0 => FALSE
    BY <1>1, <2>1 DEF AudioInv, Faded
  <2> QED BY <2>1, <2>2, <2>3, <2>4, <2>5
<1>5. CASE CopyChunk(s)
  <2>1. pc'[s] = "Idle"
    BY <1>5 DEF CopyChunk, AudioInv
  <2>2. CASE pc[s] = "Eq" /\ muted
    <3>1. ~(sounded[s] > 0)
      BY <2>2 DEF AudioInv, Faded
    <3>2. sounded[s] = 0
      BY <3>1 DEF AudioInv
    <3>3. sounded'[s] = 1
      BY <1>5, <2>2, <3>2 DEF CopyChunk, AudioInv
    <3> QED BY <2>1, <3>3
  <2>3. CASE ~(pc[s] = "Eq" /\ muted)
    <3>1. sounded' = sounded
      BY <1>5, <2>3 DEF CopyChunk
    <3> QED BY <1>1, <2>1, <3>1 DEF AudioInv, Faded
  <2> QED BY <2>2, <2>3
<1> QED BY <1>3, <1>4, <1>5 DEF Stream

LEMMA AudioInvariant == Spec => []AudioInv
<1>1. AudioInv /\ [Next]_vars => AudioInv'
  <2>1. CASE UNCHANGED vars
    BY <2>1, TypeNext DEF AudioInv, NotScaledYet, PositiveScaled, Faded, vars,
                          controlVars, streamVars
  <2> QED BY <2>1, AudioIoctl, AudioStream DEF Next
<1> QED BY <1>1, AudioInit, PTL DEF Spec

\* Type correctness; in particular no volume above 100 is ever read.
THEOREM TypeCorrect == Spec => []TypeOK
<1>1. AudioInv => TypeOK
  BY DEF AudioInv
<1> QED BY <1>1, AudioInvariant, PTL

\* A sample that is not negative becomes its percentage at the volume read, for
\* every sample a SHORT can hold, and volume 0 silences every sample.
THEOREM PositiveIsScaled == Spec => []PositiveScaled
<1>1. AudioInv => PositiveScaled
  BY DEF AudioInv
<1> QED BY <1>1, AudioInvariant, PTL

\* Once the device is muted each stream finishes at most the chunk it has begun.
THEOREM MuteHolds == Spec => []MuteTakesHold
<1>1. AudioInv => MuteTakesHold
  <2> SUFFICES ASSUME AudioInv, muted, NEW s \in Streams PROVE sounded[s] <= 1
    BY DEF MuteTakesHold
  <2>1. sounded[s] \in 0 .. 2
    BY DEF AudioInv, TypeOK
  <2>2. sounded[s] > 0 => sounded[s] = 1
    BY DEF AudioInv, Faded
  <2> QED BY <2>1, <2>2
<1> QED BY <1>1, AudioInvariant, PTL
=============================================================================
