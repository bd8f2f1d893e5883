---------------------------- MODULE AudioControl ----------------------------
(***************************************************************************)
(* The volume, mute and EQ controls of the SysvadControl device            *)
(* (src/audio/sysvad/TabletAudioSample/AudioVolumeControl) and what        *)
(* CSaveData::WriteData makes of them (src/audio/sysvad/savedata.cpp).     *)
(*                                                                         *)
(* Actors: a client that sends one IOCTL at a time, and the streams, each  *)
(* of which processes one chunk at a time.  Nothing guards the globals     *)
(* they share, so WriteData reads g_Muted and g_DeviceVolume at instants   *)
(* of their own; the rest of it works on the chunk, which is its own.      *)
(*                                                                         *)
(* A chunk is a sample that goes to the current frame and, when the chunk  *)
(* crosses the end of the frame buffer, a sample of the left over.  An EQ  *)
(* band is a set of biquad coefficients: all zero, which makes zeros of    *)
(* any sound, or flat, which passes it.                                    *)
(***************************************************************************)
EXTENDS Integers

CONSTANTS
  Streams,      \* the streams that write
  ShortMax,     \* 2^15 - 1: the largest SHORT
  ULong,        \* 2^32: the number of values of a ULONG
  EqBands,      \* EQ_BANDS
  Volumes,      \* bound: the volumes a client asks for
  Samples       \* bound: the samples of a chunk

ASSUME AudioAssumption ==
  /\ ShortMax \in Nat
  /\ ULong \in Nat
  /\ ULong > 200 * (ShortMax + 1)
  /\ EqBands \in Nat \ {0}
  /\ Volumes \subseteq 0 .. ULong - 1
  /\ Samples \subseteq -ShortMax - 1 .. ShortMax

VARIABLES
  volume,     \* g_DeviceVolume
  muted,      \* g_Muted
  coeffs,     \* g_EqBands of AudioEQControl.cpp
  eqBands,    \* eqBands of eq.cpp
  pc,         \* where each stream is in WriteData
  input,      \* the chunk as it came
  chunk,      \* pBuffer
  vol,        \* the local vol of WriteData
  saved,      \* what the last WriteData put into the frame buffer
  sounded     \* history: chunks not muted that ended since g_Muted was set

controlVars == <<volume, muted, coeffs, eqBands>>
streamVars  == <<pc, input, chunk, vol, saved, sounded>>
vars == <<controlVars, streamVars>>

Shorts == -ShortMax - 1 .. ShortMax
Bands  == 1 .. EqBands
Zero   == "zero"
Flat   == "flat"
None   == ShortMax + 1   \* no left over: no sample has this value
Chunks == [head : Samples, rest : Samples \union {None}]

Init ==
  /\ volume = 100
  /\ muted = FALSE
  /\ coeffs = [b \in Bands |-> Zero]
  /\ eqBands = [b \in Bands |-> Zero]
  /\ pc = [s \in Streams |-> "Idle"]
  /\ input = [s \in Streams |-> [head |-> 0, rest |-> None]]
  /\ chunk = input
  /\ vol = [s \in Streams |-> 0]
  /\ saved = input
  /\ sounded = [s \in Streams |-> 0]

-----------------------------------------------------------------------------
(***************************************************************************)
(* AudioVolumeControl_DispatchIoControl.                                   *)
(***************************************************************************)

ValidVolume(v) == v <= 100

\* IOCTL_SET_VOLUME.
SetVolume(v) ==
  /\ ValidVolume(v)
  /\ volume' = v
  /\ UNCHANGED <<muted, coeffs, eqBands, streamVars>>

\* IOCTL_MUTE_AUDIO.
Mute ==
  /\ muted' = TRUE
  /\ sounded' = IF muted THEN sounded ELSE [s \in Streams |-> 0]
  /\ UNCHANGED <<volume, coeffs, eqBands, pc, input, chunk, vol, saved>>

\* IOCTL_UNMUTE_AUDIO.
Unmute ==
  /\ muted' = FALSE
  /\ UNCHANGED <<volume, coeffs, eqBands, streamVars>>

\* IOCTL_SET_EQ_BIQUAD_COEFFS: the coefficients of the first bands are stored;
\* a BandCount above EQ_BANDS is not stored, with STATUS_SUCCESS all the same.
SetBiquadCoeffs(bandCount, c) ==
  /\ bandCount <= EqBands
  /\ coeffs' = [b \in Bands |-> IF b <= bandCount THEN c ELSE coeffs[b]]
  /\ UNCHANGED <<volume, muted, eqBands, streamVars>>

-----------------------------------------------------------------------------
(***************************************************************************)
(* The sound processing of WriteData.                                      *)
(***************************************************************************)
Clamp(x) == IF x > ShortMax THEN ShortMax
            ELSE IF x < -ShortMax - 1 THEN -ShortMax - 1 ELSE x

\* A bug to be caught: the division comes first.
Bug_Scale(sample, v) == Clamp(((sample % ULong) \div 100) * v)

\* LONG times ULONG is a ULONG, and so is its hundredth.
Scale(sample, v) == Clamp(((sample * v) % ULong) \div 100)

\* ProcessEqPcmBuffer through the bands b of eq.cpp.
EqOutput(b, sample) == IF \E i \in Bands : b[i] = Zero THEN 0 ELSE sample

\* A bug to be caught: the stream knows g_Muted from its last chunk only.
Bug_MutedNow(s) == muted /\ chunk[s].head = 0

MutedNow(s) == muted

\* A chunk comes and g_Muted is read; a muted chunk is zeroed up to the end of
\* the frame buffer.
WriteData(s, c) ==
  /\ pc[s] = "Idle"
  /\ input' = [input EXCEPT ![s] = c]
  /\ IF MutedNow(s)
     THEN /\ chunk' = [chunk EXCEPT ![s] = [c EXCEPT !.head = 0]]
          /\ pc' = [pc EXCEPT ![s] = "MutedEq"]
     ELSE /\ chunk' = [chunk EXCEPT ![s] = c]
          /\ pc' = [pc EXCEPT ![s] = "Volume"]
  /\ UNCHANGED <<controlVars, vol, saved, sounded>>

\* The volume is read and the chunk scaled, up to the end of the frame buffer.
ScaleChunk(s) ==
  LET v == IF volume > 100 THEN 100 ELSE volume
  IN /\ pc[s] = "Volume"
     /\ vol' = [vol EXCEPT ![s] = v]
     /\ chunk' = [chunk EXCEPT ![s].head = Scale(@, v)]
     /\ pc' = [pc EXCEPT ![s] = "Eq"]
     /\ UNCHANGED <<controlVars, input, saved, sounded>>

\* The EQ, the copy into the frame buffer and, if the next frame is free, that
\* of the left over.
CopyChunk(s) ==
  /\ pc[s] \in {"MutedEq", "Eq"}
  /\ \E copied \in {chunk[s].rest, None} :
       saved' = [saved EXCEPT ![s] =
                   [head |-> EqOutput(eqBands, chunk[s].head), rest |-> copied]]
  /\ sounded' = IF pc[s] = "Eq" /\ muted /\ sounded[s] < 2
                THEN [sounded EXCEPT ![s] = @ + 1] ELSE sounded
  /\ pc' = [pc EXCEPT ![s] = "Idle"]
  /\ UNCHANGED <<controlVars, input, chunk, vol>>

Ioctl ==
  \/ \E v \in Volumes : SetVolume(v)
  \/ Mute
  \/ Unmute
  \/ \E bandCount \in 0 .. EqBands + 1, c \in {Zero, Flat} :
       SetBiquadCoeffs(bandCount, c)

Stream(s) ==
  \/ \E c \in Chunks : WriteData(s, c)
  \/ ScaleChunk(s)
  \/ CopyChunk(s)

Next == Ioctl \/ \E s \in Streams : Stream(s)

Spec == Init /\ [][Next]_vars

-----------------------------------------------------------------------------
\* Every variable has its type; no client sets a volume above 100.
TypeOK ==
  /\ volume \in 0 .. 100
  /\ muted \in BOOLEAN
  /\ coeffs \in [Bands -> {Zero, Flat}]
  /\ eqBands \in [Bands -> {Zero, Flat}]
  /\ pc \in [Streams -> {"Idle", "Volume", "MutedEq", "Eq"}]
  /\ input \in [Streams -> [head : Shorts, rest : Shorts \union {None}]]
  /\ chunk \in [Streams -> [head : Shorts, rest : Shorts \union {None}]]
  /\ vol \in [Streams -> 0 .. 100]
  /\ saved \in [Streams -> [head : Shorts, rest : Shorts \union {None}]]
  /\ sounded \in [Streams -> 0 .. 2]

\* The hundredth of a product, rounded towards zero.
Percentage(x) == IF x >= 0 THEN x \div 100 ELSE -(-x \div 100)

\* A sample that is not negative becomes its percentage at the volume read,
\* whatever the client sets meanwhile, and at volume 0 every sample is silent.
PositiveScaled ==
  \A s \in Streams :
    pc[s] = "Eq" =>
      /\ input[s].head >= 0 => chunk[s].head = Percentage(input[s].head * vol[s])
      /\ vol[s] = 0 => chunk[s].head = 0

\* Once a client has muted the device, a stream finishes at most the one chunk
\* it has already begun before it is silent.
MuteTakesHold == muted => \A s \in Streams : sounded[s] <= 1

\* The comment at the loop, "scale the volume (percentage)": every sample
\* becomes its percentage at the volume read.
ScaleIsPercentage ==
  \A s \in Streams :
    pc[s] = "Eq" => chunk[s].head = Percentage(input[s].head * vol[s])

\* The comment at the muted branch, "if muted, the whole original input buffer
\* is zeroed": nothing of a muted chunk is heard.
MutedChunkSilent ==
  [][\A s \in Streams :
       pc[s] = "MutedEq" /\ pc'[s] = "Idle" =>
         saved'[s].head = 0 /\ saved'[s].rest \in {0, None}]_vars

\* The coefficients set from user mode are those the sound goes through.
EqCoeffsApplied ==
  [][\A s \in Streams :
       pc[s] = "Eq" /\ pc'[s] = "Idle" =>
         saved'[s].head = EqOutput(coeffs, chunk[s].head)]_vars
=============================================================================
