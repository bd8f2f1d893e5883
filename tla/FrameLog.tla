------------------------------ MODULE FrameLog ------------------------------
(***************************************************************************)
(* What CSaveData promises the stream: chunks of playback data are handed  *)
(* over, at most Capacity are in flight, and each is either appended to    *)
(* the file whole, once and as it was when it was handed over, or is lost  *)
(* as a whole.  In which order chunks in flight reach the file is open.    *)
(***************************************************************************)
EXTENDS Naturals, Sequences, FiniteSets

CONSTANT Capacity   \* chunks in flight at most

VARIABLES
  pending,   \* the chunks in flight, each a sequence of bytes
  log        \* the bytes in the file

logVars == <<pending, log>>

Init ==
  /\ pending = {}
  /\ log = <<>>

Submit(chunk) ==
  /\ chunk # <<>>
  /\ Cardinality(pending) < Capacity
  /\ chunk \notin pending
  /\ pending' = pending \union {chunk}
  /\ log' = log

Commit(chunk) ==
  /\ pending' = pending \ {chunk}
  /\ log' = log \o chunk

Lose(chunk) ==
  /\ pending' = pending \ {chunk}
  /\ log' = log

Next ==
  \/ \E chunk \in pending' \ pending : Submit(chunk)
  \/ \E chunk \in pending : Commit(chunk) \/ Lose(chunk)

Spec == Init /\ [][Next]_logVars
=============================================================================
