------------------------------- MODULE Mirror -------------------------------
(***************************************************************************)
(* What jnxdb promises to whoever reads it (RECOVERY.md: a "pure in-memory *)
(* mirror"): its content is always a prefix of the exchange stream.  It    *)
(* follows the stream one message at a time, it can lose everything, and   *)
(* from nothing it can be reloaded at any position; it never skips a       *)
(* message, never steps back and never shows a mixture.                    *)
(***************************************************************************)
EXTENDS Integers, Sequences

VARIABLES
  stream,   \* the exchange's messages
  view      \* positions of the book and state messages the mirror shows

Prefix(n) == {s \in 1..Len(stream) : stream[s] = "X" /\ s <= n}

MirrorInit == view = {}

Follow ==
  \E s \in 1..Len(stream) : stream[s] = "X" /\ view = Prefix(s - 1)
                             /\ view' = Prefix(s)
Lose == view' = {}
Load == view = {} /\ \E n \in 0..Len(stream) : view' = Prefix(n)

MirrorNext == (Follow \/ Lose \/ Load) /\ UNCHANGED stream
MirrorSpec == MirrorInit /\ [][MirrorNext]_<<stream, view>>
=============================================================================
