----------------------------- MODULE ByteChannel -----------------------------
(***************************************************************************)
(* What each direction of the USB console promises, however many buffers   *)
(* and pumps it is made of.  Bytes are numbered as they are sent; they are *)
(* handed out in that order, and none twice.  A full channel may lose      *)
(* bytes, but it is a full one then: at least Room bytes stay on their     *)
(* way, so that Room bytes or less are never lost, however many have been  *)
(* lost before.  Nothing enters it without a connection; when that goes,   *)
(* a channel that drops keeps the bytes that have come furthest, and       *)
(* counts anew.                                                            *)
(***************************************************************************)
EXTENDS Integers, Sequences

CONSTANTS Room, Drops

VARIABLES queue,   \* the bytes on their way
          sent,    \* how many have been sent
          out,     \* how many have been handed out
          up       \* is there a connection?

vars == <<queue, sent, out, up>>

Init == queue = <<>> /\ sent = 0 /\ out = 0 /\ up = FALSE

Bytes(s)      == { s[i] : i \in 1 .. Len(s) }
Rising(s)     == \A i \in 1 .. Len(s) - 1 : s[i] < s[i+1]
Numbers(a, b) == [ i \in 1 .. b - a + 1 |-> a + i - 1 ]

Kept(s, all) ==
  \/ s = all
  \/ Rising(s) /\ Bytes(s) \subseteq Bytes(all) /\ Len(s) >= Room

Send ==
  /\ up
  /\ sent' > sent
  /\ Kept(queue', queue \o Numbers(sent + 1, sent'))
  /\ UNCHANGED <<out, up>>

Shed == Kept(queue', queue) /\ UNCHANGED <<sent, out, up>>

HandOut ==
  /\ \E k \in 1 .. Len(queue) : queue' = SubSeq(queue, k + 1, Len(queue)) /\ out' = out + k
  /\ UNCHANGED <<sent, up>>

Open == ~up /\ up' /\ UNCHANGED <<queue, sent, out>>

Cut ==
  /\ up /\ ~up'
  /\ \E k \in 0 .. Len(queue) : queue' = SubSeq(queue, 1, k) /\ (~Drops => k = Len(queue))
  /\ out' = (IF Drops THEN 0 ELSE out)
  /\ UNCHANGED sent

Next == Send \/ Shed \/ HandOut \/ Open \/ Cut

Spec == Init /\ [][Next]_vars
=============================================================================
