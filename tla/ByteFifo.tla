------------------------------ MODULE ByteFifo ------------------------------
(***************************************************************************)
(* What the bip buffer promises its two clients: a queue of bytes.  The    *)
(* writer puts bytes at once, or stages them in a reservation and stores   *)
(* the reservation later; the reader gets bytes at once, or peeks at the   *)
(* oldest ones and drops them later.  How many bytes of a put are taken is *)
(* left open, but the status says exactly how many were; a get delivers    *)
(* everything there is, up to what was asked for.                          *)
(***************************************************************************)
EXTENDS Integers, Sequences

CONSTANTS
  Byte,
  MaxIO    \* longest put and longest get

VARIABLES
  queue,   \* the bytes put and not yet got
  pending, \* the bytes the writer staged and has not stored
  peeked,  \* the bytes the reader looked at and has not dropped
  reply    \* what the last call returned

vars == <<queue, pending, peeked, reply>>

Data == UNION {[1..n -> Byte] : n \in 0..MaxIO}
Quiet == [status |-> 0, bytes |-> << >>]
FirstOf(s, k) == SubSeq(s, 1, k)
AfterFirst(s, k) == SubSeq(s, k + 1, Len(s))

Init ==
  /\ queue = << >>
  /\ pending = << >>
  /\ peeked = << >>
  /\ reply = Quiet

Put(data) ==
  /\ \/ \E k \in 0..Len(data) :
          /\ queue' = queue \o FirstOf(data, k)
          /\ reply' = [status |-> k, bytes |-> << >>]
     \/ /\ reply' = [status |-> -1, bytes |-> << >>]
        /\ UNCHANGED queue
  /\ UNCHANGED <<pending, peeked>>

Stage(data) ==
  /\ \E k \in 0..Len(data) : pending' = FirstOf(data, k)
  /\ reply' = Quiet
  /\ UNCHANGED <<queue, peeked>>

\* A store takes exactly the k staged bytes that are asked for.
Store(k) ==
  /\ queue' = queue \o FirstOf(pending, IF k <= Len(pending) THEN k ELSE Len(pending))
  /\ pending' = << >>
  /\ reply' = Quiet
  /\ UNCHANGED peeked

Get(n) ==
  LET k == IF n <= Len(queue) THEN n ELSE Len(queue)
  IN /\ queue' = AfterFirst(queue, k)
     /\ reply' = [status |-> k, bytes |-> FirstOf(queue, k)]
     /\ UNCHANGED <<pending, peeked>>

\* Looking may cost the writer its reservation.
Peek ==
  /\ \E k \in 0..Len(queue) : peeked' = FirstOf(queue, k)
  /\ pending' \in {pending, << >>}
  /\ reply' = Quiet
  /\ UNCHANGED queue

Drop(k) ==
  /\ k <= Len(peeked)
  /\ queue' = AfterFirst(queue, k)
  /\ peeked' = << >>
  /\ reply' = Quiet
  /\ UNCHANGED pending

Resize ==
  /\ pending' \in {pending, << >>}
  /\ reply' = Quiet
  /\ UNCHANGED <<queue, peeked>>

Reset ==
  /\ queue' = << >>
  /\ pending' = << >>
  /\ peeked' = << >>
  /\ reply' = Quiet

Next ==
  \/ \E data \in Data : Put(data) \/ Stage(data)
  \/ \E n \in 0..MaxIO : Store(n) \/ Get(n) \/ Drop(n)
  \/ Peek
  \/ Resize
  \/ Reset

Spec == Init /\ [][Next]_vars
=============================================================================
