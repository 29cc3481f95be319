----------------------------- MODULE BoundedFifo -----------------------------
(***************************************************************************)
(* What EncoderCQ promises to the encoder: a queue of at most Capacity     *)
(* elements that come out in the order in which they went in, or not at    *)
(* all when they are cleared.  Elements are numbered in the order of put.  *)
(* The promise ends when the queue is broken; EncoderCQ.tla says by what.  *)
(***************************************************************************)
EXTENDS Naturals, Sequences

CONSTANT Capacity

(***************************************************************************)
(* items     the elements in the queue, the oldest first                   *)
(* put       the number of elements put so far                             *)
(* misread   has anything but the oldest element been given out            *)
(* broken    has one of the things happened that end the promise           *)
(***************************************************************************)
VARIABLES items, put, misread, broken

vars == <<items, put, misread, broken>>

Init ==
  /\ items = <<>>
  /\ put = 0
  /\ misread = FALSE
  /\ broken = FALSE

Put ==
  /\ Len(items) < Capacity
  /\ items' = Append(items, put + 1)
  /\ put' = put + 1

Take ==
  /\ items # <<>>
  /\ items' = Tail(items)
  /\ UNCHANGED put

Clear ==
  /\ items' = <<>>
  /\ UNCHANGED put

Next ==
  \/ /\ Put \/ Take \/ Clear
     /\ ~broken /\ UNCHANGED <<misread, broken>>
  \/ broken'

Spec == Init /\ [][Next]_vars
=============================================================================
