------------------------------- MODULE Dealer -------------------------------
(***************************************************************************)
(* What the accept loop and the worker loops of tsproxyd promise together. *)
(*                                                                         *)
(* Connections are numbered as they are accepted.  Each is taken by one    *)
(* worker, once, after it was accepted, and a worker takes those it gets   *)
(* in the order of their acceptance.  Which worker takes which, and when,  *)
(* is not said.                                                            *)
(***************************************************************************)
EXTENDS Integers, Sequences

CONSTANT Workers

VARIABLES
  accepted,  \* number of connections accepted
  taken      \* the connections a worker has taken, the first one first

vars == <<accepted, taken>>

Init == accepted = 0 /\ taken = [w \in Workers |-> <<>>]

TakenBy(w) == {taken[w][i] : i \in 1..Len(taken[w])}

Accept == accepted' = accepted + 1 /\ UNCHANGED taken

Take(w, c) ==
  /\ \A v \in Workers : c \notin TakenBy(v)
  /\ \A d \in TakenBy(w) : d < c
  /\ taken' = [taken EXCEPT ![w] = Append(@, c)]
  /\ UNCHANGED accepted

Next == Accept \/ \E w \in Workers, c \in 1..accepted : Take(w, c)

Spec == Init /\ [][Next]_vars

=============================================================================
