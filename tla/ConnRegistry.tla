----------------------------- MODULE ConnRegistry -----------------------------
(***************************************************************************)
(* What the hub promises about connections, without goroutines or locks: a *)
(* connection joins once and leaves once, the gauge counts exactly the     *)
(* connections that are in, and a connection is sent to only while it is   *)
(* in.  What it still has in its outbox when it leaves may be written out. *)
(***************************************************************************)
EXTENDS Integers, FiniteSets

CONSTANTS Client, Cap

VARIABLES live, gone, gauge, outbox

vars == <<live, gone, gauge, outbox>>

Init ==
  /\ live = {} /\ gone = {} /\ gauge = 0
  /\ outbox = [c \in Client |-> 0]

Join(c) ==
  /\ c \notin live \cup gone
  /\ live' = live \cup {c} /\ gauge' = gauge + 1
  /\ UNCHANGED <<gone, outbox>>

(* One connection leaves by itself; the sweep removes several at once.     *)
Leave(S) ==
  /\ S # {} /\ S \subseteq live
  /\ live' = live \ S /\ gone' = gone \cup S
  /\ gauge' = gauge - Cardinality(S)
  /\ UNCHANGED outbox

Put(c) ==
  /\ c \in live /\ outbox[c] < Cap
  /\ outbox' = [outbox EXCEPT ![c] = @ + 1]
  /\ UNCHANGED <<live, gone, gauge>>

Take(c) ==
  /\ outbox[c] > 0
  /\ outbox' = [outbox EXCEPT ![c] = @ - 1]
  /\ UNCHANGED <<live, gone, gauge>>

Next ==
  \/ \E c \in Client : Join(c) \/ Put(c) \/ Take(c)
  \/ \E S \in SUBSET Client : Leave(S)

Spec == Init /\ [][Next]_vars
=============================================================================
