---------------------------- MODULE SecondFactor ----------------------------
(***************************************************************************)
(* What the API promises about a second factor: a secret comes into force  *)
(* only after its holder has shown a code made from it, and goes again.    *)
(***************************************************************************)
CONSTANTS Secret, None

VARIABLES
  factor,     \* the secret in force, or None
  shown       \* the secrets whose holder has shown a code

vars == <<factor, shown>>

Init == factor = None /\ shown = {}

Show(s) == shown' = shown \cup {s} /\ UNCHANGED factor

Activate(s) == s \in shown /\ factor' = s /\ UNCHANGED shown

Remove == factor' = None /\ UNCHANGED shown

Next == Remove \/ \E s \in Secret : Show(s) \/ Activate(s)

Spec == Init /\ [][Next]_vars
=============================================================================
