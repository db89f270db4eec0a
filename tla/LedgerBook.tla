------------------------------ MODULE LedgerBook ------------------------------
(***************************************************************************)
(* What corrections and deletions promise: an entry is worth its face      *)
(* value, corrections draw on what is left of it and can be taken back,    *)
(* and only an entry nothing was drawn from is voided, for good.           *)
(***************************************************************************)
EXTENDS Integers

CONSTANT Entries

VARIABLES
  state,  \* "none", "open" or "void"
  face,   \* the amount an entry was made for
  left    \* how much of it corrections have not taken back

Init ==
  /\ state = [t \in Entries |-> "none"]
  /\ face = [t \in Entries |-> 0]
  /\ left = [t \in Entries |-> 0]

Open(t) ==
  /\ state[t] = "none"
  /\ state' = [state EXCEPT ![t] = "open"]
  /\ face'[t] > 0
  /\ face' = [face EXCEPT ![t] = face'[t]]
  /\ left' = [left EXCEPT ![t] = face'[t]]

(* A correction, or the removal of one. *)
Draw(t) ==
  /\ state[t] = "open"
  /\ left'[t] \in 0..face[t]
  /\ left' = [left EXCEPT ![t] = left'[t]]
  /\ UNCHANGED <<state, face>>

Void(t) ==
  /\ state[t] = "open"
  /\ left[t] = face[t]
  /\ state' = [state EXCEPT ![t] = "void"]
  /\ UNCHANGED <<face, left>>

Next == \E t \in Entries : Open(t) \/ Draw(t) \/ Void(t)

Spec == Init /\ [][Next]_<<state, face, left>>
=============================================================================
