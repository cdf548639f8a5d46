----------------------------- MODULE ExactlyOnce -----------------------------
(***************************************************************************)
(* What the idempotent order manager promises of each logical intent (the  *)
(* argument of the docstring of treasuryforge/orders.py, lines 7 to 23):   *)
(* it is registered before anything happens, it is executed at most once,  *)
(* and the outcome recorded for it is the one it had.                      *)
(***************************************************************************)
EXTENDS Naturals

CONSTANT Orders   \* the logical intents

VARIABLES
  phase,      \* what the records say: new, working, filled or rejected
  executed    \* how often the intent was executed

Init == /\ phase = [o \in Orders |-> "new"]
        /\ executed = [o \in Orders |-> 0]

(* The intent is on record and may from now on be executed.                *)
Register(o) == /\ phase[o] = "new"
               /\ phase' = [phase EXCEPT ![o] = "working"]
               /\ UNCHANGED executed

Execute(o) == /\ phase[o] = "working" /\ executed[o] = 0
              /\ executed' = [executed EXCEPT ![o] = 1]
              /\ UNCHANGED phase

(* The execution is learnt: only one that took place.                      *)
Fill(o) == /\ phase[o] = "working" /\ executed[o] = 1
           /\ phase' = [phase EXCEPT ![o] = "filled"]
           /\ UNCHANGED executed

(* The intent is given up: only one that was not executed, and for good.   *)
Reject(o) == /\ phase[o] = "working" /\ executed[o] = 0
             /\ phase' = [phase EXCEPT ![o] = "rejected"]
             /\ UNCHANGED executed

Next == \E o \in Orders : Register(o) \/ Execute(o) \/ Fill(o) \/ Reject(o)

Spec == Init /\ [][Next]_<<phase, executed>>
=============================================================================
