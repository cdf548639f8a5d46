----------------------------- MODULE NonceSource -----------------------------
(***************************************************************************)
(* The nonce source of the Bitso signer (exchanges/bitso/signer.py).       *)
(* SALT_MOD is the number of salts per millisecond.  A new process starts  *)
(* from the default last = 0, as validate_live.py does, or from the last   *)
(* one a journal kept for it.                                              *)
(***************************************************************************)
EXTENDS Integers

CONSTANTS SALT_MOD, MaxMs, MaxCalls

ASSUME NonceAssumption == SALT_MOD \in Nat \ {0} /\ MaxMs \in Nat

VARIABLES
  nlast,     \* NonceV2.last of the running process
  nms,       \* the wall clock, in milliseconds; it may be set back
  nsent,     \* nonces on the wire, oldest first
  nkept      \* every process so far was given the last nonce of the one before

nvars == <<nlast, nms, nsent, nkept>>

LOCAL INSTANCE Sequences

CandidateOnly(salt) == nms * SALT_MOD + salt
NextNonce(salt) ==
  LET candidate == nms * SALT_MOD + salt
  IN IF candidate > nlast THEN candidate ELSE nlast + 1

(* auth_header(): one nonce per signed request, also when it is not        *)
(* answered.                                                               *)
AuthHeader(salt) ==
  /\ Len(nsent) < MaxCalls
  /\ nlast' = NextNonce(salt)
  /\ nsent' = Append(nsent, NextNonce(salt))
  /\ UNCHANGED <<nms, nkept>>

NonceRestart(persisted) ==
  /\ nlast' = IF persisted THEN nlast ELSE 0
  /\ nkept' = (nkept /\ persisted)
  /\ UNCHANGED <<nms, nsent>>

NonceClock(ms) ==
  /\ ms # nms
  /\ nms' = ms
  /\ UNCHANGED <<nlast, nsent, nkept>>

NonceInit == nlast = 0 /\ nms = 1 /\ nsent = <<>> /\ nkept = TRUE

NonceNext ==
  \/ \E salt \in 0..(SALT_MOD - 1) : AuthHeader(salt)
  \/ \E p \in BOOLEAN : NonceRestart(p)
  \/ \E ms \in 1..MaxMs : NonceClock(ms)

NonceSpec == NonceInit /\ [][NonceNext]_nvars

(* The exchange takes a request only with a nonce above all before it.     *)
(* That holds through restarts and clock steps if last is fed back, and    *)
(* within one process however the clock moves; the default needs a clock   *)
(* that is never set back and a millisecond between two processes.         *)
NoncesRise == \A i, j \in DOMAIN nsent : i < j /\ nkept => nsent[i] < nsent[j]
=============================================================================
