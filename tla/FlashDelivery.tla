--------------------------- MODULE FlashDelivery ---------------------------
(* What a caller of a flash write may rely on: while the call lasts the     *)
(* device gets the data in order and piece by piece, and the call succeeds  *)
(* only when the device has all of it, once.  Of a write on a link that is  *)
(* foul, or that becomes so, nothing is promised.                           *)
EXTENDS Integers

CONSTANT MaxLen      \* the longest write, in units

VARIABLES
    want,     \* the length of the write
    have,     \* how much of it the device holds, a prefix
    verdict   \* "busy", "ok", "err" or "foul"; "none" when the last call was no write

dvars == <<want, have, verdict>>

DInit == want = 0 /\ have = 0 /\ verdict = "none"

Begin ==
    /\ verdict # "busy" /\ verdict' \in {"busy", "err", "foul"}
    /\ want' \in 0..MaxLen /\ have' = 0

Deliver ==
    /\ verdict = "busy"
    /\ have' \in (have + 1)..want
    /\ UNCHANGED <<want, verdict>>

Succeed == verdict = "busy" /\ have = want /\ verdict' = "ok" /\ UNCHANGED <<want, have>>

Fail == verdict = "busy" /\ verdict' = "err" /\ have' = 0 /\ UNCHANGED want

\* One of its own writes makes the link foul.
Spoil == verdict = "busy" /\ verdict' = "foul" /\ have' = 0 /\ UNCHANGED want

\* Another operation takes the place of the write.
Leave == verdict \in {"ok", "err", "foul"} /\ verdict' = "none" /\ want' = 0 /\ have' = 0

DNext == Begin \/ Deliver \/ Succeed \/ Fail \/ Spoil \/ Leave

DSpec == DInit /\ [][DNext]_dvars
=============================================================================
