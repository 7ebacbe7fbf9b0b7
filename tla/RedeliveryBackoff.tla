-------------------------- MODULE RedeliveryBackoff --------------------------
(***************************************************************************)
(* The pause of a partition after consecutive failures (kafka.Consumer.run) *)
(* at the width of the code: an int64 is the set of its bits that are one, *)
(* because the shift runs past 64 bits after a few minutes of failures.    *)
(***************************************************************************)
EXTENDS Integers, FiniteSetsExt

Width == 64

Bits(x) == {k \in 0..30 : (x \div 2^k) % 2 = 1}

Shl(b, n) == {k + n : k \in b} \cap 0..Width - 1

Positive(b) == b # {} /\ Width - 1 \notin b

\* Of two numbers that are not negative.
Greater(b, c) == LET d == SymDiff(b, c) IN d # {} /\ Max(d) \in b

\* 100 ms and 5 s in nanoseconds, both multiples of 2^8.
redeliveryBackoffFloor == Shl(Bits(390625), 8)
redeliveryBackoffCap == Shl(Bits(19531250), 8)

Delay(failures) ==
    LET delay == Shl(redeliveryBackoffFloor, failures - 1) IN
    IF ~Positive(delay) \/ Greater(delay, redeliveryBackoffCap)
    THEN redeliveryBackoffCap ELSE delay

\* The clamp catches every overflow: the pause is never below the floor or
\* above the cap and never shrinks from one failure to the next.
ASSUME BackoffClamped ==
    \A n \in 1..Width + 1 :
        /\ Positive(Delay(n)) /\ ~Greater(redeliveryBackoffFloor, Delay(n))
        /\ ~Greater(Delay(n), redeliveryBackoffCap)
        /\ ~Greater(Delay(n), Delay(n + 1))
==============================================================================
