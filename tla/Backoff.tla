------------------------------- MODULE Backoff -------------------------------
(* How long a failed job waits for its next attempt: the workers compute         *)
(* 10 s * 2^(attempt - 1) in a signed 64-bit number of nanoseconds and replace   *)
(* what is too large or has overflowed.  10 s are 9765625 * 1024 ns, so a wait   *)
(* is a number of units of 1024 ns modulo 2^54; it is kept as the set of its     *)
(* bits, the highest of which is the sign.                                       *)
EXTENDS Integers

TenSeconds == 9765625
TenMinutes == 60 * TenSeconds
Width == 54
Sign64 == Width - 1

Bits(n) == {i \in 0..30 : (n \div 2^i) % 2 = 1}

\* Bits that are shifted out at the top are lost.
Shifted(attempt) == {i + attempt - 1 : i \in Bits(TenSeconds)} \cap 0..(Width - 1)

NotPositive(bits) == Sign64 \in bits \/ bits = {}

\* Nothing was shifted out as long as no bit is above 29, and the wait is the whole product.
Product(attempt) == TenSeconds * 2^(attempt - 1)
AboveCap(attempt) == (\E i \in Shifted(attempt) : i > 29) \/ Product(attempt) > TenMinutes

\* Fault: an overflow is not looked for.
NextRetryMutant(attempt) ==
    IF Sign64 \in Shifted(attempt) THEN -1
    ELSE IF AboveCap(attempt) THEN TenMinutes
    ELSE Product(attempt)

NextRetry(attempt) ==
    IF NotPositive(Shifted(attempt)) \/ AboveCap(attempt) THEN TenMinutes ELSE Product(attempt)
=============================================================================
