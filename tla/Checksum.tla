------------------------------ MODULE Checksum ------------------------------
(***************************************************************************)
(* The checksum the IPv6 stack puts into its replies (net/ipv6.c): bytes   *)
(* are summed as little-endian halfwords, as the processor loads them,     *)
(* with the carries folded in afterwards.  Octet is the number of values a *)
(* byte has (256), so that small instances reach every carry.              *)
(***************************************************************************)
EXTENDS Integers, Sequences

CONSTANT Octet

ASSUME OctetAssumption == Octet \in Nat \ {0, 1}

Half == Octet * Octet

\* Mutant of Fold: the carries are added once.
FoldOnce(sum) == (sum % Half) + (sum \div Half)

\* while (sum > 0xFFFF)
Fold(sum) ==
  LET f[n \in 0..sum] ==
        IF n < Half THEN n ELSE f[(n % Half) + (n \div Half)]
  IN f[sum]

\* The halfword at byte i, and the last byte of an odd number of them.
Loaded(data, i) ==
  data[i] + (IF i < Len(data) THEN data[i + 1] * Octet ELSE 0)

Halfwords(data) == (Len(data) + 1) \div 2

\* The loop over the data: sum with every halfword added.
Total(data, sum) ==
  LET s[k \in 0..Halfwords(data)] ==
        IF k = 0 THEN sum ELSE s[k - 1] + Loaded(data, 2 * k - 1)
  IN s[Halfwords(data)]

checksum(data, sum) == Fold(Total(data, sum))

htons(n) == (n % Octet) * Octet + n \div Octet

\* length: the two bytes of the header field, in network order.
checksum_ip6(length, next_header, src, dst, payload) ==
  LET sum == checksum(src \o dst \o payload,
                      checksum(length, htons(next_header)))
  IN IF sum = Half - 1 THEN sum ELSE Half - 1 - sum

-----------------------------------------------------------------------------
(* Reference: RFC 8200, section 8.1, as a receiver checks it.              *)

\* The halfword at byte i in network order, zero-padded.
NetworkOrder(bytes, i) ==
  bytes[i] * Octet + (IF i < Len(bytes) THEN bytes[i + 1] ELSE 0)

\* One's complement addition.
EndAround(t) == IF t >= Half THEN t - (Half - 1) ELSE t

\* One's complement sum of the halfwords.
Sum(bytes) ==
  LET s[k \in 0..Halfwords(bytes)] ==
        IF k = 0 THEN 0
        ELSE EndAround(s[k - 1] + NetworkOrder(bytes, 2 * k - 1))
  IN s[Halfwords(bytes)]

\* The packet with the checksum stored as a little-endian halfword at
\* offset off of the payload, where zero was.
Sealed(payload, off, sum) ==
  [payload EXCEPT ![off + 1] = sum % Octet, ![off + 2] = sum \div Octet]

Verifies(length, next_header, src, dst, payload) ==
  Sum(src \o dst \o length \o <<0, next_header>> \o payload) = Half - 1
===============================================================================
