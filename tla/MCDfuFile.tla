------------------------------- MODULE MCDfuFile -------------------------------
EXTENDS DfuFile

(* A checksum over the bytes that stands in for CRC-32: it depends on      *)
(* every byte and on where it stands.                                      *)
MCCrc(bytes) ==
  LET sum[k \in 0 .. Len(bytes)] ==
        IF k = 0 THEN 65520 ELSE (sum[k - 1] * 31 + bytes[k] + 1) % 65521
  IN  <<sum[Len(bytes)] % 256, sum[Len(bytes)] \div 256, 7, 7>>

Body(n) == [i \in 1 .. n |-> 100 + (i % 100)]

Suffixed(body, says) ==
  LET most == body \o <<0, 1, 2, 0, 3, 0, 0, 1>> \o Signature \o <<says>>
  IN  most \o MCCrc(most)

(* A file, and one whose payload begins with it and goes on with something *)
(* that ends like a suffix but for the checksum.                           *)
Small == Suffixed(Body(3), 16)
Packed == Suffixed(Small \o Zeros(8) \o Signature \o <<16, 1, 2, 3, 4>>, 16)

(* Further, a bare payload; one that begins like a prefix; suffixes longer *)
(* than usual, and longer than the file; the two prefixes.                 *)
MCFiles ==
  { Small, Packed, Body(3),
    Suffixed(<<1, 0, 9>>, 16), Suffixed(Body(5), 20), Suffixed(<<>>, 17),
    Suffixed(<<1, 0, 2, 0, 3, 0, 0, 0>> \o Body(3), 16),
    <<26, 63, 1, 0>> \o Zeros(8) \o <<255, 255, 255, 255>> \o Body(2) }

(* New memory may hold what another object left there.                     *)
MCFresh == { Suffixed(<<1, 0>> \o Zeros(2), 16) \o Zeros(40) }

MCAddresses == {67111941}
MCIds == {[vendor |-> 4, product |-> FFFF]}

(* For the run that needs only a few.                                      *)
FewFiles == {Body(3), Suffixed(Body(2), 16), <<>>}
OneAddress == {0}
OneId == {[vendor |-> 4, product |-> 300]}
===============================================================================
