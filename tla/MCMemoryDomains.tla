-------------------------- MODULE MCMemoryDomains --------------------------
(***************************************************************************)
(* MemoryDomains with pages of two bytes: memory maps of up to three       *)
(* entries, and machines with an SRAT (a processor, an entry of a type     *)
(* nobody reads, and two regions that touch, in domains 0 and 2; or one    *)
(* region), with one whose checksum is wrong in front of it, without one,  *)
(* and with other real tables beside it, two of which ("APIC" and "MCFG")  *)
(* have the same sum.  There is no SLIT, a wrong one in front of a right   *)
(* one, one by which one domain cannot reach the other, or a CSRT that is  *)
(* taken for it.                                                           *)
(***************************************************************************)
EXTENDS MemoryDomains

\* Firmware stores a processor's domain in four bytes.
Processor(domain) ==
  [type |-> 0, length |-> 16, domain |-> domain, begin |-> 0, size |-> 0, low |-> domain % 256,
   high |-> [b \in 0..2 |-> (domain \div 2^(8 * (b + 1))) % 256]]

Region(type, domain, begin, size) ==
  [Processor(0) EXCEPT !.type = type, !.length = 40, !.domain = domain,
                       !.begin = begin, !.size = size]

TwoRegions ==
  [o \in {48, 64, 104, 144} |->
     IF o = 48 THEN Processor(2 + 256 + 5 * 65536 + 100 * 16777216)
     ELSE IF o = 64 THEN Region(1, 0, 0, 6)
     ELSE IF o = 104 THEN Region(2, 0, 0, 0) ELSE Region(1, 2, 6, 4)]
OneRegion == [o \in {48} |-> Region(1, 1, 4, 4)]

Table(signature, sum, length, at) ==
  [signature |-> signature, sum |-> sum, length |-> length, at |-> at,
   localities |-> 0, entries |-> <<>>]

APIC == Table(<<65, 80, 73, 67>>, 256, 44, <<>>)
MCFG == Table(<<77, 67, 70, 71>>, 512, 44, <<>>)
SRAT == Table(SRATSignature, 1024, 184, TwoRegions)
SmallSRAT == Table(SRATSignature, 768, 88, OneRegion)
BadSRAT == [SmallSRAT EXCEPT !.sum = 767]

\* Three localities; 0 is this far from 2, and 2 is 21 from 0.
SLIT(far) ==
  [Table(SLITSignature, 256, 53, <<>>) EXCEPT
     !.localities = 3,
     !.entries = [k \in 0..8 |-> IF k \in {0, 4, 8} THEN 10
                                 ELSE IF k = 2 THEN far ELSE IF k = 6 THEN 21 ELSE 15]]
BadSLIT == [SLIT(22) EXCEPT !.sum = 255]

\* A "CSRT", whose sum is that of "SLIT"; its bytes are no latencies.
CSRT ==
  [Table(<<67, 83, 82, 84>>, 256, 60, <<>>) EXCEPT
     !.localities = 2, !.entries = [k \in 0..9 |-> IF k % 2 = 0 THEN 255 ELSE 7]]

MCXSDTs == {<<APIC, SRAT>>, <<BadSRAT, MCFG, SRAT, BadSLIT, SLIT(20)>>,
            <<SLIT(255), MCFG, SRAT>>, <<CSRT, SRAT, SLIT(20)>>, <<MCFG, SmallSRAT, APIC>>, <<APIC, BadSRAT>>}

Entries == {[begin |-> 0, pages |-> 2, type |-> 1], [begin |-> 4, pages |-> 2, type |-> 1],
            [begin |-> 8, pages |-> 1, type |-> 1], [begin |-> 2, pages |-> 2, type |-> 0]}
MCMaps == UNION {[1..n -> Entries] : n \in 0..3}
=============================================================================
