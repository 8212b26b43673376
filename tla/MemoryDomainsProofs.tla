------------------------- MODULE MemoryDomainsProofs -------------------------
(***************************************************************************)
(* Proofs about MemoryDomains, for every machine that MachineAssumption    *)
(* admits: the tables found are the ones asked for, the nested iterators   *)
(* meet everything once, and each domain is nearest to itself.             *)
(***************************************************************************)
EXTENDS MemoryDomains, NumberLemmas, TLAPS

-----------------------------------------------------------------------------
(* The inductive invariant.                                                *)

\* The entries of the SRAT that the outer loop has dealt with.
Passed ==
  LET At == xsdt[srat].at
  IN  IF pc \in {"affinity", "memory"} THEN {f \in DOMAIN At : f < entry}
      ELSE IF pc = "entry" THEN {f \in DOMAIN At : f <= entry}
      ELSE DOMAIN At

\* NextMemoryEntryWithin's test of entry k of a map m for the l bytes from b on.
Fits(m, b, l, k) ==
  /\ IsMemoryEntryAvailable(m[k])
  /\ ~(\/ m[k].begin >= (b + l) % AddressSpace
       \/ (m[k].begin + m[k].pages * PageSize) % AddressSpace <= b)

\* The same test of entry k of the map for region e of the SRAT.
Matches(e, k) ==
  LET region == xsdt[srat].at[e]
  IN  Fits(map, region.begin, region.size, k)

\* The table that is walked is a valid SRAT; before it is found nothing is known.
TableInv ==
  /\ pc = "find" => srat = 0
  /\ pc \notin {"find", "done"} => srat # 0
  /\ srat # 0 => srat \in DOMAIN xsdt /\ xsdt[srat].signature = SRATSignature
  /\ srat = 0 => entry = 0 /\ found = {} /\ processors = {} /\ arenas = {}
  /\ TableIsTheOneAskedFor

\* Where the loops are.
LoopInv ==
  /\ pc \in {"affinity", "memory"} => entry # 0
  /\ pc = "memory" => xsdt[srat].at[entry].type = 1
  /\ pc # "memory" => cur = 0

\* What was found in the regions dealt with, and in the current one up to *cur.
FoundInv ==
  /\ ~twice
  /\ srat # 0 =>
       /\ found \subseteq (DOMAIN xsdt[srat].at) \X (DOMAIN map)
       /\ \A e \in DOMAIN xsdt[srat].at, k \in DOMAIN map :
            <<e, k>> \in found <=>
              /\ xsdt[srat].at[e].type = 1
              /\ Matches(e, k)
              /\ e \in Passed \/ (pc = "memory" /\ e = entry /\ k <= cur)

\* The processors among the entries dealt with.
ProcessorInv ==
  srat # 0 =>
    processors = {<<e, xsdt[srat].at[e].domain>> :
                    e \in {f \in Passed : xsdt[srat].at[f].type = 0}}

\* Arenas are domains of memory entries, and no more arenas come up once latency
\* tables are filled.
LatencyInv ==
  /\ \A a \in arenas : \E e \in DOMAIN xsdt[srat].at :
       xsdt[srat].at[e].type = 1 /\ a = xsdt[srat].at[e].domain
  /\ DOMAIN latency # {} => pc \in {"latency", "done"}
  /\ \A a \in DOMAIN latency : latency[a] = SLITToLatencyTable(xsdt, arenas, a, MaxNumas)

IInv == TypeOK /\ TableInv /\ LoopInv /\ FoundInv /\ ProcessorInv /\ LatencyInv

-----------------------------------------------------------------------------
(* The operators.                                                          *)

\* Of the known tables, memcmp takes only the SRAT itself for the SRAT.
THEOREM SRATUnmistakable ==
  \A s \in KnownSignatures : memcmp(SRATSignature, s) = 0 => s = SRATSignature
BY DEF KnownSignatures, SRATSignature, memcmp

\* The tables that memcmp takes for a SLIT are the SLIT, the CSRT and the SBST.
THEOREM SLITMistakenFor ==
  \A s \in KnownSignatures :
    memcmp(SLITSignature, s) = 0
      <=> s \in {SLITSignature, <<67, 83, 82, 84>>, <<83, 66, 83, 84>>}
BY DEF KnownSignatures, SLITSignature, memcmp

\* FindACPITable returns a table that passes both tests, unless there is none.
LEMMA FindFacts ==
  ASSUME NEW x \in XSDTs, NEW sig, NEW f, f = FindACPITable(x, sig)
  PROVE  LET fits(i) == memcmp(sig, x[i].signature) = 0 /\ CheckTableChecksum(x[i])
         IN  /\ f = 0 => \A i \in DOMAIN x : ~fits(i)
             /\ f # 0 => f \in DOMAIN x /\ fits(f)
             /\ f \in 0..Len(x)
<1> DEFINE fits(i) == memcmp(sig, x[i].signature) = 0 /\ CheckTableChecksum(x[i])
           F == {i \in DOMAIN x : fits(i)}
<1>1. x \in Seq({x[i] : i \in DOMAIN x}) /\ Len(x) \in Nat /\ DOMAIN x = 1..Len(x)
  BY MachineAssumption
<1>2. f = IF F = {} THEN 0 ELSE Min(F)
  BY DEF FindACPITable
<1>3. F \subseteq Nat
  BY <1>1
<1>4. ASSUME F # {} PROVE Min(F) \in F
  <2>1. \E y \in F : \A z \in F : y <= z
    <3> HIDE DEF F
    <3> QED
      BY <1>3, <1>4, LeastExists
  <2> QED
    BY <2>1 DEF Min
<1> QED
  BY <1>1, <1>2, <1>4

\* NextMemoryEntryWithin returns the first entry behind *cur that passes the test.
LEMMA NextMemoryFacts ==
  ASSUME NEW m \in Maps, NEW b, NEW l, NEW c \in 0..Len(m), NEW n,
         n = NextMemoryEntryWithin(b, l, m, c)
  PROVE  /\ n = 0 => \A k \in DOMAIN m : Fits(m, b, l, k) => k <= c
         /\ n # 0 => /\ n \in DOMAIN m /\ c < n /\ Fits(m, b, l, n)
                     /\ \A k \in DOMAIN m : Fits(m, b, l, k) /\ k < n => k <= c
         /\ n \in 0..Len(m)
<1> DEFINE fits(k) == Fits(m, b, l, k)
           R == {k \in (c + 1)..Len(m) : fits(k)}
<1>1. Len(m) \in Nat /\ DOMAIN m = 1..Len(m) /\ c \in Nat
  BY MachineAssumption
<1>2. n = IF R = {} THEN 0 ELSE Min(R)
  BY DEF NextMemoryEntryWithin, Fits
<1> HIDE DEF fits
<1>3. R \subseteq Nat
  BY <1>1
<1>4. ASSUME R # {} PROVE Min(R) \in R /\ \A k \in R : Min(R) <= k
  <2>1. \E y \in R : \A z \in R : y <= z
    <3> HIDE DEF R
    <3> QED
      BY <1>3, <1>4, LeastExists
  <2> QED
    BY <2>1 DEF Min
<1>5. CASE R = {}
  <2>1. n = 0 /\ \A k \in 1..Len(m) : fits(k) => k <= c
    BY <1>1, <1>2, <1>5
  <2> QED
    BY <2>1, <1>1 DEF fits
<1>6. CASE R # {}
  <2>1. n \in R /\ \A k \in R : n <= k
    BY <1>2, <1>4, <1>6
  <2>2. n \in 1..Len(m) /\ c < n /\ fits(n) /\ \A k \in 1..Len(m) : fits(k) /\ k < n => k <= c
    BY <2>1, <1>1
  <2> QED
    BY <2>2, <1>1 DEF fits
<1> QED
  BY <1>5, <1>6

\* LAPICProximityDomain puts the four bytes together again.
LEMMA ProcessorDomain ==
  ASSUME NEW e \in Affinities, HoldsDomain(e)
  PROVE  LAPICProximityDomain(e) = e.domain
<1>1. e.domain \in Nat
  BY DEF Affinities
<1>2. \A d \in Nat : d = (d % 256) + ((d \div 256) % 256) * 256 + ((d \div 65536) % 256) * 65536
                         + (d \div 16777216) * 16777216
  OBVIOUS
<1>3. LAPICProximityDomain(e)
        = (e.domain % 256) + ((e.domain \div 256) % 256) * 256
          + ((e.domain \div 65536) % 256) * 65536 + (e.domain \div 16777216) * 16777216
  BY DEF LAPICProximityDomain, HoldsDomain
<1> QED
  BY <1>1, <1>2, <1>3

\* The comparisons that the iterator makes say that two ranges share a byte.
LEMMA Overlap ==
  ASSUME NEW b \in Nat, NEW s \in Nat \ {0}, NEW c \in Nat, NEW t \in Nat \ {0},
         b + s < AddressSpace, c + t < AddressSpace
  PROVE  Bytes(b, s) \cap Bytes(c, t) # {}
           <=> ~(c >= (b + s) % AddressSpace \/ (c + t) % AddressSpace <= b)
<1>1. AddressSpace \in Nat \ {0}
  BY MapAssumption
<1>2. \A x \in Nat : x < AddressSpace => x % AddressSpace = x
  <2>1. \A x \in Nat : AddressSpace * 0 + x = x
    BY <1>1
  <2> QED
    BY <2>1, <1>1, DivUnique
<1>3. (b + s) % AddressSpace = b + s /\ (c + t) % AddressSpace = c + t
  BY <1>2
<1>4. ASSUME c < b + s, b < c + t PROVE Bytes(b, s) \cap Bytes(c, t) # {}
  <2>1. CASE b <= c
    BY <2>1, <1>4, c \in Bytes(b, s) \cap Bytes(c, t) DEF Bytes
  <2>2. CASE c < b
    BY <2>2, <1>4, b \in Bytes(b, s) \cap Bytes(c, t) DEF Bytes
  <2> QED
    BY <2>1, <2>2
<1>5. ASSUME NEW z \in Bytes(b, s) \cap Bytes(c, t) PROVE c < b + s /\ b < c + t
  BY DEF Bytes
<1> QED
  BY <1>3, <1>4, <1>5

\* The table that is walked is well formed.
LEMMA SRATFacts ==
  ASSUME TypeOK, TableInv, srat # 0
  PROVE  /\ IsSRAT(xsdt[srat])
         /\ DOMAIN xsdt[srat].at \subseteq Nat \ {0}
         /\ \A e \in DOMAIN xsdt[srat].at : xsdt[srat].at[e].type = 1 =>
              /\ xsdt[srat].at[e].domain \in 0..(MaxNumas - 1)
              /\ xsdt[srat].at[e].size > 0
              /\ xsdt[srat].at[e].begin + xsdt[srat].at[e].size < AddressSpace
<1>1. xsdt \in XSDTs /\ srat \in DOMAIN xsdt /\ xsdt[srat].signature = SRATSignature
  BY DEF TypeOK, TableInv
<1>2. /\ IsSRAT(xsdt[srat])
      /\ \A e \in DOMAIN xsdt[srat].at : xsdt[srat].at[e].type = 1 =>
              /\ xsdt[srat].at[e].domain < MaxNumas
              /\ xsdt[srat].at[e].size > 0
              /\ xsdt[srat].at[e].begin + xsdt[srat].at[e].size < AddressSpace
  BY <1>1, MachineAssumption
<1>3. DOMAIN xsdt[srat].at \subseteq Nat \ {0}
  BY <1>2 DEF IsSRAT, SRATEntries
<1>4. \A e \in DOMAIN xsdt[srat].at : xsdt[srat].at[e].domain \in Nat
  BY <1>2 DEF IsSRAT, Affinities
<1>5. MaxNumas \in Nat
  BY MachineAssumption
<1> QED
  BY <1>2, <1>3, <1>4, <1>5

-----------------------------------------------------------------------------
(* Each step keeps the invariant.                                          *)

\* At first nothing is found.
LEMMA InitInv == Init => IInv
<1> SUFFICES ASSUME Init PROVE IInv
  OBVIOUS
<1>1. Len(xsdt) \in Nat /\ Len(map) \in Nat
  BY MachineAssumption DEF Init
<1>2. TypeOK
  <2>1. DOMAIN latency = {}
    BY DEF Init
  <2>2. twice \in BOOLEAN
    BY DEF Init
  <2> QED
    BY <1>1, <2>1, <2>2 DEF Init, TypeOK
<1>3. TableInv /\ LoopInv /\ FoundInv /\ ProcessorInv /\ LatencyInv
  BY DEF Init, TableInv, TableIsTheOneAskedFor, LoopInv, FoundInv, ProcessorInv, LatencyInv
<1> QED
  BY <1>2, <1>3 DEF IInv

\* FindACPITable returns an SRAT or nothing.
LEMMA FindTableInv == IInv /\ FindTable => IInv'
<1> SUFFICES ASSUME IInv, FindTable PROVE IInv'
  OBVIOUS
<1>1. /\ pc = "find" /\ srat = 0 /\ entry = 0 /\ found = {} /\ processors = {} /\ arenas = {}
      /\ cur = 0 /\ ~twice /\ xsdt \in XSDTs /\ DOMAIN latency = {}
      /\ UNCHANGED <<xsdt, map, entry, cur, found, twice, processors, arenas, latency>>
      /\ srat' = FindACPITable(xsdt, SRATSignature)
      /\ pc' = IF srat' = 0 THEN "done" ELSE "entry"
  BY DEF IInv, TypeOK, TableInv, LoopInv, FoundInv, LatencyInv, FindTable
<1>2. /\ srat' # 0 => /\ srat' \in DOMAIN xsdt /\ xsdt[srat'].signature = SRATSignature
                      /\ CheckTableChecksum(xsdt[srat'])
      /\ srat' = 0 => \A i \in DOMAIN xsdt :
                        ~(xsdt[i].signature = SRATSignature /\ CheckTableChecksum(xsdt[i]))
      /\ srat' \in 0..Len(xsdt)
  <2>1. \A i \in DOMAIN xsdt : \/ xsdt[i].signature \in KnownSignatures
                              \/ memcmp(SRATSignature, xsdt[i].signature) # 0
    BY <1>1, MachineAssumption
  <2>2. \A i \in DOMAIN xsdt :
          memcmp(SRATSignature, xsdt[i].signature) = 0 <=> xsdt[i].signature = SRATSignature
    <3>1. memcmp(SRATSignature, SRATSignature) = 0
      BY DEF memcmp, SRATSignature
    <3> QED
      BY <2>1, <3>1, SRATUnmistakable
  <2> QED
    BY <2>2, <1>1, FindFacts
<1>3. TypeOK'
  BY <1>1, <1>2 DEF IInv, TypeOK
<1>4. TableInv'
  BY <1>1, <1>2 DEF TableInv, TableIsTheOneAskedFor
<1>5. LoopInv' /\ LatencyInv'
  BY <1>1 DEF LoopInv, LatencyInv
<1>6. FoundInv' /\ ProcessorInv'
  <2>1. srat' # 0 => Passed' = {}
    <3>1. SUFFICES ASSUME srat' # 0 PROVE Passed' = {}
      OBVIOUS
    <3>2. (DOMAIN xsdt[srat].at)' \subseteq Nat \ {0}
      <4>1. IsSRAT(xsdt[srat'])
        BY <3>1, <1>1, <1>2, MachineAssumption
      <4> QED
        BY <4>1, <1>1 DEF IsSRAT, SRATEntries
    <3> QED
      BY <3>1, <3>2, <1>1 DEF Passed
  <2> QED
    BY <2>1, <1>1 DEF FoundInv, ProcessorInv
<1> QED
  BY <1>3, <1>4, <1>5, <1>6 DEF IInv

\* An entry of a well-formed SRAT and what follows it.
LEMMA EntryFacts ==
  ASSUME NEW t, IsSRAT(t), NEW e \in DOMAIN t.at
  PROVE  /\ t.at[e].length \in Nat /\ t.at[e].length > 0
         /\ e + t.at[e].length \in (DOMAIN t.at) \cup {t.length}
         /\ \A f \in DOMAIN t.at : e < f => e + t.at[e].length <= f
         /\ \A f \in DOMAIN t.at : f < t.length /\ f \in Nat
         /\ t.length \in Nat
<1>1. t.at[e] \in Affinities
  BY DEF IsSRAT
<1>2. t.at[e].length \in 0..255
  BY <1>1 DEF Affinities
<1>3. t.length \in Nat /\ \A f \in DOMAIN t.at : f < t.length /\ f \in Nat
  BY DEF IsSRAT, SRATEntries
<1>4. e + t.at[e].length \in (DOMAIN t.at) \cup {t.length}
  BY DEF IsSRAT
<1>5. t.at[e].length > 0 /\ \A f \in DOMAIN t.at : e < f => e + t.at[e].length <= f
  BY <1>2, <1>3 DEF IsSRAT
<1> QED
  BY ONLY <1>2, <1>3, <1>4, <1>5

\* What the steps of the walk start from, and what none of them changes.
LEMMA WalkFacts ==
  ASSUME IInv, pc \in {"entry", "affinity", "memory"}
  PROVE  /\ srat # 0 /\ IsSRAT(xsdt[srat]) /\ DOMAIN xsdt[srat].at \subseteq Nat \ {0}
         /\ DOMAIN latency = {} /\ ~twice /\ twice \in BOOLEAN
         /\ entry = 0 \/ entry \in DOMAIN xsdt[srat].at
<1>1. srat # 0 /\ ~twice /\ twice \in BOOLEAN /\ (entry = 0 \/ entry \in DOMAIN xsdt[srat].at)
  BY DEF IInv, TypeOK, TableInv, FoundInv
<1>2. DOMAIN latency = {}
  BY DEF IInv, LatencyInv
<1> QED
  BY <1>1, <1>2, SRATFacts DEF IInv

\* NextSRATEntry goes on to the next entry: what lies before it has been passed.
LEMMA NextEntryInv == IInv /\ NextEntry => IInv'
<1> SUFFICES ASSUME IInv, NextEntry PROVE IInv'
  OBVIOUS
<1>1. /\ pc = "entry" /\ entry' = NextSRATEntry(xsdt[srat], entry)
      /\ pc' = IF entry' # 0 THEN "affinity" ELSE IF arenas = {} THEN "done" ELSE "latency"
      /\ UNCHANGED <<xsdt, map, srat, cur, found, twice, processors, arenas, latency>>
  BY DEF NextEntry
<1>2. /\ srat # 0 /\ IsSRAT(xsdt[srat]) /\ DOMAIN xsdt[srat].at \subseteq Nat \ {0}
      /\ DOMAIN latency = {} /\ ~twice /\ twice \in BOOLEAN
      /\ entry = 0 \/ entry \in DOMAIN xsdt[srat].at
  BY <1>1, WalkFacts
<1>3. (entry' = 0 \/ entry' \in DOMAIN xsdt[srat].at) /\ Passed' = Passed
  <2>1. CASE entry = 0
    <3>1. entry' = SRATEntries /\ entry' # 0 /\ entry' \in DOMAIN xsdt[srat].at
      BY <1>1, <1>2, <2>1 DEF NextSRATEntry, IsSRAT, SRATEntries
    <3>2. \A f \in DOMAIN xsdt[srat].at : ~(f <= entry) /\ ~(f < entry')
      BY <3>1, <2>1, <1>2 DEF IsSRAT, SRATEntries
    <3> QED
      BY <3>1, <3>2, <1>1 DEF Passed
  <2>2. CASE entry # 0
    <3> DEFINE next == entry + xsdt[srat].at[entry].length
               At == xsdt[srat].at
    <3>1. /\ entry \in DOMAIN At /\ At[entry].length \in Nat /\ At[entry].length > 0
          /\ next \in (DOMAIN At) \cup {xsdt[srat].length}
          /\ \A f \in DOMAIN At : entry < f => next <= f
          /\ \A f \in DOMAIN At : f < xsdt[srat].length /\ f \in Nat
          /\ xsdt[srat].length \in Nat
      BY <1>2, <2>2, EntryFacts
    <3>2. entry' = IF next >= xsdt[srat].length THEN 0 ELSE next
      BY <1>1, <2>2 DEF NextSRATEntry
    <3>3. entry \in Nat /\ next \in Nat /\ entry < next
      BY <3>1
    <3>4. \A f \in DOMAIN At : f <= entry <=> f < next
      BY <3>1, <3>3
    <3> HIDE DEF next
    <3>5. CASE next >= xsdt[srat].length
      <4>1. \A f \in DOMAIN At : f <= entry
        BY <3>1, <3>3, <3>4, <3>5
      <4>2. entry' = 0 /\ pc' \in {"done", "latency"}
        BY <3>2, <3>5, <1>1
      <4> QED
        BY <4>1, <4>2, <1>1 DEF Passed
    <3>6. CASE ~(next >= xsdt[srat].length)
      <4>1. next \in DOMAIN At /\ next # 0
        BY <3>1, <3>3, <3>6
      <4>2. entry' = next /\ pc' = "affinity"
        BY <4>1, <3>2, <3>6, <1>1
      <4> QED
        BY <4>1, <4>2, <3>4, <1>1 DEF Passed
    <3> QED
      BY <3>5, <3>6
  <2> QED
    BY <2>1, <2>2
<1>4. TypeOK'
  BY <1>1, <1>2, <1>3 DEF IInv, TypeOK
<1>5. TableInv'
  BY <1>1, <1>2 DEF IInv, TableInv, TableIsTheOneAskedFor
<1>6. LoopInv'
  BY <1>1 DEF IInv, LoopInv
<1>7. FoundInv'
  <2>1. \A e, k : Matches(e, k)' = Matches(e, k)
    BY <1>1 DEF Matches
  <2> QED
    BY <2>1, <1>1, <1>2, <1>3 DEF IInv, FoundInv
<1>8. ProcessorInv'
  BY <1>1, <1>3 DEF IInv, ProcessorInv
<1>9. LatencyInv'
  BY <1>1, <1>2 DEF IInv, LatencyInv
<1> QED
  BY <1>4, <1>5, <1>6, <1>7, <1>8, <1>9 DEF IInv

\* A memory entry gives its domain an arena; its region is searched next.
LEMMA MemoryAffinityInv == IInv /\ MemoryAffinity => IInv'
<1> SUFFICES ASSUME IInv, MemoryAffinity PROVE IInv'
  OBVIOUS
<1> DEFINE domain == xsdt[srat].at[entry].domain
<1>1. /\ pc = "affinity" /\ xsdt[srat].at[entry].type = 1 /\ pc' = "memory"
      /\ arenas' = arenas \cup {domain}
      /\ UNCHANGED <<xsdt, map, srat, entry, cur, found, twice, processors, latency>>
  BY DEF MemoryAffinity
<1>2. /\ srat # 0 /\ IsSRAT(xsdt[srat]) /\ DOMAIN xsdt[srat].at \subseteq Nat \ {0}
      /\ DOMAIN latency = {} /\ ~twice /\ twice \in BOOLEAN
      /\ entry = 0 \/ entry \in DOMAIN xsdt[srat].at
  BY <1>1, WalkFacts
<1>3. entry # 0 /\ entry \in DOMAIN xsdt[srat].at /\ cur = 0
  BY <1>1, <1>2 DEF IInv, LoopInv
<1>4. domain \in 0..(MaxNumas - 1)
  BY <1>1, <1>2, <1>3, SRATFacts DEF IInv
<1>5. Passed' = Passed
  BY <1>1 DEF Passed
<1>6. TypeOK'
  BY <1>1, <1>2, <1>4 DEF IInv, TypeOK
<1>7. TableInv' /\ LoopInv'
  BY <1>1, <1>2, <1>3 DEF IInv, TableInv, TableIsTheOneAskedFor, LoopInv
<1>8. FoundInv'
  <2>1. \A e, k : Matches(e, k)' = Matches(e, k)
    BY <1>1 DEF Matches
  <2>2. \A k \in DOMAIN map : ~(k <= 0)
    BY MachineAssumption DEF IInv, TypeOK
  <2> QED
    BY <2>1, <2>2, <1>1, <1>2, <1>3, <1>5 DEF IInv, FoundInv
<1>9. ProcessorInv'
  BY <1>1, <1>5 DEF IInv, ProcessorInv
<1>10. LatencyInv'
  BY <1>1, <1>2, <1>3 DEF IInv, LatencyInv
<1> QED
  BY <1>6, <1>7, <1>8, <1>9, <1>10 DEF IInv

\* An entry that is not memory is passed.
LEMMA PassEntry ==
  ASSUME IInv, pc = "affinity", xsdt[srat].at[entry].type # 1, pc' = "entry",
         UNCHANGED <<xsdt, map, srat, entry, cur, found, twice, arenas, latency>>
  PROVE  /\ Passed' = Passed \cup {entry} /\ entry \in DOMAIN xsdt[srat].at
         /\ TypeOK' /\ TableInv' /\ LoopInv' /\ FoundInv' /\ LatencyInv'
<1>2. /\ srat # 0 /\ IsSRAT(xsdt[srat]) /\ DOMAIN xsdt[srat].at \subseteq Nat \ {0}
      /\ DOMAIN latency = {} /\ ~twice /\ twice \in BOOLEAN
      /\ entry = 0 \/ entry \in DOMAIN xsdt[srat].at
  BY WalkFacts
<1>3. entry # 0 /\ entry \in DOMAIN xsdt[srat].at /\ cur = 0
  BY <1>2 DEF IInv, LoopInv
<1>5. Passed' = Passed \cup {entry}
  <2>1. Passed = {f \in DOMAIN xsdt[srat].at : f < entry}
    BY DEF Passed
  <2>2. Passed' = {f \in DOMAIN xsdt[srat].at : f <= entry}
    BY DEF Passed
  <2> QED
    BY <2>1, <2>2, <1>2, <1>3
<1>6. TypeOK'
  BY <1>2 DEF IInv, TypeOK
<1>7. TableInv' /\ LoopInv'
  BY <1>2, <1>3 DEF IInv, TableInv, TableIsTheOneAskedFor, LoopInv
<1>8. FoundInv'
  <2>1. \A e, k : Matches(e, k)' = Matches(e, k)
    BY DEF Matches
  <2> QED
    BY <2>1, <1>2, <1>3, <1>5 DEF IInv, FoundInv
<1>10. LatencyInv'
  BY <1>2 DEF IInv, LatencyInv
<1> QED
  BY <1>3, <1>5, <1>6, <1>7, <1>8, <1>10

\* A processor is put into the domain of its entry.
LEMMA LAPICAffinityInv == IInv /\ LAPICAffinity => IInv'
<1> SUFFICES ASSUME IInv, LAPICAffinity PROVE IInv'
  OBVIOUS
<1>1. /\ pc = "affinity" /\ xsdt[srat].at[entry].type = 0 /\ pc' = "entry"
      /\ processors' = processors \cup {<<entry, LAPICProximityDomain(xsdt[srat].at[entry])>>}
      /\ UNCHANGED <<xsdt, map, srat, entry, cur, found, twice, arenas, latency>>
  BY DEF LAPICAffinity
<1>2. /\ Passed' = Passed \cup {entry} /\ entry \in DOMAIN xsdt[srat].at
      /\ TypeOK' /\ TableInv' /\ LoopInv' /\ FoundInv' /\ LatencyInv'
  BY <1>1, PassEntry
<1>3. IsSRAT(xsdt[srat]) /\ srat # 0
  BY <1>1, WalkFacts
<1>4. LAPICProximityDomain(xsdt[srat].at[entry]) = xsdt[srat].at[entry].domain
  BY <1>1, <1>2, <1>3, ProcessorDomain DEF IsSRAT
<1>5. ProcessorInv'
  BY <1>1, <1>2, <1>3, <1>4 DEF IInv, ProcessorInv
<1> QED
  BY <1>2, <1>5 DEF IInv

\* Other entries change nothing.
LEMMA OtherAffinityInv == IInv /\ OtherAffinity => IInv'
<1> SUFFICES ASSUME IInv, OtherAffinity PROVE IInv'
  OBVIOUS
<1>1. /\ pc = "affinity" /\ xsdt[srat].at[entry].type \notin {0, 1} /\ pc' = "entry"
      /\ processors' = processors
      /\ UNCHANGED <<xsdt, map, srat, entry, cur, found, twice, arenas, latency>>
  BY DEF OtherAffinity
<1>2. /\ Passed' = Passed \cup {entry} /\ entry \in DOMAIN xsdt[srat].at
      /\ TypeOK' /\ TableInv' /\ LoopInv' /\ FoundInv' /\ LatencyInv'
  BY <1>1, PassEntry
<1>3. ProcessorInv'
  BY <1>1, <1>2 DEF IInv, ProcessorInv
<1> QED
  BY <1>2, <1>3 DEF IInv

\* The inner loop finds the next entry of the map, or is done with the region.
LEMMA NextMemoryInv == IInv /\ NextMemory => IInv'
<1> SUFFICES ASSUME IInv, NextMemory PROVE IInv'
  OBVIOUS
<1> DEFINE region == xsdt[srat].at[entry]
           next == NextMemoryEntryWithin(region.begin, region.size, map, cur)
<1>1. /\ pc = "memory" /\ cur' = next
      /\ next = 0 => pc' = "entry" /\ UNCHANGED <<found, twice>>
      /\ next # 0 => /\ found' = found \cup {<<entry, next>>}
                     /\ twice' = (twice \/ <<entry, next>> \in found)
                     /\ pc' = "memory"
      /\ UNCHANGED <<xsdt, map, srat, entry, processors, arenas, latency>>
  BY DEF NextMemory
<1>2. /\ srat # 0 /\ IsSRAT(xsdt[srat]) /\ DOMAIN xsdt[srat].at \subseteq Nat \ {0}
      /\ DOMAIN latency = {} /\ ~twice /\ twice \in BOOLEAN
      /\ entry = 0 \/ entry \in DOMAIN xsdt[srat].at
  BY <1>1, WalkFacts
<1>3. /\ entry # 0 /\ entry \in DOMAIN xsdt[srat].at /\ xsdt[srat].at[entry].type = 1
      /\ map \in Maps /\ cur \in 0..Len(map)
  BY <1>1, <1>2 DEF IInv, LoopInv, TypeOK
<1>4. /\ next = 0 => \A k \in DOMAIN map : Matches(entry, k) => k <= cur
      /\ next # 0 => /\ next \in DOMAIN map /\ cur < next /\ Matches(entry, next)
                     /\ \A k \in DOMAIN map : Matches(entry, k) /\ k < next => k <= cur
      /\ next \in 0..Len(map)
  BY <1>3, NextMemoryFacts DEF Matches
<1> HIDE DEF next
<1>5. Len(map) \in Nat /\ DOMAIN map = 1..Len(map)
  BY <1>3, MachineAssumption
<1>6. \A e, k : Matches(e, k)' = Matches(e, k)
  BY <1>1 DEF Matches
<1>7. Passed = {f \in DOMAIN xsdt[srat].at : f < entry} /\ entry \notin Passed
  BY <1>1, <1>2, <1>3 DEF Passed
<1>8. ~(next # 0 /\ <<entry, next>> \in found)
  <2>1. SUFFICES ASSUME next # 0, <<entry, next>> \in found PROVE FALSE
    OBVIOUS
  <2>2. next <= cur
    BY <2>1, <1>1, <1>2, <1>3, <1>4, <1>7 DEF IInv, FoundInv
  <2> QED
    BY <2>1, <2>2, <1>3, <1>4, <1>5
<1>9. TypeOK'
  <2>1. twice' \in BOOLEAN
    BY <1>1, <1>2
  <2> QED
    BY <2>1, <1>1, <1>2, <1>4 DEF IInv, TypeOK
<1>10. TableInv' /\ LoopInv'
  BY <1>1, <1>2, <1>3 DEF IInv, TableInv, TableIsTheOneAskedFor, LoopInv
<1>11. CASE next = 0
  <2>1. Passed' = Passed \cup {entry}
    <3>1. Passed' = {f \in DOMAIN xsdt[srat].at : f <= entry}
      BY <1>1, <1>11 DEF Passed
    <3> QED
      BY <3>1, <1>2, <1>3, <1>7
  <2>2. FoundInv'
    BY <2>1, <1>1, <1>2, <1>3, <1>4, <1>6, <1>11 DEF IInv, FoundInv
  <2>3. ProcessorInv'
    BY <2>1, <1>1, <1>3 DEF IInv, ProcessorInv
  <2>4. LatencyInv'
    BY <1>1, <1>2 DEF IInv, LatencyInv
  <2> QED
    BY <2>2, <2>3, <2>4, <1>9, <1>10 DEF IInv
<1>12. CASE next # 0
  <2>1. Passed' = Passed
    BY <1>1, <1>12 DEF Passed
  <2>2. \A k \in DOMAIN map : Matches(entry, k) => (k <= next <=> k <= cur \/ k = next)
    BY <1>3, <1>4, <1>5, <1>12
  <2>3. FoundInv'
    <3>1. ~twice'
      BY <1>1, <1>2, <1>8, <1>12
    <3>2. found' \subseteq (DOMAIN xsdt[srat].at) \X (DOMAIN map)
      BY <1>1, <1>2, <1>3, <1>4, <1>12 DEF IInv, FoundInv
    <3>3. ASSUME NEW e \in DOMAIN xsdt[srat].at, NEW k \in DOMAIN map
          PROVE  <<e, k>> \in found' <=>
                   /\ xsdt[srat].at[e].type = 1
                   /\ Matches(e, k)
                   /\ e \in Passed \/ (e = entry /\ k <= next)
      <4>1. <<e, k>> \in found <=>
              /\ xsdt[srat].at[e].type = 1
              /\ Matches(e, k)
              /\ e \in Passed \/ (e = entry /\ k <= cur)
        BY <1>1, <1>2 DEF IInv, FoundInv
      <4>2. <<e, k>> \in found' <=> <<e, k>> \in found \/ (e = entry /\ k = next)
        BY <1>1, <1>12
      <4> QED
        BY <4>1, <4>2, <2>2, <1>3, <1>4, <1>12
    <3> QED
      BY <3>1, <3>2, <3>3, <2>1, <1>1, <1>6, <1>12 DEF FoundInv
  <2>4. ProcessorInv'
    BY <2>1, <1>1 DEF IInv, ProcessorInv
  <2>5. LatencyInv'
    BY <1>1, <1>2 DEF IInv, LatencyInv
  <2> QED
    BY <2>3, <2>4, <2>5, <1>9, <1>10 DEF IInv
<1> QED
  BY <1>11, <1>12

\* One more latency table.
LEMMA FillLatencyInv == ASSUME NEW a \in arenas PROVE IInv /\ FillLatency(a) => IInv'
<1> SUFFICES ASSUME IInv, FillLatency(a) PROVE IInv'
  OBVIOUS
<1> DEFINE table == SLITToLatencyTable(xsdt, arenas, a, MaxNumas)
<1>1. /\ pc = "latency"
      /\ latency' = [b \in DOMAIN latency \cup {a} |-> IF b = a THEN table ELSE latency[b]]
      /\ pc' \in {"latency", "done"}
      /\ UNCHANGED <<xsdt, map, srat, entry, cur, found, twice, processors, arenas>>
  BY DEF FillLatency
<1>2. DOMAIN table \subseteq arenas
  BY DEF SLITToLatencyTable
<1> HIDE DEF table
<1>3. DOMAIN latency' = DOMAIN latency \cup {a}
  BY <1>1
<1>4. TypeOK'
  <2>1. \A b \in DOMAIN latency' : DOMAIN latency'[b] \subseteq arenas
    BY <1>1, <1>2, <1>3 DEF IInv, TypeOK
  <2>2. DOMAIN latency' \subseteq arenas
    BY <1>3 DEF IInv, TypeOK
  <2>3. twice' \in BOOLEAN
    BY <1>1 DEF IInv, TypeOK
  <2> QED
    BY <2>1, <2>2, <2>3, <1>1 DEF IInv, TypeOK
<1>5. TableInv' /\ LoopInv'
  BY <1>1 DEF IInv, TableInv, TableIsTheOneAskedFor, LoopInv
<1>6. Passed' = Passed /\ \A e, k : Matches(e, k)' = Matches(e, k)
  BY <1>1 DEF Passed, Matches
<1>7. FoundInv' /\ ProcessorInv'
  BY <1>1, <1>6 DEF IInv, FoundInv, ProcessorInv
<1>8. LatencyInv'
  <2>1. \A b \in DOMAIN latency' : latency'[b] = SLITToLatencyTable(xsdt, arenas, b, MaxNumas)
    BY <1>1, <1>3 DEF IInv, LatencyInv, table
  <2> QED
    BY <2>1, <1>1 DEF IInv, LatencyInv
<1> QED
  BY <1>4, <1>5, <1>7, <1>8 DEF IInv

\* Every step keeps the invariant.
LEMMA NextInv == IInv /\ [Next]_vars => IInv'
<1>1. IInv /\ UNCHANGED vars => IInv'
  BY DEF vars, IInv, TypeOK, TableInv, TableIsTheOneAskedFor, LoopInv, FoundInv, ProcessorInv,
         LatencyInv, Passed, Matches
<1> QED
  BY <1>1, FindTableInv, NextEntryInv, MemoryAffinityInv, LAPICAffinityInv, OtherAffinityInv,
     NextMemoryInv, FillLatencyInv DEF Next

\* The invariant always holds.
LEMMA AlwaysIInv == Spec => []IInv
  BY InitInv, NextInv, PTL DEF Spec

-----------------------------------------------------------------------------
(* The theorems.                                                           *)

\* The state keeps its types; in particular NextSRATEntry returns NULL or an
\* entry of the table, whatever lengths the entries have.
THEOREM DomainsTypeCorrect == Spec => []TypeOK
<1>1. IInv => TypeOK
  BY DEF IInv
<1> QED
  BY <1>1, AlwaysIInv, PTL

\* The table that is walked is a valid SRAT, if the machine has one, although
\* FindACPITable compares the sums of signatures.
THEOREM TableAlwaysTheOneAskedFor == Spec => []TableIsTheOneAskedFor
<1>1. IInv => TableIsTheOneAskedFor
  BY DEF IInv, TableInv
<1> QED
  BY <1>1, AlwaysIInv, PTL

\* An element of a sequence over S is in S.
LEMMA Element ==
  ASSUME NEW S, NEW q \in Seq(S), NEW k \in 1 .. Len(q)
  PROVE  q[k] \in S
  OBVIOUS

\* When the loops over NextSRATEntry and NextMemoryEntryWithin have ended, each
\* region has met exactly the available entries that share a byte with it, once.
THEOREM EntriesAlwaysFoundOnce == Spec => []EntriesFoundOnce
<1>1. ASSUME IInv PROVE EntriesFoundOnce
  <2>1. SUFFICES ASSUME pc = "done", srat # 0 PROVE EntriesFoundOnce
    BY DEF EntriesFoundOnce
  <2>2. Passed = DOMAIN xsdt[srat].at
    BY <2>1 DEF Passed
  <2>3. /\ IsSRAT(xsdt[srat])
        /\ \A e \in DOMAIN xsdt[srat].at : xsdt[srat].at[e].type = 1 =>
             /\ xsdt[srat].at[e].size > 0
             /\ xsdt[srat].at[e].begin + xsdt[srat].at[e].size < AddressSpace
    BY <1>1, <2>1, SRATFacts DEF IInv
  <2>4. ASSUME NEW e \in DOMAIN xsdt[srat].at, NEW k \in DOMAIN map, xsdt[srat].at[e].type = 1
        PROVE  Matches(e, k) <=>
                 /\ IsMemoryEntryAvailable(map[k])
                 /\ Bytes(xsdt[srat].at[e].begin, xsdt[srat].at[e].size)
                      \cap Bytes(map[k].begin, map[k].pages * PageSize) # {}
    <3>1. xsdt[srat].at[e].begin \in Nat /\ xsdt[srat].at[e].size \in Nat \ {0}
          /\ xsdt[srat].at[e].begin + xsdt[srat].at[e].size < AddressSpace
      <4>1. xsdt[srat].at[e] \in Affinities
        BY <2>3 DEF IsSRAT
      <4>2. xsdt[srat].at[e].begin \in Nat /\ xsdt[srat].at[e].size \in Nat
        BY <4>1 DEF Affinities
      <4> QED
        BY <4>2, <2>3, <2>4
    <3>2. map[k].begin \in Nat /\ map[k].pages \in Nat \ {0}
          /\ map[k].begin + map[k].pages * PageSize < AddressSpace
      <4>1. map \in Maps
        BY <1>1 DEF IInv, TypeOK
      <4>2. /\ map \in Seq([begin : Nat, pages : Nat \ {0}, type : Nat])
            /\ map[k].begin + map[k].pages * PageSize < AddressSpace
        BY <4>1, <2>4, MachineAssumption
      <4>3. k \in 1 .. Len(map)
        BY <4>2, <2>4
      <4>4. map[k] \in [begin : Nat, pages : Nat \ {0}, type : Nat]
        BY ONLY <4>2, <4>3, Element
      <4> QED
        BY <4>2, <4>4
    <3>3. map[k].pages * PageSize \in Nat \ {0}
      BY <3>2, MapAssumption
    <3> QED
      BY <3>1, <3>2, <3>3, Overlap DEF Matches, Fits
  <2>5. /\ ~twice
        /\ found \subseteq (DOMAIN xsdt[srat].at) \X (DOMAIN map)
        /\ \A e \in DOMAIN xsdt[srat].at, k \in DOMAIN map :
             <<e, k>> \in found <=> xsdt[srat].at[e].type = 1 /\ Matches(e, k)
    BY <1>1, <2>1, <2>2 DEF IInv, FoundInv
  <2> QED
    BY <2>4, <2>5 DEF EntriesFoundOnce
<1> QED
  BY <1>1, AlwaysIInv, PTL

\* Each processor of the SRAT is found, in the domain that firmware wrote into
\* the four bytes of its entry.
THEOREM ProcessorsAlwaysPlaced == Spec => []ProcessorsPlaced
<1>1. ASSUME IInv PROVE ProcessorsPlaced
  BY <1>1 DEF IInv, ProcessorInv, Passed, ProcessorsPlaced
<1> QED
  BY <1>1, AlwaysIInv, PTL

\* The latency table of a domain, read from the SLIT or filled with defaults.
LEMMA LatencyFacts ==
  ASSUME IInv, SLITNotMistaken, NEW a \in arenas
  PROVE  LET la == SLITToLatencyTable(xsdt, arenas, a, MaxNumas)
         IN  /\ DOMAIN la \subseteq arenas
             /\ a \in DOMAIN la /\ la[a] = OwnLatency
             /\ \A b \in DOMAIN la : /\ a # b => OwnLatency < la[b]
                                     /\ la[b] # Unreachable
<1> DEFINE f == FindACPITable(xsdt, SLITSignature)
           slit == IF f = 0 THEN <<>> ELSE <<xsdt[f]>>
           L(i) == LatencyTo(slit, i, a)
           Unr(i) == f # 0 /\ L(i) = Unreachable
           T == SLITToLatencyTable(xsdt, arenas, a, MaxNumas)
<1>1. T = [i \in {i \in 0..(MaxNumas - 1) : i \in arenas /\ ~Unr(i)} |-> L(i)]
  BY DEF SLITToLatencyTable
<1>2. xsdt \in XSDTs /\ arenas \subseteq 0..(MaxNumas - 1) /\ MaxNumas \in Nat
  BY MachineAssumption DEF IInv, TypeOK
<1>3. ASSUME NEW i \in arenas
      PROVE  /\ L(a) = 10 /\ (i # a => 10 < L(i)) /\ ~Unr(a)
             /\ ~Unr(i) => L(i) # Unreachable
  <2>1. CASE f = 0
    BY <2>1 DEF LatencyTo, OwnLatency, DefaultLatency, Unreachable
  <2>2. CASE f # 0
    <3>1. f \in DOMAIN xsdt /\ xsdt[f].signature = SLITSignature
      BY <2>2, <1>2, FindFacts DEF SLITNotMistaken
    <3>2. srat # 0 /\ srat \in DOMAIN xsdt /\ xsdt[srat].signature = SRATSignature
      BY DEF IInv, TableInv
    <3>3. /\ IsSLIT(xsdt[f])
          /\ \A e \in DOMAIN xsdt[srat].at :
               xsdt[srat].at[e].type = 1 => xsdt[srat].at[e].domain < xsdt[f].localities
      BY <3>1, <3>2, <1>2, MachineAssumption
    <3>4. xsdt[f].localities \in Nat /\ i < xsdt[f].localities /\ a < xsdt[f].localities
      BY <3>3 DEF IInv, LatencyInv, IsSLIT
    <3>5. i \in 0..(xsdt[f].localities - 1) /\ a \in 0..(xsdt[f].localities - 1)
      BY <3>4, <1>2
    <3> HIDE DEF f
    <3>6. \A k : L(k) = xsdt[f].entries[k * xsdt[f].localities + a]
      BY <2>2 DEF LatencyTo
    <3> HIDE DEF L
    <3>7. L(a) = 10 /\ (i # a => L(i) > 10) /\ L(i) \in 0..255
      BY <3>3, <3>5, <3>6 DEF IsSLIT, OwnLatency
    <3> QED
      BY <3>7, <2>2 DEF Unreachable
  <2> QED
    BY <2>1, <2>2
<1> HIDE DEF f, L, T
<1>4. DOMAIN T = {i \in arenas : ~Unr(i)}
  BY <1>1, <1>2
<1>5. \A i \in DOMAIN T : T[i] = L(i)
  BY <1>1, <1>4
<1> HIDE DEF Unr
<1>6. DOMAIN T \subseteq arenas /\ a \in DOMAIN T /\ T[a] = 10
  BY <1>3, <1>4, <1>5
<1>7. \A b \in DOMAIN T : (a # b => 10 < T[b]) /\ T[b] # Unreachable
  BY <1>3, <1>4, <1>5
<1> QED
  BY <1>6, <1>7 DEF T, OwnLatency

\* With and without a SLIT, each domain with memory is in its own latency table,
\* nearer than any other, and no table has an unreachable domain, unless
\* FindACPITable takes another table for the SLIT.
THEOREM OwnArenaAlwaysNearest == Spec => []OwnArenaNearest
<1>1. ASSUME IInv, SLITNotMistaken PROVE OwnArenaNearest
  <2>1. DOMAIN latency \subseteq arenas
        /\ \A a \in DOMAIN latency : latency[a] = SLITToLatencyTable(xsdt, arenas, a, MaxNumas)
    BY <1>1 DEF IInv, TypeOK, LatencyInv
  <2>2. ASSUME NEW a \in DOMAIN latency
        PROVE  /\ a \in DOMAIN latency[a]
               /\ \A b \in DOMAIN latency[a] : /\ b # a => latency[a][a] < latency[a][b]
                                               /\ latency[a][b] # Unreachable
    <3>1. a \in arenas /\ latency[a] = SLITToLatencyTable(xsdt, arenas, a, MaxNumas)
      BY <2>1
    <3>2. a \in DOMAIN latency[a] /\ latency[a][a] = OwnLatency /\ DOMAIN latency[a] \subseteq arenas
      BY <3>1, <1>1, LatencyFacts
    <3>3. \A b \in DOMAIN latency[a] : /\ b # a => OwnLatency < latency[a][b]
                                       /\ latency[a][b] # Unreachable
      BY <3>1, <3>2, <1>1, LatencyFacts
    <3> QED
      BY <3>2, <3>3
  <2> QED
    BY <2>2 DEF OwnArenaNearest
<1>2. IInv => OwnArenaNearest
  BY <1>1 DEF OwnArenaNearest
<1> QED
  BY <1>2, AlwaysIInv, PTL
=============================================================================
