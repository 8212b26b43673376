--------------------------- MODULE MemoryDomains ---------------------------
(***************************************************************************)
(* The tables' and the map's iterators used together, in the way they are  *)
(* made for ("Iterator function to be used in loops", SRAT.c:9): for each  *)
(* memory entry of the SRAT, all entries of the memory map in its region;  *)
(* then, for each domain that has memory, the latencies of all domains.    *)
(* The loops are a caller's (external, none is in the repository yet);     *)
(* each call is a step.                                                    *)
(***************************************************************************)
EXTENDS ACPITables, MemoryMap

CONSTANTS XSDTs,      \* the sequences of tables a machine may have
          Maps,       \* the memory maps a machine may have
          MaxNumas    \* MAX_NUMAS (64 in the code)

\* What firmware puts into a SLIT: a domain is nearest to itself.  The latencies
\* of two domains for each other may differ.
IsSLIT(table) ==
  /\ table.localities \in Nat
  /\ \A i, j \in 0..(table.localities - 1) :
       LET Entry(k, l) == table.entries[k * table.localities + l]
       IN  /\ Entry(i, j) \in 0..255
           /\ Entry(i, i) = OwnLatency
           /\ i # j => Entry(i, j) > OwnLatency

\* No vendor's table has the sum of "SRAT" (as "OEMY" would), SRATs are well
\* formed, and no region and no entry is empty or reaches the last address.  A
\* SLIT has a locality for each domain with memory; other tables with its sum (a
\* CSRT, say) may have anything in their bytes.
ASSUME MachineAssumption ==
  /\ MaxNumas \in Nat
  /\ \A x \in XSDTs :
       /\ x \in Seq({x[i] : i \in DOMAIN x})
       /\ \A i \in DOMAIN x : \/ x[i].signature \in KnownSignatures
                              \/ memcmp(SRATSignature, x[i].signature) # 0
  /\ \A x \in XSDTs : \A i \in DOMAIN x :
       x[i].signature = SRATSignature =>
         /\ IsSRAT(x[i])
         /\ \A e \in DOMAIN x[i].at : x[i].at[e].type = 1 =>
              /\ x[i].at[e].domain < MaxNumas
              /\ x[i].at[e].size > 0
              /\ x[i].at[e].begin + x[i].at[e].size < AddressSpace
  /\ \A x \in XSDTs : \A i, j \in DOMAIN x :
       x[i].signature = SLITSignature =>
         /\ IsSLIT(x[i])
         /\ x[j].signature = SRATSignature =>
              \A e \in DOMAIN x[j].at : x[j].at[e].type = 1 => x[j].at[e].domain < x[i].localities
  /\ Maps \subseteq Seq([begin : Nat, pages : Nat \ {0}, type : Nat])
  /\ \A m \in Maps : \A k \in DOMAIN m : m[k].begin + m[k].pages * PageSize < AddressSpace

VARIABLES xsdt, map,  \* the machine
          srat,       \* the table found, by its index
          entry,      \* NextSRATEntry's *entry
          cur,        \* NextMemoryEntryWithin's *cur
          found,      \* the entries found: <<SRAT entry, index in the map>>
          twice,      \* something was found for the second time
          processors, \* the processors' domains: <<SRAT entry, domain>>
          arenas,     \* the domains that have an arena
          latency,    \* domain -> its latency table
          pc

vars == <<xsdt, map, srat, entry, cur, found, twice, processors, arenas, latency, pc>>

Init ==
  /\ xsdt \in XSDTs
  /\ map \in Maps
  /\ srat = 0
  /\ entry = 0
  /\ cur = 0
  /\ found = {}
  /\ twice = FALSE
  /\ processors = {}
  /\ arenas = {}
  /\ latency = <<>>
  /\ pc = "find"

FindTable ==
  /\ pc = "find"
  /\ srat' = FindACPITable(xsdt, SRATSignature)
  /\ pc' = IF srat' = 0 THEN "done" ELSE "entry"
  /\ UNCHANGED <<xsdt, map, entry, cur, found, twice, processors, arenas, latency>>

NextEntry ==
  /\ pc = "entry"
  /\ entry' = NextSRATEntry(xsdt[srat], entry)
  /\ pc' = IF entry' # 0 THEN "affinity" ELSE IF arenas = {} THEN "done" ELSE "latency"
  /\ UNCHANGED <<xsdt, map, srat, cur, found, twice, processors, arenas, latency>>

\* ACPI_SRAT_MEMORY_AFFINITY: the domain gets an arena.
MemoryAffinity ==
  /\ pc = "affinity"
  /\ xsdt[srat].at[entry].type = 1
  /\ arenas' = arenas \cup {xsdt[srat].at[entry].domain}
  /\ pc' = "memory"
  /\ UNCHANGED <<xsdt, map, srat, entry, cur, found, twice, processors, latency>>

\* ACPI_SRAT_LAPIC_AFFINITY: a processor.
LAPICAffinity ==
  /\ pc = "affinity"
  /\ xsdt[srat].at[entry].type = 0
  /\ processors' = processors \cup {<<entry, LAPICProximityDomain(xsdt[srat].at[entry])>>}
  /\ pc' = "entry"
  /\ UNCHANGED <<xsdt, map, srat, entry, cur, found, twice, arenas, latency>>

\* Other entries are passed over.
OtherAffinity ==
  /\ pc = "affinity"
  /\ xsdt[srat].at[entry].type \notin {0, 1}
  /\ pc' = "entry"
  /\ UNCHANGED <<xsdt, map, srat, entry, cur, found, twice, processors, arenas, latency>>

NextMemory ==
  LET region == xsdt[srat].at[entry]
      next == NextMemoryEntryWithin(region.begin, region.size, map, cur)
  IN  /\ pc = "memory"
      /\ cur' = next
      /\ IF next = 0
         THEN pc' = "entry" /\ UNCHANGED <<found, twice>>
         ELSE /\ found' = found \cup {<<entry, next>>}
              /\ twice' = (twice \/ <<entry, next>> \in found)
              /\ UNCHANGED pc
      /\ UNCHANGED <<xsdt, map, srat, entry, processors, arenas, latency>>

\* The latency table of one more domain, in any order.
FillLatency(a) ==
  /\ pc = "latency"
  /\ a \notin DOMAIN latency
  /\ latency' = [b \in DOMAIN latency \cup {a} |->
                   IF b = a THEN SLITToLatencyTable(xsdt, arenas, a, MaxNumas) ELSE latency[b]]
  /\ pc' = IF DOMAIN latency' = arenas THEN "done" ELSE pc
  /\ UNCHANGED <<xsdt, map, srat, entry, cur, found, twice, processors, arenas>>

Next ==
  \/ FindTable \/ NextEntry \/ MemoryAffinity \/ LAPICAffinity \/ OtherAffinity \/ NextMemory
  \/ \E a \in arenas : FillLatency(a)

\* The caller's loops go on until the iterators return NULL.
Spec == Init /\ [][Next]_vars /\ WF_vars(Next)

-----------------------------------------------------------------------------
(* Properties.                                                             *)

\* The type of the state; in particular the iterator never points to anything
\* but an entry of the table.
TypeOK ==
  /\ xsdt \in XSDTs /\ map \in Maps
  /\ srat \in 0..Len(xsdt)
  /\ entry = 0 \/ entry \in DOMAIN xsdt[srat].at
  /\ cur \in 0..Len(map)
  /\ twice \in BOOLEAN
  /\ arenas \subseteq 0..(MaxNumas - 1)
  /\ DOMAIN latency \subseteq arenas
  /\ \A a \in DOMAIN latency : DOMAIN latency[a] \subseteq arenas
  /\ pc \in {"find", "entry", "affinity", "memory", "latency", "done"}

\* The table that is walked is a valid one with the signature asked for, if
\* the machine has one, although signatures are compared by their sums.
TableIsTheOneAskedFor ==
  pc # "find" =>
    LET right == {i \in DOMAIN xsdt : xsdt[i].signature = SRATSignature /\ CheckTableChecksum(xsdt[i])}
    IN  srat \in right \cup {0} /\ (srat = 0 => right = {})

Bytes(begin, size) == begin .. (begin + size - 1)

\* When both loops have ended, each memory entry of the SRAT has met exactly
\* the available entries of the map that share a byte with it, each once: the
\* iterators share no state, and *cur starts over for every region.
EntriesFoundOnce ==
  pc = "done" /\ srat # 0 =>
    /\ ~twice
    /\ found \subseteq (DOMAIN xsdt[srat].at) \X (DOMAIN map)
    /\ \A e \in DOMAIN xsdt[srat].at, k \in DOMAIN map :
         LET region == xsdt[srat].at[e]
         IN  <<e, k>> \in found <=>
               /\ region.type = 1
               /\ IsMemoryEntryAvailable(map[k])
               /\ Bytes(region.begin, region.size)
                    \cap Bytes(map[k].begin, map[k].pages * PageSize) # {}

\* Each processor is found in the domain that firmware wrote into its entry in
\* four separate bytes.
ProcessorsPlaced ==
  pc = "done" /\ srat # 0 =>
    processors = {<<e, xsdt[srat].at[e].domain>> :
                    e \in {f \in DOMAIN xsdt[srat].at : xsdt[srat].at[f].type = 0}}

\* What the comments on NextMemoryEntryWithin (MemoryMap.c:18, MemoryMap.h:22) say
\* of the entries it returns: they are within [begin, begin+length].  The code
\* also returns entries that reach out of the region.
EntriesWithin ==
  \A f \in found :
    LET region == xsdt[srat].at[f[1]]
    IN  Bytes(map[f[2]].begin, map[f[2]].pages * PageSize)
          \subseteq region.begin .. (region.begin + region.size)

\* FindACPITable, asked for the SLIT, finds a SLIT or nothing: it may also return a
\* table whose signature has the same sum.
SLITNotMistaken ==
  LET slit == FindACPITable(xsdt, SLITSignature)
  IN  slit # 0 => xsdt[slit].signature = SLITSignature

\* Each domain with memory is in its own table, nearer than any other, with and
\* without a SLIT, unless another table is taken for the SLIT; no table has an
\* unreachable domain.
OwnArenaNearest ==
  SLITNotMistaken => \A a \in DOMAIN latency :
    /\ a \in DOMAIN latency[a]
    /\ \A b \in DOMAIN latency[a] : /\ b # a => latency[a][a] < latency[a][b]
                                    /\ latency[a][b] # Unreachable

\* All loops end.
IterationEnds == <>(pc = "done")
=============================================================================
