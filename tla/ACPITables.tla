----------------------------- MODULE ACPITables -----------------------------
(***************************************************************************)
(* Looking up tables, walking the affinity table and reading the latency   *)
(* table: kernel/acpi/SDT.c, SRAT.c and SLIT.c.  A table has a signature   *)
(* (four bytes), the sum of all its bytes, its length, and, if it is an    *)
(* SRAT, its entries by their offsets (at; 0 stands for the null pointer), *)
(* or, if it is a SLIT or is taken for one, what its bytes say where a     *)
(* SLIT has the number of localities and a latency for each two of them,   *)
(* row by row.                                                             *)
(***************************************************************************)
EXTENDS Integers, Sequences, FiniteSetsExt

\* Offset of Entries in struct ACPI_SRAT: the header and 12 reserved bytes.
SRATEntries == 48

\* "SRAT" and "SLIT"
SRATSignature == <<83, 82, 65, 84>>
SLITSignature == <<83, 76, 73, 84>>

\* The signatures that the ACPI specification defines or reserves, apart from
\* the vendors' OEMx.
KnownSignatures ==
  {<<65, 80, 73, 67>>, <<66, 69, 82, 84>>, <<66, 71, 82, 84>>, <<66, 79, 79, 84>>, \* APIC BERT BGRT BOOT
   <<67, 67, 69, 76>>, <<67, 80, 69, 80>>, <<67, 83, 82, 84>>, <<68, 66, 71, 50>>, \* CCEL CPEP CSRT DBG2
   <<68, 66, 71, 80>>, <<68, 77, 65, 82>>, <<68, 82, 84, 77>>, <<68, 83, 68, 84>>, \* DBGP DMAR DRTM DSDT
   <<69, 67, 68, 84>>, <<69, 73, 78, 74>>, <<69, 82, 83, 84>>, <<69, 84, 68, 84>>, \* ECDT EINJ ERST ETDT
   <<70, 65, 67, 80>>, <<70, 65, 67, 83>>, <<70, 80, 68, 84>>, <<71, 84, 68, 84>>, \* FACP FACS FPDT GTDT
   <<72, 69, 83, 84>>, <<72, 77, 65, 84>>, <<72, 80, 69, 84>>, <<73, 66, 70, 84>>, \* HEST HMAT HPET IBFT
   <<73, 79, 82, 84>>, <<73, 86, 82, 83>>, <<76, 80, 73, 84>>, <<77, 67, 70, 71>>, \* IORT IVRS LPIT MCFG
   <<77, 67, 72, 73>>, <<77, 80, 83, 84>>, <<77, 83, 67, 84>>, <<77, 83, 68, 77>>, \* MCHI MPST MSCT MSDM
   <<78, 70, 73, 84>>, <<80, 67, 67, 84>>, <<80, 72, 65, 84>>, <<80, 77, 84, 84>>, \* NFIT PCCT PHAT PMTT
   <<80, 80, 84, 84>>, <<80, 83, 68, 84>>, <<82, 65, 83, 70>>, <<82, 65, 83, 50>>, \* PPTT PSDT RASF RAS2
   <<82, 72, 67, 84>>, <<82, 83, 68, 84>>, <<83, 66, 83, 84>>, <<83, 68, 69, 73>>, \* RHCT RSDT SBST SDEI
   <<83, 68, 69, 86>>, <<83, 76, 73, 67>>, <<83, 76, 73, 84>>, <<83, 80, 67, 82>>, \* SDEV SLIC SLIT SPCR
   <<83, 80, 77, 73>>, <<83, 82, 65, 84>>, <<83, 83, 68, 84>>, <<83, 84, 65, 79>>, \* SPMI SRAT SSDT STAO
   <<83, 86, 75, 76>>, <<84, 67, 80, 65>>, <<84, 80, 77, 50>>, <<85, 69, 70, 73>>, \* SVKL TCPA TPM2 UEFI
   <<86, 73, 79, 84>>, <<87, 65, 69, 84>>, <<87, 68, 65, 84>>, <<87, 68, 82, 84>>, \* VIOT WAET WDAT WDRT
   <<87, 80, 66, 84>>, <<87, 83, 77, 84>>, <<88, 83, 68, 84>>}                     \* WPBT WSMT XSDT

Unreachable == 255      \* ACPI_SLIT_UNREACHABLE
OwnLatency == 10
DefaultLatency == 30    \* LATENCY_DEFAULT_VALUE

\* union ACPI_Affinity, with the fields that are read: those of a memory entry
\* (domain, and Begin and DomainLength as begin and size), and the four bytes of
\* a processor entry's domain (low, high).
Affinities == [type : 0..255, length : 0..255, domain : Nat, begin : Nat, size : Nat,
               low : 0..255, high : [0..2 -> 0..255]]

\* Firmware stores the domain of a processor in four bytes.
HoldsDomain(e) ==
  /\ e.low = e.domain % 256
  /\ e.high[0] = (e.domain \div 256) % 256
  /\ e.high[1] = (e.domain \div 65536) % 256
  /\ e.high[2] = e.domain \div 16777216

\* The entries fill the table, each behind the one before: what firmware puts
\* into an SRAT.
IsSRAT(table) ==
  /\ table.length \in Nat
  /\ SRATEntries \in DOMAIN table.at
  /\ DOMAIN table.at \subseteq SRATEntries..(table.length - 1)
  /\ \A e \in DOMAIN table.at :
       /\ table.at[e] \in Affinities
       /\ table.at[e].type = 0 => HoldsDomain(table.at[e])
       /\ table.at[e].length > 0
       /\ e + table.at[e].length \in (DOMAIN table.at) \cup {table.length}
       /\ \A f \in DOMAIN table.at : e < f => e + table.at[e].length <= f

CheckTableChecksum(table) == table.sum % 256 = 0

\* memcmp as SDT.c defines it, of the four bytes of two signatures: the difference
\* of their sums, which is 0 for any two with the same sum.
memcmp(a, b) == (a[1] - b[1]) + (a[2] - b[2]) + (a[3] - b[3]) + (a[4] - b[4])

\* Mutant of FindACPITable: the checksum of the table found is not looked at.
FindACPITableUnchecked(xsdt, signature) ==
  LET fitting == {i \in DOMAIN xsdt : memcmp(signature, xsdt[i].signature) = 0}
  IN  IF fitting = {} THEN 0 ELSE Min(fitting)

\* The first table that passes both tests, by its index; 0 if there is none.
FindACPITable(xsdt, signature) ==
  LET fitting == {i \in DOMAIN xsdt : /\ memcmp(signature, xsdt[i].signature) = 0
                                      /\ CheckTableChecksum(xsdt[i])}
  IN  IF fitting = {} THEN 0 ELSE Min(fitting)

\* Mutant of NextSRATEntry: the entry behind the last one is returned too.
NextSRATEntryPastEnd(table, entry) ==
  IF entry = 0 THEN SRATEntries
  ELSE LET next == entry + table.at[entry].length
       IN  IF next > table.length THEN 0 ELSE next

NextSRATEntry(table, entry) ==
  IF entry = 0 THEN SRATEntries
  ELSE LET next == entry + table.at[entry].length
       IN  IF next >= table.length THEN 0 ELSE next

\* Mutant of LAPICProximityDomain: the middle bytes are exchanged.
LAPICProximityDomainSwapped(e) ==
  e.low + e.high[1] * 256 + e.high[0] * 65536 + e.high[2] * 16777216

\* The bytes, shifted by 0, 8, 16 and 24 bits.
LAPICProximityDomain(e) == e.low + e.high[0] * 256 + e.high[1] * 65536 + e.high[2] * 16777216

\* Mutant of LatencyTo: the domain's own entry is not recognised.
LatencyToDefault(slit, i, arenaID) ==
  IF slit = <<>> THEN DefaultLatency ELSE slit[1].entries[i * slit[1].localities + arenaID]

\* The latency of arena i for arena arenaID; slit is <<table>> or, without a
\* SLIT, <<>>.  The matrix is read by column.
LatencyTo(slit, i, arenaID) ==
  IF slit = <<>> THEN (IF i = arenaID THEN OwnLatency ELSE DefaultLatency)
  ELSE slit[1].entries[i * slit[1].localities + arenaID]

\* SLITToLatencyTable: the latencies of the domains that have an arena and are not
\* unreachable (out lists them in ascending order, and their number is returned);
\* arenas is the set of the domains with an arena.  The SLIT is not read for other
\* domains, which may be beyond its localities.
SLITToLatencyTable(xsdt, arenas, arenaID, maxNumas) ==
  LET found == FindACPITable(xsdt, SLITSignature)
      slit == IF found = 0 THEN <<>> ELSE <<xsdt[found]>>
      listed == {i \in 0..(maxNumas - 1) :
                   i \in arenas /\ ~(found # 0 /\ LatencyTo(slit, i, arenaID) = Unreachable)}
  IN  [i \in listed |-> LatencyTo(slit, i, arenaID)]
=============================================================================
