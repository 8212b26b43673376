------------------------------ MODULE MCLoader ------------------------------
(***************************************************************************)
(* Loader on a machine with twelve pages of four bytes, three of them the  *)
(* boot services', so that one firmware event and the loader's own buffer  *)
(* together outgrow the margin of three descriptors.  The kernel files     *)
(* have segments that are partly zero, a gap between segments, headers out *)
(* of order and of another type, or no headers at all; their images take   *)
(* up to two pages.  All other blocks take one page.  The ACPI root        *)
(* pointers are one that both loops of RecoverACPITable accept (its first  *)
(* 20 bytes sum to 0 and, as the second loop starts at the first byte too, *)
(* so do its first 16) and ones with a wrong checksum or revision.  A      *)
(* buffer that was not filled holds nothing, or says all is available.     *)
(***************************************************************************)
EXTENDS Loader

MCInitialMemory ==
  [g \in 0..11 |-> IF g = 0 THEN "LoaderCode"
                   ELSE IF g = 5 THEN "RuntimeServicesData"
                   ELSE IF g > 8 THEN "BootServicesData" ELSE "Conventional"]
MCGarbageMaps == {{}, {[begin |-> 0, last |-> 11, available |-> TRUE]}}
MCSizes == [b \in Blocks \ {"kernel"} |-> 3]

Load(vAddr, sizeInMemory, sizeInFile, dataOffset) ==
  [load |-> TRUE, vAddr |-> vAddr, sizeInMemory |-> sizeInMemory,
   sizeInFile |-> sizeInFile, dataOffset |-> dataOffset]
Note(vAddr) == [Load(vAddr, 1, 1, 0) EXCEPT !.load = FALSE]

MCGoodKernel == {<<Note(1), Load(9, 5, 1, 9), Load(6, 2, 2, 3)>>}
MCKernels == MCGoodKernel \cup {<<Load(0, 4, 0, 0)>>, <<>>}

XSDP(revision, sum20, sum16) ==
  [signature |-> TRUE, revision |-> revision,
   sum |-> [n \in {16, 20, 28} |-> IF n = 20 THEN sum20 ELSE IF n = 16 THEN sum16 ELSE 0]]

MCGoodXSDP == {XSDP(2, 0, 0)}
MCXSDPs == MCGoodXSDP \cup {XSDP(2, 1, 0), XSDP(0, 0, 0)}
=============================================================================
