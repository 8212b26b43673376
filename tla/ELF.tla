--------------------------------- MODULE ELF ---------------------------------
(***************************************************************************)
(* The bodies of the two loops of loader/elf.c over the program headers of *)
(* a validated file: RetrieveELFInfo measures the image and LoadELF writes *)
(* it (module Loader runs the loops).  A file is its sequence of program   *)
(* headers; its bytes are told apart by their offsets.  Addresses are      *)
(* bytes, modulo AddressSpace.                                             *)
(***************************************************************************)
EXTENDS Integers, Sequences

CONSTANT AddressSpace   \* 2^64

ASSUME AddressAssumption == AddressSpace \in Nat \ {0}

\* struct ELFProgramHeader; load is type = PT_LOAD.
ProgramHeaders ==
  [load : BOOLEAN, dataOffset : Nat, vAddr : Nat, sizeInFile : Nat, sizeInMemory : Nat]

\* What a byte of the image can be: one of the file's, by its offset, or zero.
FileByte(k) == <<"file", k>>
ZeroByte == <<"zero", 0>>

\* highestMem and lowestMem before the first header.
NothingMeasured == [high |-> 0, low |-> AddressSpace - 1]

\* Mutant of MeasureHeader: the part of a segment that is not in the file is
\* not counted.
MeasureHeaderOfFile(size, p) ==
  LET end == (p.vAddr + p.sizeInFile) % AddressSpace
  IN  IF ~p.load THEN size
      ELSE [high |-> IF end > size.high THEN end ELSE size.high,
            low  |-> IF p.vAddr < size.low THEN p.vAddr ELSE size.low]

\* The body of RetrieveELFInfo's loop.
MeasureHeader(size, p) ==
  LET end == (p.vAddr + p.sizeInMemory) % AddressSpace
  IN  IF ~p.load THEN size
      ELSE [high |-> IF end > size.high THEN end ELSE size.high,
            low  |-> IF p.vAddr < size.low THEN p.vAddr ELSE size.low]

\* executiveSize; the base is size.low.  Without a PT_LOAD header the size is 1
\* and the base the last address.
ExecutiveSize(size) == (size.high - size.low) % AddressSpace

\* Mutant of LoadHeader: the segment is zeroed after it was copied.
LoadHeaderZeroesLast(image, p, base) ==
  LET at == p.vAddr - base
      copied == at .. (at + p.sizeInFile - 1)
      zeroed == at .. (at + p.sizeInMemory - 1)
  IN  IF ~p.load THEN image
      ELSE [o \in DOMAIN image \cup copied \cup zeroed |->
              IF o \in zeroed THEN ZeroByte
              ELSE IF o \in copied THEN FileByte(p.dataOffset + (o - at)) ELSE image[o]]

\* The body of LoadELF's loop: the end of the segment that is not in the file is
\* zeroed (if there is one), then the rest is copied from the file.  The image
\* is the target's bytes that were written, by their offset from trg.
LoadHeader(image, p, base) ==
  LET at == p.vAddr - base
      copied == at .. (at + p.sizeInFile - 1)
      zeroed == (at + p.sizeInFile) .. (at + p.sizeInMemory - 1)
  IN  IF ~p.load THEN image
      ELSE [o \in DOMAIN image \cup copied \cup zeroed |->
              IF o \in copied THEN FileByte(p.dataOffset + (o - at))
              ELSE IF o \in zeroed THEN ZeroByte ELSE image[o]]
==============================================================================
