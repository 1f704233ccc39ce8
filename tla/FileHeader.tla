----------------------------- MODULE FileHeader -----------------------------
(***************************************************************************)
(* FileHeader of filehdr.cc (src/unnamed/part_000): the on-disk i-node of  *)
(* a file, chained through next_fileheader_sector when the file is longer  *)
(* than the NumDirect data sectors one header holds.  Allocate takes data  *)
(* sectors and next-header sectors from the free-sector bitmap, Deallocate *)
(* gives data sectors back, ByteToSector follows the chain to the sector   *)
(* of an offset.  The code is sequential: each call is one step.           *)
(*                                                                         *)
(* The free map is the set of sectors whose bit is set.  A chain is the    *)
(* sequence of the headers linked from a file's first header, each with    *)
(* its numBytes, numSectors, dataSectors[NumDirect] (-1 where unused, as   *)
(* the constructor's memset leaves it) and next_fileheader_sector.  The    *)
(* sector holding the first header belongs to the caller and is not        *)
(* modelled; the caller itself (FileSystem) is not in the repository and   *)
(* is reduced to a client that calls Allocate on a fresh header and       *)
(* Deallocate on an allocated one, and drops a header whose Allocate       *)
(* failed.                                                                 *)
(***************************************************************************)
EXTENDS Integers, Sequences, SequencesExt, FiniteSets, FiniteSetsExt

CONSTANTS
    NumSectors,   \* sectors on the disk
    SectorSize,   \* bytes per sector
    NumDirect,    \* entries of dataSectors in one header
    MaxSize,      \* bound: the largest file size a client asks for
    Files         \* the files (first headers) the client works with

ASSUME FileHeaderAssumption ==
    /\ {NumSectors, SectorSize, NumDirect} \subseteq Nat \ {0}
    /\ MaxSize \in Nat

Sectors == 0 .. NumSectors - 1
NoSector == -1         \* an unused dataSectors entry, or no next header
NullHeader == -2       \* what dereferencing next_fileheader = NULL yields
MaxFileSize == NumDirect * SectorSize
DirectIdx == 1 .. NumDirect

divRoundUp(n, s) == (n + s - 1) \div s

Header == [numBytes : 0 .. MaxFileSize, numSectors : 0 .. NumDirect,
           data : [DirectIdx -> Sectors \cup {NoSector}],
           next : Sectors \cup {NoSector}]

VARIABLES
    used,    \* the sectors marked in the free map
    hdr,     \* hdr[f]: the chain of headers of file f, << >> if none
    fsize    \* fsize[f]: the size the client allocated f with

vars == <<used, hdr, fsize>>
-----------------------------------------------------------------------------
(* PersistentBitmap, outside the repository: NumClear counts the clear     *)
(* bits, FindAndSet marks and returns the lowest clear one.                *)
NumClear(u) == Cardinality(Sectors \ u)
FirstClear(u) == Min(Sectors \ u)

(* The i-th lowest sector of a set.                                      *)
Lowest(S, i) == CHOOSE x \in S : Cardinality({y \in S : y < x}) = i - 1

(* Mutant: the loop takes sectors without testing their bits.             *)
DataSectorsUntested(u, k) == [i \in 1 .. k |-> Lowest(Sectors, i)]

(* The loop of Allocate (filehdr.cc:148-154): numSectors calls of          *)
(* FindAndSet, which hand out the lowest numSectors clear sectors in       *)
(* ascending order.                                                        *)
DataSectors(u, k) == [i \in 1 .. k |-> Lowest(Sectors \ u, i)]

(* Mutant: numBytes is not capped at MaxFileSize.                         *)
HeaderBytesUncapped(fileSize) == fileSize

(* numBytes of one header: the part of the file it holds.                *)
HeaderBytes(fileSize) ==
    IF fileSize >= MaxFileSize THEN MaxFileSize ELSE fileSize

(* A header as the constructor leaves it, with numBytes and numSectors    *)
(* set by Allocate before its free-space test.                            *)
FreshHeader(nb, ns) ==
    [numBytes |-> nb, numSectors |-> ns,
     data |-> [i \in DirectIdx |-> NoSector], next |-> NoSector]

(* FileHeader::Allocate(freeMap, fileSize), filehdr.cc:132-173: the       *)
(* result, the free map it leaves and the chain it built.  A FALSE return *)
(* keeps every bit the call has already set.                              *)
RECURSIVE Allocate(_, _)
Allocate(u, fileSize) ==
    LET nb == HeaderBytes(fileSize)
        ns == divRoundUp(nb, SectorSize)
        h0 == FreshHeader(nb, ns)
    IN  IF NumClear(u) < ns
        THEN [ok |-> FALSE, used |-> u, chain |-> << h0 >>]
        ELSE
          LET ds == DataSectors(u, ns)
              u1 == u \cup Range(ds)
              h == [h0 EXCEPT !.data =
                      [i \in DirectIdx |-> IF i <= ns THEN ds[i] ELSE NoSector]]
              rest == fileSize - nb
          IN  IF rest <= 0 THEN [ok |-> TRUE, used |-> u1, chain |-> << h >>]
              ELSE IF NumClear(u1) = 0
              THEN [ok |-> FALSE, used |-> u1, chain |-> << h >>]
              ELSE LET nx == FirstClear(u1)
                       r == Allocate(u1 \cup {nx}, rest)
                   IN  [ok |-> r.ok, used |-> r.used,
                        chain |-> << [h EXCEPT !.next = nx] >> \o r.chain]

(* The data sectors of every header of a chain, the ones Deallocate       *)
(* clears as it recurses along next_fileheader_sector.                    *)
DataOf(chain) ==
    UNION {{chain[k].data[i] : i \in 1 .. chain[k].numSectors} :
           k \in DOMAIN chain}

(* FileHeader::Deallocate(freeMap), filehdr.cc:182-197.                   *)
Deallocate(u, chain) == u \ DataOf(chain)

(* Mutant: a chained header is looked up at offset - SectorSize.          *)
RECURSIVE ByteToSector(_, _)
ByteToSectorWrongShift(chain, offset) ==
    LET idx == offset \div SectorSize
    IN  IF idx >= NumDirect
        THEN IF Len(chain) = 1 THEN NullHeader
             ELSE ByteToSector(Tail(chain), offset - SectorSize)
        ELSE chain[1].data[idx + 1]

(* FileHeader::ByteToSector(offset), filehdr.cc:259-271.                  *)
ByteToSector(chain, offset) ==
    LET idx == offset \div SectorSize
    IN  IF idx >= NumDirect
        THEN IF Len(chain) = 1 THEN NullHeader
             ELSE ByteToSector(Tail(chain), offset - MaxFileSize)
        ELSE chain[1].data[idx + 1]

(* FileHeader::FileLength, filehdr.cc:278-281: this header's numBytes     *)
(* only, not the chain's.                                                 *)
FileLength(h) == h.numBytes

(* FileHeader::find_size, filehdr.cc:325-331: FileLength() of every       *)
(* header of the chain, summed.                                           *)
RECURSIVE FindSize(_)
FindSize(chain) ==
    IF chain = << >> THEN 0 ELSE FileLength(chain[1]) + FindSize(Tail(chain))
-----------------------------------------------------------------------------
Init ==
    /\ used = {}
    /\ hdr = [f \in Files |-> << >>]
    /\ fsize = [f \in Files |-> 0]

(* A client calls Allocate on a fresh header of file f.                   *)
AllocateCall(f, s) ==
    /\ hdr[f] = << >>
    /\ LET r == Allocate(used, s)
       IN  /\ used' = r.used
           /\ hdr' = [hdr EXCEPT ![f] = IF r.ok THEN r.chain ELSE << >>]
           /\ fsize' = [fsize EXCEPT ![f] = IF r.ok THEN s ELSE 0]

(* A client calls Deallocate on the allocated header of file f.           *)
DeallocateCall(f) ==
    /\ hdr[f] # << >>
    /\ used' = Deallocate(used, hdr[f])
    /\ hdr' = [hdr EXCEPT ![f] = << >>]
    /\ fsize' = [fsize EXCEPT ![f] = 0]

Next ==
    \/ \E f \in Files, s \in 0 .. MaxSize : AllocateCall(f, s)
    \/ \E f \in Files : DeallocateCall(f)

Spec == Init /\ [][Next]_vars
-----------------------------------------------------------------------------
(* Every header fits the dataSectors array of filehdr.h: at most          *)
(* NumDirect data sectors, numBytes at most MaxFileSize.                   *)
TypeOK ==
    /\ used \subseteq Sectors
    /\ hdr \in [Files -> Seq(Header)]
    /\ fsize \in [Files -> 0 .. MaxSize]

(* The data sectors of a chain in file order, and its next-header sectors. *)
Layout(chain) ==
    FlattenSeq([k \in DOMAIN chain |->
                  [i \in 1 .. chain[k].numSectors |-> chain[k].data[i]]])
NextSectors(chain) == [k \in 1 .. Len(chain) - 1 |-> chain[k].next]
Owned(chain) == Layout(chain) \o NextSectors(chain)

(* ByteToSector agrees with the layout Allocate built: every byte offset  *)
(* below the size the file was allocated with falls in the data sector    *)
(* offset / SectorSize of the chain in file order, however many headers   *)
(* the recursion through next_fileheader crosses, and find_size adds up   *)
(* to the allocated size.                                                  *)
ByteToSectorMatchesLayout ==
    \A f \in Files : hdr[f] # << >> =>
        /\ FindSize(hdr[f]) = fsize[f]
        /\ Len(Layout(hdr[f])) = divRoundUp(fsize[f], SectorSize)
        /\ \A o \in 0 .. fsize[f] - 1 :
              ByteToSector(hdr[f], o) = Layout(hdr[f])[o \div SectorSize + 1]

(* No sector belongs to two places: the data and next-header sectors of   *)
(* all allocated files are pairwise distinct and all marked in the free   *)
(* map, over any sequence of Allocate and Deallocate calls, failed ones   *)
(* included.                                                               *)
NoSectorShared ==
    /\ \A f \in Files :
          IsInjective(Owned(hdr[f])) /\ Range(Owned(hdr[f])) \subseteq used
    /\ \A f, g \in Files :
          f # g => Range(Owned(hdr[f])) \cap Range(Owned(hdr[g])) = {}

(* Every marked sector belongs to an allocated file: Allocate and         *)
(* Deallocate together leak nothing from the free map.                    *)
SectorsAccounted ==
    used = UNION {Range(Owned(hdr[f])) : f \in Files}
=============================================================================
