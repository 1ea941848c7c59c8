------------------------------ MODULE FileData -----------------------------
(***************************************************************************)
(* fs/inode.c over fs/cache.c: how a file's bytes lie in blocks            *)
(* (inode_map, inode_read, inode_write, inode_clear), how blocks are taken *)
(* and given back (cache_alloc, cache_free), and how a directory's entries *)
(* lie in its slots (inode_lookup, inode_insert, inode_remove).            *)
(*                                                                         *)
(* The caller holds the inode's lock and the operation's transaction is    *)
(* module Log's concern, so a call is one step.  A block is BLOCK_SIZE     *)
(* cells; an indirect block holds block numbers in its first cells.  Block *)
(* numbers run over one or more bitmap blocks of BIT_PER_BLOCK bits; a     *)
(* PANIC for want of a block ends the run, so such a call is not enabled.  *)
(***************************************************************************)
EXTENDS Integers, Sequences, SequencesExt, FiniteSets, FiniteSetsExt

CONSTANTS FileInos, FileNames, FileBytes,
          BLOCK_SIZE, INODE_NUM_DIRECT, INODE_NUM_INDIRECT,
          MetaBlocks,        \* blocks mkfs marks as used: 0 .. MetaBlocks - 1
          NumBlocks,         \* sblock->num_blocks - SWAP_SIZE
          BIT_PER_BLOCK,
          MaxWrite,          \* bound of the model: bytes of one write
          DirSlots           \* bound of the model: slots of the directory

VARIABLES bitmap,     \* block numbers whose bit is set
          entry,      \* inode -> [addrs, indirect, num_bytes]
          blockData,  \* block -> cells
          dir         \* the slots of a directory: <<name, inode number>>, 0 when free

fdVars == <<bitmap, entry, blockData, dir>>

INODE_MAX_BYTES == (INODE_NUM_DIRECT + INODE_NUM_INDIRECT) * BLOCK_SIZE
FdBlocks == 0 .. NumBlocks - 1
Zeroed == [c \in 0 .. BLOCK_SIZE - 1 |-> 0]
Stale == [c \in 0 .. BLOCK_SIZE - 1 |-> 1]    \* what a block outside the bitmap may hold
EmptyEntry == [addrs |-> [o \in 0 .. INODE_NUM_DIRECT - 1 |-> 0], indirect |-> 0, num_bytes |-> 0]

FileDataInit ==
    /\ bitmap = 0 .. MetaBlocks - 1
    /\ entry = [i \in FileInos |-> EmptyEntry]
    /\ blockData = [b \in FdBlocks |-> Stale]
    /\ dir = <<>>

-----------------------------------------------------------------------------
\* An operation works on a state s of [bits, e, data, ok]: the bitmap, the inode's
\* entry and the blocks; ok is FALSE once cache_alloc has found no block.
\* The bit scanned in bitmap block k at position j stands for block k * BIT_PER_BLOCK + j.
FreeBits(s) == {n \in FdBlocks : n \notin s.bits}

\* The block cache_alloc returns: the first clear bit, bitmap block by bitmap block.
cache_alloc(s) ==
    LET index == Min({(n \div BIT_PER_BLOCK) * BIT_PER_BLOCK : n \in FreeBits(s)})
        i     == Min({n \in 0 .. BIT_PER_BLOCK - 1 : index + n \in FreeBits(s)})
    IN  index + i

\* The bit is set and the block filled with zeros.
Taken(s) ==
    IF FreeBits(s) = {} THEN [s EXCEPT !.ok = FALSE]
    ELSE [s EXCEPT !.bits = @ \cup {cache_alloc(s)}, !.data[cache_alloc(s)] = Zeroed]

cache_free(blocks) ==
    /\ bitmap' = bitmap \ blocks
    /\ blockData' = [b \in FdBlocks |-> IF b \in blocks THEN Stale ELSE blockData[b]]

\* inode_map, allocating what is missing; the block is MapOf afterwards.
MapOf(s, offset) ==
    IF offset < INODE_NUM_DIRECT THEN s.e.addrs[offset]
    ELSE IF s.e.indirect = 0 THEN 0
    ELSE s.data[s.e.indirect][offset - INODE_NUM_DIRECT]

MapDirect(s, offset) ==
    IF s.e.addrs[offset] # 0 \/ FreeBits(s) = {} THEN s
    ELSE [Taken(s) EXCEPT !.e.addrs[offset] = cache_alloc(s)]

MapIndirectBlock(s) ==
    IF s.e.indirect # 0 \/ FreeBits(s) = {} THEN s
    ELSE [Taken(s) EXCEPT !.e.indirect = cache_alloc(s)]

MapIndirect(s, o) ==
    IF s.e.indirect = 0 \/ s.data[s.e.indirect][o] # 0 \/ FreeBits(s) = {} THEN s
    ELSE [Taken(s) EXCEPT !.data[s.e.indirect][o] = cache_alloc(s)]

inode_map(s, offset) ==
    LET m == IF offset < INODE_NUM_DIRECT THEN MapDirect(s, offset)
             ELSE MapIndirect(MapIndirectBlock(s), offset - INODE_NUM_DIRECT)
    IN  [m EXCEPT !.ok = @ /\ MapOf(m, offset) # 0]

\* One turn of inode_write's loop: the part of the bytes that lies in block blk.
WriteBlock(s, blk, offset, bytes) ==
    LET m == inode_map(s, blk)
        b == MapOf(m, blk)
        new(c) == blk * BLOCK_SIZE + c - offset + 1     \* position in bytes of cell c
    IN  IF ~m.ok THEN m
        ELSE [m EXCEPT !.data[b] = [c \in DOMAIN @ |->
                 IF new(c) \in 1 .. Len(bytes) THEN bytes[new(c)] ELSE @[c]]]

Written(i, offset, bytes) ==
    LET end == offset + Len(bytes)
        blks == [n \in 1 .. ((end - 1) \div BLOCK_SIZE) - (offset \div BLOCK_SIZE) + 1 |->
                   (offset \div BLOCK_SIZE) + n - 1]
        s0  == [bits |-> bitmap, e |-> entry[i], data |-> blockData, ok |-> TRUE]
    IN  FoldLeft(LAMBDA s, blk : WriteBlock(s, blk, offset, bytes), s0, blks)

\* inode_write; modified, a block was taken, or grows: the write sets num_bytes.
WriteWith(i, offset, bytes, grows) ==
    LET s   == Written(i, offset, bytes)
        end == offset + Len(bytes)
    IN  /\ offset <= entry[i].num_bytes /\ end <= INODE_MAX_BYTES     \* ASSERTs
        /\ s.ok
        /\ bitmap' = s.bits /\ blockData' = s.data
        /\ entry' = [entry EXCEPT ![i] = [s.e EXCEPT !.num_bytes =
                IF grows \/ s.bits # bitmap THEN end ELSE entry[i].num_bytes]]
        /\ UNCHANGED dir

\* Mutant: the size is always the end of the last write.
inode_write_Truncates(i, offset, bytes) ==
    WriteWith(i, offset, bytes, TRUE)

\* The file grows by a write that ends behind its end.
inode_write(i, offset, bytes) ==
    WriteWith(i, offset, bytes, offset + Len(bytes) > entry[i].num_bytes)

\* inode_clear; lost is what the mutant does not give back.
ClearWith(i, lost) ==
    LET e   == entry[i]
        dirs == {e.addrs[o] : o \in DOMAIN e.addrs} \ {0}
        ind == IF e.indirect = 0 THEN {}
               ELSE {blockData[e.indirect][o] : o \in 0 .. INODE_NUM_INDIRECT - 1} \ {0}
    IN  /\ cache_free((dirs \cup ind \cup ({e.indirect} \ {0})) \ lost)
        /\ entry' = [entry EXCEPT ![i] = EmptyEntry]
        /\ UNCHANGED dir

\* Mutant: the indirect block itself is not freed.
inode_clear_KeepsIndirect(i) == ClearWith(i, {entry[i].indirect})

inode_clear(i) == ClearWith(i, {})

\* inode_read of one byte below num_bytes; 0 stands for a block that is not mapped,
\* where inode_map would allocate with no operation to do it in.
ReadMap(i, offset) ==
    MapOf([bits |-> bitmap, e |-> entry[i], data |-> blockData, ok |-> TRUE],
          offset \div BLOCK_SIZE)
inode_read(i, offset) == blockData[ReadMap(i, offset)][offset % BLOCK_SIZE]

-----------------------------------------------------------------------------
\* inode_lookup: the first slot that is in use and has the name, as a set.
SlotsOf(name) == {k \in 1 .. Len(dir) : dir[k][2] # 0 /\ dir[k][1] = name}
inode_lookup(name) == IF SlotsOf(name) = {} THEN 0 ELSE dir[Min(SlotsOf(name))][2]

\* The first slot whose inode number is 0, or a new one at the end.
DirPlace(name, ino) ==
    LET free == {k \in 1 .. Len(dir) : dir[k][2] = 0}
    IN  /\ dir' = IF free = {} THEN Append(dir, <<name, ino>>)
                  ELSE [dir EXCEPT ![Min(free)] = <<name, ino>>]
        /\ Len(dir') <= DirSlots
        /\ UNCHANGED <<bitmap, entry, blockData>>

inode_insert(name, ino) == inode_lookup(name) = 0 /\ DirPlace(name, ino)

\* inode_remove, at the index a lookup of the name has given: the entry is all zero.
inode_remove(name) ==
    /\ inode_lookup(name) # 0
    /\ dir' = [dir EXCEPT ![Min(SlotsOf(name))] = <<"", 0>>]
    /\ UNCHANGED <<bitmap, entry, blockData>>

\* A write of the model fills its range with one byte.
FileDataNext ==
    \E i \in FileInos :
       \/ inode_clear(i)
       \/ \E offset \in 0 .. INODE_MAX_BYTES - 1, n \in 1 .. MaxWrite, v \in FileBytes :
            inode_write(i, offset, [k \in 1 .. n |-> v])

DirNext ==
    \E name \in FileNames :
        inode_remove(name) \/ \E ino \in FileInos : inode_insert(name, ino)

-----------------------------------------------------------------------------
\* Types of the inodes, blocks and slots.
FdTypeOK ==
    /\ bitmap \subseteq FdBlocks
    /\ \A i \in FileInos : entry[i].num_bytes \in 0 .. INODE_MAX_BYTES
    /\ \A b \in FdBlocks : DOMAIN blockData[b] = 0 .. BLOCK_SIZE - 1
    /\ dir \in Seq((FileNames \cup {""}) \X (FileInos \cup {0})) /\ Len(dir) <= DirSlots

\* The block numbers an inode holds, with the place that holds them.
Holds(i) ==
    {<<i, "direct", o, entry[i].addrs[o]>> : o \in DOMAIN entry[i].addrs}
    \cup {<<i, "block", 0, entry[i].indirect>>}
    \cup (IF entry[i].indirect = 0 THEN {}
          ELSE {<<i, "indirect", o, blockData[entry[i].indirect][o]>> :
                  o \in 0 .. INODE_NUM_INDIRECT - 1})

\* No block is lost and none is shared: the bits that are set are those of mkfs's
\* blocks and of blocks that exactly one place of one inode holds, so cache_free
\* never meets a clear bit (its PANIC) and cache_alloc never hands out a used block.
FdBitmapExact ==
    LET held == {h \in UNION {Holds(i) : i \in FileInos} : h[4] # 0}
    IN  /\ bitmap = 0 .. MetaBlocks - 1 \cup {h[4] : h \in held}
        /\ \A h \in held : h[4] >= MetaBlocks
        /\ \A g, h \in held : g[4] = h[4] => g = h

\* Every byte below num_bytes lies in a mapped block: inode_read never makes
\* inode_map allocate, which would have no transaction (ASSERT(modified == false)).
FdReadMapped ==
    \A i \in FileInos : \A offset \in 0 .. entry[i].num_bytes - 1 : ReadMap(i, offset) # 0

\* The inode layer implements FileSpec: what inode_read returns is the file's bytes
\* and what inode_lookup returns the directory's map, whatever blocks and slots the
\* writes, truncations, insertions and removals have used.
FdContent == [i \in FileInos |-> [k \in 1 .. entry[i].num_bytes |-> inode_read(i, k - 1)]]
FdNames == [name \in {n \in FileNames : inode_lookup(n) # 0} |-> inode_lookup(name)]
FdFile == INSTANCE FileSpec WITH content <- FdContent, entriesOf <- FdNames
FdRefinesFile == FdFile!FileSpecification

\* The bitmap and the block maps of all inodes agree, and what a file holds is
\* mapped (inode_map, inode_clear, cache_alloc, cache_free).
FdSafe == FdTypeOK /\ FdBitmapExact /\ FdReadMapped
=============================================================================
