----------------------------- MODULE BlockDevices ---------------------------
(***************************************************************************)
(* Block devices at boot: the table of devices (devices/block.c), the scan *)
(* of a disk for partitions (devices/partition.c), and the choice of a     *)
(* device for each role (threads/init.c).  Sector numbers have W bits.  A  *)
(* device is a disk, or a part of one from sector start on; a name is that *)
(* of the disk with the number of the partition, 0 for the disk.           *)
(***************************************************************************)
EXTENDS Integers, Sequences

CONSTANT W

Unsigned(n) == n % 2^W
NONE == [name |-> <<"none", 0>>]

\* block_register, at the end of all_blocks.
block_register(all_blocks, name, type, start, size) ==
  Append(all_blocks, [name |-> name, type |-> type, start |-> start, size |-> size])
\* The first device in probe order that is as wanted.
First(all_blocks, field, wanted) ==
  LET found == SelectSeq(all_blocks, LAMBDA b : b[field] = wanted)
  IN  IF found = <<>> THEN NONE ELSE found[1]
block_get_by_name(all_blocks, name) == First(all_blocks, "name", name)

\* The type of block device that a partition's type stands for.
BlockType(type) == IF type \in {"kernel", "filesys", "scratch", "swap"} THEN type ELSE "foreign"
\* found_partition: one that is not on the disk is left out.
found_partition(all_blocks, disk, type, start, size, part_nr) ==
  LET end == Unsigned(start + size)
  IN  IF start >= disk.size \/ end < start \/ end > disk.size THEN all_blocks
      ELSE block_register(all_blocks, <<disk.name[1], part_nr>>, BlockType(type), start, size)

(***************************************************************************)
(* read_partition_table.  Whatever sector it is called for, the table it   *)
(* reads is that of sector 0.  scan has the devices so far, part_nr, and   *)
(* endless: a call was made with the arguments of one still in progress,   *)
(* and since it reads the same table the recursion has no end.             *)
(***************************************************************************)
RECURSIVE ReadEntries(_, _, _, _, _, _)
read_partition_table(disk, table, sector, primary, pending, scan) ==
  IF sector >= disk.size THEN scan
  ELSE IF <<sector, primary>> \in pending THEN [scan EXCEPT !.endless = TRUE]
  ELSE IF ~table.signature THEN scan
  ELSE ReadEntries(disk, table, sector, primary, pending \cup {<<sector, primary>>},
                   [scan EXCEPT !.i = 1])
\* An entry of the table.
ReadEntry(disk, table, e, sector, primary, pending, scan) ==
  IF e.size = 0 \/ e.type = "empty" THEN scan
  ELSE IF e.type # "extended"
  THEN [scan EXCEPT !.part_nr = @ + 1,
                    !.all_blocks = found_partition(@, disk, e.type, Unsigned(e.offset + sector),
                                                   e.size, scan.part_nr + 1)]
  ELSE IF sector = 0 THEN read_partition_table(disk, table, e.offset, e.offset, pending, scan)
  ELSE read_partition_table(disk, table, Unsigned(e.offset + primary), primary, pending, scan)
ReadEntries(disk, table, sector, primary, pending, scan) ==
  LET i == scan.i
  IN  IF i > Len(table.entries) \/ scan.endless THEN scan
      ELSE ReadEntries(disk, table, sector, primary, pending,
                       [ReadEntry(disk, table, table.entries[i], sector, primary, pending, scan)
                          EXCEPT !.i = i + 1])
partition_scan(all_blocks, disk, table) ==
  read_partition_table(disk, table, 0, 0, {},
                       [all_blocks |-> all_blocks, part_nr |-> 0, i |-> 1, endless |-> FALSE])

\* partition_read and partition_write: the sector of the disk that is reached,
\* -1 if check_sector stops it for the partition, -2 for the disk.
Reached(disk, part, sector) ==
  LET s == Unsigned(part.start + sector)
  IN  IF sector >= part.size THEN -1 ELSE IF s >= disk.size THEN -2 ELSE s

\* locate_block_device: the device of a role, named or the first of its type;
\* NONE also where the code panics for a name that there is not.
locate_block_device(all_blocks, role, name) ==
  IF name # NONE.name THEN block_get_by_name(all_blocks, name)
  ELSE First(all_blocks, "type", role)
=============================================================================
