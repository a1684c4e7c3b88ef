------------------------------- MODULE Files -------------------------------
(***************************************************************************)
(* The read-only file system (filesystem.c) under the system calls open,   *)
(* read and close (syscall.c), for one PCB and the programs that use it    *)
(* one after the other.  Only the program itself touches its table of open *)
(* files, so each call is one step.                                        *)
(*                                                                         *)
(* A byte of the image is named by the block and the offset where it is    *)
(* stored.  read and write of the terminal (descriptors 0 and 1) and of    *)
(* the clock change nothing here: modules LineDiscipline, Screen and Rtc.  *)
(***************************************************************************)
EXTENDS Integers, Sequences

CONSTANTS
  MAX_FILE,     \* size of the table; 8 in syscall.h
  FOURKB,       \* bytes of a block; 4096
  NAMELEN,      \* bytes of a name; 32
  DATB_SIZE,    \* blocks an inode can name; 1023
  data_count,   \* blocks of the image
  Dentries,     \* the directory: records [name, filetype, inode_num]
  Inodes,       \* inode tables that the image may have, a set of sequences of
                \* records [length, data_block_num]; inode n is at place n + 1
  Sizes,        \* values of nbytes that programs ask for
  MinPosition   \* bound: a file_position that failed reads have lowered so far
                \* is not lowered further

FILE_START == 2
Filetypes == {"rtc", "dir", "txt", "other"}

ASSUME FilesAssumption ==
  /\ MAX_FILE \in Nat /\ MAX_FILE > FILE_START
  /\ FOURKB \in Nat \ {0} /\ NAMELEN \in Nat \ {0} /\ DATB_SIZE \in Nat
  /\ data_count \in Nat /\ Sizes \subseteq Nat /\ MinPosition \in Nat
  /\ \A d \in 1..Len(Dentries) :
       Dentries[d].filetype \in Filetypes /\ Len(Dentries[d].name) \in 1..NAMELEN

\* The image is well formed, which the code takes for granted: an inode names the
\* blocks that its length needs, and the directory names inodes that exist.
\* A block that an inode names need not exist.
ASSUME ImageAssumption ==
  /\ Dentries \in Seq([name : Seq(STRING), filetype : Filetypes, inode_num : Nat])
  /\ \A table \in Inodes :
       /\ table \in Seq([length : Nat, data_block_num : Seq(Nat)])
       /\ \A d \in 1..Len(Dentries) :
            Dentries[d].filetype = "txt" => Dentries[d].inode_num < Len(table)
       /\ \A i \in 1..Len(table) :
            LET blocks == Len(table[i].data_block_num)
            IN blocks <= DATB_SIZE /\ table[i].length <= FOURKB * blocks

VARIABLES
  inodes,          \* the inode table of the image, never changed
  file_des_array,  \* the open files of the PCB
  out              \* history: what the reads of each open file have returned,
                   \* since it was opened or a read failed

vars == <<inodes, file_des_array, out>>

Fds == 0..(MAX_FILE - 1)
inode_count == Len(inodes)
dir_count == Len(Dentries)
node(i) == inodes[i + 1]

TypeOK ==
  /\ inodes \in Inodes
  /\ \A fd \in Fds :
       /\ file_des_array[fd].flags \in {0, 1}
       /\ file_des_array[fd].op_table \in {"none", "std", "rtc", "dir", "txt"}
       /\ file_des_array[fd].inode \in -1..(inode_count - 1)
       /\ file_des_array[fd].flags = 1 /\ file_des_array[fd].op_table = "txt" =>
            file_des_array[fd].inode \in 0..(inode_count - 1)
       /\ file_des_array[fd].op_table = "dir" =>
            file_des_array[fd].file_position \in 0..(dir_count + 1)

Present(fd) == file_des_array[fd].flags = 1

Nowhere == [op_table |-> "none", inode |-> -1, file_position |-> 0, flags |-> 0]

\* What execute makes of a table that it finds: stdin, stdout and closed files.
Fresh(array) ==
  [fd \in Fds |-> IF fd < FILE_START THEN [Nowhere EXCEPT !.op_table = "std", !.flags = 1]
                  ELSE [array[fd] EXCEPT !.flags = 0]]

Init ==
  /\ inodes \in Inodes
  /\ file_des_array = Fresh([fd \in Fds |-> Nowhere])
  /\ out = [fd \in Fds |-> <<>>]

-----------------------------------------------------------------------------
(* filesystem.c                                                            *)

Least(a, b) == IF a < b THEN a ELSE b

\* Mutant of ByteAt: every byte is looked for in the first block.
ByteAtFirst(i, offset) == <<node(i).data_block_num[1], offset % FOURKB>>

\* The byte of inode i at offset, through the list of its blocks.
ByteAt(i, offset) ==
  <<node(i).data_block_num[(offset \div FOURKB) + 1], offset % FOURKB>>

\* Mutant of ToRead: a read ends with the block.
ToReadInBlock(i, offset, length) ==
  Least(Least(length, node(i).length - offset), FOURKB - (offset % FOURKB))

\* How many bytes read_data copies: no more than the file has.
ToRead(i, offset, length) ==
  IF node(i).length < length + offset THEN node(i).length - offset ELSE length

Failed == [ret |-> -1, data |-> <<>>]
Nothing == [ret |-> 0, data |-> <<>>]

\* read_data.  As an unsigned offset a negative position is beyond every file.
\* The bytes copied before a block that does not exist are not counted.
ReadData(i, offset, length) ==
  LET n == ToRead(i, offset, length)
      bytes == [k \in 1..n |-> ByteAt(i, offset + k - 1)]
  IN IF i \notin 0..(inode_count - 1) THEN Failed
     ELSE IF length = 0 THEN Nothing
     ELSE IF offset < 0 \/ offset > node(i).length THEN Failed
     ELSE IF offset = node(i).length THEN Nothing
     ELSE IF node(i).length \div FOURKB > DATB_SIZE THEN Failed
     ELSE IF \E k \in 1..n : bytes[k][1] > data_count THEN Failed
     ELSE [ret |-> n, data |-> bytes]

\* Mutant of NextPosition: the position stays.
NextPositionStays(fd, ret) == file_des_array[fd].file_position

\* file_read and directory_read move the position by what they return or by 1.
NextPosition(fd, ret) == file_des_array[fd].file_position + ret

Move(fd, ret, item) ==
  /\ file_des_array' = [file_des_array EXCEPT ![fd].file_position = NextPosition(fd, ret)]
  /\ out' = [out EXCEPT ![fd] = IF ret < 0 THEN <<>> ELSE @ \o item]
  /\ UNCHANGED inodes

\* read of a regular file: file_read.  A failed read_data lowers the position.
FileRead(fd, nbytes) ==
  LET f == file_des_array[fd]
      r == ReadData(f.inode, f.file_position, nbytes)
  IN /\ Present(fd) /\ f.op_table = "txt"
     /\ f.file_position + r.ret >= -MinPosition
     /\ Move(fd, r.ret, r.data)

\* read_dentry_by_index: the name of an entry.  The one behind the last is empty.
NameAt(index) == IF index < dir_count THEN Dentries[index + 1].name ELSE <<>>

\* read of the directory: directory_read, one name at a time.  The entry behind
\* the last one is still read.
DirRead(fd, nbytes) ==
  LET position == file_des_array[fd].file_position
      name == NameAt(position)
      length == Least(Least(NAMELEN, nbytes), Len(name))
  IN /\ Present(fd) /\ file_des_array[fd].op_table = "dir" /\ nbytes > 0
     /\ position <= dir_count /\ position < inode_count
     /\ Move(fd, 1, IF length = 0 THEN <<>> ELSE <<SubSeq(name, 1, length)>>)

-----------------------------------------------------------------------------
(* syscall.c                                                               *)

\* The descriptor that open takes: the first one that is not in use.
FreeFd(fd) ==
  /\ fd \in FILE_START..(MAX_FILE - 1) /\ ~Present(fd)
  /\ \A g \in FILE_START..(fd - 1) : Present(g)

\* read_dentry_by_name finds entry d: no entry before it has its name.
FirstNamed(d) ==
  d \in 1..dir_count /\ \A e \in 1..(d - 1) : Dentries[e].name # Dentries[d].name

\* Mutant of Opened: the position of the last file is kept.
OpenedWhereLeft(f, d) ==
  [op_table |-> d.filetype, flags |-> 1, file_position |-> f.file_position,
   inode |-> IF d.filetype = "txt" THEN d.inode_num ELSE f.inode]

\* Mutant of Opened: the inode of the last file is kept.
OpenedOtherInode(f, d) ==
  [op_table |-> d.filetype, flags |-> 1, file_position |-> 0, inode |-> f.inode]

\* The entry of the table for directory entry d; f was there before.
Opened(f, d) ==
  [op_table |-> d.filetype, flags |-> 1, file_position |-> 0,
   inode |-> IF d.filetype = "txt" THEN d.inode_num ELSE f.inode]

\* open of a name that the directory has and whose type is supported.
Open(fd, d) ==
  /\ FreeFd(fd) /\ FirstNamed(d) /\ Dentries[d].filetype # "other"
  /\ file_des_array' = [file_des_array EXCEPT ![fd] = Opened(@, Dentries[d])]
  /\ out' = [out EXCEPT ![fd] = <<>>]
  /\ UNCHANGED inodes

\* Mutant of Closable: any descriptor.
ClosableAny(fd) == Present(fd)

Closable(fd) == fd >= FILE_START /\ Present(fd)

Close(fd) ==
  /\ Closable(fd)
  /\ file_des_array' = [file_des_array EXCEPT ![fd].flags = 0]
  /\ out' = [out EXCEPT ![fd] = <<>>]
  /\ UNCHANGED inodes

\* The program halts, which closes its files, and the PCB goes to another one.
NewProgram ==
  /\ file_des_array' = Fresh(file_des_array)
  /\ out' = [fd \in Fds |-> <<>>]
  /\ UNCHANGED inodes

\* Every other call fails or returns 0 and changes nothing, write of files included.
Next ==
  \/ \E fd \in Fds, n \in Sizes : FileRead(fd, n) \/ DirRead(fd, n)
  \/ \E fd \in Fds : Close(fd) \/ \E d \in 1..dir_count : Open(fd, d)
  \/ NewProgram

Spec == Init /\ [][Next]_vars

-----------------------------------------------------------------------------
\* An inode whose blocks all exist.
Healthy(i) ==
  \A k \in 1..Len(node(i).data_block_num) : node(i).data_block_num[k] < data_count

\* What is stored in the file of inode i: its blocks one after the other, as far
\* as its length goes.
Contents(i) ==
  LET n == Len(node(i).data_block_num)
      block(k) == [o \in 1..FOURKB |-> <<node(i).data_block_num[k], o - 1>>]
      joined[k \in 0..n] == IF k = 0 THEN <<>> ELSE joined[k - 1] \o block(k)
  IN SubSeq(joined[n], 1, node(i).length)

OpenText(fd) ==
  Present(fd) /\ file_des_array[fd].op_table = "txt" /\ Healthy(file_des_array[fd].inode)

\* A program never loses its terminal: whatever is opened and closed, descriptors
\* 0 and 1 stay stdin and stdout ("cant do anything for stdin or stdout",
\* syscall.c:397).
StandardStreams == \A fd \in 0..1 : Present(fd) /\ file_des_array[fd].op_table = "std"

\* However a program cuts its reads, and whatever it opens and closes in between
\* on other descriptors or with the same PCB before, what it has read of a file
\* is the beginning of the file, as far as file_position says.
ReadsAreContents ==
  \A fd \in Fds : OpenText(fd) =>
    LET f == file_des_array[fd]
    IN /\ f.file_position = Len(out[fd])
       /\ out[fd] = SubSeq(Contents(f.inode), 1, f.file_position)

\* A read returns all it was asked for unless the file ends first, also across
\* the boundaries of blocks ("one file may need more than 1", filesystem.c:283).
ReadsAreFull ==
  [][\A fd \in Fds, n \in Sizes :
       FileRead(fd, n) /\ OpenText(fd) =>
         Len(out'[fd]) = Least(Len(out[fd]) + n, node(file_des_array[fd].inode).length)]_vars

\* Reading the directory gives every name once, in order, cut off to what was
\* asked for, and then nothing.
DirectoryListed ==
  \A fd \in Fds : Present(fd) /\ file_des_array[fd].op_table = "dir" =>
    /\ Len(out[fd]) = Least(file_des_array[fd].file_position, dir_count)
    /\ \A k \in 1..Len(out[fd]) :
         out[fd][k] = SubSeq(Dentries[k].name, 1, Len(out[fd][k])) /\ out[fd][k] # <<>>
=============================================================================
