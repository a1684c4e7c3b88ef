------------------------------ MODULE MCFiles ------------------------------
(* A small image: a directory of six names; two files whose blocks are    *)
(* interleaved on the disk, in three images: empty, part of a block, whole *)
(* blocks, whole blocks and a part; and one file that names a block which  *)
(* the disk does not have.                                                 *)
EXTENDS Files

SmallDentries ==
  << [name |-> <<".">>,          filetype |-> "dir",   inode_num |-> 0],
     [name |-> <<"r">>,          filetype |-> "rtc",   inode_num |-> 0],
     [name |-> <<"f", "o">>,     filetype |-> "txt",   inode_num |-> 1],
     [name |-> <<"f", "o", "o">>, filetype |-> "txt",  inode_num |-> 2],
     [name |-> <<"b">>,          filetype |-> "txt",   inode_num |-> 3],
     [name |-> <<"x">>,          filetype |-> "other", inode_num |-> 3] >>

Blocks(length, where) == SubSeq(where, 1, (length + FOURKB - 1) \div FOURKB)

InodeTable(m, n) ==
  << [length |-> 0, data_block_num |-> <<>>],
     [length |-> m, data_block_num |-> Blocks(m, <<4, 0, 2>>)],
     [length |-> n, data_block_num |-> Blocks(n, <<1, 5, 3>>)],
     [length |-> FOURKB + 1, data_block_num |-> <<0, 7>>] >>
  \o [i \in 1..3 |-> [length |-> 0, data_block_num |-> <<>>]]

SmallInodes ==
  {InodeTable(0, 2 * FOURKB + 1), InodeTable(FOURKB, 3 * FOURKB), InodeTable(FOURKB + 1, 1)}
=============================================================================
