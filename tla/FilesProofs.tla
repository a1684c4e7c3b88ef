---------------------------- MODULE FilesProofs ----------------------------
(***************************************************************************)
(* What a program reads is what is stored, for any well-formed image, any  *)
(* size of blocks and of the table of open files, and any calls of open,   *)
(* read and close.                                                         *)
(***************************************************************************)
EXTENDS Files, SequenceTheorems, WellFoundedInduction, TLAPS

-----------------------------------------------------------------------------
(* Bytes and blocks.                                                       *)

\* Byte r of block q is byte q * F + r of the file.
LEMMA ByteOfBlock ==
  ASSUME NEW F \in Nat \ {0}, NEW q \in Nat, NEW r \in 0..(F - 1)
  PROVE  (q * F + r) \div F = q /\ (q * F + r) % F = r
OBVIOUS

\* Every byte is in some block.
LEMMA BlockOfByte ==
  ASSUME NEW F \in Nat \ {0}, NEW x \in Nat
  PROVE  x \div F \in Nat /\ x % F \in 0..(F - 1) /\ x = (x \div F) * F + (x % F)
OBVIOUS

\* A byte before the end of the last block is in one of the blocks.
LEMMA BlockExists ==
  ASSUME NEW F \in Nat \ {0}, NEW x \in Nat, NEW n \in Nat, x < F * n
  PROVE  x \div F < n
<1> DEFINE q == x \div F
<1>1. q \in Nat /\ x % F \in 0..(F - 1) /\ x = q * F + (x % F)
  BY BlockOfByte
<1>2. SUFFICES ASSUME q >= n PROVE FALSE
  BY <1>1
<1>3. q * F >= n * F
  BY <1>1, <1>2
<1> QED
  BY <1>1, <1>3

\* A set of naturals that is not empty has a least member; used to follow the
\* list of blocks from its start.
LEMMA LeastMember ==
  ASSUME NEW S, S \subseteq Nat, S # {}
  PROVE  \E m \in S : \A k \in S : m <= k
<1>1. PICK m \in S : \A k \in S : ~(<<k, m>> \in OpToRel(<, Nat))
  BY NatLessThanWellFounded, WFMin, Zenon
<1>2. \A k \in S : ~(k < m)
  BY <1>1 DEF OpToRel
<1> QED
  BY <1>2

\* A function on 1..n is a sequence.
LEMMA FunctionIsSeq ==
  ASSUME NEW n \in Nat, NEW S, NEW f, f = [j \in 1..n |-> f[j]], \A j \in 1..n : f[j] \in S
  PROVE  f \in Seq(S) /\ Len(f) = n
OBVIOUS

\* The first k blocks of list b, one after the other.
Joined(b, k) == [j \in 1..(k * FOURKB) |-> <<b[((j - 1) \div FOURKB) + 1], (j - 1) % FOURKB>>]

\* They are k * FOURKB bytes.
LEMMA JoinedType ==
  ASSUME NEW b \in Seq(Nat), NEW n \in 0..Len(b)
  PROVE  /\ Joined(b, n) \in Seq(Nat \X Nat) /\ Len(Joined(b, n)) = n * FOURKB
         /\ \A j \in 1..(n * FOURKB) :
              Joined(b, n)[j] = <<b[((j - 1) \div FOURKB) + 1], (j - 1) % FOURKB>>
<1> DEFINE F == FOURKB
           f == Joined(b, n)
           N == n * F
<1>0. F \in Nat \ {0} /\ Len(b) \in Nat
  BY FilesAssumption
<1>1. n \in Nat /\ N \in Nat
  BY <1>0
<1>2. /\ f = [j \in 1..N |-> f[j]]
      /\ \A j \in 1..N : f[j] = <<b[((j - 1) \div F) + 1], (j - 1) % F>>
  BY DEF Joined
<1>3. ASSUME NEW j \in 1..N PROVE f[j] \in Nat \X Nat
  <2> DEFINE x == j - 1
  <2>1. x \in Nat /\ x < F * n
    BY <1>0, <1>1, <1>3
  <2> HIDE DEF x, F, N, f
  <2>2. x \div F < n
    BY <1>0, <1>1, <2>1, BlockExists
  <2>3. x \div F \in Nat /\ x % F \in Nat
    <3>1. x \div F \in Nat /\ x % F \in 0..(F - 1)
      BY <1>0, <2>1, BlockOfByte
    <3> QED
      BY <1>0, <3>1
  <2>4. (x \div F) + 1 \in 1..Len(b)
    BY <1>0, <2>2, <2>3
  <2>5. b[(x \div F) + 1] \in Nat
    BY <2>4, ElementOfSeq
  <2>6. f[j] = <<b[(x \div F) + 1], x % F>>
    BY <1>2, <1>3 DEF x
  <2> QED
    BY <2>3, <2>5, <2>6
<1>4. f \in Seq(Nat \X Nat) /\ Len(f) = N
  <2> HIDE DEF f, N
  <2> QED
    BY <1>1, <1>2, <1>3, FunctionIsSeq
<1> QED
  BY <1>2, <1>4

\* One more block is appended.
LEMMA JoinedStep ==
  ASSUME NEW b \in Seq(Nat), NEW k \in 1..Len(b)
  PROVE  /\ Joined(b, k - 1) \in Seq(Nat \X Nat)
         /\ Joined(b, k) = Joined(b, k - 1) \o [o \in 1..FOURKB |-> <<b[k], o - 1>>]
<1> DEFINE F == FOURKB
           block == [o \in 1..F |-> <<b[k], o - 1>>]
           old == Joined(b, k - 1)
           new == Joined(b, k)
<1>1. F \in Nat \ {0} /\ k \in Nat \ {0} /\ Len(b) \in Nat
  BY FilesAssumption
<1>2. /\ (k - 1) * F \in Nat /\ k * F \in Nat /\ k * F = (k - 1) * F + F
  BY <1>1
<1>3. ASSUME NEW n \in 0..Len(b)
      PROVE  /\ Joined(b, n) \in Seq(Nat \X Nat) /\ Len(Joined(b, n)) = n * F
             /\ \A j \in 1..(n * F) :
                  Joined(b, n)[j] = <<b[((j - 1) \div F) + 1], (j - 1) % F>>
  BY JoinedType
<1>4. /\ old \in Seq(Nat \X Nat) /\ Len(old) = (k - 1) * F
      /\ \A j \in 1..((k - 1) * F) : old[j] = <<b[((j - 1) \div F) + 1], (j - 1) % F>>
  <2>1. k - 1 \in 0..Len(b)
    BY <1>1
  <2> QED
    BY <1>3, <2>1
<1>5. /\ new \in Seq(Nat \X Nat) /\ Len(new) = k * F
      /\ \A j \in 1..(k * F) : new[j] = <<b[((j - 1) \div F) + 1], (j - 1) % F>>
  <2>1. k \in 0..Len(b)
    BY <1>1
  <2> QED
    BY <1>3, <2>1
<1>6. /\ block \in Seq(Nat \X Nat) /\ Len(block) = F
      /\ \A o \in 1..F : block[o] = <<b[k], o - 1>>
  <2>1. b[k] \in Nat
    BY ElementOfSeq
  <2>2. \A o \in 1..F : <<b[k], o - 1>> \in Nat \X Nat
    BY <1>1, <2>1
  <2> QED
    BY <1>1, <2>2
<1> HIDE DEF F, block, old, new
<1> DEFINE A == (k - 1) * F
           B == k * F
<1> HIDE DEF A, B
<1>7. /\ old \o block \in Seq(Nat \X Nat) /\ Len(old \o block) = k * F
      /\ \A j \in 1..(k * F) : (old \o block)[j] = IF j <= (k - 1) * F THEN old[j]
                                                   ELSE block[j - (k - 1) * F]
  <2>1. A \in Nat /\ B = A + F
    BY <1>2 DEF A, B
  <2>2. Len(old) = A
    BY <1>4 DEF A
  <2>3. /\ old \o block \in Seq(Nat \X Nat) /\ Len(old \o block) = B
        /\ \A j \in 1..B : (old \o block)[j] = IF j <= A THEN old[j] ELSE block[j - A]
    <3>1. Len(block) = F /\ A + F = B /\ F \in Nat
      BY <1>2, <1>6, <2>1
    <3>2. /\ old \o block \in Seq(Nat \X Nat) /\ Len(old \o block) = Len(old) + Len(block)
          /\ \A j \in 1..(Len(old) + Len(block)) :
               (old \o block)[j] = IF j <= Len(old) THEN old[j] ELSE block[j - Len(old)]
      BY <1>4, <1>6, ConcatProperties
    <3> QED
      BY <2>2, <3>1, <3>2
  <2> QED
    BY <2>3 DEF A, B
<1>8. ASSUME NEW j \in 1..(k * F) PROVE new[j] = (old \o block)[j]
  <2>1. CASE j <= (k - 1) * F
    <3>1. j \in 1..((k - 1) * F)
      BY <1>2, <2>1
    <3> QED
      BY <1>4, <1>5, <1>7, <2>1, <3>1
  <2>2. CASE ~(j <= (k - 1) * F)
    <3> DEFINE o == j - (k - 1) * F
    <3>1. o \in 1..F /\ o - 1 \in 0..(F - 1) /\ j - 1 = (k - 1) * F + (o - 1)
      BY <1>1, <1>2, <2>2
    <3> HIDE DEF o
    <3>2. k - 1 \in Nat
      BY <1>1
    <3> DEFINE q == k - 1
               r == o - 1
               x == j - 1
    <3>3. x \div F = q /\ x % F = r
      <4> HIDE DEF q, r
      <4>1. q \in Nat /\ r \in 0..(F - 1) /\ x = q * F + r
        BY <3>1, <3>2 DEF q, r
      <4> HIDE DEF x
      <4> QED
        BY <1>1, <4>1, ByteOfBlock
    <3>4. new[j] = <<b[k], o - 1>>
      <4>1. new[j] = <<b[(x \div F) + 1], x % F>>
        BY <1>5
      <4>2. q + 1 = k
        BY <1>1
      <4> HIDE DEF x
      <4> QED
        BY <3>3, <4>1, <4>2
    <3> QED
      BY <1>6, <1>7, <2>2, <3>1, <3>4 DEF o
  <2> QED
    BY <2>1, <2>2
<1>9. new = old \o block
  BY <1>5, <1>7, <1>8, SeqEqual
<1> QED
  BY <1>4, <1>9 DEF old, new, block, F

\* An inode of the image.
LEMMA NodeFacts ==
  ASSUME inodes \in Inodes, NEW i \in 0..(inode_count - 1)
  PROVE  /\ inode_count \in Nat
         /\ node(i).length \in Nat /\ node(i).data_block_num \in Seq(Nat)
         /\ Len(node(i).data_block_num) \in Nat
         /\ Len(node(i).data_block_num) <= DATB_SIZE
         /\ node(i).length <= FOURKB * Len(node(i).data_block_num)
<1>1. /\ inodes \in Seq([length : Nat, data_block_num : Seq(Nat)])
      /\ \A j \in 1..Len(inodes) :
           /\ Len(inodes[j].data_block_num) <= DATB_SIZE
           /\ inodes[j].length <= FOURKB * Len(inodes[j].data_block_num)
  BY ImageAssumption
<1>2. inode_count \in Nat /\ i + 1 \in 1..Len(inodes)
  BY <1>1 DEF inode_count
<1>3. inodes[i + 1] \in [length : Nat, data_block_num : Seq(Nat)]
  BY <1>1, <1>2, ElementOfSeq
<1> QED
  BY <1>1, <1>2, <1>3 DEF node

\* What is stored in a file is, byte by byte, what its list of blocks leads to.
LEMMA ContentsAre ==
  ASSUME inodes \in Inodes, NEW i \in 0..(inode_count - 1)
  PROVE  /\ Contents(i) \in Seq(Nat \X Nat) /\ Len(Contents(i)) = node(i).length
         /\ \A j \in 1..node(i).length : Contents(i)[j] = ByteAt(i, j - 1)
<1> DEFINE b == node(i).data_block_num
           n == Len(b)
           block(k) == [o \in 1..FOURKB |-> <<b[k], o - 1>>]
           Chain(g) == g = [k \in 0..n |-> IF k = 0 THEN <<>> ELSE g[k - 1] \o block(k)]
           joined == CHOOSE g : Chain(g)
           all == joined[n]
           size == node(i).length
<1>1. Contents(i) = SubSeq(all, 1, size)
  BY DEF Contents
<1>2. /\ b \in Seq(Nat) /\ n \in Nat /\ size \in Nat /\ size <= FOURKB * n
      /\ FOURKB \in Nat \ {0}
  BY NodeFacts, FilesAssumption
<1> HIDE DEF b, size
<1>3. \A k \in 1..n : Joined(b, k) = Joined(b, k - 1) \o block(k)
  BY <1>2, JoinedStep
<1>4. Joined(b, 0) = <<>>
  BY <1>2 DEF Joined
<1> HIDE DEF block
<1>5. \E g : Chain(g)
  <2> DEFINE w == [k \in 0..n |-> Joined(b, k)]
  <2>1. \A k \in 0..n : w[k] = IF k = 0 THEN <<>> ELSE w[k - 1] \o block(k)
    <3> TAKE k \in 0..n
    <3>1. w[k] = Joined(b, k)
      OBVIOUS
    <3>2. CASE k = 0
      BY <1>4, <3>1, <3>2
    <3>3. CASE k # 0
      <4>1. k \in 1..n /\ k - 1 \in 0..n
        BY <1>2, <3>3
      <4>2. w[k - 1] = Joined(b, k - 1)
        BY <4>1
      <4> QED
        BY <1>3, <3>1, <3>3, <4>1, <4>2
    <3> QED
      BY <3>2, <3>3
  <2>2. w = [k \in 0..n |-> w[k]]
    OBVIOUS
  <2>3. Chain(w)
    <3> HIDE DEF w
    <3> QED
      BY <2>1, <2>2
  <2> QED
    BY <2>3
<1> HIDE DEF Chain
<1>6. Chain(joined)
  BY <1>5
<1> HIDE DEF joined
<1>7. /\ joined[0] = <<>>
      /\ \A k \in 1..n : joined[k] = joined[k - 1] \o block(k)
  <2>1. \A k \in 0..n : joined[k] = IF k = 0 THEN <<>> ELSE joined[k - 1] \o block(k)
    BY <1>6 DEF Chain
  <2>2. 0 \in 0..n /\ \A k \in 1..n : k \in 0..n /\ k # 0
    BY <1>2
  <2> QED
    BY <2>1, <2>2
<1>8. \A k \in 0..n : joined[k] = Joined(b, k)
  <2> DEFINE S == {k \in Nat : k <= n /\ joined[k] # Joined(b, k)}
  <2>1. S = {}
    <3> SUFFICES ASSUME S # {} PROVE FALSE
      OBVIOUS
    <3>1. PICK m \in S : \A k \in S : m <= k
      BY LeastMember
    <3>2. m # 0
      BY <1>4, <1>7, <3>1
    <3>3. m \in 1..n /\ joined[m - 1] = Joined(b, m - 1)
      BY <1>2, <3>1, <3>2
    <3> QED
      BY <1>3, <1>7, <3>1, <3>3
  <2> QED
    BY <1>2, <2>1
<1>9. /\ all \in Seq(Nat \X Nat)
      /\ \A j \in 1..(n * FOURKB) :
           all[j] = <<b[((j - 1) \div FOURKB) + 1], (j - 1) % FOURKB>>
      /\ Len(all) = n * FOURKB
  <2>1. all = Joined(b, n)
    BY <1>2, <1>8
  <2>2. n * FOURKB \in Nat
    BY <1>2
  <2>3. \A j \in 1..(n * FOURKB) :
          Joined(b, n)[j] = <<b[((j - 1) \div FOURKB) + 1], (j - 1) % FOURKB>>
    BY DEF Joined
  <2>4. Joined(b, n) \in Seq(Nat \X Nat) /\ Len(Joined(b, n)) = n * FOURKB
    BY <1>2, JoinedType
  <2> QED
    BY <2>1, <2>3, <2>4
<1> HIDE DEF all
<1>10. size <= n * FOURKB /\ n * FOURKB \in Nat
  BY <1>2
<1>11. \A j \in 1..size : j \in 1..(n * FOURKB) /\ all[j] \in Nat \X Nat
  <2> SUFFICES ASSUME NEW j \in 1..size
               PROVE  j \in 1..(n * FOURKB) /\ all[j] \in Nat \X Nat
    OBVIOUS
  <2>1. j \in 1..(n * FOURKB)
    BY <1>2, <1>10
  <2>2. all \in Seq(Nat \X Nat) /\ Len(all) = n * FOURKB
    BY <1>9
  <2> QED
    BY <2>1, <2>2, ElementOfSeq
<1>12. /\ SubSeq(all, 1, size) \in Seq(Nat \X Nat) /\ Len(SubSeq(all, 1, size)) = size
       /\ \A j \in 1..size : SubSeq(all, 1, size)[j] = all[j]
  BY <1>2, <1>11, SubSeqProperties
<1>13. \A j \in 1..size : ByteAt(i, j - 1) = all[j]
  BY <1>9, <1>11 DEF ByteAt, b
<1> QED
  BY <1>1, <1>12, <1>13 DEF size

-----------------------------------------------------------------------------
(* The invariant.                                                          *)

Entries ==
  [op_table : {"none", "std", "rtc", "dir", "txt"}, inode : -1..(inode_count - 1),
   file_position : Int, flags : {0, 1}]

\* What a read can have returned: bytes of a file and names of the directory.
Items == (Nat \X Nat) \cup Seq(STRING)

\* o is the beginning of the file of inode i.
BeginningOf(i, o) ==
  Len(o) <= node(i).length /\ \A k \in 1..Len(o) : o[k] = ByteAt(i, k - 1)

\* o holds the names of the directory, in order.
NamesIn(o) ==
  \A k \in 1..Len(o) : o[k] = SubSeq(Dentries[k].name, 1, Len(o[k])) /\ o[k] # <<>>

\* What open, read and close keep true of one entry f of the table and of what
\* was read through it, o.
EntryOK(f, o) ==
  /\ f \in Entries /\ o \in Seq(Items)
  /\ f.flags = 1 /\ f.op_table = "txt" => f.inode \in 0..(inode_count - 1)
  /\ f.op_table = "dir" => f.file_position \in 0..(dir_count + 1)
  /\ f.flags = 1 /\ f.op_table = "txt" /\ Healthy(f.inode) =>
       f.file_position = Len(o) /\ BeginningOf(f.inode, o)
  /\ f.flags = 1 /\ f.op_table = "dir" =>
       Len(o) = Least(f.file_position, dir_count) /\ NamesIn(o)

FilesInv ==
  /\ inodes \in Inodes
  /\ file_des_array = [fd \in Fds |-> file_des_array[fd]] /\ out = [fd \in Fds |-> out[fd]]
  /\ \A fd \in Fds : EntryOK(file_des_array[fd], out[fd])
  /\ StandardStreams

\* The directory and the table.
LEMMA ImageFacts ==
  /\ dir_count \in Nat /\ FOURKB \in Nat \ {0} /\ NAMELEN \in Nat \ {0}
  /\ MAX_FILE \in Nat /\ MAX_FILE > 2 /\ 0 \in Fds /\ 1 \in Fds
  /\ \A d \in 1..dir_count :
       /\ Dentries[d].name \in Seq(STRING) /\ Len(Dentries[d].name) \in 1..NAMELEN
       /\ Dentries[d].filetype \in Filetypes /\ Dentries[d].inode_num \in Nat
<1>1. Dentries \in Seq([name : Seq(STRING), filetype : Filetypes, inode_num : Nat])
  BY ImageAssumption
<1>2. \A d \in 1..dir_count :
        Dentries[d] \in [name : Seq(STRING), filetype : Filetypes, inode_num : Nat]
  BY <1>1, ElementOfSeq DEF dir_count
<1>3. dir_count \in Nat
  BY <1>1 DEF dir_count
<1> QED
  BY <1>2, <1>3, FilesAssumption DEF dir_count, FILE_START, Fds

\* The number of inodes.
LEMMA InodeCount == inodes \in Inodes => inode_count \in Nat
  BY ImageAssumption DEF inode_count

\* Nothing of this depends on anything but the image, which never changes.
LEMMA EntryStays ==
  ASSUME NEW f, NEW o, EntryOK(f, o), inodes' = inodes
  PROVE  EntryOK(f, o)'
BY DEF EntryOK, Entries, inode_count, node, Healthy, BeginningOf, ByteAt

\* A call that changes one entry of the table keeps the invariant if the new
\* entry is right.
LEMMA OneEntry ==
  ASSUME FilesInv, NEW fd \in Fds, NEW f, NEW o, EntryOK(f, o), inodes' = inodes,
         file_des_array' = [file_des_array EXCEPT ![fd] = f],
         out' = [out EXCEPT ![fd] = o],
         fd < 2 => f.flags = 1 /\ f.op_table = "std"
  PROVE  FilesInv'
<1>1. \A g \in Fds : /\ file_des_array'[g] = IF g = fd THEN f ELSE file_des_array[g]
                     /\ out'[g] = IF g = fd THEN o ELSE out[g]
  BY DEF FilesInv
<1>2. /\ file_des_array' = [g \in Fds |-> file_des_array'[g]]
      /\ out' = [g \in Fds |-> out'[g]]
  BY DEF FilesInv
<1>3. ASSUME NEW g \in Fds PROVE EntryOK(file_des_array'[g], out'[g])
  BY <1>1 DEF FilesInv
<1>4. \A g \in Fds : EntryOK(file_des_array[g], out[g])'
  BY <1>3, EntryStays
<1>5. StandardStreams'
  BY <1>1, ImageFacts DEF FilesInv, StandardStreams, Present
<1> QED
  BY <1>2, <1>4, <1>5 DEF FilesInv

\* The table that a new program finds is right: nothing is open in it but the
\* terminal, whatever the program before has left in its closed entries.
LEMMA FreshEntries ==
  ASSUME inodes \in Inodes, NEW array,
         \A fd \in Fds : array[fd] \in Entries /\ (array[fd].op_table = "dir" =>
                           array[fd].file_position \in 0..(dir_count + 1))
  PROVE  /\ \A fd \in Fds : EntryOK(Fresh(array)[fd], <<>>)
         /\ \A fd \in 0..1 : Fresh(array)[fd].flags = 1 /\ Fresh(array)[fd].op_table = "std"
<1>1. inode_count \in Nat
  BY InodeCount
<1>2. ASSUME NEW fd \in Fds
      PROVE  /\ EntryOK(Fresh(array)[fd], <<>>)
             /\ fd < 2 => Fresh(array)[fd].flags = 1 /\ Fresh(array)[fd].op_table = "std"
  <2> DEFINE f == Fresh(array)[fd]
  <2>1. <<>> \in Seq(Items)
    OBVIOUS
  <2>2. CASE fd < 2
    <3>1. f = [op_table |-> "std", inode |-> -1, file_position |-> 0, flags |-> 1]
      BY <2>2 DEF Fresh, FILE_START, Nowhere
    <3> HIDE DEF f
    <3>2. f \in Entries
      BY <1>1, <3>1 DEF Entries
    <3>3. f.op_table = "std" /\ f.flags = 1
      BY <3>1
    <3>4. EntryOK(f, <<>>)
      BY <2>1, <3>2, <3>3 DEF EntryOK
    <3> QED
      BY <3>3, <3>4 DEF f
  <2>3. CASE ~(fd < 2)
    <3>1. f = [array[fd] EXCEPT !.flags = 0]
      BY <2>3 DEF Fresh, FILE_START
    <3> HIDE DEF f
    <3>2. f \in Entries /\ f.flags = 0 /\ f.op_table = array[fd].op_table
          /\ f.file_position = array[fd].file_position
      BY <3>1 DEF Entries
    <3>3. EntryOK(f, <<>>)
      BY <2>1, <3>2 DEF EntryOK
    <3> QED
      BY <2>3, <3>3 DEF f
  <2> QED
    BY <2>2, <2>3
<1> QED
  BY <1>2, ImageFacts DEF Fds

\* A boot image with no program yet.
LEMMA FilesInit == Init => FilesInv
<1> SUFFICES ASSUME Init PROVE FilesInv
  OBVIOUS
<1> DEFINE blank == [fd \in Fds |-> Nowhere]
<1>1. inodes \in Inodes /\ inode_count \in Nat
  BY InodeCount DEF Init
<1>2. Nowhere \in Entries /\ Nowhere.op_table = "none"
  BY <1>1 DEF Nowhere, Entries
<1>3. \A fd \in Fds : blank[fd] \in Entries /\ (blank[fd].op_table = "dir" =>
                        blank[fd].file_position \in 0..(dir_count + 1))
  BY <1>2
<1>4. /\ file_des_array = Fresh(blank) /\ out = [fd \in Fds |-> <<>>]
  BY DEF Init
<1> HIDE DEF blank
<1>5. /\ \A fd \in Fds : EntryOK(Fresh(blank)[fd], <<>>)
      /\ \A fd \in 0..1 : Fresh(blank)[fd].flags = 1 /\ Fresh(blank)[fd].op_table = "std"
  BY <1>1, <1>3, FreshEntries
<1>6. file_des_array = [fd \in Fds |-> file_des_array[fd]] /\ out = [fd \in Fds |-> out[fd]]
  BY <1>4 DEF Fresh
<1> QED
  BY <1>1, <1>4, <1>5, <1>6 DEF FilesInv, StandardStreams, Present

-----------------------------------------------------------------------------
(* The steps.                                                              *)

\* The next program on the same PCB.
LEMMA StepNewProgram == FilesInv /\ NewProgram => FilesInv'
<1> SUFFICES ASSUME FilesInv, NewProgram PROVE FilesInv'
  OBVIOUS
<1>1. /\ inodes \in Inodes /\ inodes' = inodes
      /\ file_des_array' = Fresh(file_des_array) /\ out' = [fd \in Fds |-> <<>>]
  BY DEF FilesInv, NewProgram
<1>2. \A fd \in Fds : file_des_array[fd] \in Entries /\ (file_des_array[fd].op_table = "dir" =>
                        file_des_array[fd].file_position \in 0..(dir_count + 1))
  BY DEF FilesInv, EntryOK
<1>3. /\ \A fd \in Fds : EntryOK(Fresh(file_des_array)[fd], <<>>)
      /\ \A fd \in 0..1 : /\ Fresh(file_des_array)[fd].flags = 1
                          /\ Fresh(file_des_array)[fd].op_table = "std"
  BY <1>1, <1>2, FreshEntries
<1>4. ASSUME NEW fd \in Fds PROVE EntryOK(file_des_array'[fd], out'[fd])
  BY <1>1, <1>3
<1>5. \A fd \in Fds : EntryOK(file_des_array[fd], out[fd])'
  BY <1>1, <1>4, EntryStays
<1>6. /\ file_des_array' = [fd \in Fds |-> file_des_array'[fd]]
      /\ out' = [fd \in Fds |-> out'[fd]]
  BY <1>1 DEF Fresh
<1>7. StandardStreams'
  BY <1>1, <1>3 DEF StandardStreams, Present
<1> QED
  BY <1>1, <1>5, <1>6, <1>7 DEF FilesInv

\* close.
LEMMA StepClose == ASSUME FilesInv, NEW fd \in Fds, Close(fd) PROVE FilesInv'
<1> DEFINE f == [file_des_array[fd] EXCEPT !.flags = 0]
<1>1. /\ fd >= 2 /\ inodes' = inodes
      /\ file_des_array' = [file_des_array EXCEPT ![fd].flags = 0]
      /\ out' = [out EXCEPT ![fd] = <<>>]
  BY DEF Close, Closable, FILE_START
<1>2. file_des_array' = [file_des_array EXCEPT ![fd] = f]
  BY <1>1
<1>3. /\ file_des_array[fd] \in Entries
      /\ file_des_array[fd].op_table = "dir" =>
           file_des_array[fd].file_position \in 0..(dir_count + 1)
  BY DEF FilesInv, EntryOK
<1>4. /\ f \in Entries /\ f.flags = 0 /\ f.op_table = file_des_array[fd].op_table
      /\ f.file_position = file_des_array[fd].file_position
  BY <1>3 DEF Entries
<1> HIDE DEF f
<1>5. <<>> \in Seq(Items)
  OBVIOUS
<1>6. EntryOK(f, <<>>)
  BY <1>3, <1>4, <1>5 DEF EntryOK
<1>7. ~(fd < 2)
  BY <1>1 DEF Fds
<1> QED
  BY <1>1, <1>2, <1>6, <1>7, OneEntry

\* open: the position starts at 0 and a file gets the inode of its entry.
LEMMA StepOpen ==
  ASSUME FilesInv, NEW fd \in Fds, NEW d \in 1..dir_count, Open(fd, d) PROVE FilesInv'
<1> DEFINE entry == Dentries[d]
           f == Opened(file_des_array[fd], entry)
<1>1. /\ fd \in Nat /\ fd >= 2 /\ inodes' = inodes /\ inodes \in Inodes
      /\ file_des_array' = [file_des_array EXCEPT ![fd] = Opened(@, Dentries[d])]
      /\ out' = [out EXCEPT ![fd] = <<>>]
      /\ entry.filetype # "other"
  BY ImageFacts DEF Open, FreeFd, FILE_START, FilesInv
<1>2. file_des_array' = [file_des_array EXCEPT ![fd] = f]
  BY <1>1
<1>3. /\ entry.filetype \in Filetypes /\ entry.inode_num \in Nat
      /\ entry.filetype = "txt" => entry.inode_num < inode_count
      /\ inode_count \in Nat
  BY <1>1, ImageAssumption, ImageFacts, InodeCount DEF dir_count, inode_count
<1>4. file_des_array[fd] \in Entries
  BY DEF FilesInv, EntryOK
<1>5. /\ f.op_table = entry.filetype /\ f.flags = 1 /\ f.file_position = 0
      /\ f.inode = IF entry.filetype = "txt" THEN entry.inode_num ELSE file_des_array[fd].inode
      /\ f = [op_table |-> f.op_table, flags |-> f.flags, file_position |-> f.file_position,
              inode |-> f.inode]
  BY DEF Opened
<1> HIDE DEF f, entry
<1>6. file_des_array[fd].inode \in -1..(inode_count - 1)
  BY <1>4 DEF Entries
<1>7. f.op_table \in {"rtc", "dir", "txt"}
  BY <1>1, <1>3, <1>5 DEF Filetypes
<1>8. f.op_table = "txt" => f.inode \in 0..(inode_count - 1)
  BY <1>3, <1>5
<1>9. f.inode \in -1..(inode_count - 1)
  BY <1>3, <1>5, <1>6
<1>10. f \in Entries
  BY <1>5, <1>7, <1>9 DEF Entries
<1>11. /\ <<>> \in Seq(Items) /\ Len(<<>>) = 0 /\ 0 \in 0..(dir_count + 1)
       /\ Least(0, dir_count) = 0
  BY ImageFacts DEF Least
<1>12. BeginningOf(f.inode, <<>>) \/ f.op_table # "txt"
  BY <1>1, <1>8, <1>11, NodeFacts DEF BeginningOf
<1>13. NamesIn(<<>>)
  BY <1>11 DEF NamesIn
<1>14. EntryOK(f, <<>>)
  BY <1>5, <1>8, <1>10, <1>11, <1>12, <1>13 DEF EntryOK
<1>15. ~(fd < 2)
  BY <1>1
<1> QED
  BY <1>1, <1>2, <1>14, <1>15, OneEntry

\* A byte of a file lies in a block that its inode names.
LEMMA ByteAtType ==
  ASSUME inodes \in Inodes, NEW i \in 0..(inode_count - 1), NEW x \in Nat, x < node(i).length
  PROVE  /\ ByteAt(i, x) \in Nat \X Nat
         /\ \E k \in 1..Len(node(i).data_block_num) :
              ByteAt(i, x)[1] = node(i).data_block_num[k]
<1> DEFINE b == node(i).data_block_num
           q == x \div FOURKB
<1>1. /\ b \in Seq(Nat) /\ Len(b) \in Nat /\ FOURKB \in Nat \ {0} /\ x < FOURKB * Len(b)
      /\ ByteAt(i, x) = <<b[q + 1], x % FOURKB>>
  <2>1. /\ b \in Seq(Nat) /\ Len(b) \in Nat /\ FOURKB \in Nat \ {0}
        /\ node(i).length \in Nat /\ node(i).length <= FOURKB * Len(b)
    BY NodeFacts, FilesAssumption
  <2>2. FOURKB * Len(b) \in Nat
    BY <2>1
  <2>3. x < FOURKB * Len(b)
    BY <2>1, <2>2
  <2> QED
    BY <2>1, <2>3 DEF ByteAt
<1> HIDE DEF b
<1>2. q \in Nat /\ x % FOURKB \in 0..(FOURKB - 1)
  BY <1>1, BlockOfByte
<1>3. q < Len(b)
  BY <1>1, BlockExists
<1> HIDE DEF q
<1>4. q + 1 \in 1..Len(b) /\ x % FOURKB \in Nat
  BY <1>1, <1>2, <1>3
<1>5. b[q + 1] \in Nat
  BY <1>1, <1>4, ElementOfSeq
<1>6. PICK k, y, z : k = q + 1 /\ y = b[k] /\ z = x % FOURKB
  OBVIOUS
<1>7. k \in 1..Len(b) /\ y = b[k] /\ y \in Nat /\ z \in Nat /\ ByteAt(i, x) = <<y, z>>
  BY <1>1, <1>4, <1>5, <1>6
<1>8. ByteAt(i, x) \in Nat \X Nat /\ ByteAt(i, x)[1] = b[k]
  BY <1>7
<1> QED
  BY <1>7, <1>8 DEF b

\* No inode has more blocks than it can name.
LEMMA BlocksFit ==
  ASSUME inodes \in Inodes, NEW i \in 0..(inode_count - 1)
  PROVE  node(i).length \div FOURKB <= DATB_SIZE
<1> DEFINE l == node(i).length
           n == Len(node(i).data_block_num)
           q == l \div FOURKB
<1>1. l \in Nat /\ n \in Nat /\ n <= DATB_SIZE /\ l <= FOURKB * n
      /\ FOURKB \in Nat \ {0} /\ DATB_SIZE \in Nat
  BY NodeFacts, FilesAssumption
<1> HIDE DEF l, n
<1>2. q \in Nat /\ l % FOURKB \in 0..(FOURKB - 1) /\ l = q * FOURKB + (l % FOURKB)
  BY <1>1, BlockOfByte
<1> DEFINE r == l % FOURKB
<1> HIDE DEF q, r
<1>3. q <= n
  <2> SUFFICES ASSUME q >= n + 1 PROVE FALSE
    BY <1>1, <1>2
  <2>1. q * FOURKB >= (n + 1) * FOURKB
    BY <1>1, <1>2
  <2>2. (n + 1) * FOURKB = FOURKB * n + FOURKB
    BY <1>1
  <2> QED
    BY <1>1, <1>2, <2>1, <2>2 DEF r
<1> QED
  BY <1>1, <1>2, <1>3 DEF q, l

\* What a read of length bytes from offset on hands over.
ReadOf(i, offset, length, r) ==
  /\ r.ret \in Int /\ r.data \in Seq(Nat \X Nat)
  /\ r.ret >= 0 => Len(r.data) = r.ret
  /\ \A k \in 1..Len(r.data) : r.data[k] = ByteAt(i, offset + k - 1)
  /\ Healthy(i) /\ offset \in 0..node(i).length =>
       r.ret = Least(length, node(i).length - offset)

\* What read_data returns: the bytes from offset on, all of them that were asked
\* for and that the file has, unless the image is broken or the offset is not
\* in the file.
LEMMA ReadFacts ==
  ASSUME inodes \in Inodes, NEW i \in 0..(inode_count - 1), NEW offset \in Int,
         NEW length \in Nat, NEW r, r = ReadData(i, offset, length)
  PROVE  ReadOf(i, offset, length, r)
<1> USE DEF ReadOf
<1> DEFINE size == node(i).length
           n == ToRead(i, offset, length)
           bytes == [k \in 1..n |-> ByteAt(i, offset + k - 1)]
           bad == \E k \in 1..n : bytes[k][1] > data_count
<1>1. size \in Nat /\ inode_count \in Nat /\ data_count \in Nat
  BY NodeFacts, FilesAssumption
<1>2. <<>> \in Seq(Nat \X Nat) /\ Len(<<>>) = 0
  OBVIOUS
<1>3. CASE length = 0
  <2>1. r = Nothing
    BY <1>3 DEF ReadData
  <2>2. r.ret = 0 /\ r.data = <<>>
    BY <2>1 DEF Nothing
  <2>3. offset \in 0..size => Least(length, size - offset) = 0
    BY <1>1, <1>3 DEF Least
  <2> QED
    BY <1>2, <2>2, <2>3
<1>4. CASE length # 0 /\ (offset < 0 \/ offset > size)
  <2>1. r = Failed
    BY <1>4 DEF ReadData
  <2>2. r.ret = -1 /\ r.data = <<>>
    BY <2>1 DEF Failed
  <2> QED
    BY <1>1, <1>2, <1>4, <2>2
<1>5. CASE length # 0 /\ offset = size
  <2>1. r = Nothing
    BY <1>1, <1>5 DEF ReadData
  <2>2. r.ret = 0 /\ r.data = <<>>
    BY <2>1 DEF Nothing
  <2>3. Least(length, size - offset) = 0
    BY <1>1, <1>5 DEF Least
  <2> QED
    BY <1>2, <2>2, <2>3
<1>6. CASE length # 0 /\ offset >= 0 /\ offset < size
  <2>1. /\ n = Least(length, size - offset) /\ n \in Nat /\ n + offset <= size
    BY <1>1, <1>6 DEF ToRead, Least
  <2>2. r = IF bad THEN Failed ELSE [ret |-> n, data |-> bytes]
    <3>1. ~(size \div FOURKB > DATB_SIZE)
      <4>1. size \div FOURKB <= DATB_SIZE
        BY BlocksFit
      <4>2. size \div FOURKB \in Nat /\ DATB_SIZE \in Nat
        BY <1>1, FilesAssumption, BlockOfByte
      <4> QED
        BY <4>1, <4>2
    <3>2. ~(offset < 0 \/ offset > size) /\ offset # size
      BY <1>1, <1>6
    <3> QED
      BY <1>6, <3>1, <3>2 DEF ReadData
  <2> HIDE DEF n
  <2>3. ASSUME NEW k \in 1..n
        PROVE  /\ bytes[k] = ByteAt(i, offset + k - 1) /\ bytes[k] \in Nat \X Nat
               /\ \E j \in 1..Len(node(i).data_block_num) :
                    bytes[k][1] = node(i).data_block_num[j]
    <3> DEFINE x == offset + k - 1
    <3>1. x \in Nat /\ x < size
      BY <1>1, <1>6, <2>1
    <3>2. bytes[k] = ByteAt(i, x)
      OBVIOUS
    <3> HIDE DEF x, bytes
    <3>3. /\ ByteAt(i, x) \in Nat \X Nat
          /\ \E j \in 1..Len(node(i).data_block_num) :
               ByteAt(i, x)[1] = node(i).data_block_num[j]
      BY <3>1, ByteAtType
    <3> QED
      BY <3>2, <3>3 DEF x
  <2>4. bytes = [k \in 1..n |-> bytes[k]]
    OBVIOUS
  <2> HIDE DEF bytes
  <2>5. bytes \in Seq(Nat \X Nat) /\ Len(bytes) = n
    BY <2>1, <2>3, <2>4, FunctionIsSeq
  <2>6. CASE bad
    <3>1. PICK k \in 1..n : bytes[k][1] > data_count
      BY <2>6
    <3>2. PICK j \in 1..Len(node(i).data_block_num) :
            bytes[k][1] = node(i).data_block_num[j]
      BY <2>3
    <3>3. node(i).data_block_num[j] \in Nat
      BY NodeFacts, ElementOfSeq
    <3>4. ~Healthy(i)
      BY <1>1, <3>1, <3>2, <3>3 DEF Healthy
    <3>5. r.ret = -1 /\ r.data = <<>>
      BY <2>2, <2>6 DEF Failed
    <3> QED
      BY <1>2, <3>4, <3>5
  <2>7. CASE ~bad
    <3>1. r.ret = n /\ r.data = bytes
      BY <2>2, <2>7
    <3> QED
      BY <2>1, <2>3, <2>5, <3>1
  <2> QED
    BY <2>6, <2>7
<1> QED
  BY <1>1, <1>3, <1>4, <1>5, <1>6

\* The beginning of a file and what follows it make a longer beginning.
LEMMA ReadOn ==
  ASSUME inodes \in Inodes, NEW i \in 0..(inode_count - 1), NEW o \in Seq(Items),
         NEW d \in Seq(Nat \X Nat), BeginningOf(i, o), Len(o) + Len(d) <= node(i).length,
         \A k \in 1..Len(d) : d[k] = ByteAt(i, Len(o) + k - 1)
  PROVE  Len(o \o d) = Len(o) + Len(d) /\ BeginningOf(i, o \o d)
<1>1. Len(o) \in Nat /\ Len(d) \in Nat /\ node(i).length \in Nat /\ d \in Seq(Items)
  BY NodeFacts DEF Items
<1>2. /\ Len(o \o d) = Len(o) + Len(d)
      /\ \A k \in 1..(Len(o) + Len(d)) :
           (o \o d)[k] = IF k <= Len(o) THEN o[k] ELSE d[k - Len(o)]
  BY <1>1, ConcatProperties
<1>3. ASSUME NEW k \in 1..(Len(o) + Len(d)) PROVE (o \o d)[k] = ByteAt(i, k - 1)
  <2>1. CASE k <= Len(o)
    <3>1. k \in 1..Len(o)
      BY <1>1, <2>1
    <3>2. o[k] = ByteAt(i, k - 1)
      BY <3>1 DEF BeginningOf
    <3>3. (o \o d)[k] = o[k]
      BY <1>2, <2>1
    <3> QED
      BY <3>2, <3>3
  <2>2. CASE ~(k <= Len(o))
    <3> DEFINE m == k - Len(o)
    <3>1. m \in 1..Len(d) /\ Len(o) + m - 1 = k - 1
      BY <1>1, <2>2
    <3>2. (o \o d)[k] = d[m]
      BY <1>2, <2>2
    <3> HIDE DEF m
    <3>3. d[m] = ByteAt(i, Len(o) + m - 1)
      BY <3>1
    <3> QED
      BY <3>1, <3>2, <3>3
  <2> QED
    BY <2>1, <2>2
<1> QED
  BY <1>2, <1>3 DEF BeginningOf

\* What file_read finds and leaves, apart from the read itself.
LEMMA FileReadIs ==
  ASSUME FilesInv, NEW fd \in Fds, NEW nbytes \in Nat, FileRead(fd, nbytes)
  PROVE  LET g == file_des_array[fd]
             r == ReadData(g.inode, g.file_position, nbytes)
         IN /\ ~(fd < 2) /\ g.flags = 1 /\ g.op_table = "txt"
            /\ EntryOK(g, out[fd]) /\ g \in Entries /\ out[fd] \in Seq(Items)
            /\ inodes \in Inodes /\ g.inode \in 0..(inode_count - 1) /\ g.file_position \in Int
            /\ r.ret \in Int /\ r.data \in Seq(Nat \X Nat)
            /\ r.ret >= 0 => Len(r.data) = r.ret
            /\ \A k \in 1..Len(r.data) :
                 r.data[k] = ByteAt(g.inode, g.file_position + k - 1)
            /\ Healthy(g.inode) =>
                 /\ g.file_position = Len(out[fd]) /\ BeginningOf(g.inode, out[fd])
                 /\ r.ret = Least(nbytes, node(g.inode).length - g.file_position)
                 /\ r.ret >= 0 /\ Len(out[fd]) + r.ret <= node(g.inode).length
            /\ inodes' = inodes
            /\ file_des_array' = [file_des_array EXCEPT ![fd] =
                 [g EXCEPT !.file_position = g.file_position + r.ret]]
            /\ out' = [out EXCEPT ![fd] = IF r.ret < 0 THEN <<>> ELSE out[fd] \o r.data]
<1> DEFINE table == file_des_array[fd]
<1>1. PICK g : g = table
  OBVIOUS
<1>2. PICK r : r = ReadData(g.inode, g.file_position, nbytes)
  OBVIOUS
<1>3. /\ g.flags = 1 /\ g.op_table = "txt" /\ inodes' = inodes /\ inodes \in Inodes
      /\ file_des_array' = [file_des_array EXCEPT ![fd].file_position = NextPosition(fd, r.ret)]
      /\ out' = [out EXCEPT ![fd] = IF r.ret < 0 THEN <<>> ELSE @ \o r.data]
  BY <1>1, <1>2 DEF FileRead, Present, Move, FilesInv
<1>4. EntryOK(g, out[fd]) /\ (fd < 2 => g.op_table = "std")
  BY <1>1 DEF FilesInv, StandardStreams, Fds
<1>5. ~(fd < 2)
  BY <1>3, <1>4
<1>6. /\ file_des_array' = [file_des_array EXCEPT ![fd] =
            [g EXCEPT !.file_position = g.file_position + r.ret]]
      /\ out' = [out EXCEPT ![fd] = IF r.ret < 0 THEN <<>> ELSE out[fd] \o r.data]
  BY <1>1, <1>3 DEF NextPosition
<1>7. /\ g \in Entries /\ out[fd] \in Seq(Items) /\ g.inode \in 0..(inode_count - 1)
      /\ g.file_position \in Int
  BY <1>3, <1>4 DEF EntryOK, Entries
<1>8. /\ r.ret \in Int /\ r.data \in Seq(Nat \X Nat)
      /\ r.ret >= 0 => Len(r.data) = r.ret
      /\ \A k \in 1..Len(r.data) : r.data[k] = ByteAt(g.inode, g.file_position + k - 1)
      /\ Healthy(g.inode) /\ g.file_position \in 0..node(g.inode).length =>
           r.ret = Least(nbytes, node(g.inode).length - g.file_position)
  <2> DEFINE i == g.inode
             offset == g.file_position
  <2>1. /\ inodes \in Inodes /\ i \in 0..(inode_count - 1) /\ offset \in Int
        /\ nbytes \in Nat /\ r = ReadData(i, offset, nbytes)
    BY <1>2, <1>3, <1>7
  <2> HIDE DEF i, offset
  <2>2. ReadOf(i, offset, nbytes, r)
    BY <2>1, ReadFacts
  <2> QED
    BY <2>2 DEF ReadOf, i, offset
<1>9. ASSUME Healthy(g.inode)
      PROVE  /\ g.file_position = Len(out[fd]) /\ BeginningOf(g.inode, out[fd])
             /\ r.ret = Least(nbytes, node(g.inode).length - g.file_position)
             /\ r.ret >= 0 /\ Len(out[fd]) + r.ret <= node(g.inode).length
  <2>1. g.file_position = Len(out[fd]) /\ BeginningOf(g.inode, out[fd])
    BY <1>3, <1>4, <1>9 DEF EntryOK
  <2>2. /\ Len(out[fd]) \in Nat /\ node(g.inode).length \in Nat
        /\ Len(out[fd]) <= node(g.inode).length
    BY <1>3, <1>7, <2>1, NodeFacts DEF BeginningOf
  <2>3. r.ret = Least(nbytes, node(g.inode).length - g.file_position)
    BY <1>8, <1>9, <2>1, <2>2
  <2>4. r.ret >= 0 /\ Len(out[fd]) + r.ret <= node(g.inode).length
    BY <2>1, <2>2, <2>3 DEF Least
  <2> QED
    BY <2>1, <2>3, <2>4
<1>10. /\ g.flags = 1 /\ g.op_table = "txt"
       /\ EntryOK(g, out[fd]) /\ inodes \in Inodes /\ inodes' = inodes
  BY <1>3, <1>4
<1> HIDE DEF table
<1>11. table.inode = g.inode /\ ReadData(table.inode, table.file_position, nbytes) = r
  BY <1>1, <1>2
<1> QED
  BY <1>1, <1>5, <1>6, <1>7, <1>8, <1>9, <1>10, <1>11, Zenon DEF table

\* read of a regular file: what has been read stays the beginning of the file.
LEMMA StepFileRead ==
  ASSUME FilesInv, NEW fd \in Fds, NEW nbytes \in Nat, FileRead(fd, nbytes) PROVE FilesInv'
<1>1. PICK g : g = file_des_array[fd]
  OBVIOUS
<1>2. PICK r : r = ReadData(g.inode, g.file_position, nbytes)
  OBVIOUS
<1>3. /\ ~(fd < 2) /\ g.flags = 1 /\ g.op_table = "txt"
      /\ g \in Entries /\ out[fd] \in Seq(Items)
      /\ inodes \in Inodes /\ g.inode \in 0..(inode_count - 1) /\ g.file_position \in Int
      /\ r.ret \in Int /\ r.data \in Seq(Nat \X Nat)
      /\ r.ret >= 0 => Len(r.data) = r.ret
      /\ \A k \in 1..Len(r.data) : r.data[k] = ByteAt(g.inode, g.file_position + k - 1)
      /\ Healthy(g.inode) =>
           /\ g.file_position = Len(out[fd]) /\ BeginningOf(g.inode, out[fd])
           /\ r.ret >= 0 /\ Len(out[fd]) + r.ret <= node(g.inode).length
      /\ inodes' = inodes
      /\ file_des_array' = [file_des_array EXCEPT ![fd] =
           [g EXCEPT !.file_position = g.file_position + r.ret]]
      /\ out' = [out EXCEPT ![fd] = IF r.ret < 0 THEN <<>> ELSE out[fd] \o r.data]
  BY <1>1, <1>2, FileReadIs
<1>4. PICK f : f = [g EXCEPT !.file_position = g.file_position + r.ret]
  OBVIOUS
<1>5. PICK o : o = IF r.ret < 0 THEN <<>> ELSE out[fd] \o r.data
  OBVIOUS
<1>6. g.file_position + r.ret \in Int
  BY <1>3
<1>7. /\ f \in Entries /\ f.inode = g.inode /\ f.flags = 1 /\ f.op_table = "txt"
      /\ f.file_position = g.file_position + r.ret
  BY <1>3, <1>4, <1>6 DEF Entries
<1>8. o \in Seq(Items)
  <2>1. r.data \in Seq(Items)
    BY <1>3 DEF Items
  <2>2. out[fd] \o r.data \in Seq(Items) /\ <<>> \in Seq(Items)
    BY <1>3, <2>1, ConcatProperties
  <2> QED
    BY <1>5, <2>2
<1>9. ASSUME Healthy(g.inode) PROVE f.file_position = Len(o) /\ BeginningOf(g.inode, o)
  <2>1. /\ g.file_position = Len(out[fd]) /\ BeginningOf(g.inode, out[fd])
        /\ r.ret >= 0 /\ Len(out[fd]) + r.ret <= node(g.inode).length
        /\ Len(r.data) = r.ret
    BY <1>3, <1>9
  <2>2. ~(r.ret < 0)
    BY <1>3, <2>1
  <2>3. o = out[fd] \o r.data
    BY <1>5, <2>2
  <2>4. \A k \in 1..Len(r.data) : r.data[k] = ByteAt(g.inode, Len(out[fd]) + k - 1)
    BY <1>3, <2>1
  <2>5. Len(out[fd]) + Len(r.data) <= node(g.inode).length
    BY <2>1
  <2>6. Len(o) = Len(out[fd]) + Len(r.data) /\ BeginningOf(g.inode, o)
    BY <1>3, <2>1, <2>3, <2>4, <2>5, ReadOn
  <2> QED
    BY <1>7, <2>1, <2>6
<1>10. EntryOK(f, o)
  BY <1>3, <1>7, <1>8, <1>9 DEF EntryOK
<1> QED
  BY <1>3, <1>4, <1>5, <1>10, OneEntry

\* read of the directory: one more name, or nothing behind the last one.
LEMMA StepDirRead ==
  ASSUME FilesInv, NEW fd \in Fds, NEW nbytes \in Nat, DirRead(fd, nbytes) PROVE FilesInv'
<1>1. PICK g : g = file_des_array[fd]
  OBVIOUS
<1>2. PICK p : p = g.file_position
  OBVIOUS
<1>3. PICK name : name = NameAt(p)
  OBVIOUS
<1>4. PICK length : length = Least(Least(NAMELEN, nbytes), Len(name))
  OBVIOUS
<1>5. PICK item : item = IF length = 0 THEN <<>> ELSE <<SubSeq(name, 1, length)>>
  OBVIOUS
<1>6. /\ g.flags = 1 /\ g.op_table = "dir" /\ nbytes > 0 /\ p <= dir_count
      /\ inodes' = inodes
      /\ file_des_array' = [file_des_array EXCEPT ![fd].file_position = NextPosition(fd, 1)]
      /\ out' = [out EXCEPT ![fd] = IF 1 < 0 THEN <<>> ELSE @ \o item]
  BY <1>1, <1>2, <1>3, <1>4, <1>5 DEF DirRead, Present, Move
<1>7. EntryOK(g, out[fd]) /\ (fd < 2 => g.op_table = "std")
  BY <1>1 DEF FilesInv, StandardStreams, Fds
<1>8. PICK f : f = [g EXCEPT !.file_position = p + 1]
  OBVIOUS
<1>9. PICK o : o = out[fd]
  OBVIOUS
<1>10. /\ file_des_array' = [file_des_array EXCEPT ![fd] = f]
       /\ out' = [out EXCEPT ![fd] = o \o item]
  BY <1>1, <1>2, <1>6, <1>8, <1>9 DEF NextPosition
<1>11. /\ g \in Entries /\ o \in Seq(Items) /\ p \in 0..dir_count /\ dir_count \in Nat
       /\ Len(o) = p /\ NamesIn(o) /\ Len(o) \in Nat
  <2>1. /\ g \in Entries /\ o \in Seq(Items) /\ p \in 0..(dir_count + 1)
        /\ Len(o) = Least(p, dir_count) /\ NamesIn(o)
    BY <1>2, <1>6, <1>7, <1>9 DEF EntryOK
  <2>2. dir_count \in Nat
    BY ImageFacts
  <2> QED
    BY <1>6, <2>1, <2>2 DEF Least
<1>12. /\ f \in Entries /\ f.flags = 1 /\ f.op_table = "dir" /\ f.file_position = p + 1
       /\ p + 1 \in 0..(dir_count + 1)
  BY <1>6, <1>8, <1>11 DEF Entries
<1>13. /\ o \o item \in Seq(Items) /\ Len(o \o item) = Least(p + 1, dir_count)
       /\ NamesIn(o \o item)
  <2>1. CASE p < dir_count
    <3>1. p + 1 \in 1..dir_count /\ name = Dentries[p + 1].name
      BY <1>3, <1>11, <2>1 DEF NameAt
    <3>2. name \in Seq(STRING) /\ Len(name) \in 1..NAMELEN /\ NAMELEN \in Nat
      BY <3>1, ImageFacts
    <3>3. length \in 1..Len(name)
      BY <1>4, <1>6, <3>2 DEF Least
    <3>4. PICK x : x = SubSeq(name, 1, length)
      OBVIOUS
    <3>5. x \in Seq(STRING) /\ Len(x) = length
      <4>1. \A j \in 1..length : name[j] \in STRING
        BY <3>2, <3>3, ElementOfSeq
      <4> QED
        BY <3>2, <3>3, <3>4, <4>1, SubSeqProperties
    <3>6. length # 0 /\ x # <<>> /\ x \in Items
      BY <3>2, <3>3, <3>5 DEF Items
    <3>7. o \o item = Append(o, x)
      BY <1>5, <1>11, <3>4, <3>6, AppendIsConcat
    <3>8. /\ Append(o, x) \in Seq(Items) /\ Len(Append(o, x)) = p + 1
          /\ Append(o, x)[p + 1] = x
          /\ \A k \in 1..p : Append(o, x)[k] = o[k]
      BY <1>11, <3>6, AppendProperties
    <3>9. Least(p + 1, dir_count) = p + 1
      BY <1>11, <2>1 DEF Least
    <3>10. x = SubSeq(Dentries[p + 1].name, 1, Len(x))
      BY <3>1, <3>4, <3>5
    <3>11. ASSUME NEW k \in 1..(p + 1)
           PROVE  /\ Append(o, x)[k] = SubSeq(Dentries[k].name, 1, Len(Append(o, x)[k]))
                  /\ Append(o, x)[k] # <<>>
      <4>1. CASE k = p + 1
        BY <3>6, <3>8, <3>10, <4>1
      <4>2. CASE k # p + 1
        <5>1. k \in 1..p /\ k \in 1..Len(o)
          BY <1>11, <4>2
        <5>2. o[k] = SubSeq(Dentries[k].name, 1, Len(o[k])) /\ o[k] # <<>>
          BY <1>11, <5>1 DEF NamesIn
        <5> QED
          BY <3>8, <5>1, <5>2
      <4> QED
        BY <4>1, <4>2
    <3>12. NamesIn(Append(o, x))
      BY <3>8, <3>11 DEF NamesIn
    <3> QED
      BY <3>7, <3>8, <3>9, <3>12
  <2>2. CASE p = dir_count
    <3>1. name = <<>>
      BY <1>3, <1>11, <2>2 DEF NameAt
    <3>2. Len(name) = 0 /\ NAMELEN \in Nat /\ NAMELEN # 0
      BY <3>1, ImageFacts
    <3>3. length = 0
      BY <1>4, <1>6, <3>2 DEF Least
    <3>4. o \o item = o
      BY <1>5, <1>11, <3>3, ConcatEmptySeq
    <3> QED
      BY <1>11, <2>2, <3>4 DEF Least
  <2> QED
    BY <1>11, <2>1, <2>2
<1>14. EntryOK(f, o \o item)
  BY <1>12, <1>13 DEF EntryOK
<1>15. ~(fd < 2)
  BY <1>6, <1>7
<1> QED
  BY <1>6, <1>10, <1>14, <1>15, OneEntry

\* Every step.
LEMMA FilesStep == FilesInv /\ [Next]_vars => FilesInv'
<1> SUFFICES ASSUME FilesInv, [Next]_vars PROVE FilesInv'
  OBVIOUS
<1>1. CASE UNCHANGED vars
  <2>1. inodes' = inodes /\ file_des_array' = file_des_array /\ out' = out
    BY <1>1 DEF vars
  <2>2. ASSUME NEW fd \in Fds PROVE EntryOK(file_des_array[fd], out[fd])'
    <3>1. PICK f, o : f = file_des_array[fd] /\ o = out[fd]
      OBVIOUS
    <3>2. EntryOK(f, o)
      BY <3>1 DEF FilesInv
    <3>3. EntryOK(f, o)'
      BY <2>1, <3>2, EntryStays
    <3> QED
      BY <2>1, <3>1, <3>3
  <2> QED
    BY <2>1, <2>2 DEF FilesInv, StandardStreams, Present
<1>2. ASSUME NEW fd \in Fds, NEW n \in Sizes, FileRead(fd, n) \/ DirRead(fd, n) PROVE FilesInv'
  BY <1>2, StepFileRead, StepDirRead, FilesAssumption
<1>3. ASSUME NEW fd \in Fds, Close(fd) PROVE FilesInv'
  BY <1>3, StepClose
<1>4. ASSUME NEW fd \in Fds, NEW d \in 1..dir_count, Open(fd, d) PROVE FilesInv'
  BY <1>4, StepOpen
<1>5. CASE NewProgram
  BY <1>5, StepNewProgram
<1> QED
  BY <1>1, <1>2, <1>3, <1>4, <1>5 DEF Next

\* The invariant holds always.
LEMMA FilesInvariant == Spec => []FilesInv
BY FilesInit, FilesStep, PTL DEF Spec

-----------------------------------------------------------------------------
(* What it means for programs.                                             *)

\* The table of open files stays what the system calls take it for: a file that
\* is open has an inode of the image, and a directory a position up to one
\* behind its last entry (directory_read, filesystem.c:201).
THEOREM FilesTypes == Spec => []TypeOK
<1>1. FilesInv => TypeOK
  BY DEF FilesInv, EntryOK, Entries, TypeOK
<1> QED
  BY <1>1, FilesInvariant, PTL

\* Descriptors 0 and 1 are stdin and stdout of every program, whatever it and the
\* programs before it on the PCB open and close (syscall.c:397).
THEOREM StreamsStay == Spec => []StandardStreams
<1>1. FilesInv => StandardStreams
  BY DEF FilesInv
<1> QED
  BY <1>1, FilesInvariant, PTL

\* Reading the directory gives its names, each once and in order, and then
\* nothing, for any directory and any sizes that are asked for.
THEOREM DirectoryInOrder == Spec => []DirectoryListed
<1>1. FilesInv => DirectoryListed
  BY DEF FilesInv, EntryOK, NamesIn, DirectoryListed, Present
<1> QED
  BY <1>1, FilesInvariant, PTL

\* What a program has read of a file whose blocks exist is its beginning: the
\* blocks that the inode lists, joined, as far as file_position says.  It holds
\* for any image, any cut into reads and any other calls in between.
THEOREM ReadsFollowContents == Spec => []ReadsAreContents
<1>1. ASSUME FilesInv, NEW fd \in Fds, OpenText(fd)
      PROVE  /\ file_des_array[fd].file_position = Len(out[fd])
             /\ out[fd] = SubSeq(Contents(file_des_array[fd].inode), 1,
                                 file_des_array[fd].file_position)
  <2>1. PICK i, p, o : /\ i = file_des_array[fd].inode /\ p = file_des_array[fd].file_position
                       /\ o = out[fd]
    OBVIOUS
  <2>2. /\ inodes \in Inodes /\ i \in 0..(inode_count - 1) /\ o \in Seq(Items)
        /\ p = Len(o) /\ BeginningOf(i, o)
    BY <1>1, <2>1 DEF FilesInv, EntryOK, OpenText, Present
  <2>3. PICK c : c = Contents(i)
    OBVIOUS
  <2>4. /\ c \in Seq(Nat \X Nat) /\ Len(c) = node(i).length /\ Len(c) \in Nat
        /\ \A j \in 1..Len(c) : c[j] = ByteAt(i, j - 1)
    BY <2>2, <2>3, ContentsAre, NodeFacts
  <2>5. p \in Nat /\ p <= Len(c)
    BY <2>2, <2>4 DEF BeginningOf
  <2>6. \A j \in 1..p : j \in 1..Len(c) /\ c[j] \in Nat \X Nat
    BY <2>4, <2>5, ElementOfSeq
  <2>7. /\ SubSeq(c, 1, p) \in Seq(Nat \X Nat) /\ Len(SubSeq(c, 1, p)) = p
        /\ \A j \in 1..p : SubSeq(c, 1, p)[j] = c[j]
    BY <2>4, <2>5, <2>6, SubSeqProperties
  <2>8. \A j \in 1..p : o[j] = SubSeq(c, 1, p)[j]
    BY <2>2, <2>4, <2>6, <2>7 DEF BeginningOf
  <2>9. SubSeq(c, 1, p) \in Seq(Items)
    BY <2>7 DEF Items
  <2>10. o = SubSeq(c, 1, p)
    BY <2>2, <2>7, <2>8, <2>9, SeqEqual
  <2> QED
    BY <2>1, <2>2, <2>3, <2>10
<1>2. FilesInv => ReadsAreContents
  BY <1>1 DEF ReadsAreContents
<1> QED
  BY <1>2, FilesInvariant, PTL

\* A read returns all that was asked for unless the file ends first, across the
\* boundaries of blocks (filesystem.c:283), for any size of blocks.
THEOREM ReadsComplete == Spec => ReadsAreFull
<1> DEFINE Full == \A fd \in Fds, n \in Sizes :
             FileRead(fd, n) /\ OpenText(fd) =>
               Len(out'[fd]) = Least(Len(out[fd]) + n, node(file_des_array[fd].inode).length)
<1>1. ASSUME FilesInv, NEW fd \in Fds, NEW n \in Sizes, FileRead(fd, n), OpenText(fd)
      PROVE  Len(out'[fd]) = Least(Len(out[fd]) + n, node(file_des_array[fd].inode).length)
  <2>1. PICK g : g = file_des_array[fd]
    OBVIOUS
  <2>2. PICK r : r = ReadData(g.inode, g.file_position, n)
    OBVIOUS
  <2>3. PICK i, o : i = g.inode /\ o = out[fd]
    OBVIOUS
  <2>4. /\ n \in Nat /\ Healthy(i)
    BY <1>1, <2>1, <2>3, FilesAssumption DEF OpenText
  <2>5. /\ o \in Seq(Items) /\ inodes \in Inodes /\ i \in 0..(inode_count - 1)
        /\ r.ret \in Int /\ r.data \in Seq(Nat \X Nat)
        /\ r.ret >= 0 => Len(r.data) = r.ret
        /\ r.ret >= 0 /\ Len(o) + r.ret <= node(i).length
        /\ g.file_position = Len(o) /\ r.ret = Least(n, node(i).length - g.file_position)
        /\ out' = [out EXCEPT ![fd] = IF r.ret < 0 THEN <<>> ELSE out[fd] \o r.data]
    BY <1>1, <2>1, <2>2, <2>3, <2>4, FileReadIs
  <2>6. out'[fd] = o \o r.data
    BY <1>1, <2>3, <2>5 DEF FilesInv
  <2>7. /\ Len(o) \in Nat /\ node(i).length \in Nat /\ Len(r.data) = r.ret
        /\ r.data \in Seq(Items)
    BY <2>5, NodeFacts DEF Items
  <2>8. Len(o \o r.data) = Len(o) + r.ret
    BY <2>5, <2>7, ConcatProperties
  <2>9. Len(o) + r.ret = Least(Len(o) + n, node(i).length)
    BY <2>4, <2>5, <2>7 DEF Least
  <2> QED
    BY <2>1, <2>3, <2>6, <2>8, <2>9
<1>2. FilesInv /\ [Next]_vars => [Full]_vars
  BY <1>1
<1>3. Spec => [][Full]_vars
  <2> HIDE DEF Full
  <2> QED
    BY <1>2, FilesInvariant, PTL DEF Spec
<1> QED
  BY <1>3 DEF ReadsAreFull
=============================================================================
