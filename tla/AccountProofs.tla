---------------------------- MODULE AccountProofs ----------------------------
(***************************************************************************)
(* Proofs about the parts that keep accounts: the file system, of blocks,  *)
(* inodes and descriptors, the graphics driver, of video memory, the path  *)
(* of input events, of events and interrupts.  Some accounts are compared  *)
(* with a sum over a set, so the module starts with what sums are.         *)
(***************************************************************************)
EXTENDS FileSystem, VideoMemory, InputPath, FiniteSetTheorems, TLAPS

-----------------------------------------------------------------------------
(* Sums. *)

(* A nonempty set of subsets of a finite set has a smallest one: what       *)
(* takes the place of induction over finite sets.                           *)
LEMMA SmallestSubset ==
    ASSUME NEW S, IsFiniteSet(S), NEW B \in SUBSET SUBSET S, B # {}
    PROVE  \E T \in B : \A U \in B : U \subseteq T => U = T
  <1>1. IsWellFoundedOn(StrictSubsetOrdering(S), SUBSET S)
    BY FS_StrictSubsetOrderingWellFounded, FS_FiniteSubsetsOfFinite
  <1>2. PICK T \in B : \A U \in B : ~ (<<U, T>> \in StrictSubsetOrdering(S))
    BY <1>1, WFMin
  <1>3. \A U \in B : U \subseteq T => U = T
    BY <1>2 DEF StrictSubsetOrdering
  <1> QED
    BY <1>2, <1>3

(* The element a sum takes next, and what it makes of the sums g of the     *)
(* smaller sets.                                                            *)
Pick(s) == CHOOSE x \in s : TRUE

Step(f, S, g) ==
    [s \in SUBSET S |-> IF s = {} THEN 0 ELSE f[Pick(s)] + g[s \ {Pick(s)}]]

LEMMA PickOne == ASSUME NEW s, s # {} PROVE Pick(s) \in s
  BY DEF Pick

(* Two functions that are sums agree where both are defined. *)
LEMMA SumsAgree ==
    ASSUME NEW f, NEW A, IsFiniteSet(A), NEW C, NEW g, NEW h,
           g = Step(f, A, g), h = Step(f, C, h)
    PROVE  \A s \in SUBSET A : s \in SUBSET C => g[s] = h[s]
  <1> DEFINE B == {s \in SUBSET A : s \in SUBSET C /\ g[s] # h[s]}
  <1>1. ASSUME B # {} PROVE FALSE
    <2>1. PICK s \in B : \A u \in B : u \subseteq s => u = s
      <3>1. B \in SUBSET SUBSET A
        OBVIOUS
      <3> HIDE DEF B
      <3> QED
        BY <3>1, <1>1, SmallestSubset
    <2>2. s # {}
      BY DEF Step
    <2> DEFINE x == Pick(s)
               u == s \ {x}
    <2>3. x \in s
      BY <2>2, PickOne
    <2>4. u \in SUBSET A /\ u \in SUBSET C /\ u # s /\ u \subseteq s
      BY <2>3
    <2>5. g[u] = h[u]
      BY <2>1, <2>4
    <2>6. g[s] = f[x] + g[u] /\ h[s] = f[x] + h[u]
      BY <2>2 DEF Step
    <2> QED
      BY <2>5, <2>6
  <1> QED
    BY <1>1

(* There is a function that is the sum of every subset of a finite set. *)
LEMMA SumExists ==
    ASSUME NEW f, NEW S, IsFiniteSet(S)
    PROVE  \E g : g = Step(f, S, g)
  <1> DEFINE B == {T \in SUBSET S : ~ \E g : g = Step(f, T, g)}
  <1>1. ASSUME B # {} PROVE FALSE
    <2>1. PICK T \in B : \A U \in B : U \subseteq T => U = T
      <3>1. B \in SUBSET SUBSET S
        OBVIOUS
      <3> HIDE DEF B
      <3> QED
        BY <3>1, <1>1, SmallestSubset
    <2> DEFINE Sum(U) == CHOOSE g : g = Step(f, U, g)
               smaller(s) == s \ {Pick(s)}
               G == [s \in SUBSET T |->
                       IF s = {} THEN 0
                       ELSE f[Pick(s)] + Sum(smaller(s))[smaller(s)]]
    <2>2. \A U \in SUBSET T : U # T => Sum(U) = Step(f, U, Sum(U))
      <3> TAKE U \in SUBSET T
      <3> HAVE U # T
      <3>1. \E g : g = Step(f, U, g)
        BY <2>1
      <3> QED
        BY <3>1
    <2>3. \A s \in SUBSET T : s # {} => smaller(s) \in SUBSET T /\ smaller(s) # T
      BY PickOne
    <2>4. \A U \in SUBSET T : U # T => Sum(U)[U] = G[U]
      <3> TAKE U \in SUBSET T
      <3> HAVE U # T
      <3>1. Sum(U) = Step(f, U, Sum(U))
        BY <2>2
      <3>2. CASE U = {}
        <4>1. Step(f, U, Sum(U))[U] = 0
          BY <3>2 DEF Step
        <4>2. G[U] = 0
          BY <3>2
        <4> QED
          BY <3>1, <4>1, <4>2
      <3>3. CASE U # {}
        <4> DEFINE V == smaller(U)
        <4>1. Pick(U) \in U /\ V \in SUBSET U /\ V \in SUBSET T /\ V # T
          BY <3>3, PickOne
        <4>2. Step(f, U, Sum(U))[U] = f[Pick(U)] + Sum(U)[V]
          BY <3>3 DEF Step
        <4>3. Sum(V) = Step(f, V, Sum(V))
          BY <4>1, <2>2
        <4>4. IsFiniteSet(U)
          BY FS_Subset
        <4>5. Sum(U)[V] = Sum(V)[V]
          <5> HIDE DEF Sum, V
          <5> QED
            BY <3>1, <4>1, <4>3, <4>4, SumsAgree
        <4>6. G[U] = f[Pick(U)] + Sum(V)[V]
          BY <3>3
        <4> QED
          BY <3>1, <4>2, <4>5, <4>6
      <3> QED
        BY <3>2, <3>3
    <2>5. G = Step(f, T, G)
      <3>1. \A s \in SUBSET T : s # {} =>
              G[s] = f[Pick(s)] + Sum(smaller(s))[smaller(s)]
        OBVIOUS
      <3>2. \A s \in SUBSET T : s # {} => G[s] = f[Pick(s)] + G[smaller(s)]
        <4> HIDE DEF G, Sum, smaller
        <4> QED
          BY <2>3, <2>4, <3>1
      <3>3. \A s \in SUBSET T : s # {} => G[s] = f[Pick(s)] + G[s \ {Pick(s)}]
        BY <3>2
      <3>4. {} \in SUBSET T => G[{}] = 0
        OBVIOUS
      <3>5. G = [s \in SUBSET T |-> G[s]]
        OBVIOUS
      <3> HIDE DEF G
      <3> QED
        BY <3>3, <3>4, <3>5 DEF Step
    <2> QED
      BY <2>1, <2>5
  <1>2. S \notin B
    BY <1>1
  <1> QED
    BY <1>2

(* The sum of f over S, taken apart as its definition does. *)
Total(f, S) == SumFunctionOnSet(f, S)

LEMMA TotalIsSum ==
    ASSUME NEW f, NEW S, IsFiniteSet(S)
    PROVE  \E g : g = Step(f, S, g) /\ Total(f, S) = g[S]
  <1> DEFINE It == CHOOSE g : g = Step(f, S, g)
  <1>1. Total(f, S) = It[S]
    BY DEF Total, SumFunctionOnSet, FoldFunctionOnSet, MapThenFoldSet, Step, Pick
  <1>2. It = Step(f, S, It)
    BY SumExists
  <1> QED
    BY <1>1, <1>2

LEMMA TotalEmpty == ASSUME NEW f PROVE Total(f, {}) = 0
  <1>1. IsFiniteSet({})
    BY FS_EmptySet
  <1> QED
    BY <1>1, TotalIsSum DEF Step

LEMMA TotalStep ==
    ASSUME NEW f, NEW S, IsFiniteSet(S), S # {}
    PROVE  Total(f, S) = f[Pick(S)] + Total(f, S \ {Pick(S)})
  <1> DEFINE U == S \ {Pick(S)}
  <1>1. PICK g : g = Step(f, S, g) /\ Total(f, S) = g[S]
    BY TotalIsSum
  <1>2. U \in SUBSET S /\ IsFiniteSet(U)
    BY FS_Subset
  <1>3. PICK h : h = Step(f, U, h) /\ Total(f, U) = h[U]
    BY <1>2, TotalIsSum
  <1>4. g[S] = f[Pick(S)] + g[U]
    BY <1>1 DEF Step
  <1>5. g[U] = h[U]
    <2> HIDE DEF U
    <2> QED
      BY <1>1, <1>2, <1>3, SumsAgree
  <1> QED
    BY <1>1, <1>3, <1>4, <1>5

(* Sums of integers are integers. *)
LEMMA TotalType ==
    ASSUME NEW f, NEW S, IsFiniteSet(S), \A x \in S : f[x] \in Int
    PROVE  \A T \in SUBSET S : Total(f, T) \in Int
  <1> DEFINE B == {T \in SUBSET S : Total(f, T) \notin Int}
  <1>1. ASSUME B # {} PROVE FALSE
    <2>1. PICK T \in B : \A U \in B : U \subseteq T => U = T
      <3>1. B \in SUBSET SUBSET S
        OBVIOUS
      <3> HIDE DEF B
      <3> QED
        BY <3>1, <1>1, SmallestSubset
    <2>2. T # {}
      BY TotalEmpty
    <2> DEFINE U == T \ {Pick(T)}
    <2>3. Pick(T) \in T /\ U \in SUBSET S /\ U # T /\ IsFiniteSet(T)
      BY <2>2, PickOne, FS_Subset
    <2>4. Total(f, U) \in Int
      BY <2>1, <2>3
    <2>5. Total(f, T) = f[Pick(T)] + Total(f, U)
      BY <2>2, <2>3, TotalStep
    <2> QED
      BY <2>1, <2>3, <2>4, <2>5
  <1> QED
    BY <1>1

(* A sum of numbers that are not negative is not negative. *)
LEMMA SumNotNegative ==
    ASSUME NEW f, NEW S, IsFiniteSet(S), \A x \in S : f[x] \in Nat
    PROVE  Total(f, S) \in Nat
  <1> DEFINE B == {T \in SUBSET S : Total(f, T) \notin Nat}
  <1>1. ASSUME B # {} PROVE FALSE
    <2>1. PICK T \in B : \A U \in B : U \subseteq T => U = T
      <3>1. B \in SUBSET SUBSET S
        OBVIOUS
      <3> HIDE DEF B
      <3> QED
        BY <3>1, <1>1, SmallestSubset
    <2>2. T # {}
      BY TotalEmpty
    <2> DEFINE U == T \ {Pick(T)}
    <2>3. Pick(T) \in T /\ U \in SUBSET S /\ U # T /\ IsFiniteSet(T)
      BY <2>2, PickOne, FS_Subset
    <2>4. Total(f, U) \in Nat
      BY <2>1, <2>3
    <2>5. Total(f, T) = f[Pick(T)] + Total(f, U)
      BY <2>2, <2>3, TotalStep
    <2> QED
      BY <2>1, <2>3, <2>4, <2>5
  <1> QED
    BY <1>1

(* Nothing adds up to nothing. *)
LEMMA TotalZero ==
    ASSUME NEW f, NEW S, IsFiniteSet(S), \A x \in S : f[x] = 0
    PROVE  Total(f, S) = 0
  <1> DEFINE B == {T \in SUBSET S : Total(f, T) # 0}
  <1>1. ASSUME B # {} PROVE FALSE
    <2>1. PICK T \in B : \A U \in B : U \subseteq T => U = T
      <3>1. B \in SUBSET SUBSET S
        OBVIOUS
      <3> HIDE DEF B
      <3> QED
        BY <3>1, <1>1, SmallestSubset
    <2>2. T # {}
      BY TotalEmpty
    <2> DEFINE U == T \ {Pick(T)}
    <2>3. Pick(T) \in T /\ U \in SUBSET S /\ U # T /\ IsFiniteSet(T)
      BY <2>2, PickOne, FS_Subset
    <2>4. Total(f, U) = 0
      BY <2>1, <2>3
    <2>5. Total(f, T) = f[Pick(T)] + Total(f, U)
      BY <2>2, <2>3, TotalStep
    <2> QED
      BY <2>1, <2>3, <2>4, <2>5
  <1> QED
    BY <1>1

(* Any element can be taken first. *)
LEMMA TotalTakeOut ==
    ASSUME NEW f, NEW S, IsFiniteSet(S), \A x \in S : f[x] \in Int
    PROVE  \A T \in SUBSET S : \A x \in T : Total(f, T) = f[x] + Total(f, T \ {x})
  <1> DEFINE B == {T \in SUBSET S :
                     \E x \in T : Total(f, T) # f[x] + Total(f, T \ {x})}
  <1>1. ASSUME B # {} PROVE FALSE
    <2>1. PICK T \in B : \A U \in B : U \subseteq T => U = T
      <3>1. B \in SUBSET SUBSET S
        OBVIOUS
      <3> HIDE DEF B
      <3> QED
        BY <3>1, <1>1, SmallestSubset
    <2>2. PICK x \in T : Total(f, T) # f[x] + Total(f, T \ {x})
      BY <2>1
    <2> DEFINE c == Pick(T)
    <2>3. c \in T /\ IsFiniteSet(T) /\ T \in SUBSET S
      BY PickOne, FS_Subset
    <2>4. Total(f, T) = f[c] + Total(f, T \ {c})
      BY <2>3, TotalStep
    <2>5. c # x
      BY <2>2, <2>4
    <2> HIDE DEF c
    <2> DEFINE U == T \ {c}
               V == T \ {x}
               W == T \ {c, x}
    <2>6. /\ U \in SUBSET S /\ U # T /\ U \subseteq T /\ x \in U /\ U \ {x} = W
          /\ V \in SUBSET S /\ V # T /\ V \subseteq T /\ c \in V /\ V \ {c} = W
          /\ W \in SUBSET S
      BY <2>3, <2>5
    <2>7. Total(f, U) = f[x] + Total(f, U \ {x}) /\ Total(f, V) = f[c] + Total(f, V \ {c})
      BY <2>1, <2>6
    <2>8. Total(f, W) \in Int /\ f[x] \in Int /\ f[c] \in Int
      BY <2>3, <2>6, TotalType
    <2>9. Total(f, T) = f[c] + (f[x] + Total(f, W)) /\ Total(f, V) = f[c] + Total(f, W)
      BY <2>4, <2>6, <2>7
    <2>10. Total(f, T) = f[x] + Total(f, V)
      <3> HIDE DEF U, V, W
      <3> QED
        BY <2>8, <2>9
    <2> QED
      BY <2>2, <2>10
  <1> QED
    BY <1>1

(* Sums of the same values are the same. *)
LEMMA TotalSame ==
    ASSUME NEW f, NEW g, NEW S, IsFiniteSet(S), \A x \in S : f[x] = g[x]
    PROVE  Total(f, S) = Total(g, S)
  <1> DEFINE B == {T \in SUBSET S : Total(f, T) # Total(g, T)}
  <1>1. ASSUME B # {} PROVE FALSE
    <2>1. PICK T \in B : \A U \in B : U \subseteq T => U = T
      <3>1. B \in SUBSET SUBSET S
        OBVIOUS
      <3> HIDE DEF B
      <3> QED
        BY <3>1, <1>1, SmallestSubset
    <2>2. T # {}
      BY TotalEmpty
    <2> DEFINE U == T \ {Pick(T)}
    <2>3. Pick(T) \in T /\ U \in SUBSET S /\ U # T /\ IsFiniteSet(T)
      BY <2>2, PickOne, FS_Subset
    <2>4. Total(f, U) = Total(g, U)
      BY <2>1, <2>3
    <2>5. Total(f, T) = f[Pick(T)] + Total(f, U) /\ Total(g, T) = g[Pick(T)] + Total(g, U)
      BY <2>2, <2>3, TotalStep
    <2> QED
      BY <2>1, <2>3, <2>4, <2>5
  <1> QED
    BY <1>1

(* The two facts the accounts use: one more element, and one value changed. *)
LEMMA TotalAdd ==
    ASSUME NEW f, NEW S, IsFiniteSet(S), NEW x, x \notin S,
           \A y \in S \cup {x} : f[y] \in Int
    PROVE  Total(f, S \cup {x}) = f[x] + Total(f, S)
  <1>1. IsFiniteSet(S \cup {x}) /\ (S \cup {x}) \ {x} = S
    BY FS_AddElement
  <1> QED
    BY <1>1, TotalTakeOut

LEMMA TotalChange ==
    ASSUME NEW f, NEW g, NEW S, IsFiniteSet(S), NEW x \in S,
           \A y \in S : f[y] \in Int /\ g[y] \in Int,
           \A y \in S \ {x} : f[y] = g[y]
    PROVE  Total(g, S) = Total(f, S) - f[x] + g[x]
  <1> DEFINE U == S \ {x}
  <1>1. U \in SUBSET S /\ IsFiniteSet(U)
    BY FS_Subset
  <1>2. Total(f, S) = f[x] + Total(f, U) /\ Total(g, S) = g[x] + Total(g, U)
    BY TotalTakeOut
  <1>3. Total(f, U) = Total(g, U)
    <2> HIDE DEF U
    <2>1. \A y \in U : f[y] = g[y]
      BY DEF U
    <2> QED
      BY <1>1, <2>1, TotalSame
  <1>4. Total(f, U) \in Int
    BY <1>1, TotalType
  <1> HIDE DEF U
  <1> QED
    BY <1>2, <1>3, <1>4
-----------------------------------------------------------------------------
(* Words. *)
LEMMA WordRange == \A x \in Int : x % WORD \in 0 .. (WORD - 1)
  BY WordAssumption

LEMMA WordSmall == \A x \in 0 .. (WORD - 1) : x % WORD = x
  BY WordAssumption

(* The largest size of a file, kept as one number. *)
Largest == MAX_BLOCKS * BLOCK_SIZE

LEMMA LargestFits ==
    /\ Largest \in Nat
    /\ 2 * Largest < WORD
    /\ BLOCK_SIZE <= Largest
  <1>1. Largest \in Nat
    BY FileSystemAssumption DEF Largest
  <1>2. 2 * MAX_BLOCKS * BLOCK_SIZE = 2 * Largest
    BY FileSystemAssumption DEF Largest
  <1>3. BLOCK_SIZE <= Largest
    <2>1. MAX_BLOCKS \in Nat \ {0} /\ BLOCK_SIZE \in Nat
      BY FileSystemAssumption
    <2>2. (MAX_BLOCKS - 1) * BLOCK_SIZE \in Nat
      BY <2>1
    <2>3. MAX_BLOCKS * BLOCK_SIZE = (MAX_BLOCKS - 1) * BLOCK_SIZE + BLOCK_SIZE
      BY <2>1
    <2> QED
      BY <2>1, <2>2, <2>3 DEF Largest
  <1> QED
    BY <1>1, <1>2, <1>3, FileSystemAssumption DEF Largest

(* The number of blocks taken for a write of any size. *)
LEMMA BlocksCounted ==
    ASSUME NEW size \in WriteSizes
    PROVE  size \in 0 .. (WORD - 1) /\ BlocksNeeded(size) \in Nat
  <1>1. size \in 0 .. (WORD - 1) /\ size + BLOCK_SIZE - 1 \in Int /\ BLOCK_SIZE \in Nat \ {0}
    BY FileSystemAssumption, WordAssumption
  <1>2. (size + BLOCK_SIZE - 1) % WORD \in Nat
    BY <1>1, WordRange, WordAssumption
  <1> QED
    BY <1>1, <1>2 DEF BlocksNeeded

(* The blocks taken for a write that fits the disk have room for it. *)
LEMMA BlocksSuffice ==
    ASSUME NEW size \in WriteSizes, size <= Largest
    PROVE  size <= BlocksNeeded(size) * BLOCK_SIZE
  <1> DEFINE n == size + BLOCK_SIZE - 1
             q == n \div BLOCK_SIZE
  <1>1. size \in Nat /\ BLOCK_SIZE \in Nat \ {0} /\ n \in 0 .. (WORD - 1)
    BY LargestFits, FileSystemAssumption, WordAssumption
  <1>2. BlocksNeeded(size) = q
    BY <1>1, WordSmall DEF BlocksNeeded
  <1>3. q \in Nat /\ n = q * BLOCK_SIZE + (n % BLOCK_SIZE) /\ n % BLOCK_SIZE < BLOCK_SIZE
    BY <1>1
  <1>4. q * BLOCK_SIZE \in Int /\ n % BLOCK_SIZE \in Int
    BY <1>1, <1>3
  <1> HIDE DEF q
  <1> QED
    BY <1>1, <1>2, <1>3, <1>4

-----------------------------------------------------------------------------
(* The file system. *)

(* No file is larger than the disk, and the descriptors that are open and  *)
(* not stale are those that were handed out since the last format.         *)
SizesFit == \A i \in Inodes : inode_table[i].size <= Largest

OpenBelowNext ==
    \A fd \in Fds : IsOpen(fd) /\ fd \notin stale => fd < next_fd

(* Every inode that is used up or given back is counted. *)
InodesAccounted ==
    free_inodes + next_inode_number = INITIAL_INODES + 1 + freed

BlocksAccounted ==
    next_block_number + free_blocks <= MAX_BLOCKS + returned

FileInv ==
    /\ TypeOK /\ SizesFit
    /\ OpenBelowNext /\ PositionWithinFile
    /\ InodesAccounted /\ BlocksAccounted

(* What the operations on an inode and on a descriptor may assume. *)
LEMMA KnownInodes == TypeOK => Known \subseteq Inodes
  BY FileSystemAssumption DEF TypeOK, Known, Inodes

LEMMA TypeInitially == Init => TypeOK
  <1> SUFFICES ASSUME Init PROVE TypeOK
    OBVIOUS
  <1>1. 0 \in 0 .. (WORD - 1)
    BY WordAssumption
  <1>2. inode_table \in [Inodes ->
           [size : 0 .. (WORD - 1), hard_links : Nat, pointers : Nat]]
    BY <1>1, FileSystemAssumption DEF Init
  <1>3. 0 \in Inodes
    BY FileSystemAssumption DEF Inodes
  <1>4. file_descriptors \in [Fds ->
           [inode : Inodes, position : 0 .. (WORD - 1), is_open : BOOLEAN]]
    BY <1>1, <1>3 DEF Init
  <1> QED
    BY <1>2, <1>4, FileSystemAssumption
       DEF Init, TypeOK, INITIAL_BLOCKS, INITIAL_INODES, FIRST_FD

(* One step of each operation keeps the types: counters stay at or above   *)
(* zero because of the operations' own guards.                             *)
LEMMA TypeKept == TypeOK /\ [Next]_vars => TypeOK'
  <1> SUFFICES ASSUME TypeOK, [Next]_vars PROVE TypeOK'
    OBVIOUS
  <1> DEFINE Inode == [size : 0 .. (WORD - 1), hard_links : Nat, pointers : Nat]
             Descriptor == [inode : Inodes, position : 0 .. (WORD - 1), is_open : BOOLEAN]
  <1>0. 0 \in 0 .. (WORD - 1)
    BY WordAssumption
  <1>1. CASE fs_create_file
    <2>1. next_inode_number \in Inodes
      BY <1>1, FileSystemAssumption DEF fs_create_file, TypeOK, Inodes
    <2>2. PICK pointers \in Garbage :
            inode_table' = [inode_table EXCEPT ![next_inode_number] =
                [size |-> 0, hard_links |-> 1, pointers |-> pointers]]
      BY <1>1 DEF fs_create_file
    <2>3. inode_table' \in [Inodes -> Inode]
      BY <1>0, <2>1, <2>2, FileSystemAssumption DEF TypeOK
    <2> QED
      BY <1>1, <2>3, FileSystemAssumption DEF fs_create_file, TypeOK, InodesAfterCreate
  <1>2. ASSUME NEW i \in Known, fs_delete_file(i) PROVE TypeOK'
    <2> DEFINE left == IF inode_table[i].hard_links > 0
                         THEN inode_table[i].hard_links - 1 ELSE 0
               back == IF left = 0 THEN inode_table[i].pointers ELSE 0
    <2>1. i \in Inodes
      BY KnownInodes
    <2>2. inode_table[i] \in Inode
      BY <2>1 DEF TypeOK
    <2>3. left \in Nat /\ back \in Nat
      BY <2>2
    <2>4. /\ returned + back <= MaxReturned /\ freed < MaxFreed
          /\ inode_table' = [inode_table EXCEPT ![i].hard_links = left]
          /\ free_blocks' = free_blocks + back
          /\ returned' = returned + back
          /\ free_inodes' = IF left = 0 THEN free_inodes + 1 ELSE free_inodes
          /\ freed' = IF left = 0 THEN freed + 1 ELSE freed
          /\ UNCHANGED <<file_descriptors, next_inode_number, next_block_number,
                         next_fd, stale, displaced>>
      BY <1>2 DEF fs_delete_file
    <2> HIDE DEF left, back
    <2>5. inode_table' \in [Inodes -> Inode]
      BY <2>1, <2>2, <2>3, <2>4 DEF TypeOK
    <2> QED
      BY <2>3, <2>4, <2>5, FileSystemAssumption DEF TypeOK
  <1>3. ASSUME NEW i \in Known, fs_open_file(i) PROVE TypeOK'
    <2>1. i \in Inodes /\ next_fd \in Fds
      <3>1. i \in Inodes
        BY KnownInodes
      <3>2. next_fd \in Fds
        BY <1>3, FileSystemAssumption DEF fs_open_file, TypeOK, Fds, FIRST_FD
      <3> QED
        BY <3>1, <3>2
    <2>2. file_descriptors' \in [Fds -> Descriptor]
      BY <1>0, <1>3, <2>1 DEF fs_open_file, TypeOK, NewFd
    <2> QED
      BY <1>3, <2>2, FileSystemAssumption DEF fs_open_file, TypeOK, FIRST_FD
  <1>4. ASSUME NEW fd \in Fds, fs_close_file(fd) PROVE TypeOK'
    <2>1. file_descriptors' \in [Fds -> Descriptor]
      BY <1>4 DEF fs_close_file, TypeOK
    <2> QED
      BY <1>4, <2>1 DEF fs_close_file, TypeOK
  <1>5. ASSUME NEW fd \in Fds, NEW size \in ReadSizes, fs_read_file(fd, size)
        PROVE  TypeOK'
    <2> DEFINE p == file_descriptors[fd].position
               s == inode_table[InodeOf(fd)].size
               bytes == BytesToRead(p, size, s)
    <2>1. p \in 0 .. (WORD - 1) /\ s \in 0 .. (WORD - 1) /\ size \in 0 .. (WORD - 1)
      BY FileSystemAssumption DEF TypeOK, InodeOf
    <2>2. bytes \in Int
      BY <2>1, WordRange, WordAssumption DEF BytesToRead
    <2>3. (p + bytes) % WORD \in 0 .. (WORD - 1)
      BY <2>1, <2>2, WordRange
    <2>4. file_descriptors' = [file_descriptors EXCEPT ![fd].position = (p + bytes) % WORD]
      BY <1>5 DEF fs_read_file
    <2> HIDE DEF bytes
    <2>5. file_descriptors' \in [Fds -> Descriptor]
      BY <2>3, <2>4 DEF TypeOK
    <2> QED
      BY <1>5, <2>5 DEF fs_read_file, TypeOK
  <1>6. ASSUME NEW fd \in Fds, NEW size \in WriteSizes, fs_write_file(fd, size)
        PROVE  TypeOK'
    <2> DEFINE p == file_descriptors[fd].position
               i == InodeOf(fd)
    <2>1. i \in Inodes /\ p \in Int /\ inode_table[i].size \in Int /\ size \in Int
      BY BlocksCounted DEF TypeOK, InodeOf
    <2>2. /\ (p + size) % WORD \in 0 .. (WORD - 1)
          /\ (inode_table[i].size + size) % WORD \in 0 .. (WORD - 1)
      BY <2>1, WordRange
    <2>3. /\ inode_table' = [inode_table EXCEPT ![i].size = (inode_table[i].size + size) % WORD]
          /\ file_descriptors' = [file_descriptors EXCEPT ![fd].position = (p + size) % WORD]
          /\ free_blocks >= BlocksNeeded(size)
          /\ free_blocks' = free_blocks - BlocksNeeded(size)
          /\ UNCHANGED <<free_inodes, next_inode_number, next_block_number, next_fd,
                         stale, returned, freed>>
          /\ displaced' \subseteq Fds
      BY <1>6 DEF fs_write_file, EnoughBlocks, TypeOK, InodeOf
    <2> HIDE DEF i, p
    <2>4. inode_table' \in [Inodes -> Inode] /\ file_descriptors' \in [Fds -> Descriptor]
      BY <2>1, <2>2, <2>3 DEF TypeOK
    <2>5. free_blocks' \in Nat
      BY <2>3, BlocksCounted DEF TypeOK
    <2> QED
      BY <2>3, <2>4, <2>5 DEF TypeOK
  <1>7. ASSUME NEW fd \in Fds, NEW position \in Positions, fs_seek_file(fd, position)
        PROVE  TypeOK'
    <2>1. file_descriptors' \in [Fds -> Descriptor]
      BY <1>7, FileSystemAssumption DEF fs_seek_file, TypeOK
    <2> QED
      BY <1>7, <2>1 DEF fs_seek_file, TypeOK
  <1>8. CASE fs_allocate_block
    BY <1>8 DEF fs_allocate_block, TypeOK, BlocksAfterAllocate
  <1>9. CASE fs_free_block
    BY <1>9, FileSystemAssumption DEF fs_free_block, TypeOK
  <1>10. CASE fs_format_filesystem
    BY <1>10, FileSystemAssumption
       DEF fs_format_filesystem, TypeOK, INITIAL_BLOCKS, INITIAL_INODES, FIRST_FD
  <1>11. CASE UNCHANGED vars
    BY <1>11 DEF vars, TypeOK
  <1> QED
    BY <1>1, <1>2, <1>3, <1>4, <1>5, <1>6, <1>7, <1>8, <1>9, <1>10, <1>11 DEF Next

(* The file system's tables and counters have their types: no counter goes *)
(* below zero, whatever the callers do (filesystem.c:fs_write_file,        *)
(* fs_allocate_block and fs_create_file count down).                       *)
THEOREM FileSystemTypes == Spec => []TypeOK
  BY TypeInitially, TypeKept, PTL DEF Spec

-----------------------------------------------------------------------------
(* What a step leaves of the descriptors and the sizes, operation by        *)
(* operation.                                                              *)
LEMMA InvInitially == Init => FileInv
  <1> SUFFICES ASSUME Init PROVE FileInv
    OBVIOUS
  <1>1. TypeOK
    BY TypeInitially
  <1>2. SizesFit
    BY LargestFits DEF Init, SizesFit
  <1>3. \A fd \in Fds : ~ IsOpen(fd)
    BY DEF Init, IsOpen
  <1>4. InodesAccounted /\ BlocksAccounted
    BY FileSystemAssumption
       DEF Init, InodesAccounted, BlocksAccounted, INITIAL_INODES, INITIAL_BLOCKS
  <1> QED
    BY <1>1, <1>2, <1>3, <1>4 DEF FileInv, OpenBelowNext, PositionWithinFile

(* What a write leaves of the file's size: the sum, which fits the disk,   *)
(* or, when the sum wraps around, less than the file had.                  *)
LEMMA WriteFits ==
    ASSUME TypeOK, SizesFit, NEW fd \in Fds, NEW size \in WriteSizes,
           fs_write_file(fd, size)
    PROVE  LET i == InodeOf(fd)
               s == inode_table[i].size
           IN  /\ (s + size) % WORD \in 0 .. Largest
               /\ ~ Shrinks(i, size) => (s + size) % WORD = s + size /\ size <= Largest
               /\ Shrinks(i, size) => (s + size) % WORD <= s
  <1> DEFINE s == inode_table[InodeOf(fd)].size
  <1>1. s \in 0 .. Largest /\ s \in 0 .. (WORD - 1) /\ size \in 0 .. (WORD - 1)
    BY LargestFits, BlocksCounted DEF TypeOK, SizesFit, InodeOf
  <1>2. (s + size) % WORD <= Largest
    BY DEF fs_write_file, Largest
  <1>3. (s + size) % WORD \in 0 .. (WORD - 1)
    BY <1>1, WordRange
  <1>4. ASSUME ~ Shrinks(InodeOf(fd), size)
        PROVE  (s + size) % WORD = s + size /\ size <= Largest
    <2>1. s + size \in 0 .. (WORD - 1)
      BY <1>1, <1>4, WordAssumption DEF Shrinks
    <2>2. (s + size) % WORD = s + size
      BY <2>1, WordSmall
    <2> HIDE DEF s
    <2> QED
      BY <1>1, <1>2, <2>2, LargestFits
  <1>5. ASSUME Shrinks(InodeOf(fd), size)
        PROVE  (s + size) % WORD <= s
    <2>1. s + size - WORD \in 0 .. (WORD - 1) /\ s + size - WORD <= s
      BY <1>1, <1>5, WordAssumption DEF Shrinks
    <2>2. (s + size) % WORD = s + size - WORD
      BY <1>1, <2>1, WordAssumption
    <2> QED
      BY <2>1, <2>2
  <1> HIDE DEF s
  <1>6. (s + size) % WORD \in 0 .. Largest
    BY <1>1, <1>2, <1>3, WordAssumption
  <1> QED
    BY <1>4, <1>5, <1>6 DEF s

LEMMA SizesFitKept == FileInv /\ [Next]_vars => SizesFit'
  <1> SUFFICES ASSUME FileInv, [Next]_vars PROVE SizesFit'
    OBVIOUS
  <1> USE DEF FileInv
  <1>1. CASE fs_create_file
    BY <1>1, LargestFits DEF fs_create_file, SizesFit, TypeOK
  <1>2. ASSUME NEW i \in Known, fs_delete_file(i) PROVE SizesFit'
    BY <1>2 DEF fs_delete_file, SizesFit, TypeOK
  <1>3. ASSUME NEW fd \in Fds, NEW size \in WriteSizes, fs_write_file(fd, size)
        PROVE  SizesFit'
    <2> DEFINE i == InodeOf(fd)
               s == inode_table[i].size
    <2>1. (s + size) % WORD <= Largest
      BY <1>3, WriteFits
    <2>2. inode_table' = [inode_table EXCEPT ![i].size = (s + size) % WORD]
      BY <1>3 DEF fs_write_file, TypeOK, InodeOf
    <2> HIDE DEF i
    <2> QED
      BY <2>1, <2>2 DEF SizesFit, TypeOK
  <1>4. CASE UNCHANGED inode_table
    BY <1>4 DEF SizesFit
  <1> QED
    BY <1>1, <1>2, <1>3, <1>4
       DEF Next, vars, fs_open_file, fs_close_file, fs_read_file, fs_seek_file,
           fs_allocate_block, fs_free_block, fs_format_filesystem

(* The position of a descriptor that is open and not stale, after a read   *)
(* of any size: a position plus a size that wraps around stops at the      *)
(* wrapped sum, which was compared with the size of the file.              *)
LEMMA ReadStays ==
    ASSUME NEW p \in 0 .. (WORD - 1), NEW s \in 0 .. (WORD - 1), p <= s,
           NEW size \in 0 .. (WORD - 1)
    PROVE  (p + BytesToRead(p, size, s)) % WORD <= s
  <1>1. CASE (p + size) % WORD > s
    <2>1. s - p \in 0 .. (WORD - 1) /\ (s - p) % WORD = s - p
      BY WordSmall, WordAssumption
    <2>2. (p + BytesToRead(p, size, s)) % WORD = s
      BY <1>1, <2>1, WordSmall DEF BytesToRead
    <2> QED
      BY <2>2
  <1>2. CASE ~ ((p + size) % WORD > s)
    <2>1. (p + size) % WORD \in Int
      BY WordRange, WordAssumption
    <2> QED
      BY <1>2, <2>1 DEF BytesToRead
  <1> QED
    BY <1>1, <1>2

LEMMA DescriptorsKept ==
    FileInv /\ [Next]_vars => OpenBelowNext' /\ PositionWithinFile'
  <1> SUFFICES ASSUME FileInv, [Next]_vars
               PROVE  OpenBelowNext' /\ PositionWithinFile'
    OBVIOUS
  <1> USE DEF FileInv
  <1> DEFINE Safe(fd) == IsOpen(fd) /\ fd \notin stale
             Good(fd) == /\ fd < next_fd
                         /\ fd \notin displaced =>
                              file_descriptors[fd].position <= inode_table[InodeOf(fd)].size
  <1>1. SUFFICES \A fd \in Fds : Safe(fd)' => Good(fd)'
    BY <1>1 DEF OpenBelowNext, PositionWithinFile
  <1>2. \A fd \in Fds : Safe(fd) => Good(fd)
    BY DEF OpenBelowNext, PositionWithinFile
  <1>3. \A fd \in Fds : InodeOf(fd) \in Inodes /\ fd \in Int
    BY DEF TypeOK, InodeOf, Fds
  <1>4. CASE fs_create_file
    <2>1. next_inode_number \in Inodes
      BY <1>4, FileSystemAssumption DEF fs_create_file, TypeOK, Inodes
    <2>2. \A i \in Inodes : i # next_inode_number => inode_table'[i] = inode_table[i]
      BY <1>4 DEF fs_create_file, TypeOK
    <2>3. \A fd \in Fds : Safe(fd)' => Safe(fd) /\ InodeOf(fd) # next_inode_number
      BY <1>4 DEF fs_create_file, IsOpen, InodeOf
    <2> QED
      BY <1>2, <1>3, <1>4, <2>2, <2>3 DEF fs_create_file, InodeOf
  <1>5. ASSUME NEW i \in Known, fs_delete_file(i)
        PROVE  \A fd \in Fds : Safe(fd)' => Good(fd)'
    <2>1. \A j \in Inodes : inode_table'[j].size = inode_table[j].size
      BY <1>5 DEF fs_delete_file, TypeOK
    <2> QED
      BY <1>2, <1>3, <1>5, <2>1 DEF fs_delete_file, IsOpen, InodeOf
  <1>6. ASSUME NEW i \in Known, fs_open_file(i)
        PROVE  \A fd \in Fds : Safe(fd)' => Good(fd)'
    <2>1. i \in Inodes
      BY KnownInodes
    <2>2. /\ next_fd' = next_fd + 1 /\ next_fd \in Int
          /\ stale' = stale \ {next_fd} /\ displaced' = displaced \ {next_fd}
          /\ inode_table' = inode_table
          /\ file_descriptors' = [file_descriptors EXCEPT ![next_fd] =
                 [inode |-> i, position |-> 0, is_open |-> TRUE]]
      BY <1>6, FileSystemAssumption DEF fs_open_file, NewFd, TypeOK, FIRST_FD
    <2>3. 0 <= inode_table[i].size
      BY <2>1, WordAssumption DEF TypeOK
    <2>4. \A fd \in Fds : fd # next_fd => /\ file_descriptors'[fd] = file_descriptors[fd]
                                          /\ Safe(fd)' => Safe(fd)
      BY <2>2 DEF TypeOK, IsOpen
    <2>5. \A fd \in Fds : fd = next_fd => /\ file_descriptors'[fd].position = 0
                                          /\ file_descriptors'[fd].inode = i
      BY <2>2 DEF TypeOK
    <2>6. ASSUME NEW fd \in Fds, Safe(fd)', fd # next_fd PROVE Good(fd)'
      BY <1>2, <1>3, <2>2, <2>4, <2>6 DEF InodeOf
    <2>7. ASSUME NEW fd \in Fds, fd = next_fd PROVE Good(fd)'
      BY <1>3, <2>2, <2>3, <2>5, <2>7 DEF InodeOf
    <2> QED
      BY <2>6, <2>7
  <1>7. ASSUME NEW fd \in Fds, fs_close_file(fd)
        PROVE  \A g \in Fds : Safe(g)' => Good(g)'
    <2>1. \A g \in Fds : Safe(g)' => /\ Safe(g)
                                      /\ g # fd
                                      /\ file_descriptors'[g] = file_descriptors[g]
      BY <1>7 DEF fs_close_file, TypeOK, IsOpen
    <2>2. /\ UNCHANGED <<inode_table, next_fd>>
          /\ displaced' = displaced \ {fd}
      BY <1>7 DEF fs_close_file
    <2>3. ASSUME NEW g \in Fds, Safe(g)' PROVE Good(g)'
      <3>1. /\ Safe(g) /\ g # fd
            /\ file_descriptors'[g] = file_descriptors[g]
        BY <2>1, <2>3
      <3>2. Good(g)
        BY <1>2, <3>1
      <3> QED
        BY <2>2, <3>1, <3>2 DEF InodeOf
    <2> QED
      BY <2>3
  <1>8. ASSUME NEW fd \in Fds, NEW p \in Int,
               file_descriptors' = [file_descriptors EXCEPT ![fd].position = p],
               stale' = stale, next_fd' = next_fd,
               \A i \in Inodes : inode_table'[i].size \in Int,
               \A g \in Fds : IsOpen(g) /\ g # fd /\ g \notin displaced' =>
                   /\ g \notin displaced
                   /\ inode_table[InodeOf(g)].size <= inode_table'[InodeOf(g)].size,
               Safe(fd) /\ fd \notin displaced' => p <= inode_table'[InodeOf(fd)].size
        PROVE  \A g \in Fds : Safe(g)' => Good(g)'
    <2>1. \A g \in Fds : /\ InodeOf(g)' = InodeOf(g)
                         /\ Safe(g)' => Safe(g)
                         /\ g # fd => file_descriptors'[g].position = file_descriptors[g].position
                         /\ g = fd => file_descriptors'[g].position = p
      BY <1>8 DEF TypeOK, InodeOf, IsOpen
    <2>2. \A g \in Fds : /\ file_descriptors[g].position \in Int
                         /\ inode_table[InodeOf(g)].size \in Int
                         /\ inode_table'[InodeOf(g)].size \in Int
                         /\ Safe(g) => IsOpen(g)
      BY <1>3, <1>8 DEF TypeOK
    <2> QED
      BY <1>2, <1>8, <2>1, <2>2
  <1>9. ASSUME NEW fd \in Fds, NEW size \in ReadSizes, fs_read_file(fd, size)
        PROVE  \A g \in Fds : Safe(g)' => Good(g)'
    <2> DEFINE p == file_descriptors[fd].position
               s == inode_table[InodeOf(fd)].size
               q == (p + BytesToRead(p, size, s)) % WORD
    <2>1. p \in 0 .. (WORD - 1) /\ s \in 0 .. (WORD - 1) /\ size \in 0 .. (WORD - 1)
      BY FileSystemAssumption DEF TypeOK, InodeOf
    <2>2. q \in Int
      <3>1. BytesToRead(p, size, s) \in Int
        BY <2>1, WordRange, WordAssumption DEF BytesToRead
      <3> QED
        BY <2>1, <3>1, WordRange, WordAssumption
    <2>3. Safe(fd) /\ fd \notin displaced => q <= s
      BY <1>2, <2>1, ReadStays
    <2>4. /\ file_descriptors' = [file_descriptors EXCEPT ![fd].position = q]
          /\ inode_table' = inode_table /\ stale' = stale /\ next_fd' = next_fd
          /\ displaced' = displaced
      BY <1>9 DEF fs_read_file
    <2>5. \A i \in Inodes : inode_table'[i].size \in Int
      BY <2>4, WordAssumption DEF TypeOK
    <2>6. Safe(fd) /\ fd \notin displaced' => q <= inode_table'[InodeOf(fd)].size
      BY <2>3, <2>4
    <2>7. \A g \in Fds : inode_table[InodeOf(g)].size <= inode_table'[InodeOf(g)].size
      BY <1>3, <2>4, <2>5
    <2> HIDE DEF q, Safe, Good
    <2> QED
      BY <1>8, <2>2, <2>4, <2>5, <2>6, <2>7
  <1>10. ASSUME NEW fd \in Fds, NEW size \in WriteSizes, fs_write_file(fd, size)
         PROVE  \A g \in Fds : Safe(g)' => Good(g)'
    <2> DEFINE p == file_descriptors[fd].position
               i == InodeOf(fd)
               s == inode_table[i].size
    <2>1. i \in Inodes /\ p \in 0 .. (WORD - 1) /\ s \in Nat /\ size \in Nat
      BY BlocksCounted, WordAssumption, FileSystemAssumption DEF TypeOK, InodeOf
    <2>2. /\ inode_table' = [inode_table EXCEPT ![i].size = (s + size) % WORD]
          /\ file_descriptors' = [file_descriptors EXCEPT ![fd].position = (p + size) % WORD]
          /\ stale' = stale /\ next_fd' = next_fd
          /\ displaced' = displaced \cup
                {g \in Fds : Shrinks(i, size) /\ IsOpen(g) /\ InodeOf(g) = i}
      BY <1>10 DEF fs_write_file, TypeOK, InodeOf
    <2>3. (p + size) % WORD \in Int /\ (s + size) % WORD \in Int
      BY <2>1, WordRange, WordAssumption
    <2>4. ~ Shrinks(i, size) => (s + size) % WORD = s + size /\ s + size <= Largest
      BY <1>10, WriteFits, LargestFits
    <2>5. \A j \in Inodes : inode_table[j].size \in Int
      BY WordAssumption DEF TypeOK
    <2> HIDE DEF i
    <2>6. inode_table'[i].size = (s + size) % WORD
      BY <2>1, <2>2 DEF TypeOK
    <2>7. \A j \in Inodes : j # i => inode_table'[j] = inode_table[j]
      BY <2>1, <2>2 DEF TypeOK
    <2>8. \A j \in Inodes : inode_table'[j].size \in Int
      BY <2>1, <2>3, <2>5, <2>6, <2>7
    <2>9. ASSUME NEW g \in Fds, IsOpen(g), g \notin displaced'
          PROVE  /\ g \notin displaced
                 /\ inode_table[InodeOf(g)].size <= inode_table'[InodeOf(g)].size
                 /\ InodeOf(g) = i => ~ Shrinks(i, size)
      <3>1. g \notin displaced /\ (InodeOf(g) = i => ~ Shrinks(i, size))
        BY <2>2, <2>9
      <3>2. CASE InodeOf(g) = i
        <4>1. inode_table'[i].size = inode_table[i].size + size
          BY <2>4, <2>6, <3>1, <3>2
        <4> HIDE DEF s
        <4>2. inode_table[i].size <= inode_table'[i].size
          BY <2>1, <4>1 DEF s
        <4> QED
          BY <3>1, <3>2, <4>2
      <3>3. CASE InodeOf(g) # i
        <4>1. inode_table'[InodeOf(g)] = inode_table[InodeOf(g)]
          BY <1>3, <2>7, <3>3
        <4>2. inode_table[InodeOf(g)].size <= inode_table'[InodeOf(g)].size
          BY <1>3, <2>5, <4>1
        <4> QED
          BY <3>1, <4>2
      <3> QED
        BY <3>2, <3>3
    <2>10. ASSUME Safe(fd), fd \notin displaced'
           PROVE  (p + size) % WORD <= inode_table'[i].size
      <3>1. fd \notin displaced /\ ~ Shrinks(i, size)
        BY <2>9, <2>10 DEF i
      <3>2. p <= s
        BY <1>2, <2>10, <3>1 DEF i
      <3>3. p + size \in 0 .. (WORD - 1)
        BY <2>1, <2>4, <3>1, <3>2, LargestFits, WordAssumption
      <3>4. (p + size) % WORD = p + size
        BY <3>3, WordSmall
      <3> QED
        BY <2>1, <2>4, <2>6, <3>1, <3>2, <3>4
    <2> HIDE DEF Safe, Good
    <2> QED
      BY <1>8, <2>2, <2>3, <2>8, <2>9, <2>10 DEF i
  <1>11. ASSUME NEW fd \in Fds, NEW position \in Positions, fs_seek_file(fd, position)
         PROVE  \A g \in Fds : Safe(g)' => Good(g)'
    <2>1. /\ position \in Int
          /\ position <= inode_table[InodeOf(fd)].size
          /\ file_descriptors' = [file_descriptors EXCEPT ![fd].position = position]
          /\ inode_table' = inode_table /\ stale' = stale /\ next_fd' = next_fd
          /\ displaced' = displaced \ {fd}
      BY <1>11, FileSystemAssumption, WordAssumption DEF fs_seek_file
    <2>2. \A i \in Inodes : inode_table'[i].size \in Int
      BY <2>1, WordAssumption DEF TypeOK
    <2>3. position <= inode_table'[InodeOf(fd)].size
      BY <2>1
    <2>4. \A g \in Fds : inode_table[InodeOf(g)].size <= inode_table'[InodeOf(g)].size
      BY <1>3, <2>1, <2>2
    <2> HIDE DEF Safe, Good
    <2> QED
      BY <1>8, <2>1, <2>2, <2>3, <2>4
  <1>12. CASE fs_format_filesystem
    BY <1>12 DEF fs_format_filesystem, IsOpen
  <1>13. CASE UNCHANGED <<file_descriptors, inode_table, stale, displaced, next_fd>>
    BY <1>2, <1>13 DEF IsOpen, InodeOf
  <1> QED
    BY <1>4, <1>5, <1>6, <1>7, <1>9, <1>10, <1>11, <1>12, <1>13
       DEF Next, vars, fs_allocate_block, fs_free_block

LEMMA InodesAccountedKept == FileInv /\ [Next]_vars => InodesAccounted'
  <1> SUFFICES ASSUME FileInv, [Next]_vars PROVE InodesAccounted'
    OBVIOUS
  <1>1. /\ InodesAccounted /\ freed \in Int /\ free_inodes \in Int
        /\ next_inode_number \in Int /\ INITIAL_INODES \in Int
    BY FileSystemAssumption DEF FileInv, TypeOK, INITIAL_INODES
  <1>2. CASE fs_create_file
    BY <1>1, <1>2 DEF fs_create_file, InodesAccounted, InodesAfterCreate
  <1>3. ASSUME NEW i \in Known, fs_delete_file(i) PROVE InodesAccounted'
    BY <1>1, <1>3 DEF fs_delete_file, InodesAccounted
  <1>4. CASE fs_format_filesystem
    BY <1>1, <1>4 DEF fs_format_filesystem, InodesAccounted
  <1>5. CASE UNCHANGED <<free_inodes, next_inode_number, freed>>
    BY <1>1, <1>5 DEF InodesAccounted
  <1> QED
    BY <1>2, <1>3, <1>4, <1>5
       DEF Next, vars, fs_open_file, fs_close_file, fs_read_file, fs_write_file,
           fs_seek_file, fs_allocate_block, fs_free_block

LEMMA BlocksAccountedKept == FileInv /\ [Next]_vars => BlocksAccounted'
  <1> SUFFICES ASSUME FileInv, [Next]_vars PROVE BlocksAccounted'
    OBVIOUS
  <1>1. /\ BlocksAccounted /\ returned \in Int /\ free_blocks \in Int
        /\ next_block_number \in Int /\ MAX_BLOCKS \in Int
    BY FileSystemAssumption DEF FileInv, TypeOK
  <1>2. ASSUME NEW i \in Known, fs_delete_file(i) PROVE BlocksAccounted'
    <2>1. \E back \in Nat : free_blocks' = free_blocks + back /\ returned' = returned + back
      <3>1. i \in Inodes
        BY KnownInodes DEF FileInv
      <3>2. inode_table[i].pointers \in Nat
        BY <3>1 DEF FileInv, TypeOK
      <3> QED
        BY <1>2, <3>2 DEF fs_delete_file
    <2> QED
      BY <1>1, <1>2, <2>1 DEF fs_delete_file, BlocksAccounted
  <1>3. ASSUME NEW fd \in Fds, NEW size \in WriteSizes, fs_write_file(fd, size)
        PROVE  BlocksAccounted'
    BY <1>1, <1>3, BlocksCounted DEF fs_write_file, BlocksAccounted
  <1>4. CASE fs_allocate_block
    BY <1>1, <1>4 DEF fs_allocate_block, BlocksAccounted, BlocksAfterAllocate
  <1>5. CASE fs_free_block
    BY <1>1, <1>5 DEF fs_free_block, BlocksAccounted
  <1>6. CASE fs_format_filesystem
    BY <1>6, FileSystemAssumption
       DEF fs_format_filesystem, BlocksAccounted, INITIAL_BLOCKS
  <1>7. CASE UNCHANGED <<free_blocks, next_block_number, returned>>
    BY <1>1, <1>7 DEF BlocksAccounted
  <1> QED
    BY <1>2, <1>3, <1>4, <1>5, <1>6, <1>7
       DEF Next, vars, fs_create_file, fs_open_file, fs_close_file, fs_read_file,
           fs_seek_file

LEMMA FileInvHolds == Spec => []FileInv
  <1>1. FileInv /\ [Next]_vars => FileInv'
    BY TypeKept, SizesFitKept, DescriptorsKept, InodesAccountedKept, BlocksAccountedKept
       DEF FileInv
  <1> QED
    BY <1>1, InvInitially, PTL DEF Spec

(* A descriptor that is open, whose inode was not taken away from it and   *)
(* whose file was not shrunk under it, stands within its file, for every   *)
(* size a caller may ask fs_read_file for: file_position + size may wrap   *)
(* around.  Of the writes, only one whose sums wrap around in both tests   *)
(* of fs_write_file shrinks a file.                                        *)
THEOREM ReadsStayInFile == Spec => []PositionWithinFile
  BY FileInvHolds, PTL DEF FileInv

(* fs_create_file cannot write behind inode_table as long as fewer inodes  *)
(* were given back than filesystem_init holds in reserve.                  *)
THEOREM InodesStayInTable == Spec => []InodesWithinTable
  <1>1. FileInv => InodesWithinTable
    BY FileSystemAssumption
       DEF FileInv, InodesAccounted, InodesWithinTable, INITIAL_INODES, TypeOK
  <1> QED
    BY <1>1, FileInvHolds, PTL

(* The numbers fs_allocate_block hands out pass the end of the disk by no  *)
(* more than the blocks that were given back.                              *)
THEOREM BlocksStayOnDisk == Spec => []BlocksWithinDisk
  <1>1. FileInv => BlocksWithinDisk
    BY FileSystemAssumption DEF FileInv, BlocksAccounted, BlocksWithinDisk, TypeOK
  <1> QED
    BY <1>1, FileInvHolds, PTL

(* fs_open_file takes no descriptor that is in use, except one a format    *)
(* forgot: descriptors are handed out upwards.                             *)
THEOREM DescriptorsStayTheirs == Spec => NoDescriptorTakenOver
  <1> DEFINE Kept == \A fd \in Fds :
          IsOpen(fd) /\ file_descriptors'[fd].inode # InodeOf(fd) => fd \in stale
  <1>1. FileInv /\ [Next]_vars => Kept
    <2> SUFFICES ASSUME FileInv, [Next]_vars, NEW fd \in Fds, IsOpen(fd),
                        file_descriptors'[fd].inode # InodeOf(fd)
                 PROVE  fd \in stale
      OBVIOUS
    <2>1. PICK i \in Known : fs_open_file(i)
      <3>1. ASSUME NEW g \in Fds, fs_close_file(g) PROVE FALSE
        BY <3>1 DEF fs_close_file, FileInv, TypeOK, InodeOf
      <3>2. ASSUME NEW g \in Fds, NEW size \in ReadSizes, fs_read_file(g, size) PROVE FALSE
        BY <3>2 DEF fs_read_file, FileInv, TypeOK, InodeOf
      <3>3. ASSUME NEW g \in Fds, NEW size \in WriteSizes, fs_write_file(g, size) PROVE FALSE
        BY <3>3 DEF fs_write_file, FileInv, TypeOK, InodeOf
      <3>4. ASSUME NEW g \in Fds, NEW position \in Positions, fs_seek_file(g, position)
            PROVE  FALSE
        BY <3>4 DEF fs_seek_file, FileInv, TypeOK, InodeOf
      <3>5. file_descriptors' # file_descriptors
        BY DEF InodeOf
      <3> QED
        BY <3>1, <3>2, <3>3, <3>4, <3>5
           DEF Next, vars, fs_create_file, fs_delete_file, fs_allocate_block,
               fs_free_block, fs_format_filesystem
    <2>2. fd = next_fd
      BY <2>1 DEF fs_open_file, NewFd, FileInv, TypeOK, InodeOf
    <2> QED
      BY <2>2, FileSystemAssumption DEF FileInv, OpenBelowNext, TypeOK, FIRST_FD
  <1>2. FileInv /\ [Next]_vars => [Kept]_vars
    BY <1>1
  <1> QED
    BY <1>2, FileInvHolds, PTL DEF Spec, NoDescriptorTakenOver

-----------------------------------------------------------------------------
(* The account of blocks: bytes in files against blocks taken. *)
Paid == Total(Sizes, Known \ {0})

Room == INITIAL_BLOCKS + returned - free_blocks

AccountType ==
    /\ IsFiniteSet(Known \ {0})
    /\ Known \ {0} \subseteq Inodes
    /\ \A i \in Inodes : Sizes[i] = inode_table[i].size /\ Sizes[i] \in Int
    /\ Paid \in Int /\ Room \in Int

LEMMA AccountTyped == FileInv => AccountType
  <1> SUFFICES ASSUME FileInv PROVE AccountType
    OBVIOUS
  <1>1. IsFiniteSet(Known) /\ IsFiniteSet(Known \ {0})
    <2>1. next_inode_number - 1 \in Int
      BY DEF FileInv, TypeOK
    <2>2. IsFiniteSet(Known)
      BY <2>1, FS_Interval DEF Known
    <2> QED
      BY <2>2, FS_Subset
  <1>2. Known \ {0} \subseteq Inodes
    BY KnownInodes DEF FileInv
  <1>3. \A i \in Inodes : Sizes[i] = inode_table[i].size /\ Sizes[i] \in Int
    BY WordAssumption DEF FileInv, TypeOK, Sizes
  <1>4. Paid \in Int
    BY <1>1, <1>2, <1>3, TotalType DEF Paid
  <1>5. Room \in Int
    BY FileSystemAssumption DEF Room, FileInv, TypeOK, INITIAL_BLOCKS
  <1> QED
    BY <1>1, <1>2, <1>3, <1>4, <1>5 DEF AccountType

(* The files grow by no more than the blocks that are taken. *)
LEMMA AccountStep ==
    ASSUME NEW p \in Int, NEW r \in Int, p <= r * BLOCK_SIZE,
           NEW size \in Nat, NEW n \in Nat, size <= n * BLOCK_SIZE
    PROVE  p + size <= (r + n) * BLOCK_SIZE
  <1>1. BLOCK_SIZE \in Nat
    BY FileSystemAssumption
  <1>2. (r + n) * BLOCK_SIZE = r * BLOCK_SIZE + n * BLOCK_SIZE
    BY <1>1
  <1>3. r * BLOCK_SIZE \in Int /\ n * BLOCK_SIZE \in Int
    BY <1>1
  <1> QED
    BY <1>2, <1>3

LEMMA PaidKept ==
    FileInv /\ DataIsPaidFor /\ [Next]_vars => DataIsPaidFor'
  <1> SUFFICES ASSUME FileInv, DataIsPaidFor, [Next]_vars PROVE DataIsPaidFor'
    OBVIOUS
  <1> DEFINE S == Known \ {0}
  <1>1. /\ IsFiniteSet(S) /\ S \subseteq Inodes
        /\ \A i \in Inodes : Sizes[i] = inode_table[i].size /\ Sizes[i] \in Int
        /\ Paid \in Int /\ Room \in Int
    BY AccountTyped DEF AccountType
  <1>2. Paid <= Room * BLOCK_SIZE
    BY DEF DataIsPaidFor, Paid, Room, Total
  <1>3. SUFFICES Paid' <= Room' * BLOCK_SIZE
    BY <1>3 DEF DataIsPaidFor, Paid, Room, Total
  <1>4. FileInv'
    BY TypeKept, SizesFitKept, DescriptorsKept, InodesAccountedKept, BlocksAccountedKept
       DEF FileInv
  <1>5. /\ S' \subseteq Inodes
        /\ \A i \in Inodes : Sizes'[i] = inode_table'[i].size /\ Sizes'[i] \in Int
        /\ Paid' \in Int /\ Room' \in Int
    <2>1. AccountType'
      BY <1>4, AccountTyped, PTL
    <2> QED
      BY <2>1 DEF AccountType
  (* The account of a step that grows the files by size and takes n blocks. *)
  <1>6. ASSUME NEW size \in Nat, NEW n \in Nat, size <= n * BLOCK_SIZE,
               Paid' <= Paid + size, Room' = Room + n
        PROVE  Paid' <= Room' * BLOCK_SIZE
    <2>1. Paid + size <= (Room + n) * BLOCK_SIZE
      BY <1>1, <1>2, <1>6, AccountStep
    <2>2. Paid + size \in Int /\ (Room + n) * BLOCK_SIZE \in Int
      BY <1>1, <1>6, FileSystemAssumption
    <2> QED
      BY <1>5, <1>6, <2>1, <2>2
  <1>7. ASSUME S' = S, \A i \in Inodes : inode_table'[i].size = inode_table[i].size
        PROVE  Paid' = Paid
    <2>1. \A i \in S : Sizes'[i] = Sizes[i]
      BY <1>1, <1>5, <1>7
    <2> HIDE DEF S
    <2>2. Total(Sizes', S) = Total(Sizes, S)
      BY <1>1, <2>1, TotalSame
    <2> QED
      BY <1>7, <2>2 DEF Paid, S
  <1>8. CASE fs_create_file
    <2> DEFINE i == next_inode_number
    <2>1. i \in Inodes /\ i \notin S /\ S' = S \cup {i}
      <3>1. i \in 1 .. (MAX_INODES - 1) /\ next_inode_number' = i + 1
        BY <1>8, FileSystemAssumption DEF fs_create_file, FileInv, TypeOK
      <3>2. Known' = 0 .. i /\ Known = 0 .. (i - 1)
        BY <3>1, FileSystemAssumption DEF Known
      <3> HIDE DEF i
      <3> QED
        BY <3>1, <3>2, FileSystemAssumption DEF Inodes
    <2>2. /\ inode_table'[i].size = 0
          /\ \A j \in Inodes : j # i => inode_table'[j] = inode_table[j]
      BY <1>8, <2>1 DEF fs_create_file, FileInv, TypeOK
    <2>3. Sizes'[i] = 0 /\ \A j \in S : Sizes'[j] = Sizes[j]
      BY <1>1, <1>5, <2>1, <2>2
    <2> HIDE DEF S, i
    <2>4. Total(Sizes', S) = Total(Sizes, S)
      BY <1>1, <2>3, TotalSame
    <2>5. Total(Sizes', S \cup {i}) = Sizes'[i] + Total(Sizes', S)
      <3>1. \A y \in S \cup {i} : Sizes'[y] \in Int
        BY <1>5, <2>1
      <3> QED
        BY <1>1, <2>1, <3>1, TotalAdd
    <2>6. Paid' = Paid
      <3>1. Paid' = Total(Sizes', S') /\ Paid = Total(Sizes, S)
        BY DEF Paid, S
      <3> QED
        BY <1>1, <2>1, <2>3, <2>4, <2>5, <3>1
    <2>7. Room' = Room
      BY <1>8 DEF fs_create_file, Room
    <2> QED
      BY <1>2, <2>6, <2>7
  <1>9. ASSUME NEW k \in Known, fs_delete_file(k) PROVE Paid' <= Room' * BLOCK_SIZE
    <2>1. \A i \in Inodes : inode_table'[i].size = inode_table[i].size
      BY <1>9 DEF fs_delete_file, FileInv, TypeOK
    <2>2. S' = S
      BY <1>9 DEF fs_delete_file, Known
    <2>3. Paid' = Paid
      BY <1>7, <2>1, <2>2
    <2>4. Room' = Room
      <3>1. PICK back \in Nat : free_blocks' = free_blocks + back /\ returned' = returned + back
        <4>1. inode_table[k].pointers \in Nat
          <5>1. k \in Inodes
            BY KnownInodes DEF FileInv
          <5> QED
            BY <5>1 DEF FileInv, TypeOK
        <4> QED
          BY <1>9, <4>1 DEF fs_delete_file
      <3> QED
        BY <3>1, FileSystemAssumption DEF Room, FileInv, TypeOK, INITIAL_BLOCKS
    <2> QED
      BY <1>2, <2>3, <2>4
  <1>10. ASSUME NEW fd \in Fds, NEW size \in WriteSizes, fs_write_file(fd, size)
         PROVE  Paid' <= Room' * BLOCK_SIZE
    <2> DEFINE i == InodeOf(fd)
               s == inode_table[i].size
    <2>1. i \in Inodes /\ size \in Nat /\ S' = S
      BY <1>10, FileSystemAssumption DEF FileInv, TypeOK, InodeOf, fs_write_file, Known
    <2>2. PICK grown \in Nat : /\ (s + size) % WORD <= s + grown
                              /\ grown <= BlocksNeeded(size) * BLOCK_SIZE
      <3>1. CASE Shrinks(i, size)
        <4>1. (s + size) % WORD <= s /\ s \in Int
          BY <1>10, <2>1, <3>1, WriteFits, WordAssumption DEF FileInv, TypeOK
        <4>2. 0 <= BlocksNeeded(size) * BLOCK_SIZE
          BY BlocksCounted, FileSystemAssumption
        <4>3. s + 0 = s
          BY <4>1
        <4> QED
          BY <4>1, <4>2, <4>3
      <3>2. CASE ~ Shrinks(i, size)
        <4>1. (s + size) % WORD = s + size /\ size <= Largest
          BY <1>10, <3>2, WriteFits DEF FileInv
        <4>2. (s + size) % WORD <= s + size
          BY <2>1, <4>1, WordAssumption DEF FileInv, TypeOK
        <4> QED
          BY <2>1, <4>1, <4>2, BlocksSuffice
      <3> QED
        BY <3>1, <3>2
    <2>3. inode_table' = [inode_table EXCEPT ![i].size = (s + size) % WORD]
      BY <1>10 DEF fs_write_file, FileInv, TypeOK, InodeOf
    <2> HIDE DEF i
    <2>4. /\ Sizes'[i] <= Sizes[i] + grown
          /\ \A j \in Inodes : j # i => Sizes'[j] = Sizes[j]
      <3>1. /\ inode_table'[i].size <= inode_table[i].size + grown
            /\ \A j \in Inodes : j # i => inode_table'[j] = inode_table[j]
        BY <2>1, <2>2, <2>3 DEF FileInv, TypeOK
      <3> QED
        BY <1>1, <1>5, <2>1, <3>1
    <2> HIDE DEF S
    <2>5. Total(Sizes', S) <= Total(Sizes, S) + grown
      <3>1. Total(Sizes, S) \in Int /\ Sizes[i] \in Int /\ Sizes'[i] \in Int
        BY <1>1, <1>5, <2>1, TotalType
      <3>2. CASE i \in S
        <4>1. /\ \A y \in S : Sizes[y] \in Int /\ Sizes'[y] \in Int
              /\ \A y \in S \ {i} : Sizes[y] = Sizes'[y]
          BY <1>1, <1>5, <2>4
        <4>2. Total(Sizes', S) = Total(Sizes, S) - Sizes[i] + Sizes'[i]
          BY <1>1, <3>2, <4>1, TotalChange
        <4> QED
          BY <2>2, <2>4, <3>1, <4>2
      <3>3. CASE i \notin S
        <4>1. \A y \in S : Sizes'[y] = Sizes[y]
          BY <1>1, <2>4, <3>3
        <4>2. Total(Sizes', S) = Total(Sizes, S)
          BY <1>1, <4>1, TotalSame
        <4> QED
          BY <2>2, <3>1, <4>2
      <3> QED
        BY <3>2, <3>3
    <2>6. Paid' <= Paid + grown
      BY <2>1, <2>5 DEF Paid, S
    <2>7. Room' = Room + BlocksNeeded(size)
      BY <1>10, BlocksCounted, FileSystemAssumption
         DEF fs_write_file, Room, FileInv, TypeOK, INITIAL_BLOCKS
    <2> QED
      BY <1>6, <2>2, <2>6, <2>7, BlocksCounted
  <1>11. CASE fs_allocate_block
    <2>1. Room' = Room + 1 /\ UNCHANGED <<inode_table, next_inode_number>>
      BY <1>11, FileSystemAssumption
         DEF fs_allocate_block, BlocksAfterAllocate, Room, FileInv, TypeOK, INITIAL_BLOCKS
    <2>2. Paid' = Paid
      BY <2>1 DEF Paid, Sizes, Known
    <2>3. 0 <= 1 * BLOCK_SIZE
      BY FileSystemAssumption
    <2> QED
      BY <1>1, <1>6, <2>1, <2>2, <2>3
  <1>12. CASE fs_free_block
    <2>1. Room' = Room /\ UNCHANGED <<inode_table, next_inode_number>>
      BY <1>12, FileSystemAssumption
         DEF fs_free_block, Room, FileInv, TypeOK, INITIAL_BLOCKS
    <2>2. Paid' = Paid
      BY <2>1 DEF Paid, Sizes, Known
    <2> QED
      BY <1>2, <2>1, <2>2
  <1>13. CASE fs_format_filesystem
    <2>1. S' = {}
      BY <1>13 DEF fs_format_filesystem, Known
    <2>2. Paid' = 0
      BY <2>1, TotalEmpty DEF Paid
    <2>3. Room' = 0
      BY <1>13, FileSystemAssumption DEF fs_format_filesystem, Room, INITIAL_BLOCKS
    <2> QED
      BY <2>2, <2>3, FileSystemAssumption
  <1>14. CASE UNCHANGED <<inode_table, next_inode_number, free_blocks, returned>>
    <2>1. Paid' = Paid /\ Room' = Room
      BY <1>14 DEF Paid, Sizes, Known, Room
    <2> QED
      BY <1>2, <2>1
  <1> QED
    BY <1>8, <1>9, <1>10, <1>11, <1>12, <1>13, <1>14
       DEF Next, vars, fs_open_file, fs_close_file, fs_read_file, fs_seek_file

(* Everything that fs_write_file adds to files was taken out of            *)
(* free_blocks, and nothing fs_delete_file, fs_free_block or a format      *)
(* gives back makes the account lose a block that holds data.              *)
THEOREM BytesArePaidFor == Spec => []DataIsPaidFor
  <1>1. Init => DataIsPaidFor
    <2> SUFFICES ASSUME Init PROVE DataIsPaidFor
      OBVIOUS
    <2>1. Known \ {0} = {}
      BY DEF Init, Known
    <2>2. Paid = 0
      BY <2>1, TotalEmpty DEF Paid
    <2>3. Room = 0
      BY FileSystemAssumption DEF Init, Room, INITIAL_BLOCKS
    <2> QED
      BY <2>2, <2>3, FileSystemAssumption DEF DataIsPaidFor, Paid, Room, Total
  <1> QED
    BY <1>1, PaidKept, FileInvHolds, PTL DEF Spec
-----------------------------------------------------------------------------
(* The account of video memory. *)
TexturesTyped ==
    /\ IsFiniteSet(DOMAIN textures)
    /\ \A t \in DOMAIN textures : textures[t] \in Nat
    /\ vram_used \in 0 .. (WORD - 1)

LEMMA TexturesInitially == TexturesInit => TexturesTyped /\ VramWithinCard
  <1> SUFFICES ASSUME TexturesInit PROVE TexturesTyped /\ VramWithinCard
    OBVIOUS
  <1>1. DOMAIN textures = {} /\ vram_used = VRAM_RESERVED
    BY DEF TexturesInit
  <1>2. SumFunction(textures) = 0
    BY <1>1, TotalEmpty DEF SumFunction, Total
  <1> QED
    BY <1>1, <1>2, FS_EmptySet, TexturesAssumption, WordAssumption
       DEF TexturesTyped, VramWithinCard

(* Loading a texture that is not loaded adds its size to the sum. *)
LEMMA LoadKept ==
    ASSUME TexturesTyped, VramWithinCard,
           NEW texture \in Textures, NEW size \in TextureSizes,
           graphics_load_texture(texture, size)
    PROVE  TexturesTyped' /\ VramWithinCard'
  <1> DEFINE D == DOMAIN textures
  <1>1. /\ vram_used' = (vram_used + size) % WORD
        /\ textures' = WithTexture(texture, size)
        /\ tidy' => tidy /\ texture \notin D /\ vram_used + size < WORD
    BY DEF graphics_load_texture
  <1>2. size \in Nat /\ vram_used \in Nat
    BY TexturesAssumption, WordAssumption DEF TexturesTyped
  <1>3. /\ DOMAIN textures' = D \cup {texture}
        /\ textures'[texture] = size
        /\ \A t \in D : t # texture => textures'[t] = textures[t]
    BY <1>1 DEF WithTexture
  <1>4. IsFiniteSet(D \cup {texture})
    BY FS_AddElement DEF TexturesTyped
  <1>5. \A t \in D \cup {texture} : textures'[t] \in Nat
    BY <1>2, <1>3 DEF TexturesTyped
  <1>6. TexturesTyped'
    BY <1>1, <1>2, <1>3, <1>4, <1>5, WordRange DEF TexturesTyped
  <1>7. ASSUME tidy' PROVE /\ vram_used' <= VRAM_SIZE
                           /\ VRAM_RESERVED + SumFunction(textures') <= vram_used'
    <2>1. tidy /\ texture \notin D /\ vram_used' = vram_used + size
      BY <1>1, <1>2, <1>7, WordSmall, WordAssumption
    <2>2. vram_used' <= VRAM_SIZE
      BY <1>1 DEF graphics_load_texture, FitsVram
    <2> HIDE DEF D
    <2>3. Total(textures', D \cup {texture}) = textures'[texture] + Total(textures', D)
      BY <1>5, <2>1, TotalAdd DEF TexturesTyped, D
    <2>4. Total(textures', D) = Total(textures, D)
      BY <1>3, <2>1, TotalSame DEF TexturesTyped, D
    <2>5. Total(textures, D) \in Int
      BY TotalType DEF TexturesTyped, D
    <2>6. /\ SumFunction(textures) = Total(textures, D)
          /\ SumFunction(textures') = Total(textures', D \cup {texture})
      BY <1>3 DEF SumFunction, Total, D
    <2>7. VRAM_RESERVED + Total(textures, D) <= vram_used
      BY <2>1, <2>6 DEF VramWithinCard
    <2> QED
      BY <1>2, <1>3, <2>1, <2>2, <2>3, <2>4, <2>5, <2>6, <2>7, TexturesAssumption
  <1> QED
    BY <1>6, <1>7 DEF VramWithinCard

(* Unloading a loaded texture gives back no more than its size. *)
LEMMA UnloadKept ==
    ASSUME TexturesTyped, VramWithinCard, NEW texture \in Textures,
           graphics_unload_texture(texture)
    PROVE  TexturesTyped' /\ VramWithinCard'
  <1> DEFINE D == DOMAIN textures
             E == D \ {texture}
  <1>1. /\ vram_used' = IF vram_used > 0 THEN (vram_used - PER_TEXTURE) % WORD ELSE 0
        /\ textures' = Restrict(textures, E)
        /\ tidy' => tidy /\ texture \in D /\ textures[texture] >= PER_TEXTURE
    BY DEF graphics_unload_texture
  <1>2. DOMAIN textures' = E /\ \A t \in E : textures'[t] = textures[t]
    BY <1>1 DEF Restrict
  <1>3. vram_used \in Nat /\ PER_TEXTURE \in Nat \ {0}
    BY TexturesAssumption, WordAssumption DEF TexturesTyped
  <1>4. TexturesTyped'
    <2>1. IsFiniteSet(E)
      BY FS_RemoveElement DEF TexturesTyped
    <2>2. vram_used' \in 0 .. (WORD - 1)
      BY <1>1, <1>3, WordRange, WordAssumption
    <2>3. \A t \in E : textures'[t] \in Nat
      BY <1>2 DEF TexturesTyped
    <2> QED
      BY <1>2, <2>1, <2>2, <2>3 DEF TexturesTyped
  <1>5. ASSUME tidy' PROVE /\ vram_used' <= VRAM_SIZE
                           /\ VRAM_RESERVED + SumFunction(textures') <= vram_used'
    <2>1. /\ tidy /\ texture \in D /\ textures[texture] >= PER_TEXTURE
          /\ textures[texture] \in Nat
      BY <1>1, <1>5 DEF TexturesTyped
    <2>2. vram_used <= VRAM_SIZE /\ VRAM_RESERVED + Total(textures, D) <= vram_used
      BY <2>1 DEF VramWithinCard, SumFunction, Total
    <2> HIDE DEF D
    <2>3. Total(textures, D) = textures[texture] + Total(textures, E)
      BY <2>1, TotalTakeOut DEF TexturesTyped, D
    <2>4. Total(textures', E) = Total(textures, E)
      BY <1>2, <1>4, TotalSame DEF TexturesTyped
    <2>5. Total(textures, E) \in Nat
      BY <1>2, <1>4, <2>4, SumNotNegative DEF TexturesTyped
    <2>6. /\ vram_used >= PER_TEXTURE
          /\ vram_used - PER_TEXTURE \in 0 .. (WORD - 1)
      BY <1>3, <2>1, <2>2, <2>3, <2>5, TexturesAssumption, WordAssumption DEF TexturesTyped
    <2>7. vram_used' = vram_used - PER_TEXTURE
      BY <1>1, <1>3, <2>6, WordSmall
    <2>8. SumFunction(textures') = Total(textures', E)
      BY <1>2 DEF SumFunction, Total
    <2> QED
      BY <1>3, <2>1, <2>2, <2>3, <2>4, <2>5, <2>7, <2>8, TexturesAssumption
  <1> QED
    BY <1>4, <1>5 DEF VramWithinCard

(* graphics_load_texture and graphics_unload_texture, in any order: as     *)
(* long as callers are tidy, vram_used stays within the card and covers    *)
(* the textures that are loaded.                                           *)
THEOREM VramIsCovered == TexturesSpec => []VramWithinCard
  <1>1. TexturesTyped /\ VramWithinCard /\ [TexturesNext]_vramVars
          => TexturesTyped' /\ VramWithinCard'
    <2> SUFFICES ASSUME TexturesTyped, VramWithinCard, [TexturesNext]_vramVars
                 PROVE  TexturesTyped' /\ VramWithinCard'
      OBVIOUS
    <2>1. CASE UNCHANGED vramVars
      BY <2>1 DEF vramVars, TexturesTyped, VramWithinCard
    <2>2. CASE TexturesNext
      BY <2>2, LoadKept, UnloadKept DEF TexturesNext
    <2> QED
      BY <2>1, <2>2
  <1> QED
    BY <1>1, TexturesInitially, PTL DEF TexturesSpec

-----------------------------------------------------------------------------
(* The path of input events.                                               *)
(*                                                                         *)
(* OnlyRacesLoseEvents is not inductive: while the reader stands between   *)
(* its two steps, it may still lose what was posted since it tested, and   *)
(* so that much of raced must not be spent already.  EventBalance says so. *)
CountsAreNumbers ==
    /\ input_events_queued \in Nat
    /\ reader \in [at : {"idle", "tested"}, local : Nat]
    /\ posted \in Nat /\ taken \in Nat /\ discarded \in Nat /\ raced \in Nat

Missing == posted - (taken + discarded + input_events_queued)

(* What the reader loses if its next step stores a stale number. *)
AtStake == IF reader.at = "tested" THEN input_events_queued - reader.local ELSE 0

EventBalance ==
    /\ CountsAreNumbers
    /\ NoEventInvented
    /\ Missing + AtStake <= raced

-----------------------------------------------------------------------------
(* Whatever a handler of src/ posts, the number of unread events goes up   *)
(* by one and the reader stays where it is.                                *)
LEMMA HandlersPostOne ==
    ASSUME KeyboardEvent \/ MouseEvent
    PROVE  /\ input_events_queued' = input_events_queued + 1
           /\ UNCHANGED reader
  BY DEF KeyboardEvent, MouseEvent, Manager!keyboard_set_key,
         Manager!mouse_set_position, Manager!mouse_set_button,
         Manager!mouse_set_wheel, Manager!Post, Manager!Queued

(* A step that changes neither the reader nor a count of events keeps the  *)
(* balance.                                                                *)
LEMMA QuietStep ==
    ASSUME EventBalance,
           UNCHANGED <<input_events_queued, reader, posted, taken, discarded, raced>>
    PROVE  EventBalance'
  BY DEF EventBalance, CountsAreNumbers, NoEventInvented, Missing, AtStake

LEMMA BalanceInitially == PathInit => EventBalance
  BY DEF PathInit, Manager!Init, Manager!Idle, EventBalance, CountsAreNumbers,
         NoEventInvented, Missing, AtStake

LEMMA BalanceKept == EventBalance /\ [PathNext]_pathVars => EventBalance'
  <1> SUFFICES ASSUME EventBalance, [PathNext]_pathVars
               PROVE  EventBalance'
    OBVIOUS
  <1> USE DEF EventBalance, CountsAreNumbers, NoEventInvented, Missing, AtStake
  <1>1. ASSUME NEW irq \in Lines, DispatchedInterrupt(irq)
        PROVE  EventBalance'
    <2>1. CASE UNCHANGED <<manager, history>>
      BY <2>1, QuietStep DEF manager, history
    <2>2. CASE Interrupted(KeyboardEvent) \/ Interrupted(MouseEvent)
      <3>1. /\ input_events_queued' = input_events_queued + 1
            /\ UNCHANGED reader
        BY <2>2, HandlersPostOne DEF Interrupted
      <3>2. /\ posted' = posted + 1
            /\ raced' = IF reader.at = "tested" THEN raced + 1 ELSE raced
            /\ UNCHANGED <<taken, discarded>>
        BY <2>2 DEF Interrupted
      <3> QED
        BY <3>1, <3>2
    <2> QED
      BY <1>1, <2>1, <2>2 DEF DispatchedInterrupt
  <1>2. CASE OtherInterrupt
    BY <1>2, QuietStep DEF OtherInterrupt, manager, history
  <1>3. CASE Configure
    BY <1>3, QuietStep DEF Configure, manager, history
  <1>4. CASE Test
    <2>1. /\ UNCHANGED <<input_events_queued, posted, taken, discarded, raced>>
          /\ reader' = IF input_events_queued = 0 THEN reader
                       ELSE [at |-> "tested", local |-> input_events_queued]
          /\ reader = [at |-> "idle", local |-> 0]
      BY <1>4 DEF Test, history, Manager!get_event_test, Manager!counts, Manager!Idle
    <2> QED
      BY <2>1
  <1>5. CASE Take
    <2>1. /\ UNCHANGED <<posted, discarded, raced>>
          /\ taken' = taken + 1
          /\ reader.at = "tested"
          /\ \/ input_events_queued' = reader.local - 1
             \/ input_events_queued' = input_events_queued - 1
          /\ reader' = [at |-> "idle", local |-> 0]
      BY <1>5 DEF Take, Manager!get_event_take, Manager!Stored, Manager!Idle
    <2> QED
      BY <2>1
  <1>6. CASE Clear
    <2>1. /\ UNCHANGED <<reader, posted, taken, raced>>
          /\ reader = [at |-> "idle", local |-> 0]
          /\ discarded' = discarded + input_events_queued
          /\ input_events_queued' = 0
      BY <1>6 DEF Clear, Manager!input_clear_queue, Manager!Idle
    <2> QED
      BY <2>1
  <1>7. CASE UNCHANGED pathVars
    BY <1>7, QuietStep DEF pathVars, manager, history
  <1> QED
    BY <1>1, <1>2, <1>3, <1>4, <1>5, <1>6, <1>7 DEF PathNext

LEMMA BalanceHolds == PathSpec => []EventBalance
  BY BalanceInitially, BalanceKept, PTL DEF PathSpec

(* The reader never gets an event nobody posted, and input_events_queued   *)
(* (src/input.c:99) is never decremented below zero.                       *)
THEOREM NoEventIsInvented == PathSpec => []NoEventInvented
  <1>1. EventBalance => NoEventInvented
    BY DEF EventBalance
  <1> QED
    BY <1>1, BalanceHolds, PTL

(* Events are lost only to interrupts between the test and the subtraction *)
(* of input_get_event (src/input.c:97-99).                                 *)
THEOREM LossNeedsARace == PathSpec => []OnlyRacesLoseEvents
  <1>1. EventBalance => OnlyRacesLoseEvents
    BY DEF EventBalance, CountsAreNumbers, NoEventInvented, Missing, AtStake,
           OnlyRacesLoseEvents
  <1> QED
    BY <1>1, BalanceHolds, PTL

-----------------------------------------------------------------------------
(* The interrupt controller. *)
IrqHandler ==
    [handler : Routines \cup {NULL}, unmasked : BOOLEAN, handled_count : Nat]

CountersTyped ==
    /\ handlers \in [Lines -> IrqHandler]
    /\ total_interrupts \in Nat /\ uncounted \in Nat
    /\ posted \in Nat /\ total_events_processed \in Nat

CounterInv == CountersTyped /\ InterruptsAccountedFor

(* A table of handlers changes its sum by what one line changes its count. *)
LEMMA CountsAreSums ==
    ASSUME CountersTyped
    PROVE  /\ IsFiniteSet(Lines)
           /\ \A irq \in Lines : Counts[irq] \in Nat
           /\ Handled = Total(Counts, Lines) /\ Handled \in Nat
  <1>1. IsFiniteSet(Lines)
    BY InputPathAssumption
  <1>2. \A irq \in Lines : Counts[irq] \in Nat
    BY DEF Counts, CountersTyped, IrqHandler
  <1> QED
    BY <1>1, <1>2, SumNotNegative DEF Handled, Total

LEMMA LineCounted ==
    ASSUME CountersTyped, NEW irq \in Lines, handlers' = Controller!Count(irq)
    PROVE  handlers' \in [Lines -> IrqHandler] /\ Handled' = Handled + 1
  <1> DEFINE one == [handlers[irq] EXCEPT !.handled_count = @ + 1]
  <1>1. handlers[irq] \in IrqHandler
    BY DEF CountersTyped
  <1>2. one \in IrqHandler /\ one.handled_count = handlers[irq].handled_count + 1
    BY <1>1 DEF IrqHandler
  <1>3. handlers' = [handlers EXCEPT ![irq] = one]
    BY DEF Controller!Count
  <1> HIDE DEF one
  <1>4. handlers' \in [Lines -> IrqHandler]
    BY <1>2, <1>3 DEF CountersTyped
  <1>5. /\ Counts'[irq] = Counts[irq] + 1
        /\ \A i \in Lines \ {irq} : Counts'[i] = Counts[i]
    BY <1>2, <1>3 DEF Counts, CountersTyped
  <1>6. \A i \in Lines : Counts[i] \in Int /\ Counts'[i] \in Int
    BY <1>5, CountsAreSums
  <1>7. Total(Counts', Lines) = Total(Counts, Lines) - Counts[irq] + Counts'[irq]
    BY <1>5, <1>6, CountsAreSums, TotalChange
  <1>8. Handled' = Total(Counts', Lines)
    BY DEF Handled, Total
  <1>9. Counts[irq] \in Nat /\ Handled \in Nat /\ Handled = Total(Counts, Lines)
    BY CountsAreSums
  <1> QED
    BY <1>4, <1>5, <1>7, <1>8, <1>9

(* Registering, removing and masking leave the counts of all lines alone.  *)
LEMMA LineConfigured ==
    ASSUME CountersTyped, NEW irq \in Lines, NEW one \in IrqHandler,
           one.handled_count = handlers[irq].handled_count,
           handlers' = [handlers EXCEPT ![irq] = one]
    PROVE  handlers' \in [Lines -> IrqHandler] /\ Handled' = Handled
  <1>1. handlers' \in [Lines -> IrqHandler]
    BY DEF CountersTyped
  <1>2. Counts' = Counts
    BY DEF Counts, CountersTyped
  <1> QED
    BY <1>1, <1>2 DEF Handled

LEMMA ConfigureKeepsCounts ==
    ASSUME CountersTyped, Configure
    PROVE  /\ handlers' \in [Lines -> IrqHandler] /\ Handled' = Handled
           /\ UNCHANGED <<total_interrupts, uncounted, posted, total_events_processed>>
  <1>1. UNCHANGED <<total_interrupts, uncounted, posted, total_events_processed>>
    <2>1. UNCHANGED <<manager, history, uncounted>>
      BY DEF Configure
    <2>2. UNCHANGED total_interrupts
      BY DEF Configure, Controller!register_irq_handler, Controller!set_mask,
             Controller!unregister_irq_handler, Controller!set_disabled
    <2> QED
      BY <2>1, <2>2 DEF manager, history
  <1>2. ASSUME UNCHANGED handlers
        PROVE  handlers' \in [Lines -> IrqHandler] /\ Handled' = Handled
    BY <1>2 DEF Handled, Counts, CountersTyped
  <1>3. ASSUME NEW irq \in Lines,
               \/ \E routine \in Routines : Controller!register_irq_handler(irq, routine)
               \/ Controller!unregister_irq_handler(irq)
               \/ \E unmasked \in BOOLEAN : Controller!set_mask(irq, unmasked)
        PROVE  handlers' \in [Lines -> IrqHandler] /\ Handled' = Handled
    <2>1. handlers[irq] \in IrqHandler
      BY DEF CountersTyped
    <2>2. \E one \in IrqHandler :
             /\ one.handled_count = handlers[irq].handled_count
             /\ handlers' = [handlers EXCEPT ![irq] = one]
      <3>1. ASSUME NEW routine \in Routines,
                   Controller!register_irq_handler(irq, routine)
            PROVE  <2>2!:
        <4> DEFINE one == [handlers[irq] EXCEPT !.handler = routine, !.unmasked = TRUE]
        <4>1. one \in IrqHandler /\ one.handled_count = handlers[irq].handled_count
          BY <2>1 DEF IrqHandler
        <4>2. handlers' = [handlers EXCEPT ![irq] = one]
          BY <3>1 DEF Controller!register_irq_handler, CountersTyped
        <4> QED
          BY <4>1, <4>2
      <3>2. CASE Controller!unregister_irq_handler(irq)
        <4> DEFINE one == [handlers[irq] EXCEPT !.handler = NULL, !.unmasked = FALSE]
        <4>1. one \in IrqHandler /\ one.handled_count = handlers[irq].handled_count
          BY <2>1 DEF IrqHandler
        <4>2. handlers' = [handlers EXCEPT ![irq] = one]
          BY <3>2 DEF Controller!unregister_irq_handler, CountersTyped
        <4> QED
          BY <4>1, <4>2
      <3>3. ASSUME NEW unmasked \in BOOLEAN, Controller!set_mask(irq, unmasked)
            PROVE  <2>2!:
        <4> DEFINE one == [handlers[irq] EXCEPT !.unmasked = unmasked]
        <4>1. one \in IrqHandler /\ one.handled_count = handlers[irq].handled_count
          BY <2>1 DEF IrqHandler
        <4>2. handlers' = [handlers EXCEPT ![irq] = one]
          BY <3>3 DEF Controller!set_mask
        <4> QED
          BY <4>1, <4>2
      <3> QED
        BY <1>3, <3>1, <3>2, <3>3
    <2> QED
      BY <2>2, LineConfigured
  <1>4. \/ \E irq \in Lines :
             \/ \E routine \in Routines : Controller!register_irq_handler(irq, routine)
             \/ Controller!unregister_irq_handler(irq)
             \/ \E unmasked \in BOOLEAN : Controller!set_mask(irq, unmasked)
        \/ UNCHANGED handlers
    BY DEF Configure, Controller!set_disabled
  <1> QED
    BY <1>1, <1>2, <1>3, <1>4

(* One interrupt counts its line once and posts at most one event, which   *)
(* is processed at most once.                                              *)
LEMMA HandlersProcessOne ==
    ASSUME CountersTyped, KeyboardEvent \/ MouseEvent
    PROVE  total_events_processed' \in {total_events_processed, total_events_processed + 1}
  BY DEF KeyboardEvent, MouseEvent, Manager!keyboard_set_key,
         Manager!mouse_set_position, Manager!mouse_set_button,
         Manager!mouse_set_wheel, Manager!Post, CountersTyped

LEMMA CounterInvKept == CounterInv /\ [PathNext]_pathVars => CounterInv'
  <1> SUFFICES ASSUME CounterInv, [PathNext]_pathVars
               PROVE  CounterInv'
    OBVIOUS
  <1>1. CountersTyped /\ Handled \in Nat
    BY CountsAreSums DEF CounterInv
  <1>2. ASSUME UNCHANGED <<handlers, total_interrupts, uncounted, posted>>,
               total_events_processed' = total_events_processed
        PROVE  CounterInv'
    BY <1>2 DEF CounterInv, CountersTyped, InterruptsAccountedFor, Handled, Counts
  <1>3. ASSUME NEW irq \in Lines, DispatchedInterrupt(irq)
        PROVE  CounterInv'
    <2>1. /\ handlers' \in [Lines -> IrqHandler] /\ Handled' = Handled + 1
          /\ total_interrupts' = total_interrupts + 1 /\ uncounted' = uncounted
      BY <1>1, <1>3, LineCounted DEF DispatchedInterrupt, Controller!Enter
    <2>2. CASE UNCHANGED <<manager, history>>
      <3>1. posted' = posted /\ total_events_processed' = total_events_processed
        BY <2>2 DEF manager, history
      <3> QED
        BY <1>1, <2>1, <3>1 DEF CounterInv, CountersTyped, InterruptsAccountedFor
    <2>3. CASE Interrupted(KeyboardEvent) \/ Interrupted(MouseEvent)
      <3>1. posted' = posted + 1
        BY <2>3 DEF Interrupted
      <3>2. total_events_processed' \in {total_events_processed, total_events_processed + 1}
        BY <1>1, <2>3, HandlersProcessOne DEF Interrupted
      <3> QED
        BY <1>1, <2>1, <3>1, <3>2 DEF CounterInv, CountersTyped, InterruptsAccountedFor
    <2> QED
      BY <1>3, <2>2, <2>3 DEF DispatchedInterrupt
  <1>4. CASE OtherInterrupt
    <2>1. /\ total_interrupts' = total_interrupts + 1 /\ uncounted' = uncounted + 1
          /\ handlers' = handlers /\ posted' = posted
          /\ total_events_processed' = total_events_processed
      BY <1>4 DEF OtherInterrupt, Controller!Undispatched, manager, history
    <2>2. Handled' = Handled
      BY <2>1 DEF Handled, Counts
    <2> QED
      BY <1>1, <2>1, <2>2 DEF CounterInv, CountersTyped, InterruptsAccountedFor
  <1>5. CASE Configure
    <2>1. /\ handlers' \in [Lines -> IrqHandler] /\ Handled' = Handled
          /\ UNCHANGED <<total_interrupts, uncounted, posted, total_events_processed>>
      BY <1>1, <1>5, ConfigureKeepsCounts
    <2> QED
      BY <1>1, <2>1 DEF CounterInv, CountersTyped, InterruptsAccountedFor
  <1>6. CASE Test
    BY <1>2, <1>6 DEF Test, controller, history, Manager!counts, Manager!get_event_test
  <1>7. CASE Take \/ Clear
    BY <1>2, <1>7 DEF Take, Clear, controller, Manager!get_event_take,
                      Manager!input_clear_queue
  <1>8. CASE UNCHANGED pathVars
    BY <1>2, <1>8 DEF pathVars, controller, manager, history
  <1> QED
    BY <1>3, <1>4, <1>5, <1>6, <1>7, <1>8 DEF PathNext

(* The counters of src/ipts.c:123-220 add up, whoever registers, removes   *)
(* and masks handlers in between: get_total_interrupts (line 250) is the   *)
(* sum of what get_irq_handled_count (line 245) answers for each line and  *)
(* of the interrupts no line counts, and no event comes from nowhere.      *)
THEOREM InterruptsAddUp == PathSpec => []InterruptsAccountedFor
  <1>1. PathInit => CounterInv
    <2> SUFFICES ASSUME PathInit PROVE CounterInv
      OBVIOUS
    <2>1. CountersTyped
      BY DEF PathInit, Controller!Init, Manager!Init, CountersTyped, IrqHandler
    <2>2. \A irq \in Lines : Counts[irq] = 0
      BY DEF PathInit, Controller!Init, Counts
    <2>3. Total(Counts, Lines) = 0
      BY <2>2, InputPathAssumption, TotalZero
    <2>4. Handled = 0
      BY <2>3 DEF Handled, Total
    <2> QED
      BY <2>1, <2>4 DEF PathInit, Controller!Init, Manager!Init, CounterInv,
                        InterruptsAccountedFor
  <1>2. CounterInv => InterruptsAccountedFor
    BY DEF CounterInv
  <1> QED
    BY <1>1, <1>2, CounterInvKept, PTL DEF PathSpec
=============================================================================
