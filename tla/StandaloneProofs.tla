-------------------------- MODULE StandaloneProofs --------------------------
(***************************************************************************)
(* Theorems of the parts that share no state: the system calls, the        *)
(* shell's file system, the text screen and the block cache.               *)
(*                                                                         *)
(* The screen and the cache are shown to implement what they promise, the  *)
(* page of Terminal and the store of WriteOnceStore.  The cache needs an   *)
(* invariant for it: the taken slots are a prefix, and behind the next     *)
(* slot there are only zeros (CacheInv).                                   *)
(***************************************************************************)
EXTENDS SystemCalls, Shell, Console, BlockCache,
        FiniteSetTheorems, SequenceTheorems, TLAPS

-----------------------------------------------------------------------------
(* Numbers and places. *)

(* A nonempty set of numbers has a least one. *)
LEMMA Least ==
    ASSUME NEW S \in SUBSET Nat, S # {}
    PROVE  \E i \in S : \A j \in S : i <= j
<1>1. PICK k \in S : TRUE
  OBVIOUS
<1> DEFINE D == 0 .. k
           B == {U \in SUBSET D : \E i \in S : U = 0 .. i}
<1>2. B \subseteq SUBSET D /\ B # {}
  <2>1. D \in B
    OBVIOUS
  <2> QED
    BY <2>1
<1>3. PICK T \in B : \A U \in B : ~ (<<U, T>> \in StrictSubsetOrdering(D))
  <2>1. IsFiniteSet(D)
    BY FS_Interval
  <2> HIDE DEF B, D
  <2>2. IsWellFoundedOn(StrictSubsetOrdering(D), SUBSET D)
    BY <2>1, FS_StrictSubsetOrderingWellFounded, FS_FiniteSubsetsOfFinite
  <2> QED
    BY <1>2, <2>2, WFMin
<1>4. PICK i \in S : T = 0 .. i
  BY <1>3
<1>5. ASSUME NEW j \in S, j < i PROVE FALSE
  <2>1. 0 .. j \in B /\ 0 .. j \subseteq T
    BY <1>4, <1>5
  <2>2. i \in 0 .. i /\ i \notin 0 .. j
    BY <1>5
  <2>3. <<0 .. j, T>> \in StrictSubsetOrdering(D)
    BY <1>3, <1>4, <2>1, <2>2 DEF StrictSubsetOrdering
  <2> QED
    BY <1>3, <2>1, <2>3
<1> QED
  BY <1>5

(* The first and the last place of a sequence that are in a set of places. *)
LEMMA FirstPlace ==
    ASSUME NEW n \in Nat, NEW I \in SUBSET (1 .. n), I # {}
    PROVE  Min(I) \in I /\ \A i \in I : Min(I) <= i
<1>1. \E i \in I : \A j \in I : i <= j
  BY Least
<1> QED
  BY <1>1 DEF Min

LEMMA LastPlace ==
    ASSUME NEW n \in Nat, NEW I \in SUBSET (1 .. n), I # {}
    PROVE  Max(I) \in I /\ \A i \in I : i <= Max(I)
<1> DEFINE J == {k \in 0 .. n : \E i \in I : k = n - i}
<1>1. J \in SUBSET Nat /\ J # {}
  <2>1. PICK i \in I : TRUE
    OBVIOUS
  <2>2. n - i \in J
    BY <2>1
  <2> QED
    BY <2>2
<1>2. PICK k \in J : \A j \in J : k <= j
  <2> HIDE DEF J
  <2> QED
    BY <1>1, Least
<1>3. PICK i \in I : k = n - i
  BY <1>2
<1>4. \A j \in I : j <= i
  <2> TAKE j \in I
  <2>1. n - j \in J
    OBVIOUS
  <2>2. n - i <= n - j
    BY <1>2, <1>3, <2>1
  <2> QED
    BY <2>2
<1>5. \E m \in I : \A j \in I : m >= j
  BY <1>4
<1> QED
  BY <1>5 DEF Max

-----------------------------------------------------------------------------
(* System calls. *)

(* What was not handed out by dup2 lies below the counter. *)
FdInv ==
    /\ next_fd \in Nat
    /\ \A fd \in in_use : fd \in moved \/ fd \in 0 .. (next_fd - 1)

(* How each call changes the counter and the callers' descriptors.         *)
LEMMA CallKeepsFds ==
    ASSUME FdInv, [CallsNext]_callVars
    PROVE  FdInv' /\ (next_fd' > next_fd => result' = next_fd)
<1> USE DEF FdInv
<1>1. CASE UNCHANGED callVars
  BY <1>1 DEF callVars
<1>2. ASSUME NEW number \in 0 .. 31, NEW arguments \in Values \X Values \X Values,
             handle_syscall(number, arguments)
      PROVE  FdInv' /\ (next_fd' > next_fd => result' = next_fd)
  <2>1. CASE syscall_open
    BY <2>1 DEF syscall_open
  <2>2. ASSUME NEW fd, syscall_close(fd)
        PROVE  FdInv' /\ ~(next_fd' > next_fd)
    BY <2>2 DEF syscall_close, KeepClosed
  <2>3. ASSUME NEW fd, syscall_dup2(fd)
        PROVE  FdInv' /\ ~(next_fd' > next_fd)
    BY <2>3 DEF syscall_dup2
  <2>4. ASSUME UNCHANGED <<next_fd, in_use, moved>>
        PROVE  FdInv' /\ ~(next_fd' > next_fd)
    BY <2>4
  <2>5. CASE syscall_fork \/ syscall_other(number, arguments) \/ refused
    BY <2>4, <2>5 DEF syscall_fork, syscall_other, refused
  <2> QED
    BY <1>2, <2>1, <2>2, <2>3, <2>5 DEF handle_syscall
<1> QED
  BY <1>1, <1>2 DEF CallsNext

(* open and dup never answer a descriptor that is in use, unless dup2 put  *)
(* it there (src/kernel.c:56-62, 113-119).                                 *)
THEOREM OpenedIsFresh == CallsSpec => OpenAnswersFreshDescriptor
<1>1. CallsInit => FdInv
  BY SystemCallsAssumption DEF CallsInit, FdInv
<1>2. FdInv /\ [CallsNext]_callVars => FdInv'
  BY CallKeepsFds
<1>3. FdInv /\ [CallsNext]_callVars =>
        [\A fd \in in_use : next_fd' > next_fd /\ result' = fd => fd \in moved]_callVars
  BY CallKeepsFds DEF FdInv
<1> QED
  BY <1>1, <1>2, <1>3, PTL DEF CallsSpec, OpenAnswersFreshDescriptor

-----------------------------------------------------------------------------
(* Shell. *)

(* Expected files lie in known directories, and are listed there. *)
ListedInv ==
    /\ directories = [d \in DOMAIN directories |-> directories[d]]
    /\ \A file \in expected :
         /\ Parent(file) \in DOMAIN directories
         /\ Filename(file) \in directories[Parent(file)]

(* Entering a child in its directory takes nothing away. *)
LEMMA ChildrenOnlyGrow ==
    ASSUME NEW known, known = [d \in DOMAIN known |-> known[d]],
           NEW directory, NEW child
    PROVE  LET after == WithChild(known, directory, child)
           IN  /\ after = [d \in DOMAIN after |-> after[d]]
               /\ DOMAIN after = DOMAIN known
               /\ \A d \in DOMAIN known : known[d] \subseteq after[d]
               /\ directory \in DOMAIN known => child \in after[directory]
BY DEF WithChild

LEMMA TouchKeepsListed ==
    ASSUME ListedInv, NEW path \in Paths, cmd_touch(path)
    PROVE  ListedInv'
<1> DEFINE full == FullPath(path)
<1>1. /\ directories' = WithChild(directories, Parent(full), Filename(full))
      /\ expected' \subseteq expected \cup {full}
      /\ full \in expected' => full \in expected \/ Parent(full) \in DOMAIN directories
  BY DEF cmd_touch, ListedAs
<1>2. /\ directories' = [d \in DOMAIN directories' |-> directories'[d]]
      /\ DOMAIN directories' = DOMAIN directories
      /\ \A d \in DOMAIN directories : directories[d] \subseteq directories'[d]
      /\ Parent(full) \in DOMAIN directories => Filename(full) \in directories'[Parent(full)]
  BY <1>1, ChildrenOnlyGrow DEF ListedInv
<1> QED
  BY <1>1, <1>2 DEF ListedInv

LEMMA MkdirKeepsListed ==
    ASSUME ListedInv, NEW path \in Paths, cmd_mkdir(path)
    PROVE  ListedInv'
<1> DEFINE full  == FullPath(path)
           known == [d \in DOMAIN directories \cup {full} |->
                       IF d = full THEN {} ELSE directories[d]]
<1>1. /\ directories' = WithChild(known, Parent(full), path)
      /\ expected' = {file \in expected : Parent(file) # full}
  BY DEF cmd_mkdir
<1>2. /\ directories' = [d \in DOMAIN directories' |-> directories'[d]]
      /\ DOMAIN directories' = DOMAIN known
      /\ \A d \in DOMAIN known : known[d] \subseteq directories'[d]
  <2>1. known = [d \in DOMAIN known |-> known[d]]
    OBVIOUS
  <2> HIDE DEF known, full
  <2>2. directories' = WithChild(known, Parent(full), path)
    BY <1>1
  <2> QED
    BY <2>1, <2>2, ChildrenOnlyGrow
<1>3. \A d \in DOMAIN directories \ {full} :
        d \in DOMAIN known /\ known[d] = directories[d]
  OBVIOUS
<1> QED
  BY <1>1, <1>2, <1>3 DEF ListedInv

(* A file made in a known directory stays listed there until the directory *)
(* is made anew (src/shell.py:144-169).                                    *)
THEOREM MadeFilesAreListed == ShellSpec => []FilesListed
<1>1. ShellInit => ListedInv
  BY ShellAssumption DEF ShellInit, ListedInv
<1>2. ASSUME ListedInv, [ShellNext]_shellVars
      PROVE  ListedInv'
  <2>1. CASE UNCHANGED <<directories, expected>>
    BY <1>2, <2>1 DEF ListedInv
  <2>2. ASSUME NEW path \in Paths, cmd_cd(path) PROVE ListedInv'
    BY <2>1, <2>2 DEF cmd_cd
  <2>3. CASE cmd_cd_home
    BY <2>1, <2>3 DEF cmd_cd_home
  <2>4. CASE UNCHANGED shellVars
    BY <2>1, <2>4 DEF shellVars
  <2> QED
    BY <1>2, <2>2, <2>3, <2>4, TouchKeepsListed, MkdirKeepsListed DEF ShellNext
<1>3. ListedInv => FilesListed
  BY DEF ListedInv, FilesListed
<1> QED
  BY <1>1, <1>2, <1>3, PTL DEF ShellSpec

-----------------------------------------------------------------------------
(* The current path. *)

(* What paths are made of.  That the slash is a string is beyond the provers. *)
Pieces == STRING \cup {Slash}

(* Where the searches of the path functions end. *)
LEMMA LastSlashPlace ==
    ASSUME NEW path \in Seq(Pieces)
    PROVE  LastSlash(path) \in 0 .. Len(path)
<1> DEFINE I == {i \in 1 .. Len(path) : path[i] = Slash}
<1>1. LastSlash(path) = IF I # {} THEN Max(I) ELSE 0
  BY DEF LastSlash, SelectLastInSeq
<1>2. I # {} => Max(I) \in 1 .. Len(path)
  <2>1. I \in SUBSET (1 .. Len(path)) /\ Len(path) \in Nat
    OBVIOUS
  <2> HIDE DEF I
  <2> QED
    BY <2>1, LastPlace
<1> HIDE DEF I
<1> QED
  BY <1>1, <1>2

(* What is cut off at the end leaves the beginning of a path. *)
LEMMA RstripCuts ==
    ASSUME NEW path \in Seq(Pieces)
    PROVE  /\ Rstrip(path) \in Seq(Pieces)
           /\ Len(Rstrip(path)) <= Len(path)
           /\ \A i \in 1 .. Len(Rstrip(path)) : Rstrip(path)[i] = path[i]
<1> DEFINE I == {i \in 1 .. Len(path) : path[i] # Slash}
           last == IF I # {} THEN Max(I) ELSE 0
<1>1. Rstrip(path) = SubSeq(path, 1, last)
  BY DEF Rstrip, SelectLastInSeq
<1>2. I # {} => Max(I) \in 1 .. Len(path)
  <2>1. I \in SUBSET (1 .. Len(path)) /\ Len(path) \in Nat
    OBVIOUS
  <2> HIDE DEF I
  <2> QED
    BY <2>1, LastPlace
<1> HIDE DEF I
<1>3. last \in 0 .. Len(path)
  BY <1>2
<1> HIDE DEF last
<1> QED
  BY <1>1, <1>3

LEMMA ParentCuts ==
    ASSUME NEW path \in Seq(Pieces)
    PROVE  /\ Parent(path) \in Seq(Pieces)
           /\ Len(Parent(path)) <= Len(path)
           /\ Len(path) > 0 => Len(Parent(path)) < Len(path)
<1>1. LastSlash(path) \in 0 .. Len(path) /\ Len(path) \in Nat
  BY LastSlashPlace
<1>2. Parent(path) = SubSeq(path, 1, LastSlash(path) - 1)
  BY DEF Parent
<1> HIDE DEF LastSlash
<1> QED
  BY <1>1, <1>2

(* A path that starts with a slash loses that piece. *)
LEMMA StripShortens ==
    ASSUME NEW path \in Seq(Pieces), path # <<>>, path[1] = Slash
    PROVE  /\ Strip(path) \in Seq(Pieces)
           /\ Len(Strip(path)) < Len(path)
<1> DEFINE I == {i \in 1 .. Len(path) : path[i] # Slash}
           first == IF I # {} THEN Min(I) ELSE 0
<1>1. Strip(path) = IF first = 0 THEN <<>>
                    ELSE Rstrip(SubSeq(path, first, Len(path)))
  BY DEF Strip, SelectInSeq
<1>2. first = 0 \/ first \in 2 .. Len(path)
  <2>1. I \in SUBSET (2 .. Len(path)) /\ I \in SUBSET (1 .. Len(path)) /\ Len(path) \in Nat
    OBVIOUS
  <2>2. I # {} => Min(I) \in I
    <3> HIDE DEF I
    <3> QED
      BY <2>1, FirstPlace
  <2> HIDE DEF I
  <2> QED
    BY <2>1, <2>2
<1> HIDE DEF first
<1>3. CASE first = 0
  BY <1>1, <1>3
<1>4. CASE first \in 2 .. Len(path)
  <2> DEFINE rest == SubSeq(path, first, Len(path))
  <2>1. rest \in Seq(Pieces) /\ Len(rest) = Len(path) - first + 1
    BY <1>4
  <2>2. Strip(path) = Rstrip(rest)
    BY <1>1, <1>4
  <2> HIDE DEF rest
  <2>3. Strip(path) \in Seq(Pieces) /\ Len(Strip(path)) <= Len(rest)
    BY <2>1, <2>2, RstripCuts
  <2> QED
    BY <1>4, <2>1, <2>3
<1> QED
  BY <1>2, <1>3, <1>4

Absolute(path) == path \in Seq(Pieces) /\ path # <<>> /\ path[1] = Slash

LEMMA RootIsAbsolute == Absolute(Root) /\ Len(Root) = 1 /\ Root[1] = Slash
<1>1. Slash \in Pieces
  BY DEF Pieces
<1>2. Root \in Seq(Pieces)
  BY <1>1 DEF Root
<1> QED
  BY <1>1, <1>2 DEF Absolute, Root

(* A path put behind the root is absolute. *)
LEMMA BehindRoot ==
    ASSUME NEW path \in Seq(Pieces)
    PROVE  Absolute(Root \o path) /\ Len(Root \o path) = Len(path) + 1
<1>1. Root \in Seq(Pieces) /\ Len(Root) = 1 /\ Root[1] = Slash
  BY RootIsAbsolute DEF Absolute
<1>2. ASSUME NEW r \in Seq(Pieces), Len(r) = 1, r[1] = Slash
      PROVE  /\ r \o path \in Seq(Pieces) /\ Len(r \o path) = Len(path) + 1
             /\ r \o path # <<>> /\ (r \o path)[1] = Slash
  <2>1. r \o path \in Seq(Pieces) /\ Len(r \o path) = Len(path) + 1 /\ Len(path) \in Nat
    BY <1>2, ConcatProperties
  <2>2. \A i \in 1 .. Len(r) + Len(path) :
          (r \o path)[i] = IF i <= Len(r) THEN r[i] ELSE path[i - Len(r)]
    BY <1>2, ConcatProperties
  <2>3. (r \o path)[1] = Slash
    BY <1>2, <2>1, <2>2
  <2> QED
    BY <2>1, <2>3
<1> QED
  BY <1>1, <1>2 DEF Absolute

(* cd .. from an absolute path leads to a shorter one, up to the root. *)
LEMMA UpShortens ==
    ASSUME NEW path, Absolute(path)
    PROVE  /\ Absolute(Up(path))
           /\ path # Root => Len(Up(path)) < Len(path)
<1> DEFINE up == Parent(Strip(path))
<1>1. /\ path \in Seq(Pieces) /\ Len(path) \in Nat \ {0}
      /\ path # Root => Len(path) > 1
  <2>1. path \in Seq(Pieces) /\ Len(path) \in Nat \ {0} /\ path[1] = Slash
    BY DEF Absolute
  <2>2. ASSUME Len(path) = 1 PROVE path = <<Slash>>
    <3>1. <<Slash>> \in Seq(Pieces) /\ Len(<<Slash>>) = 1 /\ <<Slash>>[1] = Slash
      BY RootIsAbsolute DEF Absolute, Root
    <3>2. \A i \in 1 .. Len(path) : path[i] = <<Slash>>[i]
      BY <2>1, <2>2, <3>1
    <3> QED
      BY <2>1, <2>2, <3>1, <3>2, SeqEqual
  <2>3. path # Root => Len(path) # 1
    BY <2>2 DEF Root
  <2>4. ASSUME NEW n \in Nat \ {0}, n # 1 PROVE n > 1
    BY ONLY <2>4
  <2> QED
    BY <2>1, <2>3, <2>4, Zenon
<1>2. Strip(path) \in Seq(Pieces) /\ Len(Strip(path)) < Len(path)
  BY StripShortens DEF Absolute
<1>3. /\ up \in Seq(Pieces) /\ Len(up) <= Len(Strip(path))
      /\ Len(Strip(path)) > 0 => Len(up) < Len(Strip(path))
  BY <1>2, ParentCuts
<1>4. /\ Len(up) \in Nat /\ Len(Strip(path)) \in Nat
      /\ Len(up) + 1 < Len(path) \/ Len(up) = 0
  BY <1>1, <1>2, <1>3
<1>5. Up(path) = IF path = Root THEN Root
                 ELSE IF up # <<>> /\ Head(up) = Slash THEN up ELSE Root \o up
  BY DEF Up
<1> HIDE DEF up
<1>6. CASE path = Root
  BY <1>5, <1>6, RootIsAbsolute
<1>7. CASE path # Root /\ up # <<>> /\ Head(up) = Slash
  <2>1. Up(path) = up /\ Absolute(up) /\ Len(up) > 0
    BY <1>3, <1>5, <1>7 DEF Absolute
  <2> QED
    BY <1>1, <1>4, <2>1
<1>8. CASE path # Root /\ ~(up # <<>> /\ Head(up) = Slash)
  <2>1. Up(path) = Root \o up
    BY <1>5, <1>8
  <2>2. Absolute(Root \o up) /\ Len(Root \o up) = Len(up) + 1
    BY <1>3, BehindRoot
  <2> QED
    BY <1>1, <1>4, <1>8, <2>1, <2>2
<1> QED
  BY <1>6, <1>7, <1>8

(* Every path cd sets is absolute. *)
LEMMA NewPathAbsolute ==
    ASSUME Absolute(current_path), NEW path \in Paths
    PROVE  Absolute(NewPath(path))
<1>1. path \in Seq(Pieces)
  <2>1. path \in Seq(STRING)
    BY ShellAssumption
  <2> QED
    BY <2>1 DEF Pieces
<1> DEFINE down == Rstrip(current_path) \o Root \o path
<1>2. Absolute(down)
  <2> DEFINE cut == Rstrip(current_path)
             tail == Root \o path
  <2>1. /\ cut \in Seq(Pieces) /\ Len(cut) \in Nat
        /\ Len(cut) > 0 => cut[1] = Slash
    <3>1. current_path \in Seq(Pieces) /\ current_path[1] = Slash
      BY DEF Absolute
    <3> QED
      BY <3>1, RstripCuts
  <2>2. tail \in Seq(Pieces) /\ tail # <<>> /\ tail[1] = Slash
    BY <1>1, BehindRoot DEF Absolute
  <2>3. down = cut \o tail
    <3>1. Root \in Seq(Pieces)
      BY RootIsAbsolute DEF Absolute
    <3>2. ASSUME NEW a \in Seq(Pieces), NEW b \in Seq(Pieces), NEW c \in Seq(Pieces)
          PROVE  a \o b \o c = a \o (b \o c)
      BY ConcatAssociative
    <3> QED
      BY <1>1, <2>1, <3>1, <3>2
  <2> HIDE DEF cut, tail, down
  <2> QED
    BY <2>1, <2>2, <2>3 DEF Absolute
<1> HIDE DEF down
<1>3. NewPath(path) \in {Up(current_path), Root, current_path, down}
  BY DEF NewPath, down
<1> QED
  BY <1>2, <1>3, UpShortens, RootIsAbsolute

(* The current path stays absolute, whatever cd is given, and cd ..        *)
(* shortens it until it is the root (src/shell.py:119-137).                *)
THEOREM UpEndsAtRoot == ShellSpec => []UpLeadsToRoot
<1>1. ShellInit => Absolute(current_path)
  BY RootIsAbsolute DEF ShellInit
<1>2. ASSUME Absolute(current_path), [ShellNext]_shellVars
      PROVE  Absolute(current_path)'
  <2>1. CASE UNCHANGED current_path
    BY <1>2, <2>1 DEF Absolute
  <2>2. ASSUME NEW path \in Paths, cmd_cd(path) PROVE Absolute(current_path)'
    <3>1. current_path' \in {NewPath(path), current_path}
      BY <2>2 DEF cmd_cd
    <3>2. Absolute(NewPath(path))
      BY <1>2, NewPathAbsolute
    <3> QED
      BY <1>2, <3>1, <3>2 DEF Absolute
  <2> QED
    BY <1>2, <2>1, <2>2 DEF ShellNext, shellVars, cmd_cd_home, cmd_touch, cmd_mkdir
<1>3. Absolute(current_path) => UpLeadsToRoot
  BY UpShortens DEF UpLeadsToRoot, Absolute
<1> QED
  BY <1>1, <1>2, <1>3, PTL DEF ShellSpec

-----------------------------------------------------------------------------
(* The text screen. *)

(* Cells lie one row after the other. *)
LEMMA TimesIsMonotonic ==
    ASSUME NEW a \in Nat, NEW b \in Nat, NEW w \in Nat, a <= b
    PROVE  a * w <= b * w /\ a * w \in Nat /\ b * w \in Nat
OBVIOUS

LEMMA RowsAreApart ==
    ASSUME NEW w \in Nat \ {0}, NEW x \in 0 .. (w - 1), NEW y \in Nat, NEW v \in Nat, y < v
    PROVE  y * w + x < v * w
<1>1. (y + 1) * w <= v * w
  BY TimesIsMonotonic
<1>2. (y + 1) * w = y * w + w
  OBVIOUS
<1>3. y * w \in Nat /\ v * w \in Nat
  BY TimesIsMonotonic
<1> QED
  BY <1>1, <1>2, <1>3

Columns == 0 .. (SCREEN_WIDTH - 1)
Lines == 0 .. LastRow

LEMMA CellNumbers ==
    ASSUME NEW x \in Columns, NEW y \in Lines
    PROVE  /\ At(x, y) \in Cells
           /\ \A u \in Columns, v \in Lines : At(u, v) = At(x, y) => u = x /\ v = y
           /\ At(x, y) < LastRow * SCREEN_WIDTH <=> y < LastRow
           /\ y < LastRow => At(x, y) + SCREEN_WIDTH = At(x, y + 1)
<1> DEFINE W == SCREEN_WIDTH
           H == SCREEN_HEIGHT
<1>1. W \in Nat \ {0} /\ H \in Nat \ {0} /\ LastRow = H - 1 /\ x \in 0 .. (W - 1)
      /\ y \in 0 .. (H - 1)
  BY ConsoleAssumption DEF Columns, Lines, LastRow
<1> HIDE DEF W, H
<1>2. At(x, y) \in Cells
  <2>1. y * W + x < H * W /\ y * W \in Nat /\ H * W \in Nat
    BY <1>1, RowsAreApart, TimesIsMonotonic
  <2>2. Cells = 0 .. (W * H - 1) /\ W * H = H * W /\ At(x, y) = y * W + x
    BY <1>1 DEF Cells, At, W, H
  <2> QED
    BY <1>1, <2>1, <2>2
<1>3. ASSUME NEW u \in Columns, NEW v \in Lines, At(u, v) = At(x, y)
      PROVE  u = x /\ v = y
  <2>1. u \in 0 .. (W - 1) /\ v \in 0 .. (H - 1)
    BY <1>1 DEF Columns, Lines, W, H
  <2>2. v * W + u = y * W + x /\ v * W \in Nat /\ y * W \in Nat
    BY <1>1, <1>3, <2>1, TimesIsMonotonic DEF At, W, H
  <2>3. ~ (v < y)
    BY <1>1, <2>1, <2>2, RowsAreApart
  <2>4. ~ (y < v)
    BY <1>1, <2>1, <2>2, RowsAreApart
  <2>5. v = y
    BY <1>1, <2>1, <2>3, <2>4
  <2> QED
    BY <1>1, <2>1, <2>2, <2>5
<1>4. At(x, y) < LastRow * SCREEN_WIDTH <=> y < LastRow
  <2>1. /\ y * W \in Nat /\ (H - 1) * W \in Nat
        /\ y = H - 1 => y * W = (H - 1) * W
    BY <1>1, TimesIsMonotonic
  <2>2. y < H - 1 => y * W + x < (H - 1) * W
    BY <1>1, RowsAreApart
  <2>3. At(x, y) < LastRow * SCREEN_WIDTH <=> y * W + x < (H - 1) * W
    BY <1>1 DEF At, W
  <2> QED
    BY <1>1, <2>1, <2>2, <2>3
<1>5. y < LastRow => At(x, y) + SCREEN_WIDTH = At(x, y + 1)
  <2>1. (y + 1) * W = y * W + W /\ y * W \in Nat
    BY <1>1, TimesIsMonotonic
  <2> QED
    BY <1>1, <2>1 DEF At, W
<1> QED
  BY <1>2, <1>3, <1>4, <1>5

-----------------------------------------------------------------------------
Shown == Characters \cup Fills \cup {Space}

RowsOf(memory) ==
    [r \in 1 .. SCREEN_HEIGHT |-> [c \in 1 .. SCREEN_WIDTH |-> memory[At(c - 1, r - 1)]]]

LEMMA ScrollKeepsTypes ==
    ASSUME NEW memory \in [Cells -> Shown]
    PROVE  screen_scroll(memory) \in [Cells -> Shown]
<1>1. ASSUME NEW i \in Cells, i < LastRow * SCREEN_WIDTH
      PROVE  i + SCREEN_WIDTH \in Cells
  <2>1. /\ SCREEN_WIDTH \in Nat /\ SCREEN_HEIGHT \in Nat \ {0} /\ LastRow \in Nat
        /\ SCREEN_WIDTH * SCREEN_HEIGHT = LastRow * SCREEN_WIDTH + SCREEN_WIDTH
    BY ConsoleAssumption DEF LastRow
  <2>2. LastRow * SCREEN_WIDTH \in Nat
    BY <2>1, TimesIsMonotonic
  <2> QED
    BY <1>1, <2>1, <2>2 DEF Cells
<1> QED
  BY <1>1 DEF screen_scroll, Shown

(* The types, and where the cursor is: what Settle needs and gives. *)
LEMMA SettleKeepsTypes ==
    ASSUME NEW memory \in [Cells -> Shown], NEW x \in Nat, NEW y \in 0 .. SCREEN_HEIGHT,
           RowIsFull(x) => y \in Lines, Settle(memory, x, y)
    PROVE  TypeOK'
<1>1. screen_scroll(memory) \in [Cells -> Shown]
  BY ScrollKeepsTypes
<1>2. video_memory' \in [Cells -> Shown]
  BY <1>1 DEF Settle
<1>3. cursor_x' \in Columns /\ cursor_y' \in Lines
  BY ConsoleAssumption DEF Settle, RowIsFull, Columns, Lines, LastRow
<1> QED
  BY <1>2, <1>3 DEF TypeOK, Shown, Columns, Lines

LEMMA WrittenKeepsTypes ==
    ASSUME TypeOK, NEW x \in Columns, NEW y \in Lines, NEW cell \in Shown
    PROVE  Written(x, y, cell) \in [Cells -> Shown]
BY CellNumbers DEF TypeOK, Written, Shown

(* Every call leaves the cursor on the screen (src/kernel.c:258-315). *)
LEMMA ConsoleKeepsTypes ==
    ASSUME TypeOK, [ConsoleNext]_consoleVars
    PROVE  TypeOK'
<1>1. /\ video_memory \in [Cells -> Shown] /\ cursor_x \in Columns /\ cursor_y \in Lines
      /\ SCREEN_WIDTH \in Nat \ {0} /\ SCREEN_HEIGHT \in Nat \ {0}
  BY ConsoleAssumption DEF TypeOK, Shown, Columns, Lines
<1>2. CASE UNCHANGED consoleVars
  BY <1>2 DEF consoleVars, TypeOK
<1>3. CASE putchar_newline
  BY <1>1, <1>3, SettleKeepsTypes DEF putchar_newline, RowIsFull, Lines, LastRow
<1>4. CASE putchar_return
  BY <1>1, <1>4, SettleKeepsTypes DEF putchar_return, RowIsFull, Lines, LastRow
<1>5. CASE putchar_tab
  BY <1>1, <1>5, SettleKeepsTypes DEF putchar_tab, Lines, LastRow, Columns
<1>6. CASE putchar_backspace
  <2>1. CASE cursor_x > 0
    <3>1. cursor_x - 1 \in Columns /\ Space \in Shown
      BY <1>1, <2>1 DEF Columns, Shown
    <3>2. Written(cursor_x - 1, cursor_y, Space) \in [Cells -> Shown]
      BY <1>1, <3>1, WrittenKeepsTypes
    <3>3. Settle(Written(cursor_x - 1, cursor_y, Space), cursor_x - 1, cursor_y)
      BY <1>6, <2>1 DEF putchar_backspace
    <3> QED
      BY <1>1, <3>1, <3>2, <3>3, SettleKeepsTypes DEF Lines, LastRow, Columns
  <2>2. CASE ~(cursor_x > 0)
    BY <1>1, <1>6, <2>2, SettleKeepsTypes DEF putchar_backspace, Lines, LastRow, Columns
  <2> QED
    BY <2>1, <2>2
<1>7. ASSUME NEW cell \in Characters, putchar_other(cell) PROVE TypeOK'
  <2>1. Written(cursor_x, cursor_y, cell) \in [Cells -> Shown]
    BY <1>1, WrittenKeepsTypes DEF Shown
  <2>2. Settle(Written(cursor_x, cursor_y, cell), cursor_x + 1, cursor_y)
    BY <1>7 DEF putchar_other
  <2> QED
    BY <1>1, <2>1, <2>2, SettleKeepsTypes DEF Lines, LastRow, Columns
<1>8. CASE screen_clear
  BY <1>1, <1>8 DEF screen_clear, TypeOK, LastRow
<1>9. ASSUME NEW cell \in Fills, graphics_clear_screen(cell) PROVE TypeOK'
  BY <1>9 DEF graphics_clear_screen, TypeOK
<1> QED
  BY <1>2, <1>3, <1>4, <1>5, <1>6, <1>7, <1>8, <1>9 DEF ConsoleNext, screen_putchar

(* The cursor is on the screen between calls. *)
THEOREM CursorStaysOnScreen == ConsoleSpec => []TypeOK
<1>1. ConsoleInit => TypeOK
  BY ConsoleAssumption DEF ConsoleInit, TypeOK, LastRow
<1> QED
  BY <1>1, ConsoleKeepsTypes, PTL DEF ConsoleSpec

-----------------------------------------------------------------------------
(* Writing a cell is writing it in its row. *)
WithCell(page, r, c, cell) == [page EXCEPT ![r][c] = cell]

LEMMA WrittenInRow ==
    ASSUME NEW memory \in [Cells -> Shown], NEW x \in Columns, NEW y \in Lines, NEW cell
    PROVE  RowsOf([memory EXCEPT ![At(x, y)] = cell])
             = WithCell(RowsOf(memory), y + 1, x + 1, cell)
<1>1. /\ SCREEN_WIDTH \in Nat \ {0} /\ SCREEN_HEIGHT \in Nat \ {0}
      /\ At(x, y) \in Cells /\ x + 1 \in 1 .. SCREEN_WIDTH /\ y + 1 \in 1 .. SCREEN_HEIGHT
  BY ConsoleAssumption, CellNumbers DEF Columns, Lines, LastRow
<1>2. ASSUME NEW r \in 1 .. SCREEN_HEIGHT, NEW c \in 1 .. SCREEN_WIDTH
      PROVE  [memory EXCEPT ![At(x, y)] = cell][At(c - 1, r - 1)]
               = IF r = y + 1 /\ c = x + 1 THEN cell ELSE memory[At(c - 1, r - 1)]
  <2>1. c - 1 \in Columns /\ r - 1 \in Lines
    BY <1>1 DEF Columns, Lines, LastRow
  <2>2. At(c - 1, r - 1) \in Cells /\ (At(c - 1, r - 1) = At(x, y) => c - 1 = x /\ r - 1 = y)
    BY <2>1, CellNumbers
  <2>3. At(c - 1, r - 1) = At(x, y) <=> (r = y + 1 /\ c = x + 1)
    <3>1. c = x + 1 <=> c - 1 = x
      BY <1>1 DEF Columns
    <3>2. r = y + 1 <=> r - 1 = y
      BY <1>1 DEF Lines, LastRow
    <3> QED
      BY <2>2, <3>1, <3>2
  <2> QED
    BY <2>2, <2>3
<1> QED
  BY <1>1, <1>2 DEF RowsOf, WithCell

(* Scrolling drops the first row and begins an empty one. *)
LEMMA ScrolledRows ==
    ASSUME NEW memory \in [Cells -> Shown]
    PROVE  RowsOf(screen_scroll(memory))
             = Append(Tail(RowsOf(memory)), Page!EmptyRow(Space))
<1> DEFINE P == RowsOf(memory)
           Q == RowsOf(screen_scroll(memory))
           Row == [1 .. SCREEN_WIDTH -> Shown]
<1>1. /\ SCREEN_WIDTH \in Nat \ {0} /\ SCREEN_HEIGHT \in Nat \ {0} /\ LastRow = SCREEN_HEIGHT - 1
  BY ConsoleAssumption DEF LastRow
<1>2. ASSUME NEW m \in [Cells -> Shown]
      PROVE  RowsOf(m) \in [1 .. SCREEN_HEIGHT -> Row]
  <2>1. ASSUME NEW r \in 1 .. SCREEN_HEIGHT, NEW c \in 1 .. SCREEN_WIDTH
        PROVE  m[At(c - 1, r - 1)] \in Shown
    <3>1. c - 1 \in Columns /\ r - 1 \in Lines
      BY <1>1 DEF Columns, Lines
    <3> QED
      BY <3>1, CellNumbers
  <2> QED
    BY <2>1 DEF RowsOf
<1>3. P \in Seq(Row) /\ Len(P) = SCREEN_HEIGHT /\ Q \in Seq(Row) /\ Len(Q) = SCREEN_HEIGHT
  <2>1. P \in [1 .. SCREEN_HEIGHT -> Row] /\ Q \in [1 .. SCREEN_HEIGHT -> Row]
    BY <1>2, ScrollKeepsTypes
  <2> HIDE DEF P, Q, Row
  <2> QED
    BY <1>1, <2>1
<1>4. Page!EmptyRow(Space) \in Row /\ Page!EmptyRow(Space) = [c \in 1 .. SCREEN_WIDTH |-> Space]
  BY DEF Page!EmptyRow, Shown
<1>5. ASSUME NEW r \in 1 .. SCREEN_HEIGHT
      PROVE  Q[r] = IF r <= LastRow THEN P[r + 1] ELSE Page!EmptyRow(Space)
  <2>1. ASSUME NEW c \in 1 .. SCREEN_WIDTH
        PROVE  screen_scroll(memory)[At(c - 1, r - 1)]
                 = IF r <= LastRow THEN memory[At(c - 1, r + 1 - 1)] ELSE Space
    <3>1. c - 1 \in Columns /\ r - 1 \in Lines /\ (r <= LastRow <=> r - 1 < LastRow)
          /\ (r - 1) + 1 = r + 1 - 1
      BY <1>1 DEF Columns, Lines
    <3>2. /\ At(c - 1, r - 1) \in Cells
          /\ At(c - 1, r - 1) < LastRow * SCREEN_WIDTH <=> r - 1 < LastRow
          /\ r - 1 < LastRow =>
               At(c - 1, r - 1) + SCREEN_WIDTH = At(c - 1, (r - 1) + 1)
      BY <3>1, CellNumbers
    <3> QED
      BY <3>1, <3>2 DEF screen_scroll
  <2>2. CASE r <= LastRow
    <3>1. r + 1 \in 1 .. SCREEN_HEIGHT
      BY <1>1, <2>2
    <3> QED
      BY <2>1, <2>2, <3>1 DEF RowsOf
  <2>3. CASE ~(r <= LastRow)
    BY <1>4, <2>1, <2>3 DEF RowsOf
  <2> QED
    BY <2>2, <2>3
<1> DEFINE T == Tail(P)
           A == Append(T, Page!EmptyRow(Space))
<1> HIDE DEF P, Q, Row
<1>6. T \in Seq(Row) /\ Len(T) = LastRow /\ \A r \in 1 .. LastRow : T[r] = P[r + 1]
  BY <1>1, <1>3
<1> HIDE DEF T
<1>7. /\ A \in Seq(Row) /\ Len(A) = SCREEN_HEIGHT
      /\ \A r \in 1 .. SCREEN_HEIGHT :
           A[r] = IF r <= LastRow THEN P[r + 1] ELSE Page!EmptyRow(Space)
  <2>1. /\ A \in Seq(Row) /\ Len(A) = Len(T) + 1
        /\ \A r \in 1 .. Len(T) : A[r] = T[r]
        /\ A[Len(T) + 1] = Page!EmptyRow(Space)
    BY <1>4, <1>6, AppendProperties
  <2> HIDE DEF A
  <2> QED
    BY <1>1, <1>6, <2>1
<1> HIDE DEF A
<1>8. \A r \in 1 .. Len(Q) : Q[r] = A[r]
  BY <1>3, <1>5, <1>7
<1>9. Q = A
  BY <1>3, <1>7, <1>8, SeqEqual
<1> QED
  BY <1>9 DEF Q, A, T, P

-----------------------------------------------------------------------------
(* The cursor and the memory Settle leaves are those of MoveTo. *)
LEMMA SettleIsMoveTo ==
    ASSUME NEW memory \in [Cells -> Shown], NEW x \in Nat, NEW y \in Nat,
           Settle(memory, x, y)
    PROVE  Page!MoveTo(RowsOf(memory), y + 1, x + 1)
<1>1. SCREEN_WIDTH \in Nat \ {0} /\ SCREEN_HEIGHT \in Nat \ {0} /\ LastRow = SCREEN_HEIGHT - 1
  BY ConsoleAssumption DEF LastRow
<1> DEFINE line == IF RowIsFull(x) THEN y + 1 ELSE y
           below == IF x + 1 > SCREEN_WIDTH THEN (y + 1) + 1 ELSE y + 1
<1>2. (x + 1 > SCREEN_WIDTH <=> RowIsFull(x)) /\ below = line + 1 /\ line \in Nat
  BY <1>1 DEF RowIsFull
<1>3. below > SCREEN_HEIGHT <=> line >= SCREEN_HEIGHT
  BY <1>1, <1>2
<1>4. /\ cursor_x' = IF RowIsFull(x) THEN 0 ELSE x
      /\ line >= SCREEN_HEIGHT => video_memory' = screen_scroll(memory) /\ cursor_y' = LastRow
      /\ ~(line >= SCREEN_HEIGHT) => video_memory' = memory /\ cursor_y' = line
  BY DEF Settle
<1> HIDE DEF line, below
<1>5. cursor_x' + 1 = IF x + 1 > SCREEN_WIDTH THEN 1 ELSE x + 1
  BY <1>2, <1>4
<1>6. CASE line >= SCREEN_HEIGHT
  <2>1. /\ RowsOf(video_memory') = Append(Tail(RowsOf(memory)), Page!EmptyRow(Space))
        /\ cursor_y' + 1 = SCREEN_HEIGHT
    BY <1>1, <1>4, <1>6, ScrolledRows
  <2> QED
    BY <1>3, <1>5, <1>6, <2>1 DEF Page!MoveTo, RowsOf, below
<1>7. CASE ~(line >= SCREEN_HEIGHT)
  <2>1. RowsOf(video_memory') = RowsOf(memory) /\ cursor_y' + 1 = below
    BY <1>2, <1>4, <1>7
  <2> QED
    BY <1>3, <1>5, <1>7, <2>1 DEF Page!MoveTo, RowsOf, below
<1> QED
  BY <1>6, <1>7

(* Memory that shows one cell everywhere is the page that shows it. *)
LEMMA FilledPage ==
    ASSUME NEW cell
    PROVE  RowsOf([i \in Cells |-> cell]) = Page!EmptyPage(cell)
<1>1. ASSUME NEW r \in 1 .. SCREEN_HEIGHT, NEW c \in 1 .. SCREEN_WIDTH
      PROVE  [i \in Cells |-> cell][At(c - 1, r - 1)] = cell
  <2>1. c - 1 \in Columns /\ r - 1 \in Lines
    BY ConsoleAssumption DEF Columns, Lines, LastRow
  <2> QED
    BY <2>1, CellNumbers
<1> QED
  BY <1>1 DEF RowsOf, Page!EmptyPage, Page!EmptyRow

(* Every call types, moves or clears on the page, or changes nothing. *)
LEMMA CallsAreThePages ==
    ASSUME TypeOK, [ConsoleNext]_consoleVars
    PROVE  [Page!Next]_(Page!vars)
<1>1. /\ video_memory \in [Cells -> Shown] /\ cursor_x \in Columns /\ cursor_y \in Lines
      /\ cursor_x \in Nat /\ cursor_y \in Nat /\ Space \in Shown
  BY ConsoleAssumption DEF TypeOK, Shown, Columns, Lines, LastRow
<1>2. CASE UNCHANGED consoleVars
  BY <1>2 DEF consoleVars, Page!vars
<1>3. CASE putchar_newline
  <2>1. Page!MoveTo(RowsOf(video_memory), cursor_y + 1 + 1, 0 + 1)
    BY <1>1, <1>3, SettleIsMoveTo DEF putchar_newline
  <2> QED
    BY <2>1 DEF Page!Next, Page!NewLine, RowsOf
<1>4. CASE putchar_return
  <2>1. Page!MoveTo(RowsOf(video_memory), cursor_y + 1, 0 + 1)
    BY <1>1, <1>4, SettleIsMoveTo DEF putchar_return
  <2> QED
    BY <2>1 DEF Page!Next, Page!Return, RowsOf
<1>5. CASE putchar_tab
  <2>1. Page!MoveTo(RowsOf(video_memory), cursor_y + 1, cursor_x + 4 + 1)
    BY <1>1, <1>5, SettleIsMoveTo DEF putchar_tab
  <2>2. cursor_x + 4 + 1 = cursor_x + 1 + 4
    BY <1>1
  <2> QED
    BY <2>1, <2>2 DEF Page!Next, Page!Tabulate, RowsOf
<1>6. CASE putchar_backspace
  <2>1. CASE cursor_x > 0
    <3> DEFINE memory == Written(cursor_x - 1, cursor_y, Space)
    <3>1. cursor_x - 1 \in Columns /\ cursor_x - 1 \in Nat /\ (cursor_x - 1) + 1 = cursor_x
          /\ (cursor_x + 1) - 1 = cursor_x /\ cursor_x + 1 > 1
      BY <1>1, <2>1, ConsoleAssumption DEF Columns
    <3>2. memory \in [Cells -> Shown]
      BY <1>1, <3>1, WrittenKeepsTypes
    <3>3. Settle(memory, cursor_x - 1, cursor_y)
      BY <1>6, <2>1 DEF putchar_backspace
    <3>4. RowsOf(memory)
            = WithCell(RowsOf(video_memory), cursor_y + 1, (cursor_x - 1) + 1, Space)
      BY <1>1, <3>1, WrittenInRow DEF Written
    <3> HIDE DEF memory
    <3>5. Page!MoveTo(RowsOf(memory), cursor_y + 1, (cursor_x - 1) + 1)
      BY <1>1, <3>1, <3>2, <3>3, SettleIsMoveTo
    <3>6. Page!MoveTo(WithCell(RowsOf(video_memory), cursor_y + 1, (cursor_x + 1) - 1, Space),
                        cursor_y + 1, (cursor_x + 1) - 1)
      BY <3>1, <3>4, <3>5
    <3>7. Page!Erase
      BY <3>1, <3>6 DEF Page!Erase, RowsOf, WithCell
    <3> QED
      BY <3>7 DEF Page!Next
  <2>2. CASE ~(cursor_x > 0)
    <3>1. Settle(video_memory, cursor_x, cursor_y)
      BY <1>6, <2>2 DEF putchar_backspace
    <3>2. cursor_x = 0 /\ ~RowIsFull(cursor_x) /\ ~(cursor_y >= SCREEN_HEIGHT)
      BY <1>1, <2>2, ConsoleAssumption DEF RowIsFull, Columns, Lines, LastRow
    <3>3. UNCHANGED consoleVars
      BY <3>1, <3>2 DEF Settle, consoleVars
    <3> QED
      BY <3>3 DEF consoleVars, Page!vars
  <2> QED
    BY <2>1, <2>2
<1>7. ASSUME NEW cell \in Characters, putchar_other(cell) PROVE Page!Next
  <2> DEFINE memory == Written(cursor_x, cursor_y, cell)
  <2>1. memory \in [Cells -> Shown] /\ cursor_x + 1 \in Nat
    BY <1>1, WrittenKeepsTypes DEF Shown
  <2>2. Settle(memory, cursor_x + 1, cursor_y)
    BY <1>7 DEF putchar_other
  <2>3. RowsOf(memory) = WithCell(RowsOf(video_memory), cursor_y + 1, cursor_x + 1, cell)
    BY <1>1, WrittenInRow DEF Written
  <2> HIDE DEF memory
  <2>4. Page!MoveTo(RowsOf(memory), cursor_y + 1, cursor_x + 1 + 1)
    BY <1>1, <2>1, <2>2, SettleIsMoveTo
  <2> QED
    BY <2>3, <2>4 DEF Page!Next, Page!Type, RowsOf, WithCell
<1>8. CASE screen_clear
  <2>1. RowsOf(video_memory') = Page!EmptyPage(Space)
    BY <1>8, FilledPage DEF screen_clear
  <2> QED
    BY <1>8, <2>1 DEF screen_clear, Page!Next, Page!Clear, RowsOf
<1>9. ASSUME NEW cell \in Fills, graphics_clear_screen(cell) PROVE Page!Next
  <2>1. RowsOf(video_memory') = Page!EmptyPage(cell)
    BY <1>9, FilledPage DEF graphics_clear_screen
  <2> QED
    BY <1>9, <2>1 DEF graphics_clear_screen, Page!Next, Page!Fill, RowsOf
<1> QED
  BY <1>2, <1>3, <1>4, <1>5, <1>6, <1>7, <1>8, <1>9 DEF ConsoleNext, screen_putchar

(* The array of cells and the cursor are a page of rows on which every     *)
(* call prints as the page promises (src/kernel.c:258-315).                *)
THEOREM ScreenIsTerminal == ConsoleSpec => ImplementsTerminal
<1>1. ConsoleInit => Page!Init
  <2>1. ConsoleInit => RowsOf(video_memory) = Page!EmptyPage(Space)
    BY FilledPage DEF ConsoleInit
  <2> QED
    BY <2>1 DEF ConsoleInit, Page!Init, RowsOf
<1>2. TypeOK /\ [ConsoleNext]_consoleVars => [Page!Next]_(Page!vars)
  BY CallsAreThePages
<1> QED
  BY <1>1, <1>2, CursorStaysOnScreen, PTL DEF ConsoleSpec, ImplementsTerminal, Page!Spec

-----------------------------------------------------------------------------
(* The block cache. *)

Slot == [block_number : Nat, data : Buffer]

(* The slots up to n are taken, and the others free. *)
TakenUpTo(cache, n) == \A j \in Slots : cache[j].block_number = 0 <=> j > n

(* What the cache holds: blocks up to some slot, what was written of block *)
(* 0 perhaps in the next one, and zeros behind it.                         *)
HoldsUpTo(cache, n) ==
    /\ cache \in [Slots -> Slot]
    /\ TakenUpTo(cache, n)
    /\ \A j \in Slots : j > n + 1 => cache[j].data = ZeroBuffer

CacheInv == \E n \in 0 .. CacheSlots : HoldsUpTo(block_cache, n)

(* The next byte goes to the slot behind the taken ones. *)
LEMMA NextSlot ==
    ASSUME NEW cache \in [Slots -> Slot], NEW n \in Nat, TakenUpTo(cache, n)
    PROVE  /\ SlotsForByte(cache) = {j \in Slots : j = n + 1}
           /\ n < CacheSlots => HeldBy(cache, 0) # {} /\ Min(HeldBy(cache, 0)) = n + 1
           /\ n >= CacheSlots => HeldBy(cache, 0) = {}
<1>1. CacheSlots \in Nat /\ Slots = 1 .. CacheSlots
  BY BlockCacheAssumption DEF Slots
<1> DEFINE I == HeldBy(cache, 0)
<1>2. I \in SUBSET (1 .. CacheSlots) /\ \A j \in Slots : j \in I <=> j > n
  BY <1>1 DEF HeldBy, TakenUpTo
<1>3. SlotsForByte(cache) = IF I = {} THEN {} ELSE {Min(I)}
  BY DEF SlotsForByte
<1> HIDE DEF I
<1>4. CASE n < CacheSlots
  <2>1. n + 1 \in I
    BY <1>1, <1>2, <1>4
  <2>2. Min(I) \in I /\ Min(I) <= n + 1
    BY <1>1, <1>2, <2>1, FirstPlace
  <2>3. ASSUME NEW m \in I, m <= n + 1 PROVE m = n + 1
    <3>1. m \in Nat /\ m > n
      BY <1>1, <1>2, <2>3
    <3> QED
      BY <2>3, <3>1
  <2> QED
    BY <1>1, <1>2, <1>3, <1>4, <2>1, <2>2, <2>3 DEF I
<1>5. CASE n >= CacheSlots
  <2>1. I = {}
    BY <1>1, <1>2, <1>5
  <2> QED
    BY <1>1, <1>3, <1>5, <2>1 DEF I
<1> QED
  BY <1>1, <1>4, <1>5

(* The cache after i bytes of a block other than 0. *)
Filled(cache, n, block, buffer, i) ==
    [j \in Slots |->
        IF n < j /\ j <= n + i
          THEN [block_number |-> block,
                data |-> [cache[j].data EXCEPT ![j - n] = buffer[j - n]]]
          ELSE cache[j]]

LEMMA FilledSlots ==
    ASSUME NEW n \in Nat, NEW cache \in [Slots -> Slot], TakenUpTo(cache, n),
           NEW block \in Nat \ {0}, NEW buffer \in Buffer, NEW i \in 0 .. BLOCK_SIZE
    PROVE  /\ Filled(cache, n, block, buffer, i) \in [Slots -> Slot]
           /\ TakenUpTo(Filled(cache, n, block, buffer, i), n + i)
<1>1. BLOCK_SIZE \in Nat /\ Slots \subseteq Nat
  BY BlockCacheAssumption DEF Slots
<1>2. ASSUME NEW j \in Slots, n < j, j <= n + i
      PROVE  [cache[j].data EXCEPT ![j - n] = buffer[j - n]] \in Buffer
  BY <1>1, <1>2 DEF Buffer, Slot
<1>3. ASSUME NEW j \in Slots
      PROVE  Filled(cache, n, block, buffer, i)[j] \in Slot
  BY <1>2 DEF Filled, Slot
<1> QED
  BY <1>1, <1>3 DEF Filled, TakenUpTo

LEMMA NextByte ==
    ASSUME NEW n \in Nat, NEW cache \in [Slots -> Slot], TakenUpTo(cache, n),
           NEW block \in Nat \ {0}, NEW buffer \in Buffer, NEW i \in 1 .. BLOCK_SIZE
    PROVE  WithByte(Filled(cache, n, block, buffer, i - 1), block, i, buffer[i])
             = Filled(cache, n, block, buffer, i)
<1>1. BLOCK_SIZE \in Nat /\ Slots \subseteq Nat /\ i - 1 \in 0 .. BLOCK_SIZE
  BY BlockCacheAssumption DEF Slots
<1> DEFINE before == Filled(cache, n, block, buffer, i - 1)
<1>2. before \in [Slots -> Slot] /\ TakenUpTo(before, n + (i - 1))
  BY <1>1, FilledSlots
<1>3. \A j \in Slots : j \in SlotsForByte(before) <=> j = n + i
  <2>1. n + (i - 1) \in Nat /\ (n + (i - 1)) + 1 = n + i
    BY <1>1
  <2> HIDE DEF before
  <2>2. SlotsForByte(before) = {j \in Slots : j = (n + (i - 1)) + 1}
    BY <1>2, <2>1, NextSlot
  <2> QED
    BY <2>1, <2>2
<1>4. ASSUME NEW j \in Slots
      PROVE  before[j] = IF n < j /\ j <= n + (i - 1)
                           THEN [block_number |-> block,
                                 data |-> [cache[j].data EXCEPT ![j - n] = buffer[j - n]]]
                           ELSE cache[j]
  BY DEF Filled
<1> HIDE DEF before
<1>5. WithByte(before, block, i, buffer[i]) =
        [j \in Slots |->
           IF j = n + i
             THEN [block_number |-> block, data |-> [before[j].data EXCEPT ![i] = buffer[i]]]
             ELSE before[j]]
  BY <1>3 DEF WithByte
<1>6. ASSUME NEW j \in Slots
      PROVE  /\ j = n + i => before[j] = cache[j] /\ j - n = i
             /\ j # n + i => ((n < j /\ j <= n + (i - 1)) <=> (n < j /\ j <= n + i))
             /\ j = n + i => n < j /\ j <= n + i
  <2>1. j \in Nat /\ n \in Nat /\ i \in Nat \ {0}
    BY <1>1
  <2>2. /\ j = n + i => ~(j <= n + (i - 1)) /\ j - n = i /\ n < j /\ j <= n + i
        /\ j # n + i => (j <= n + (i - 1) <=> j <= n + i)
    BY ONLY <2>1
  <2> QED
    BY <1>4, <2>2
<1> QED
  BY <1>4, <1>5, <1>6 DEF Filled, before

(* The cache after i bytes of block 0: they are all in one slot. *)
Rewritten(cache, n, buffer, i) ==
    [j \in Slots |->
        IF j = n + 1 /\ i > 0
          THEN [block_number |-> 0,
                data |-> [k \in 1 .. BLOCK_SIZE |->
                            IF k <= i THEN buffer[k] ELSE cache[j].data[k]]]
          ELSE cache[j]]

LEMMA RewrittenSlots ==
    ASSUME NEW n \in Nat, NEW cache \in [Slots -> Slot], TakenUpTo(cache, n),
           NEW buffer \in Buffer, NEW i \in 0 .. BLOCK_SIZE
    PROVE  /\ Rewritten(cache, n, buffer, i) \in [Slots -> Slot]
           /\ TakenUpTo(Rewritten(cache, n, buffer, i), n)
<1>1. Slots \subseteq Nat
  BY BlockCacheAssumption DEF Slots
<1>2. ASSUME NEW j \in Slots
      PROVE  [k \in 1 .. BLOCK_SIZE |-> IF k <= i THEN buffer[k] ELSE cache[j].data[k]] \in Buffer
  BY DEF Buffer, Slot
<1>3. ASSUME NEW j \in Slots
      PROVE  Rewritten(cache, n, buffer, i)[j] \in Slot
  BY <1>2 DEF Rewritten, Slot
<1> QED
  BY <1>1, <1>3 DEF Rewritten, TakenUpTo

LEMMA NextByteOfZero ==
    ASSUME NEW n \in Nat, NEW cache \in [Slots -> Slot], TakenUpTo(cache, n),
           NEW buffer \in Buffer, NEW i \in 1 .. BLOCK_SIZE
    PROVE  WithByte(Rewritten(cache, n, buffer, i - 1), 0, i, buffer[i])
             = Rewritten(cache, n, buffer, i)
<1>1. BLOCK_SIZE \in Nat /\ Slots \subseteq Nat /\ i - 1 \in 0 .. BLOCK_SIZE /\ i > 0
  BY BlockCacheAssumption DEF Slots
<1> DEFINE before == Rewritten(cache, n, buffer, i - 1)
           old(j) == [k \in 1 .. BLOCK_SIZE |->
                        IF k <= i - 1 THEN buffer[k] ELSE cache[j].data[k]]
           new(j) == [k \in 1 .. BLOCK_SIZE |->
                        IF k <= i THEN buffer[k] ELSE cache[j].data[k]]
<1>2. before \in [Slots -> Slot] /\ TakenUpTo(before, n)
  BY <1>1, RewrittenSlots
<1>3. ASSUME NEW j \in Slots, j = n + 1
      PROVE  before[j].data = old(j)
  <2>1. CASE i = 1
    <3>1. before[j] = cache[j] /\ cache[j].data \in Buffer
      BY <1>3, <2>1 DEF Rewritten, Slot
    <3>2. cache[j].data = [k \in 1 .. BLOCK_SIZE |-> cache[j].data[k]]
      BY <3>1 DEF Buffer
    <3>3. \A k \in 1 .. BLOCK_SIZE : ~(k <= i - 1)
      BY <1>1, <2>1
    <3>4. old(j) = [k \in 1 .. BLOCK_SIZE |-> cache[j].data[k]]
      BY <3>3
    <3> QED
      BY <3>1, <3>2, <3>4
  <2>2. CASE i # 1
    BY <1>1, <1>3, <2>2 DEF Rewritten
  <2> QED
    BY <2>1, <2>2
<1>4. ASSUME NEW j \in Slots, j # n + 1
      PROVE  before[j] = cache[j]
  BY <1>4 DEF Rewritten
<1> HIDE DEF before
<1>5. SlotsForByte(before) = {j \in Slots : j = n + 1}
  BY <1>2, NextSlot
<1>6. ASSUME NEW j \in Slots
      PROVE  [old(j) EXCEPT ![i] = buffer[i]] = new(j)
  <2>1. \A k \in 1 .. BLOCK_SIZE : (k <= i <=> k <= i - 1 \/ k = i) /\ ~(i <= i - 1)
    BY <1>1
  <2> QED
    BY <2>1
<1>7. WithByte(before, 0, i, buffer[i])
        = [j \in Slots |-> IF j = n + 1 THEN [block_number |-> 0, data |-> new(j)]
                                       ELSE cache[j]]
  <2>1. ASSUME NEW j \in Slots
        PROVE  /\ j = n + 1 =>
                    [block_number |-> 0, data |-> [before[j].data EXCEPT ![i] = buffer[i]]]
                      = [block_number |-> 0, data |-> new(j)]
               /\ j # n + 1 => before[j] = cache[j]
    BY <1>3, <1>4, <1>6
  <2> HIDE DEF new
  <2> QED
    BY <1>5, <2>1 DEF WithByte
<1>8. Rewritten(cache, n, buffer, i)
        = [j \in Slots |-> IF j = n + 1 THEN [block_number |-> 0, data |-> new(j)]
                                       ELSE cache[j]]
  BY <1>1 DEF Rewritten
<1> QED
  BY <1>7, <1>8 DEF before

-----------------------------------------------------------------------------
(* The bytes are stored one after the other; a form that every one of them *)
(* keeps is the form of the cache at the end.                              *)
LEMMA BytesAreStored ==
    ASSUME NEW block, NEW buffer, NEW form,
           form = [i \in 0 .. BLOCK_SIZE |-> form[i]],
           form[0] = block_cache,
           \A i \in 1 .. BLOCK_SIZE : WithByte(form[i - 1], block, i, buffer[i]) = form[i],
           fs_set_block_data(block, buffer)
    PROVE  block_cache' = form[BLOCK_SIZE]
<1> DEFINE After(f) == [i \in 0 .. BLOCK_SIZE |->
                          IF i = 0 THEN block_cache
                                   ELSE WithByte(f[i - 1], block, i, buffer[i])]
           stored == CHOOSE f : f = After(f)
<1>0. BLOCK_SIZE \in Nat
  BY BlockCacheAssumption
<1>1. block_cache' = stored[BLOCK_SIZE]
  BY DEF fs_set_block_data
<1>2. form = After(form)
  <2>1. ASSUME NEW i \in 0 .. BLOCK_SIZE
        PROVE  form[i] = IF i = 0 THEN block_cache
                                  ELSE WithByte(form[i - 1], block, i, buffer[i])
    <3>1. i # 0 => i \in 1 .. BLOCK_SIZE
      BY <1>0
    <3> QED
      BY <3>1
  <2> QED
    BY <2>1
<1>3. stored = After(stored)
  <2> HIDE DEF After
  <2> QED
    BY <1>2
<1>4. /\ stored[0] = block_cache
      /\ \A i \in 1 .. BLOCK_SIZE :
           stored[i] = WithByte(stored[i - 1], block, i, buffer[i])
  <2>1. ASSUME NEW f, f = After(f)
        PROVE  /\ f[0] = block_cache
               /\ \A i \in 1 .. BLOCK_SIZE : f[i] = WithByte(f[i - 1], block, i, buffer[i])
    <3>1. \A i \in 0 .. BLOCK_SIZE :
            f[i] = IF i = 0 THEN block_cache ELSE WithByte(f[i - 1], block, i, buffer[i])
      BY <2>1
    <3>2. 0 \in 0 .. BLOCK_SIZE /\ \A i \in 1 .. BLOCK_SIZE : i \in 0 .. BLOCK_SIZE /\ i # 0
      BY <1>0
    <3> QED
      BY <3>1, <3>2
  <2> HIDE DEF stored, After
  <2> QED
    BY <1>3, <2>1
<1> DEFINE S == {i \in 0 .. BLOCK_SIZE : stored[i] # form[i]}
<1> HIDE DEF stored, After
<1>5. ASSUME S # {} PROVE FALSE
  <2>1. S \in SUBSET Nat
    OBVIOUS
  <2>2. PICK i \in S : \A j \in S : i <= j
    <3> HIDE DEF S
    <3> QED
      BY <1>5, <2>1, Least
  <2>3. i \in 1 .. BLOCK_SIZE /\ i - 1 \in 0 .. BLOCK_SIZE /\ ~(i <= i - 1)
    BY <1>0, <1>4
  <2>4. stored[i - 1] = form[i - 1]
    BY <2>2, <2>3
  <2>5. stored[i] = form[i]
    BY <1>4, <2>3, <2>4
  <2> QED
    BY <2>5
<1>6. BLOCK_SIZE \in 0 .. BLOCK_SIZE
  BY <1>0
<1> QED
  BY <1>1, <1>5, <1>6

(* What a write makes of the cache. *)
LEMMA WriteFills ==
    ASSUME NEW n \in 0 .. CacheSlots, HoldsUpTo(block_cache, n),
           NEW block \in Nat \ {0}, NEW buffer \in Buffer, fs_set_block_data(block, buffer)
    PROVE  block_cache' = Filled(block_cache, n, block, buffer, BLOCK_SIZE)
<1> DEFINE form == [i \in 0 .. BLOCK_SIZE |-> Filled(block_cache, n, block, buffer, i)]
<1>1. BLOCK_SIZE \in Nat /\ n \in Nat /\ block_cache \in [Slots -> Slot] /\ TakenUpTo(block_cache, n)
  BY BlockCacheAssumption DEF HoldsUpTo
<1>2. Filled(block_cache, n, block, buffer, 0) = block_cache
  <2>1. ASSUME NEW j \in Slots PROVE ~(n < j /\ j <= n + 0)
    BY <1>1, BlockCacheAssumption DEF Slots
  <2> QED
    BY <1>1, <2>1 DEF Filled
<1>3. ASSUME NEW i \in 1 .. BLOCK_SIZE
      PROVE  WithByte(form[i - 1], block, i, buffer[i]) = form[i]
  <2>1. i - 1 \in 0 .. BLOCK_SIZE /\ i \in 0 .. BLOCK_SIZE
    BY <1>1
  <2> QED
    BY <1>1, <2>1, NextByte
<1>4. form[0] = block_cache /\ form = [i \in 0 .. BLOCK_SIZE |-> form[i]]
  BY <1>1, <1>2
<1>5. form[BLOCK_SIZE] = Filled(block_cache, n, block, buffer, BLOCK_SIZE)
  BY <1>1
<1> HIDE DEF form
<1> QED
  BY <1>3, <1>4, <1>5, BytesAreStored

LEMMA WriteOfZeroRewrites ==
    ASSUME NEW n \in 0 .. CacheSlots, HoldsUpTo(block_cache, n),
           NEW buffer \in Buffer, fs_set_block_data(0, buffer)
    PROVE  block_cache' = Rewritten(block_cache, n, buffer, BLOCK_SIZE)
<1> DEFINE form == [i \in 0 .. BLOCK_SIZE |-> Rewritten(block_cache, n, buffer, i)]
<1>1. BLOCK_SIZE \in Nat /\ n \in Nat /\ block_cache \in [Slots -> Slot] /\ TakenUpTo(block_cache, n)
  BY BlockCacheAssumption DEF HoldsUpTo
<1>2. Rewritten(block_cache, n, buffer, 0) = block_cache
  BY <1>1 DEF Rewritten
<1>3. ASSUME NEW i \in 1 .. BLOCK_SIZE
      PROVE  WithByte(form[i - 1], 0, i, buffer[i]) = form[i]
  <2>1. i - 1 \in 0 .. BLOCK_SIZE /\ i \in 0 .. BLOCK_SIZE
    BY <1>1
  <2> QED
    BY <1>1, <2>1, NextByteOfZero
<1>4. form[0] = block_cache /\ form = [i \in 0 .. BLOCK_SIZE |-> form[i]]
  BY <1>1, <1>2
<1>5. form[BLOCK_SIZE] = Rewritten(block_cache, n, buffer, BLOCK_SIZE)
  BY <1>1
<1> HIDE DEF form
<1> QED
  BY <1>3, <1>4, <1>5, BytesAreStored

-----------------------------------------------------------------------------
(* What the store shows of a cache. *)
KnownIn(cache) ==
    [b \in {c \in BlockNumbers \ {0} : HeldBy(cache, c) # {}} |->
        cache[Min(HeldBy(cache, b))].data]

ZeroIn(cache) ==
    IF HeldBy(cache, 0) # {} THEN cache[Min(HeldBy(cache, 0))].data ELSE ZeroBuffer

RoomIn(cache) == Cardinality(HeldBy(cache, 0))

LEMMA FreeSlots ==
    ASSUME NEW cache, NEW n \in 0 .. CacheSlots, HoldsUpTo(cache, n)
    PROVE  /\ RoomIn(cache) = CacheSlots - n
           /\ ZeroIn(cache) = IF n < CacheSlots THEN cache[n + 1].data ELSE ZeroBuffer
<1>1. CacheSlots \in Nat /\ Slots = 1 .. CacheSlots /\ n \in Nat /\ n <= CacheSlots
  BY BlockCacheAssumption DEF Slots
<1>2. cache \in [Slots -> Slot] /\ TakenUpTo(cache, n)
  BY DEF HoldsUpTo
<1>3. HeldBy(cache, 0) = (n + 1) .. CacheSlots
  BY <1>1, <1>2 DEF HeldBy, TakenUpTo
<1>4. Cardinality((n + 1) .. CacheSlots) = CacheSlots - n
  <2>1. Cardinality((n + 1) .. CacheSlots)
          = IF n + 1 > CacheSlots THEN 0 ELSE CacheSlots - (n + 1) + 1
    BY <1>1, FS_Interval
  <2> QED
    BY <1>1, <2>1
<1>5. ZeroIn(cache) = IF n < CacheSlots THEN cache[n + 1].data ELSE ZeroBuffer
  BY <1>1, <1>2, NextSlot DEF ZeroIn
<1> QED
  BY <1>3, <1>4, <1>5 DEF RoomIn

(* Where the taken slots end after a write. *)
End(n) == IF n + BLOCK_SIZE < CacheSlots THEN n + BLOCK_SIZE ELSE CacheSlots

LEMMA FilledHolds ==
    ASSUME NEW cache, NEW n \in 0 .. CacheSlots, HoldsUpTo(cache, n),
           NEW block \in Nat \ {0}, NEW buffer \in Buffer
    PROVE  /\ End(n) \in 0 .. CacheSlots
           /\ HoldsUpTo(Filled(cache, n, block, buffer, BLOCK_SIZE), End(n))
           /\ ZeroIn(Filled(cache, n, block, buffer, BLOCK_SIZE)) = ZeroBuffer
<1> DEFINE new == Filled(cache, n, block, buffer, BLOCK_SIZE)
<1>1. CacheSlots \in Nat /\ Slots = 1 .. CacheSlots /\ n \in Nat /\ BLOCK_SIZE \in Nat \ {0}
  BY BlockCacheAssumption DEF Slots
<1>2. cache \in [Slots -> Slot] /\ TakenUpTo(cache, n)
      /\ \A j \in Slots : j > n + 1 => cache[j].data = ZeroBuffer
  BY DEF HoldsUpTo
<1>3. new \in [Slots -> Slot] /\ TakenUpTo(new, n + BLOCK_SIZE)
  BY <1>1, <1>2, FilledSlots
<1>4. \A j \in Slots : j > n + BLOCK_SIZE => new[j] = cache[j]
  BY <1>1 DEF Filled
<1> HIDE DEF new
<1>5. End(n) \in 0 .. CacheSlots
  BY <1>1 DEF End
<1>6. \A j \in Slots : j > End(n) => j > n + BLOCK_SIZE
  BY <1>1 DEF End
<1>7. \A j \in Slots : j > n + BLOCK_SIZE => j > End(n) /\ j > n + 1
  BY <1>1 DEF End
<1>8. \A j \in Slots : j > End(n) => new[j].data = ZeroBuffer
  BY <1>2, <1>4, <1>6, <1>7
<1>9. TakenUpTo(new, End(n))
  BY <1>3, <1>6, <1>7 DEF TakenUpTo
<1>10. HoldsUpTo(new, End(n))
  <2>1. \A j \in Slots : j > End(n) + 1 => j > End(n)
    BY <1>1, <1>5
  <2> QED
    BY <1>3, <1>8, <1>9, <2>1 DEF HoldsUpTo
<1>11. ZeroIn(new) = ZeroBuffer
  <2>1. End(n) < CacheSlots => End(n) + 1 \in Slots /\ End(n) + 1 > End(n)
    BY <1>1, <1>5
  <2> QED
    BY <1>5, <1>8, <1>10, <2>1, FreeSlots
<1> QED
  BY <1>5, <1>10, <1>11 DEF new

LEMMA RewrittenHolds ==
    ASSUME NEW cache, NEW n \in 0 .. CacheSlots, HoldsUpTo(cache, n), NEW buffer \in Buffer
    PROVE  /\ HoldsUpTo(Rewritten(cache, n, buffer, BLOCK_SIZE), n)
           /\ ZeroIn(Rewritten(cache, n, buffer, BLOCK_SIZE))
                = IF n < CacheSlots THEN buffer ELSE ZeroBuffer
<1> DEFINE new == Rewritten(cache, n, buffer, BLOCK_SIZE)
<1>1. CacheSlots \in Nat /\ Slots = 1 .. CacheSlots /\ n \in Nat /\ BLOCK_SIZE \in Nat \ {0}
  BY BlockCacheAssumption DEF Slots
<1>2. cache \in [Slots -> Slot] /\ TakenUpTo(cache, n)
      /\ \A j \in Slots : j > n + 1 => cache[j].data = ZeroBuffer
  BY DEF HoldsUpTo
<1>3. new \in [Slots -> Slot] /\ TakenUpTo(new, n)
  BY <1>1, <1>2, RewrittenSlots
<1>4. \A j \in Slots : j # n + 1 => new[j] = cache[j]
  BY DEF Rewritten
<1>5. n + 1 \in Slots => new[n + 1].data = buffer
  <2>1. [k \in 1 .. BLOCK_SIZE |-> IF k <= BLOCK_SIZE THEN buffer[k] ELSE cache[n + 1].data[k]]
          = buffer
    BY <1>1 DEF Buffer
  <2> QED
    BY <1>1, <2>1 DEF Rewritten
<1> HIDE DEF new
<1>6. HoldsUpTo(new, n)
  BY <1>1, <1>2, <1>3, <1>4 DEF HoldsUpTo
<1>7. n < CacheSlots => n + 1 \in Slots
  BY <1>1
<1> QED
  BY <1>5, <1>6, <1>7, FreeSlots DEF new

-----------------------------------------------------------------------------
(* A write leaves the taken slots alone, so that what is known stays known.*)
LEMMA KnownStays ==
    ASSUME NEW cache, NEW new, NEW n \in 0 .. CacheSlots, NEW b \in Nat \ {0},
           HoldsUpTo(cache, n), new \in [Slots -> Slot],
           \A j \in Slots : j <= n => new[j] = cache[j],
           HeldBy(cache, b) # {}
    PROVE  /\ HeldBy(new, b) # {}
           /\ new[Min(HeldBy(new, b))].data = cache[Min(HeldBy(cache, b))].data
<1>1. CacheSlots \in Nat /\ Slots = 1 .. CacheSlots /\ n \in Nat
  BY BlockCacheAssumption DEF Slots
<1>2. \A j \in Slots : j \in HeldBy(cache, b) => j <= n /\ j \in HeldBy(new, b)
  <2>1. ASSUME NEW j \in Slots, cache[j].block_number = b
        PROVE  j <= n /\ new[j].block_number = b
    BY <1>1, <2>1 DEF HoldsUpTo, TakenUpTo
  <2> QED
    BY <2>1 DEF HeldBy
<1>3. \A j \in Slots : j \in HeldBy(new, b) /\ j <= n => j \in HeldBy(cache, b)
  BY DEF HeldBy
<1> DEFINE old == Min(HeldBy(cache, b))
           now == Min(HeldBy(new, b))
<1>4. HeldBy(cache, b) \in SUBSET (1 .. CacheSlots) /\ HeldBy(new, b) \in SUBSET (1 .. CacheSlots)
  BY <1>1 DEF HeldBy
<1>5. old \in HeldBy(cache, b) /\ \A j \in HeldBy(cache, b) : old <= j
  BY <1>1, <1>4, FirstPlace
<1>6. HeldBy(new, b) # {} /\ old \in Slots /\ old \in HeldBy(new, b) /\ old <= n
  BY <1>1, <1>2, <1>4, <1>5
<1>7. now \in HeldBy(new, b) /\ \A j \in HeldBy(new, b) : now <= j
  BY <1>1, <1>4, <1>6, FirstPlace
<1> HIDE DEF old, now
<1>8. now \in Slots /\ now <= old
  BY <1>1, <1>4, <1>6, <1>7
<1>9. now <= n
  BY <1>1, <1>6, <1>8
<1>10. now = old
  <2>1. old <= now
    BY <1>3, <1>5, <1>7, <1>8, <1>9
  <2> QED
    BY <1>1, <1>6, <1>8, <2>1
<1> QED
  BY <1>6, <1>9, <1>10 DEF old, now

(* What is known after a write, according to the store. *)
Remembering(cache, block, buffer) ==
    IF block \in DOMAIN KnownIn(cache) \/ RoomIn(cache) = 0 THEN KnownIn(cache)
    ELSE [b \in DOMAIN KnownIn(cache) \cup {block} |->
            IF b = block THEN [ZeroIn(cache) EXCEPT ![1] = buffer[1]]
                         ELSE KnownIn(cache)[b]]

LEMMA FilledKnows ==
    ASSUME NEW cache, NEW n \in 0 .. CacheSlots, HoldsUpTo(cache, n),
           NEW block \in BlockNumbers \ {0}, NEW buffer \in Buffer
    PROVE  KnownIn(Filled(cache, n, block, buffer, BLOCK_SIZE))
             = Remembering(cache, block, buffer)
<1> DEFINE new == Filled(cache, n, block, buffer, BLOCK_SIZE)
<1>1. /\ CacheSlots \in Nat /\ Slots = 1 .. CacheSlots /\ n \in Nat /\ n <= CacheSlots
      /\ BLOCK_SIZE \in Nat \ {0} /\ BlockNumbers \subseteq Nat /\ block \in Nat \ {0}
  BY BlockCacheAssumption DEF Slots
<1>2. cache \in [Slots -> Slot] /\ TakenUpTo(cache, n)
  BY DEF HoldsUpTo
<1>3. new \in [Slots -> Slot]
  BY <1>1, <1>2, FilledSlots
<1>4. /\ \A j \in Slots : ~(n < j /\ j <= n + BLOCK_SIZE) => new[j] = cache[j]
      /\ \A j \in Slots : n < j /\ j <= n + BLOCK_SIZE => new[j].block_number = block
  BY DEF Filled
<1>5. n + 1 \in Slots => new[n + 1].data = [cache[n + 1].data EXCEPT ![1] = buffer[1]]
  <2>1. n < n + 1 /\ n + 1 <= n + BLOCK_SIZE /\ (n + 1) - n = 1
    BY <1>1
  <2> QED
    BY <2>1 DEF Filled
<1> HIDE DEF new
<1>6. \A j \in Slots : j <= n => new[j] = cache[j]
  <2>1. ASSUME NEW j \in Slots, j <= n PROVE ~(n < j)
    BY <1>1, <2>1
  <2> QED
    BY <1>4, <2>1
<1>7. ASSUME NEW b \in BlockNumbers \ {0}, HeldBy(cache, b) # {}
      PROVE  /\ HeldBy(new, b) # {}
             /\ new[Min(HeldBy(new, b))].data = cache[Min(HeldBy(cache, b))].data
  BY <1>1, <1>3, <1>6, <1>7, KnownStays
<1>8. ASSUME NEW b \in BlockNumbers \ {0}, HeldBy(cache, b) = {}, b # block
      PROVE  HeldBy(new, b) = {}
  BY <1>4, <1>8 DEF HeldBy
<1>9. ASSUME HeldBy(cache, block) = {}
      PROVE  \A j \in Slots : j \in HeldBy(new, block) <=> n < j /\ j <= n + BLOCK_SIZE
  BY <1>4, <1>9 DEF HeldBy
<1>10. ASSUME HeldBy(cache, block) = {}, n < CacheSlots
      PROVE  /\ HeldBy(new, block) # {}
             /\ new[Min(HeldBy(new, block))].data = [ZeroIn(cache) EXCEPT ![1] = buffer[1]]
  <2>1. /\ n + 1 \in Slots /\ n + 1 \in HeldBy(new, block)
        /\ HeldBy(new, block) \in SUBSET (1 .. CacheSlots)
    BY <1>1, <1>9, <1>10 DEF HeldBy
  <2>2. Min(HeldBy(new, block)) \in HeldBy(new, block) /\ Min(HeldBy(new, block)) <= n + 1
    BY <1>1, <2>1, FirstPlace
  <2>3. ASSUME NEW m \in HeldBy(new, block), m <= n + 1 PROVE m = n + 1
    <3>1. m \in Nat /\ n < m
      BY <1>1, <1>9, <1>10, <2>1, <2>3
    <3> QED
      BY <1>1, <2>3, <3>1
  <2>4. new[n + 1].data = [cache[n + 1].data EXCEPT ![1] = buffer[1]]
    BY <1>5, <2>1
  <2>5. ZeroIn(cache) = cache[n + 1].data
    BY <1>10, FreeSlots
  <2> QED
    BY <2>1, <2>2, <2>3, <2>4, <2>5
<1>11. ASSUME HeldBy(cache, block) = {}, n = CacheSlots
       PROVE  HeldBy(new, block) = {}
  BY <1>1, <1>9, <1>11 DEF HeldBy
<1>12. RoomIn(cache) = 0 <=> n = CacheSlots
  <2>1. RoomIn(cache) = CacheSlots - n
    BY FreeSlots
  <2> QED
    BY <1>1, <2>1
<1>13. /\ DOMAIN KnownIn(cache) = {c \in BlockNumbers \ {0} : HeldBy(cache, c) # {}}
       /\ \A b \in DOMAIN KnownIn(cache) :
            KnownIn(cache)[b] = cache[Min(HeldBy(cache, b))].data
       /\ KnownIn(cache) = [b \in DOMAIN KnownIn(cache) |-> KnownIn(cache)[b]]
  BY DEF KnownIn
<1>14. KnownIn(new) = [b \in {c \in BlockNumbers \ {0} : HeldBy(new, c) # {}} |->
                         new[Min(HeldBy(new, b))].data]
  BY DEF KnownIn
<1>15. CASE block \in DOMAIN KnownIn(cache) \/ RoomIn(cache) = 0
  <2>1. {c \in BlockNumbers \ {0} : HeldBy(new, c) # {}} = DOMAIN KnownIn(cache)
    <3>1. ASSUME NEW c \in BlockNumbers \ {0}
          PROVE  HeldBy(new, c) # {} <=> HeldBy(cache, c) # {}
      BY <1>7, <1>8, <1>11, <1>12, <1>13, <1>15
    <3> QED
      BY <1>13, <3>1
  <2>2. ASSUME NEW b \in DOMAIN KnownIn(cache)
        PROVE  new[Min(HeldBy(new, b))].data = KnownIn(cache)[b]
    BY <1>7, <1>13
  <2> HIDE DEF KnownIn
  <2>3. KnownIn(new) = KnownIn(cache)
    BY <1>13, <1>14, <2>1, <2>2
  <2> QED
    BY <1>15, <2>3 DEF new, Remembering
<1>16. CASE ~(block \in DOMAIN KnownIn(cache) \/ RoomIn(cache) = 0)
  <2>1. HeldBy(cache, block) = {} /\ n < CacheSlots
    BY <1>1, <1>12, <1>13, <1>16
  <2>2. {c \in BlockNumbers \ {0} : HeldBy(new, c) # {}} = DOMAIN KnownIn(cache) \cup {block}
    <3>1. ASSUME NEW c \in BlockNumbers \ {0}
          PROVE  HeldBy(new, c) # {} <=> HeldBy(cache, c) # {} \/ c = block
      BY <1>7, <1>8, <1>10, <2>1
    <3> QED
      BY <1>13, <3>1
  <2>3. ASSUME NEW b \in DOMAIN KnownIn(cache) \cup {block}
        PROVE  new[Min(HeldBy(new, b))].data
                 = IF b = block THEN [ZeroIn(cache) EXCEPT ![1] = buffer[1]]
                                ELSE KnownIn(cache)[b]
    BY <1>7, <1>10, <1>13, <2>1
  <2>4. KnownIn(new) = [b \in DOMAIN KnownIn(cache) \cup {block} |->
                          IF b = block THEN [ZeroIn(cache) EXCEPT ![1] = buffer[1]]
                                       ELSE KnownIn(cache)[b]]
    BY <1>14, <2>2, <2>3
  <2> QED
    BY <1>16, <2>4 DEF new, Remembering
<1> QED
  BY <1>15, <1>16

LEMMA RewrittenKnows ==
    ASSUME NEW cache, NEW n \in 0 .. CacheSlots, HoldsUpTo(cache, n), NEW buffer \in Buffer
    PROVE  KnownIn(Rewritten(cache, n, buffer, BLOCK_SIZE)) = KnownIn(cache)
<1> DEFINE new == Rewritten(cache, n, buffer, BLOCK_SIZE)
<1>1. /\ CacheSlots \in Nat /\ Slots = 1 .. CacheSlots /\ n \in Nat
      /\ BLOCK_SIZE \in Nat \ {0} /\ BlockNumbers \subseteq Nat
  BY BlockCacheAssumption DEF Slots
<1>2. cache \in [Slots -> Slot] /\ TakenUpTo(cache, n)
  BY DEF HoldsUpTo
<1>3. new \in [Slots -> Slot]
  BY <1>1, <1>2, RewrittenSlots
<1>4. /\ \A j \in Slots : j # n + 1 => new[j] = cache[j]
      /\ \A j \in Slots : j = n + 1 => new[j].block_number = 0 /\ cache[j].block_number = 0
  BY <1>1, <1>2 DEF Rewritten, TakenUpTo
<1> HIDE DEF new
<1>5. \A j \in Slots : j <= n => new[j] = cache[j]
  BY <1>1, <1>4
<1>6. ASSUME NEW b \in BlockNumbers \ {0}
      PROVE  HeldBy(new, b) # {} <=> HeldBy(cache, b) # {}
  BY <1>4 DEF HeldBy
<1>7. ASSUME NEW b \in BlockNumbers \ {0}, HeldBy(cache, b) # {}
      PROVE  new[Min(HeldBy(new, b))].data = cache[Min(HeldBy(cache, b))].data
  BY <1>1, <1>3, <1>5, <1>7, KnownStays
<1>8. {c \in BlockNumbers \ {0} : HeldBy(new, c) # {}}
        = {c \in BlockNumbers \ {0} : HeldBy(cache, c) # {}}
  BY <1>6
<1>9. KnownIn(new) = KnownIn(cache)
  BY <1>7, <1>8 DEF KnownIn
<1> QED
  BY <1>9 DEF new

-----------------------------------------------------------------------------
(* A write of a block other than 0 is the store's, and so is one of block 0.  *)
LEMMA WriteIsTheStores ==
    ASSUME CacheInv, NEW block \in BlockNumbers \ {0}, NEW buffer \in Buffer,
           fs_set_block_data(block, buffer)
    PROVE  CacheInv' /\ Store!Write(block, buffer)
<1> PICK n \in 0 .. CacheSlots : HoldsUpTo(block_cache, n)
  BY DEF CacheInv
<1> DEFINE new == Filled(block_cache, n, block, buffer, BLOCK_SIZE)
<1>1. block \in Nat \ {0} /\ CacheSlots \in Nat /\ BLOCK_SIZE \in Nat \ {0}
  BY BlockCacheAssumption
<1>2. block_cache' = new
  BY <1>1, WriteFills
<1>3. End(n) \in 0 .. CacheSlots /\ HoldsUpTo(new, End(n)) /\ ZeroIn(new) = ZeroBuffer
  BY <1>1, FilledHolds
<1>4. KnownIn(new) = Remembering(block_cache, block, buffer)
  BY FilledKnows
<1> HIDE DEF new
<1>5. RoomIn(new) = IF RoomIn(block_cache) < BLOCK_SIZE THEN 0
                                                        ELSE RoomIn(block_cache) - BLOCK_SIZE
  <2>1. RoomIn(block_cache) = CacheSlots - n /\ RoomIn(new) = CacheSlots - End(n)
    BY <1>3, FreeSlots
  <2> QED
    BY <1>1, <2>1 DEF End
<1>6. CacheInv'
  BY <1>2, <1>3 DEF CacheInv
<1>7. Store!Write(block, buffer)
  BY <1>2, <1>3, <1>4, <1>5
     DEF Store!Write, Remembering, KnownIn, ZeroIn, RoomIn, Hit, fs_get_block_data
<1> QED
  BY <1>6, <1>7

LEMMA WriteOfZeroIsTheStores ==
    ASSUME CacheInv, NEW buffer \in Buffer, fs_set_block_data(0, buffer)
    PROVE  CacheInv' /\ Store!WriteZero(buffer)
<1> PICK n \in 0 .. CacheSlots : HoldsUpTo(block_cache, n)
  BY DEF CacheInv
<1> DEFINE new == Rewritten(block_cache, n, buffer, BLOCK_SIZE)
<1>1. CacheSlots \in Nat /\ n \in 0 .. CacheSlots
  BY BlockCacheAssumption
<1>2. block_cache' = new
  BY WriteOfZeroRewrites
<1>3. /\ HoldsUpTo(new, n)
      /\ ZeroIn(new) = IF n < CacheSlots THEN buffer ELSE ZeroBuffer
  BY RewrittenHolds
<1>4. KnownIn(new) = KnownIn(block_cache)
  BY RewrittenKnows
<1> HIDE DEF new
<1>5. /\ RoomIn(new) = RoomIn(block_cache)
      /\ ZeroIn(new) = IF RoomIn(block_cache) > 0 THEN buffer ELSE ZeroIn(block_cache)
  <2>1. /\ RoomIn(block_cache) = CacheSlots - n /\ RoomIn(new) = CacheSlots - n
        /\ ~(n < CacheSlots) => ZeroIn(block_cache) = ZeroBuffer
    BY <1>3, FreeSlots
  <2>2. CacheSlots - n > 0 <=> n < CacheSlots
    BY <1>1
  <2> QED
    BY <1>3, <2>1, <2>2
<1>6. CacheInv'
  BY <1>2, <1>3 DEF CacheInv
<1>7. Store!WriteZero(buffer)
  BY <1>2, <1>4, <1>5
     DEF Store!WriteZero, KnownIn, ZeroIn, RoomIn, Hit, fs_get_block_data
<1> QED
  BY <1>6, <1>7

LEMMA EmptyStore ==
    ASSUME CacheInit
    PROVE  CacheInv /\ Store!Init
<1>1. 0 \in 0 .. CacheSlots /\ CacheSlots \in Nat /\ Slots = 1 .. CacheSlots
      /\ BlockNumbers \subseteq Nat
  BY BlockCacheAssumption DEF Slots
<1>2. HoldsUpTo(block_cache, 0)
  <2>1. ZeroBuffer \in Buffer
    BY BlockCacheAssumption DEF ZeroBuffer, Buffer
  <2> QED
    BY <1>1, <2>1 DEF CacheInit, HoldsUpTo, TakenUpTo, Slot
<1>3. RoomIn(block_cache) = CacheSlots
  <2>1. RoomIn(block_cache) = CacheSlots - 0
    BY <1>1, <1>2, FreeSlots
  <2> QED
    BY <1>1, <2>1
<1>4. ZeroIn(block_cache) = ZeroBuffer
  <2>1. /\ ZeroIn(block_cache) = IF 0 < CacheSlots THEN block_cache[0 + 1].data ELSE ZeroBuffer
        /\ 0 < CacheSlots => 0 + 1 \in Slots
    BY <1>1, <1>2, FreeSlots
  <2> QED
    BY <2>1 DEF CacheInit
<1>5. KnownIn(block_cache) = [b \in {} |-> ZeroBuffer]
  <2>1. {c \in BlockNumbers \ {0} : HeldBy(block_cache, c) # {}} = {}
    BY DEF CacheInit, HeldBy
  <2> QED
    BY <2>1 DEF KnownIn
<1>6. CacheInv
  BY <1>1, <1>2 DEF CacheInv
<1>7. Store!Init
  BY <1>3, <1>4, <1>5 DEF Store!Init, KnownIn, ZeroIn, RoomIn, Hit, fs_get_block_data
<1> QED
  BY <1>6, <1>7

(* The cache is a store that remembers the first byte of the first write   *)
(* of a block, whatever the size of a block and of the cache               *)
(* (src/filesystem.c:275-311).                                             *)
THEOREM CacheIsWriteOnceStore == CacheSpec => ImplementsWriteOnceStore
<1>1. CacheInit => CacheInv /\ Store!Init
  BY EmptyStore
<1>2. CacheInv /\ [CacheNext]_block_cache => CacheInv' /\ [Store!Next]_(Store!vars)
  <2> SUFFICES ASSUME CacheInv, [CacheNext]_block_cache
               PROVE  CacheInv' /\ [Store!Next]_(Store!vars)
    OBVIOUS
  <2>1. CASE UNCHANGED block_cache
    BY <2>1 DEF CacheInv, Store!vars, Hit, fs_get_block_data, HoldsUpTo, TakenUpTo
  <2>2. ASSUME NEW block \in BlockNumbers, NEW buffer \in Buffer,
               fs_set_block_data(block, buffer)
        PROVE  CacheInv' /\ Store!Next
    <3>1. CASE block = 0
      BY <2>2, <3>1, WriteOfZeroIsTheStores DEF Store!Next
    <3>2. CASE block # 0
      BY <2>2, <3>2, WriteIsTheStores DEF Store!Next
    <3> QED
      BY <3>1, <3>2
  <2> QED
    BY <2>1, <2>2 DEF CacheNext, format
<1> QED
  BY <1>1, <1>2, PTL DEF CacheSpec, ImplementsWriteOnceStore, Store!Spec
=============================================================================
