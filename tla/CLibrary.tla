------------------------------ MODULE CLibrary ------------------------------
(***************************************************************************)
(* The C library of src/stdlib.c: malloc, calloc, realloc and free on      *)
(* their static heap, and the functions of CString on what callers keep in *)
(* it.  An address is an index of the heap; size_t is modulo WORD.         *)
(*                                                                         *)
(* Callers write only inside of what they were given (a block that reaches *)
(* over the end of the heap: up to the end), and do not let source and     *)
(* destination overlap, except for memmove.                                *)
(***************************************************************************)
EXTENDS CString

CONSTANTS
    HeapSize,       \* sizeof(heap)
    WORD,           \* values of a size_t
    Bytes,          \* bytes callers store
    Sizes,          \* sizes callers ask for
    Counts,         \* numbers of members callers ask calloc for
    MaxBlocks,      \* bound on the blocks callers hold at once
    MaxWraps        \* requests that wrap around, after which callers stop

ASSUME LibraryAssumption ==
    /\ HeapSize \in Nat /\ WORD \in Nat /\ HeapSize < WORD
    /\ Bytes \subseteq 0 .. 127 /\ NUL \in Bytes
    /\ Sizes \subseteq 0 .. (WORD - 1) /\ Counts \subseteq 0 .. (WORD - 1)
    /\ MaxBlocks \in Nat /\ MaxWraps \in Nat

VARIABLES
    heap,           \* address -> byte
    heap_used,
    blocks,         \* what callers hold: set of [at, size]
    wraps           \* history: requests whose size wrapped around

vars == <<heap, heap_used, blocks, wraps>>

Addresses == 0 .. (HeapSize - 1)

-----------------------------------------------------------------------------
Init ==
    /\ heap = [a \in Addresses |-> NUL]
    /\ heap_used = 0
    /\ blocks = {}
    /\ wraps = 0

(* Mutated form: the byte at ptr is not counted. *)
OneByteShort(size) == heap_used + size - 1

UsedAfter(size) == (heap_used + size) % WORD

(* malloc's test for size > 0, and the block at &heap[heap_used]. *)
Granted(size) == size # 0 /\ (heap_used + size) % WORD <= HeapSize

Block(size) == [at |-> heap_used, size |-> size]

(* The caller of a request that wraps gets less than it asked for. *)
Wrap(size) ==
    wraps' = IF size >= WORD \/ heap_used + size >= WORD THEN wraps + 1 ELSE wraps

Hold(held) == Cardinality(held) <= MaxBlocks /\ blocks' = held

malloc(size) ==
    /\ Granted(size)
    /\ Wrap(size)
    /\ Hold(blocks \cup {Block(size)})
    /\ heap_used' = UsedAfter(size)
    /\ UNCHANGED heap

(* The product is not tested.  What a wrapped request makes memset write   *)
(* behind the heap is not modelled.                                        *)
calloc(nmemb, size) ==
    LET total == (nmemb * size) % WORD IN
    /\ Granted(total)
    /\ Wrap(nmemb * size)
    /\ Hold(blocks \cup {Block(nmemb * size)})
    /\ heap_used' = UsedAfter(total)
    /\ heap' = memset(heap, heap_used, NUL, total)

(* Mutated form: source and destination are swapped. *)
CopyBack(m, d, s, n) == memcpy(m, s, d, n)

(* As many bytes as the new block has, however many the old one had.       *)
(* (After a wrapped request these may lie behind the heap: not modelled.)  *)
CopyOver(m, d, s, n) == memcpy(m, d, s, n)

realloc(block, size) ==
    /\ Granted(size)
    /\ heap_used + size < WORD /\ block.at + size <= HeapSize
    /\ Hold((blocks \ {block}) \cup {Block(size)})
    /\ heap_used' = UsedAfter(size)
    /\ heap' = CopyOver(heap, heap_used, block.at, size)
    /\ UNCHANGED wraps

(* free, and realloc to size 0: nothing happens to the heap. *)
free(block) ==
    /\ blocks' = blocks \ {block}
    /\ UNCHANGED <<heap, heap_used, wraps>>

(* NULL: malloc, calloc or realloc refused. *)
refused(size) == ~Granted(size) /\ UNCHANGED vars

-----------------------------------------------------------------------------
(* The bytes from p on that a caller may write. *)
Writable(p, n) ==
    \E block \in blocks : p >= block.at /\ p + n <= Min({block.at + block.size, HeapSize})

Apart(p, n, q, k) == p + n <= q \/ q + k <= p

Written(memory) == heap' = memory /\ UNCHANGED <<heap_used, blocks, wraps>>

(* A caller's own assignment. *)
Store(p, c) == Writable(p, 1) /\ Written([heap EXCEPT ![p] = c])

Fill(p, c, n) == Writable(p, n) /\ Written(memset(heap, p, c, n))

Move(d, s, n) == Writable(d, n) /\ s + n <= HeapSize /\ Written(memmove(heap, d, s, n))

Copy(d, s, n) ==
    /\ Writable(d, n) /\ s + n <= HeapSize /\ Apart(d, n, s, n)
    /\ Written(memcpy(heap, d, s, n))

(* A destination with room for the string at s, and apart from it. *)
Takes(d, s, n) ==
    IsString(heap, s) /\ Writable(d, n) /\ Apart(d, n, s, strlen(heap, s) + 1)

CopyString(d, s) ==
    Takes(d, s, strlen(heap, s) + 1) /\ Written(strcpy(heap, d, s))

CopyPart(d, s, n) == Takes(d, s, n) /\ Written(strncpy(heap, d, s, n))

AppendString(d, s) ==
    /\ IsString(heap, s) /\ IsString(heap, d)
    /\ Takes(d, s, strlen(heap, d) + strlen(heap, s) + 1)
    /\ Written(strcat(heap, d, s))

Request ==
    \E size \in Sizes :
        \/ malloc(size)
        \/ \E nmemb \in Counts : calloc(nmemb, size)
        \/ \E block \in blocks : realloc(block, size)

Use ==
    \/ \E block \in blocks : free(block)
    \/ \E p \in Addresses, c \in Bytes :
         Store(p, c) \/ \E n \in 1 .. HeapSize : Fill(p, c, n)
    \/ \E d, s \in Addresses :
         \/ \E n \in 1 .. HeapSize : Move(d, s, n) \/ Copy(d, s, n) \/ CopyPart(d, s, n)
         \/ CopyString(d, s)
         \/ AppendString(d, s)

Next ==
    \/ wraps < MaxWraps /\ (Request \/ Use)
    \/ \E size \in Sizes : refused(size)

Spec == Init /\ [][Next]_vars

-----------------------------------------------------------------------------
(* Type invariant. *)
TypeOK ==
    /\ heap \in [Addresses -> Bytes]
    /\ heap_used \in 0 .. HeapSize
    /\ blocks \subseteq [at : 0 .. HeapSize, size : Nat]
    /\ wraps \in 0 .. MaxWraps

(* Blocks of malloc, calloc and realloc lie in the heap and in nobody      *)
(* else's block, as long as no request wrapped around: malloc tests the    *)
(* wrapped sum, and calloc does not test its product.                      *)
BlocksApart ==
    wraps = 0 =>
        /\ \A block \in blocks : block.at + block.size <= heap_used
        /\ \A b, c \in blocks : b # c => Apart(b.at, b.size, c.at, c.size)

(* realloc copies as many bytes as the new block has, from an old one that *)
(* may be shorter and may end where the new one starts: what the caller    *)
(* had in the old one is in the new one all the same.                      *)
ReallocKeepsContents ==
    [][wraps = 0 => \A old \in blocks \ blocks', new \in blocks' \ blocks :
          \A i \in 0 .. (Min({old.size, new.size}) - 1) :
              heap'[new.at + i] = heap[old.at + i]]_vars

-----------------------------------------------------------------------------
(* What moving n bytes from s to d should do. *)
Moved(m, d, s, n) ==
    [a \in DOMAIN m |-> IF a \in d .. (d + n - 1) THEN m[a - d + s] ELSE m[a]]

(* memmove is right however its ranges overlap, and memcpy when they do    *)
(* not or the destination comes first.                                     *)
MovesRight ==
    \A d, s \in Addresses : \A n \in 0 .. (HeapSize - Max({d, s})) :
        /\ memmove(heap, d, s, n) = Moved(heap, d, s, n)
        /\ Apart(d, n, s, n) \/ d <= s =>
             memcpy(heap, d, s, n) = Moved(heap, d, s, n)

Strings == {p \in Addresses : IsString(heap, p)}

Text(p) == [i \in 1 .. strlen(heap, p) |-> heap[p + i - 1]]

First(text, n) == SubSeq(text, 1, Min({n, Len(text)}))

(* The order of the dictionary: -1, 0 or 1. *)
Order(s, t) ==
    LET before(x, y) ==
            \E k \in 1 .. Len(y) :
                /\ First(x, k - 1) = First(y, k - 1)
                /\ k <= Len(x) => x[k] < y[k]
    IN  CASE s = t -> 0 [] s # t /\ before(s, t) -> -1 [] OTHER -> 1

Sign(x) == CASE x < 0 -> -1 [] x = 0 -> 0 [] x > 0 -> 1

(* strcmp is the dictionary's order.  strncmp decrements n once more than  *)
(* it compares: it answers as for n + 1 characters, but 0 where the n-th   *)
(* is the first to differ.                                                 *)
StringsRight ==
    \A p, q \in Strings :
        /\ Sign(strcmp(heap, p, q)) = Order(Text(p), Text(q))
        /\ \A n \in 0 .. (HeapSize + 1) :
             LET order(k) == Order(First(Text(p), k), First(Text(q), k))
             IN  Sign(strncmp(heap, p, q, n)) =
                   IF n > 0 /\ order(n) # order(n - 1) THEN 0 ELSE order(n + 1)

(* The digits of a value. *)
Numeral(v, base) ==
    LET numeral[x \in 0 .. v] ==
            IF x < base THEN <<x>> ELSE Append(numeral[x \div base], x % base)
    IN  numeral[v]

Digits(text) == [i \in 1 .. Len(text) |-> DigitOf(text[i])]

IsNumeral(text, base) ==
    /\ text # <<>>
    /\ \A i \in 1 .. Len(text) : DigitOf(text[i]) < base
    /\ Len(text) > 1 => text[1] # Zero

(* strtol gives the number, if it is one that a long can hold, whose       *)
(* numeral the text starts with, after a sign and, for base 0, a prefix,   *)
(* and stops at the first character that is not a digit of the base; atoi  *)
(* gives the same.  Nothing is promised of longer numerals, whose value    *)
(* overflows, but where they end.                                          *)
NumbersRight ==
    \A p \in Strings : \A base \in {8, 10, 16} :
    \A stop \in 1 .. strlen(heap, p) : \A start \in 0 .. (stop - 1) :
        LET text   == Text(p)
            prefix == First(text, start)
            number == SubSeq(text, start + 1, stop)
            ends   == stop = Len(text) \/ DigitOf(text[stop + 1]) >= base
            read   == strtol(heap, p, IF prefix \in {<<>>, <<Minus>>} THEN base ELSE 0)
            minus  == prefix # <<>> /\ prefix[1] = Minus
            known  == \/ prefix \in {<<>>, <<Minus>>}
                      \/ base = 8 /\ prefix \in {<<Zero>>, <<Minus, Zero>>}
                      \/ base = 16 /\ \E x \in LetterX :
                           prefix \in {<<Zero, x>>, <<Minus, Zero, x>>}
        IN  known /\ IsNumeral(number, base) /\ ends =>
              /\ read.end = p + stop
              /\ \A v \in 0 .. LONG_MAX : Numeral(v, base) = Digits(number) =>
                    /\ read.value = IF minus THEN -v ELSE v
                    /\ base = 10 => atoi(heap, p) = read.value
=============================================================================
