---------------------------- MODULE FaultyMalloc ----------------------------
(***************************************************************************)
(* faultyMalloc.c, a program to debug: a list allocator and the test that  *)
(* drives it.                                                              *)
(*                                                                         *)
(* A block is known by the address of its header.  All blocks are linked   *)
(* in the order of their addresses (prev, next), the free ones also in the *)
(* order they are tried in (prevF, nextF).  The free bit of size is a      *)
(* field of its own.  Addresses and sizes count words, and the memory that *)
(* matters is the word the test writes at both ends of what it allocates.  *)
(***************************************************************************)
EXTENDS Integers, Sequences, FiniteSets

CONSTANTS
  Header,       \* sizeof(ll)
  SMALL,        \* below it, sbrk is asked for room for more than one
  Room,         \* how many times more
  Sizes,        \* the sizes the test asks for
  DictSize,     \* the size of the test's own two arrays
  TOTAL_ALLOCS

(* What sbrk is asked for in place of little has room for it and for the   *)
(* header of the rest; the test's own arrays are not little.               *)
HeapAssumption ==
  /\ Header \in Nat \ {0} /\ Room \in Nat \ {0} /\ SMALL \in Nat /\ TOTAL_ALLOCS \in Nat
  /\ Sizes \subseteq Nat \ {0} /\ \E s \in Sizes : \A r \in Sizes : r <= s
  /\ \A s \in Sizes : s < SMALL => s * Room >= s + Header
  /\ DictSize \in Nat \ {0} /\ DictSize >= SMALL

Nil == 0

VARIABLES
  heap,         \* blk, head, tail, headF, tailF, brk: the allocator
  mem,          \* the dictionary index a word holds, where it matters
  dictionary,   \* what the test keeps: address and size
  realloc_ptr,  \* what it will reallocate, or Nil
  allocs,       \* allocations so far
  phase         \* "alloc", "check", "harmed" (undefined from here on), or the result

mvars == <<heap, mem, dictionary, realloc_ptr, allocs, phase>>

-----------------------------------------------------------------------------
Blank == [size |-> 0, free |-> FALSE, prev |-> Nil, next |-> Nil,
          prevF |-> Nil, nextF |-> Nil]

NoHeap == [blk |-> << >>, head |-> Nil, tail |-> Nil, headF |-> Nil,
           tailF |-> Nil, brk |-> 1]

(* Slip: the tail of the free list is not looked at.                       *)
UnlinkKeepsTail(h, n) ==
  LET p == h.blk[n].prevF q == h.blk[n].nextF
      ahead == IF p # Nil THEN [h EXCEPT !.blk[p].nextF = q] ELSE [h EXCEPT !.headF = q]
      behind == IF q # Nil THEN [ahead EXCEPT !.blk[q].prevF = p] ELSE ahead
  IN [behind EXCEPT !.blk[n].prevF = Nil, !.blk[n].nextF = Nil]

(* Out of the free list. *)
UnlinkF(h, n) ==
  LET p == h.blk[n].prevF q == h.blk[n].nextF
      ahead == IF p # Nil THEN [h EXCEPT !.blk[p].nextF = q] ELSE [h EXCEPT !.headF = q]
      behind == IF q # Nil THEN [ahead EXCEPT !.blk[q].prevF = p] ELSE [ahead EXCEPT !.tailF = p]
  IN [behind EXCEPT !.blk[n].prevF = Nil, !.blk[n].nextF = Nil]

(* To the end of the free list. *)
AppendF(h, n) ==
  LET last == h.tailF
      linked == IF last = Nil THEN [h EXCEPT !.headF = n] ELSE [h EXCEPT !.blk[last].nextF = n]
  IN [linked EXCEPT !.tailF = n, !.blk[n].prevF = last, !.blk[n].nextF = Nil]

(* Slip: the end of the list stays where it was.                           *)
PointBackOnly(h, t, m) ==
  IF h.blk[t].next # Nil THEN [h EXCEPT !.blk[h.blk[t].next].prev = m] ELSE h

(* The block that follows t, or the end of the list, points back to m.     *)
PointBack(h, t, m) ==
  IF h.blk[t].next # Nil THEN [h EXCEPT !.blk[h.blk[t].next].prev = m] ELSE [h EXCEPT !.tail = m]

(* What is behind the first size words of block t becomes a free block. *)
Split(h, t, size) ==
  LET m == t + Header + size
      rest == [Blank EXCEPT !.size = h.blk[t].size - size - Header, !.free = TRUE,
                            !.prev = t, !.next = h.blk[t].next]
      back == PointBack(h, t, m)
  IN AppendF([back EXCEPT !.blk = [b \in DOMAIN @ \cup {m} |->
                                     IF b = m THEN rest ELSE IF b = t
                                     THEN [@[t] EXCEPT !.size = size, !.next = m] ELSE @[b]]], m)

(* Block t takes in the block n behind it. *)
Absorb(h, t, n) ==
  LET back == PointBack(h, n, t)
      joined == [h.blk[t] EXCEPT !.size = @ + Header + h.blk[n].size, !.next = h.blk[n].next]
  IN [back EXCEPT !.blk = [b \in DOMAIN @ \ {n} |-> IF b = t THEN joined ELSE @[b]]]

(* A walk from block b along the links next.                               *)
Walk(b, next) ==
  LET at[k \in 1 .. Cardinality(DOMAIN next) + 1] ==
        IF k = 1 THEN b ELSE IF at[k - 1] = Nil THEN Nil ELSE next[at[k - 1]]
  IN [k \in 1 .. Cardinality({i \in DOMAIN at : at[i] # Nil}) |-> at[k]]

FreeList(h) == Walk(h.headF, [b \in DOMAIN h.blk |-> h.blk[b].nextF])

-----------------------------------------------------------------------------
(* Slip: the header of the rest is not counted.                            *)
TakeSplits(h, t, size) ==
  LET taken == UnlinkF([h EXCEPT !.blk[t].free = FALSE], t)
  IN IF h.blk[t].size >= size + 1 THEN Split(taken, t, size) ELSE taken

(* Block t is taken, without the rest if that is worth a block. *)
Take(h, t, size) ==
  LET taken == UnlinkF([h EXCEPT !.blk[t].free = FALSE], t)
  IN IF h.blk[t].size >= size + 2 * Header THEN Split(taken, t, size) ELSE taken

(* sbrk makes a block at the end of the heap. *)
Grow(h, size) ==
  LET space == IF size < SMALL THEN size * Room ELSE size
      t == h.brk
      new == [Blank EXCEPT !.size = space, !.prev = h.tail]
      linked == IF h.tail = Nil THEN [h EXCEPT !.head = t] ELSE [h EXCEPT !.blk[h.tail].next = t]
      grown == [linked EXCEPT !.blk = [b \in DOMAIN @ \cup {t} |-> IF b = t THEN new ELSE @[b]],
                              !.tail = t, !.brk = @ + Header + space]
  IN IF size # space THEN Split(grown, t, size) ELSE grown

(* Slip: the header that a rest would need is counted as room.             *)
FittingWithHeader(h, size) ==
  {k \in DOMAIN FreeList(h) :
     h.blk[FreeList(h)[k]].free /\ h.blk[FreeList(h)[k]].size + Header >= size}

Fitting(h, size) ==
  {k \in DOMAIN FreeList(h) :
     h.blk[FreeList(h)[k]].free /\ h.blk[FreeList(h)[k]].size >= size}

(* The block malloc finds, and the heap it leaves: first fit, else sbrk. *)
Found(h, size) ==
  LET fits == Fitting(h, size)
  IN IF fits = {} THEN h.brk
     ELSE FreeList(h)[CHOOSE k \in fits : \A j \in fits : k <= j]

malloc(h, size) ==
  IF Fitting(h, size) = {} THEN Grow(h, size) ELSE Take(h, Found(h, size), size)

(* Block t is joined with its free neighbours, and the one block goes to   *)
(* the end of the free list.                                               *)
free(h, t) ==
  LET p == h.blk[t].prev
      n == h.blk[t].next
      down == p # Nil /\ h.blk[p].free
      q == IF down THEN p ELSE t
      up == IF n # Nil /\ h.blk[n].free THEN Absorb(UnlinkF(h, n), t, n) ELSE h
      joined == IF down THEN UnlinkF(Absorb(up, p, t), p) ELSE [up EXCEPT !.blk[t].free = TRUE]
  IN AppendF(joined, q)

-----------------------------------------------------------------------------
(* The words of a block, and where the test's two words in it are. *)
Data(t, size) == t + Header .. t + Header + size - 1
First(t) == t + Header
LastWord(t, size) == t + Header + size - 1

(* Headers lie on the words they are written to. *)
Headers(h) == UNION {b .. b + Header - 1 : b \in DOMAIN h.blk}

(* realloc frees, allocates and then copies all that the old block held.   *)
(* (The header of a rest that was split off may lie on it already, and the *)
(* copy may go on behind the new block.)                                   *)
ReallocHeap(h, t, size) == malloc(free(h, t), size)
ReallocBlock(h, t, size) == Found(free(h, t), size)

Copied(m, t, p, n) ==
  [x \in DOMAIN m |-> IF x \in Data(p, n) THEN m[x - p + t] ELSE m[x]]

(* The copy is defined, and copies what was there.  In place it does       *)
(* nothing at all.                                                         *)
Harmless(h, t, p, n) ==
  p # t => /\ n <= h.blk[p].size
           /\ Headers(h) \cap Data(t, n) = {}

-----------------------------------------------------------------------------
Words == 1 .. 2 * (Header + DictSize)
              + TOTAL_ALLOCS * (Header + Room * (CHOOSE s \in Sizes : \A r \in Sizes : r <= s))

MInit ==
  /\ heap = malloc(malloc(NoHeap, DictSize), DictSize)
  /\ mem = [x \in Words |-> Nil]
  /\ dictionary = << >> /\ realloc_ptr = Nil /\ allocs = 0 /\ phase = "alloc"

(* What the test does with what it was given: free it, ...                 *)
Drop(h, m, p) ==
  /\ heap' = free(h, p) /\ mem' = m
  /\ realloc_ptr' = Nil /\ UNCHANGED dictionary

(* ... write to it and reallocate it in the next round, ...                *)
Retry(h, m, p) ==
  /\ heap' = h
  /\ mem' = [m EXCEPT ![First(p)] = Len(dictionary) + 1]
  /\ realloc_ptr' = p /\ UNCHANGED dictionary

(* ... or write to both its ends and keep it.  What is in the first word   *)
(* is not written again after realloc.                                     *)
Keep(h, m, p, size, written) ==
  /\ heap' = h
  /\ LET k == Len(dictionary) + 1
         begun == IF written THEN m ELSE [m EXCEPT ![First(p)] = k]
     IN mem' = [begun EXCEPT ![LastWord(p, size)] = k]
  /\ dictionary' = Append(dictionary, [ptr |-> p, size |-> size])
  /\ realloc_ptr' = Nil

Alloc(size) ==
  /\ phase = "alloc" /\ allocs < TOTAL_ALLOCS /\ realloc_ptr = Nil
  /\ LET h == malloc(heap, size) p == Found(heap, size)
     IN Drop(h, mem, p) \/ Retry(h, mem, p) \/ Keep(h, mem, p, size, FALSE)
  /\ allocs' = allocs + 1 /\ UNCHANGED phase

Realloc(size) ==
  /\ phase = "alloc" /\ allocs < TOTAL_ALLOCS /\ realloc_ptr # Nil
  /\ LET t == realloc_ptr
         n == heap.blk[t].size
         h == ReallocHeap(heap, t, size)
         p == ReallocBlock(heap, t, size)
         m == Copied(mem, t, p, n)
     IN \/ /\ Harmless(h, t, p, n)
           /\ \/ Drop(h, m, p) \/ Keep(h, m, p, size, TRUE)
              \/ heap' = h /\ mem' = m /\ realloc_ptr' = p /\ UNCHANGED dictionary
           /\ UNCHANGED phase
        \/ /\ ~Harmless(h, t, p, n)
           /\ phase' = "harmed"
           /\ UNCHANGED <<heap, mem, dictionary, realloc_ptr>>
  /\ allocs' = allocs + 1

EndAllocs ==
  /\ phase = "alloc" /\ allocs = TOTAL_ALLOCS
  /\ phase' = "check"
  /\ UNCHANGED <<heap, mem, dictionary, realloc_ptr, allocs>>

(* The check of what was kept, the last one first; what passes is freed. *)
Check ==
  /\ phase = "check"
  /\ IF dictionary = << >> THEN phase' = "passed" /\ UNCHANGED <<heap, dictionary>>
     ELSE LET k == Len(dictionary) d == dictionary[k]
          IN IF mem[First(d.ptr)] # k THEN phase' = "100" /\ UNCHANGED <<heap, dictionary>>
             ELSE IF mem[LastWord(d.ptr, d.size)] # k
             THEN phase' = "101" /\ UNCHANGED <<heap, dictionary>>
             ELSE /\ heap' = free(heap, d.ptr) /\ dictionary' = SubSeq(dictionary, 1, k - 1)
                  /\ UNCHANGED phase
  /\ UNCHANGED <<mem, realloc_ptr, allocs>>

main == (\E size \in Sizes : Alloc(size) \/ Realloc(size)) \/ EndAllocs \/ Check

MNext == main \/ (phase \notin {"alloc", "check"} /\ UNCHANGED mvars)

MSpec == MInit /\ [][MNext]_mvars

-----------------------------------------------------------------------------
MTypeOK ==
  /\ \A b \in DOMAIN heap.blk :
       /\ heap.blk[b].size \in Nat /\ heap.blk[b].free \in BOOLEAN
       /\ {heap.blk[b].prev, heap.blk[b].next, heap.blk[b].prevF, heap.blk[b].nextF}
            \subseteq DOMAIN heap.blk \cup {Nil}
  /\ mem \in [Words -> 0..TOTAL_ALLOCS]
  /\ allocs \in 0..TOTAL_ALLOCS
  /\ phase \in {"alloc", "check", "harmed", "passed", "100", "101"}

(* Going through the blocks by next meets the headers one behind the other *)
(* from the start of the heap to its end, and prev leads back: no word is  *)
(* lost, and none is in two blocks.                                        *)
BlocksTile ==
  LET all == Walk(heap.head, [b \in DOMAIN heap.blk |-> heap.blk[b].next])
      block(k) == heap.blk[all[k]]
  IN /\ all[1] = 1 /\ heap.tail = all[Len(all)]
     /\ \A k \in DOMAIN all :
          /\ all[k] + Header + block(k).size = IF k = Len(all) THEN heap.brk ELSE all[k + 1]
          /\ block(k).prev = IF k = 1 THEN Nil ELSE all[k - 1]
     /\ Len(all) = Cardinality(DOMAIN heap.blk)

(* The free list has every free block once and no other, its two ends are  *)
(* right, and no two free blocks are neighbours: free left nothing to join.*)
FreeListRight ==
  LET f == FreeList(heap)
  IN /\ {f[k] : k \in DOMAIN f} = {b \in DOMAIN heap.blk : heap.blk[b].free}
     /\ \A j, k \in DOMAIN f : f[j] = f[k] => j = k
     /\ heap.tailF = IF f = << >> THEN Nil ELSE f[Len(f)]
     /\ \A k \in DOMAIN f :
          LET n == heap.blk[f[k]].next
          IN /\ heap.blk[f[k]].prevF = IF k = 1 THEN Nil ELSE f[k - 1]
             /\ n # Nil => ~heap.blk[n].free

(* What the test keeps stays its own: as long as no realloc copied over    *)
(* the end of a block or from under a new header, its words are in place   *)
(* and the checks at the end pass.                                         *)
DataKept ==
  /\ phase \notin {"100", "101"}
  /\ \A k \in DOMAIN dictionary :
       LET d == dictionary[k]
       IN /\ d.ptr \in DOMAIN heap.blk /\ ~heap.blk[d.ptr].free /\ d.size <= heap.blk[d.ptr].size
          /\ mem[First(d.ptr)] = k /\ mem[LastWord(d.ptr, d.size)] = k
=============================================================================
