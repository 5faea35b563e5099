------------------------------- MODULE Uthash -------------------------------
(***************************************************************************)
(* uthash.h: the hash table in which mdb.c keeps its symbols and           *)
(* breakpoints.                                                            *)
(*                                                                         *)
(* Both lists through a handle are kept as the pointers the macros write:  *)
(* next and prev in application order, hh_next and hh_prev along the chain *)
(* of a bucket.  The hash functions are the constant HashOf, and an        *)
(* element is the structure that holds the handle.                         *)
(***************************************************************************)
EXTENDS Integers, Sequences, FiniteSets

CONSTANTS
  Elems,           \* the structures an application may add
  Key,             \* their keys
  HashOf,          \* the hash value of a key
  Thresh,          \* HASH_BKT_CAPACITY_THRESH
  InitialBuckets,  \* HASH_INITIAL_NUM_BUCKETS
  Picks,           \* HASH_SELECT's condition: the elements it takes
  NULL

(* A limit of one would have HASH_SELECT double a table that counts no     *)
(* element yet: it divides by an ideal length of zero.                     *)
HashAssumption ==
  /\ IsFiniteSet(Elems) /\ NULL \notin Elems
  /\ Key \in [Elems -> Int] /\ \A e \in Elems : HashOf[Key[e]] \in Nat
  /\ Thresh \in Nat \ {0, 1} /\ InitialBuckets \in Nat \ {0}

VARIABLE table

-----------------------------------------------------------------------------
EmptyBucket == [hh_head |-> NULL, count |-> 0, expand_mult |-> 0]

(* No table: the application's head pointer is NULL. *)
NoTable == [head |-> NULL, tail |-> NULL,
            next |-> [e \in Elems |-> NULL], prev |-> [e \in Elems |-> NULL],
            hh_next |-> [e \in Elems |-> NULL], hh_prev |-> [e \in Elems |-> NULL],
            buckets |-> << >>, num_items |-> 0, ideal_chain_maxlen |-> 0,
            nonideal_items |-> 0, ineff_expands |-> 0, noexpand |-> 0]

HASH_MAKE_TABLE(e) ==
  [NoTable EXCEPT !.head = e, !.tail = e,
                  !.buckets = [i \in 1..InitialBuckets |-> EmptyBucket]]

(* The bucket of a hash value: its low bits.  Buckets are counted from 1. *)
HASH_TO_BKT(hashv, buckets) == 1 + (hashv % Len(buckets))

BktOf(e, t) == HASH_TO_BKT(HashOf[Key[e]], t.buckets)

(* The elements from first on, each the one the pointers nxt lead to. *)
Along(first, nxt) ==
  LET at[i \in 1..Cardinality(Elems) + 1] ==
        IF i = 1 THEN first
        ELSE LET e == at[i - 1] IN IF e = NULL THEN NULL ELSE nxt[e]
  IN [i \in 1..Cardinality({i \in DOMAIN at : at[i] # NULL}) |-> at[i]]

ChainOf(t, i) == Along(t.buckets[i].hh_head, t.hh_next)

(* e becomes the first of chain i. *)
InFront(t, i, e) ==
  LET b == t.buckets[i]
  IN [t EXCEPT !.hh_next[e] = b.hh_head,
               !.hh_prev = [x \in Elems |-> IF x = e THEN NULL
                                            ELSE IF x = b.hh_head THEN e ELSE @[x]],
               !.buckets[i] = [b EXCEPT !.hh_head = e, !.count = b.count + 1]]

(* Slip: among half of the buckets.                                        *)
RehashLow(t, e) ==
  LET i == 1 + (HashOf[Key[e]] % (Len(t.buckets) \div 2))
      put == InFront(t, i, e)
      count == put.buckets[i].count
  IN IF count <= t.ideal_chain_maxlen THEN put
     ELSE [put EXCEPT !.nonideal_items = @ + 1,
                      !.buckets[i].expand_mult = count \div t.ideal_chain_maxlen]

(* Slip: a chain that stays too long is not noted.                         *)
RehashUnnoted(t, e) ==
  LET i == BktOf(e, t)
      put == InFront(t, i, e)
  IN IF put.buckets[i].count <= t.ideal_chain_maxlen THEN put
     ELSE [put EXCEPT !.nonideal_items = @ + 1]

(* e goes to its bucket among the new ones; beyond the ideal length the    *)
(* bucket is allowed a longer chain.                                       *)
Rehash(t, e) ==
  LET i == BktOf(e, t)
      put == InFront(t, i, e)
      count == put.buckets[i].count
  IN IF count <= t.ideal_chain_maxlen THEN put
     ELSE [put EXCEPT !.nonideal_items = @ + 1,
                      !.buckets[i].expand_mult = count \div t.ideal_chain_maxlen]

(* The elements of one old chain, from its head. *)
RehashFrom(chain, t) ==
  LET moved[k \in 0..Len(chain)] ==
        IF k = 0 THEN t ELSE Rehash(moved[k - 1], chain[k])
  IN moved[Len(chain)]

(* Every old chain is walked as it was: where an element led to is read    *)
(* before it is moved.                                                     *)
HASH_EXPAND_BUCKETS(t) ==
  LET n == 2 * Len(t.buckets)
      ideal == (t.num_items \div n) + (IF t.num_items % n # 0 THEN 1 ELSE 0)
      fresh == [t EXCEPT !.buckets = [i \in 1..n |-> EmptyBucket],
                         !.ideal_chain_maxlen = ideal, !.nonideal_items = 0]
      bkt[i \in 0..Len(t.buckets)] ==
        IF i = 0 THEN fresh ELSE RehashFrom(ChainOf(t, i), bkt[i - 1])
      new == bkt[Len(t.buckets)]
      ineff == IF new.nonideal_items > t.num_items \div 2 THEN t.ineff_expands + 1 ELSE 0
  IN [new EXCEPT !.ineff_expands = ineff, !.noexpand = IF ineff > 1 THEN 1 ELSE @]

(* A chain that has reached its limit doubles the table. *)
HASH_ADD_TO_BKT(t, e) ==
  LET i == BktOf(e, t)
      put == InFront(t, i, e)
      b == put.buckets[i]
  IN IF b.count >= (b.expand_mult + 1) * Thresh /\ t.noexpand # 1
       THEN HASH_EXPAND_BUCKETS(put) ELSE put

(* The element follows the tail in application order.                      *)
HASH_ADD_KEYPTR(t, e) ==
  LET new == IF t.head = NULL THEN HASH_MAKE_TABLE(e)
             ELSE [t EXCEPT !.next[t.tail] = e, !.prev[e] = t.tail, !.tail = e]
  IN HASH_ADD_TO_BKT([new EXCEPT !.num_items = @ + 1], e)

(* The first element of its bucket that has the key. *)
HASH_FIND(t, k) ==
  IF t.head = NULL THEN NULL
  ELSE LET chain == ChainOf(t, HASH_TO_BKT(HashOf[k], t.buckets))
           same == {i \in DOMAIN chain : Key[chain[i]] = k}
       IN IF same = {} THEN NULL ELSE chain[CHOOSE i \in same : \A j \in same : i <= j]

(* The pointers nxt when before is to lead past e; those of an element     *)
(* that is out are never read again: they are NULL here.                   *)
Past(nxt, before, e) ==
  [x \in Elems |-> IF x = before THEN nxt[e] ELSE IF x = e THEN NULL ELSE nxt[x]]

(* Bucket b without its element e, which next follows.                    *)
Shorter(b, e, next) ==
  [b EXCEPT !.hh_head = IF b.hh_head = e THEN next ELSE b.hh_head, !.count = b.count - 1]

(* Slip: the element behind still leads back to the one that is out.       *)
HASH_DEL_IN_BKT_forward(t, e) ==
  [t EXCEPT !.hh_next = Past(t.hh_next, t.hh_prev[e], e),
            !.hh_prev[e] = NULL,
            !.buckets[BktOf(e, t)] = Shorter(@, e, t.hh_next[e])]

HASH_DEL_IN_BKT(t, e) ==
  [t EXCEPT !.hh_next = Past(t.hh_next, t.hh_prev[e], e),
            !.hh_prev = Past(t.hh_prev, t.hh_next[e], e),
            !.buckets[BktOf(e, t)] = Shorter(@, e, t.hh_next[e])]

(* With its last element the table itself goes. *)
HASH_DELETE(t, e) ==
  LET before == t.prev[e] after == t.next[e]
  IN IF before = NULL /\ after = NULL THEN NoTable
     ELSE [HASH_DEL_IN_BKT(t, e) EXCEPT
             !.head = IF before = NULL THEN after ELSE @,
             !.tail = IF e = t.tail THEN before ELSE @,
             !.next = Past(t.next, before, e), !.prev = Past(t.prev, after, e),
             !.num_items = @ - 1]

-----------------------------------------------------------------------------
(* A traversal in application order. *)
AppOrder(t) == Along(t.head, t.next)

InTable(t) == LET app == AppOrder(t) IN {app[i] : i \in DOMAIN app}

(* The two runs of insize elements that stand at q and behind it. *)
RunsAt(s, insize, q, list) ==
  LET psize == IF insize <= Len(s) - q + 1 THEN insize ELSE Len(s) - q + 1
  IN [list |-> list, p |-> q, psize |-> psize, q |-> q + psize, qsize |-> insize]

(* Slip: of two equal elements the one of the second run goes first.       *)
MergeUnstable(s, m) ==
  IF m.psize > 0 /\ (m.qsize = 0 \/ m.q > Len(s) \/ Key[s[m.p]] < Key[s[m.q]])
    THEN [m EXCEPT !.list = Append(@, s[m.p]), !.p = @ + 1, !.psize = @ - 1]
    ELSE [m EXCEPT !.list = Append(@, s[m.q]), !.q = @ + 1, !.qsize = @ - 1]

(* The next element of two runs that are not both used up; cmpfcn compares *)
(* the keys.                                                               *)
Merge(s, m) ==
  IF m.psize > 0 /\ (m.qsize = 0 \/ m.q > Len(s) \/ Key[s[m.p]] <= Key[s[m.q]])
    THEN [m EXCEPT !.list = Append(@, s[m.p]), !.p = @ + 1, !.psize = @ - 1]
    ELSE [m EXCEPT !.list = Append(@, s[m.q]), !.q = @ + 1, !.qsize = @ - 1]

(* One pass: the list s with its runs merged two by two. *)
MergeRuns(s, insize) ==
  LET turn[k \in 0..Len(s)] ==
        IF k = 0 THEN RunsAt(s, insize, 1, << >>)
        ELSE LET m == turn[k - 1]
             IN Merge(s, IF m.psize = 0 /\ (m.qsize = 0 \/ m.q > Len(s))
                        THEN RunsAt(s, insize, m.q, m.list) ELSE m)
  IN turn[Len(s)].list

(* The passes of HASH_SORT, until one run is the whole list; of one element *)
(* there is nothing to merge.                                               *)
MergeSort(s) ==
  LET pass[k \in 0..Len(s)] ==
        IF k = 0 THEN [list |-> s, insize |-> 1]
        ELSE LET b == pass[k - 1]
             IN IF b.insize >= Len(s) THEN b
                ELSE [list |-> MergeRuns(b.list, b.insize), insize |-> 2 * b.insize]
  IN pass[Len(s)].list

(* The element that stands d places from each in the list s. *)
Links(s, d) ==
  [e \in Elems |-> IF \E i \in DOMAIN s : s[i] = e /\ i + d \in DOMAIN s
                    THEN s[(CHOOSE i \in DOMAIN s : s[i] = e) + d] ELSE NULL]

(* Only the application order changes. *)
HASH_SORT(t) ==
  LET s == MergeSort(AppOrder(t))
  IN IF t.head = NULL THEN t
     ELSE [t EXCEPT !.head = s[1], !.tail = s[Len(s)],
                    !.next = Links(s, 1), !.prev = Links(s, -1)]

(* One element of HASH_SELECT: d has the new table and the element that    *)
(* was selected last, which e follows.  The tail of the new table stays    *)
(* where HASH_MAKE_TABLE set it, and the element is counted after its      *)
(* bucket has had its chance to expand.                                    *)
SelectOne(d, e) ==
  LET new == IF d.dst.head = NULL THEN HASH_MAKE_TABLE(e)
             ELSE [d.dst EXCEPT !.next[d.last] = e, !.prev[e] = d.last]
  IN [dst |-> [HASH_ADD_TO_BKT(new, e) EXCEPT !.num_items = @ + 1], last |-> e]

(* The chain of one bucket, from its head. *)
SelectFrom(chain, d) ==
  LET sel[k \in 0..Len(chain)] ==
        IF k = 0 THEN d
        ELSE IF chain[k] \in Picks THEN SelectOne(sel[k - 1], chain[k]) ELSE sel[k - 1]
  IN sel[Len(chain)]

HASH_SELECT(src) ==
  LET sel[i \in 0..Len(src.buckets)] ==
        IF i = 0 THEN [dst |-> NoTable, last |-> NULL]
        ELSE SelectFrom(ChainOf(src, i), sel[i - 1])
  IN sel[Len(src.buckets)].dst

Total(f) ==
  LET sum[i \in 0..Len(f)] == IF i = 0 THEN 0 ELSE sum[i - 1] + f[i]
  IN sum[Len(f)]

(* Each element of the list s leads back to the one before it. *)
LeadsBack(s, prv) == \A i \in DOMAIN s : prv[s[i]] = IF i = 1 THEN NULL ELSE s[i - 1]

(* HASH_FSCK: what a build with HASH_DEBUG tests on every operation.       *)
HASH_FSCK(t) ==
  LET chain == [i \in DOMAIN t.buckets |-> ChainOf(t, i)]
      app == AppOrder(t)
  IN t.head # NULL =>
       /\ \A i \in DOMAIN chain : /\ LeadsBack(chain[i], t.hh_prev)
                                  /\ t.buckets[i].count = Len(chain[i])
       /\ Total([i \in DOMAIN chain |-> Len(chain[i])]) = t.num_items
       /\ LeadsBack(app, t.prev) /\ Len(app) = t.num_items

-----------------------------------------------------------------------------
HInit == table = NoTable

Add(e) ==
  /\ e \notin InTable(table)
  /\ table' = HASH_ADD_KEYPTR(table, e)

(* HASH_ADD_UNIQUE. *)
AddUnique(e) ==
  /\ e \notin InTable(table)
  /\ table' = IF HASH_FIND(table, Key[e]) = NULL THEN HASH_ADD_KEYPTR(table, e) ELSE table

(* What mdb does with a breakpoint that is hit: HASH_FIND and HASH_DEL. *)
FindDelete(k) ==
  /\ HASH_FIND(table, k) # NULL
  /\ table' = HASH_DELETE(table, HASH_FIND(table, k))

Sort == table' = HASH_SORT(table)

Clear == table' = NoTable

(* HASH_FREE deletes the head until there is none. *)
Free ==
  LET t[k \in 0..Cardinality(Elems)] ==
        IF k = 0 THEN table
        ELSE LET b == t[k - 1] IN IF b.head = NULL THEN b ELSE HASH_DELETE(b, b.head)
  IN table' = t[Cardinality(Elems)]

HNext ==
  \/ \E e \in Elems : Add(e) \/ AddUnique(e)
  \/ \E e \in Elems : FindDelete(Key[e])
  \/ Sort \/ Clear \/ Free

HSpec == HInit /\ [][HNext]_table

-----------------------------------------------------------------------------
Precedes(s, x, y) == \E i, j \in DOMAIN s : i < j /\ s[i] = x /\ s[j] = y

HTypeOK ==
  /\ {table.head, table.tail} \subseteq Elems \cup {NULL}
  /\ {table.next, table.prev, table.hh_next, table.hh_prev} \subseteq [Elems -> Elems \cup {NULL}]
  /\ \A i \in DOMAIN table.buckets :
       /\ table.buckets[i].hh_head \in Elems \cup {NULL}
       /\ table.buckets[i].count \in 0..Cardinality(Elems)
       /\ table.buckets[i].expand_mult \in 0..Cardinality(Elems)
  /\ table.num_items \in 0..Cardinality(Elems) /\ table.nonideal_items \in Nat
  /\ table.noexpand \in {0, 1}

(* What HASH_FSCK tests holds after every operation, also of a table that *)
(* HASH_SELECT fills, and that has exactly the elements it is to have.     *)
Fscked ==
  LET picked == HASH_SELECT(table)
  IN /\ HASH_FSCK(table) /\ HASH_FSCK(picked)
     /\ InTable(picked) = InTable(table) \cap Picks

(* A key is found exactly if an element with it is in the table: no        *)
(* doubling leaves one in the wrong bucket.  Of elements with one key the  *)
(* one added last is found, and so they come out last-in first-out, which  *)
(* mdb rests on when a breakpoint is set twice at a symbol - until the     *)
(* buckets are doubled for the first time, which turns every chain round.  *)
FindsRight ==
  LET app == AppOrder(table)
  IN \A k \in {Key[e] : e \in Elems} :
       LET f == HASH_FIND(table, k)
           same == {e \in InTable(table) : Key[e] = k}
       IN /\ f = NULL <=> same = {}
          /\ f # NULL => f \in same
          /\ f # NULL /\ Len(table.buckets) = InitialBuckets =>
               \A e \in same : ~Precedes(app, f, e)

(* "It is better to let its chain length grow to a longer yet-still-       *)
(* bounded value": until expansion is given up, a chain is within the      *)
(* limit that its bucket's expand_mult allows, or was ideal when the        *)
(* buckets were last doubled.                                              *)
ChainsBounded ==
  table.noexpand = 0 =>
    \A i \in DOMAIN table.buckets :
      LET b == table.buckets[i]
      IN b.count < (b.expand_mult + 1) * Thresh \/ b.count <= table.ideal_chain_maxlen

(* HASH_SORT leaves the same elements in ascending order of keys, equal    *)
(* ones as they were, and every find as it was.                            *)
SortsStably ==
  LET s == AppOrder(table) t == HASH_SORT(table) r == AppOrder(t)
  IN /\ InTable(t) = InTable(table) /\ HASH_FSCK(t)
     /\ \A i, j \in DOMAIN r :
          i < j => \/ Key[r[i]] < Key[r[j]]
                   \/ Key[r[i]] = Key[r[j]] /\ Precedes(s, r[i], r[j])
=============================================================================
