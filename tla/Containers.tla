----------------------------- MODULE Containers -----------------------------
(***************************************************************************)
(* lib/list.cc, lib/hash.cc and lib/bitmap.cc: the lists, hash tables and  *)
(* bitmaps of the kernel, down to the pointers and words they are made of, *)
(* beside what they stand for: reference is the sequence of a list's       *)
(* items, and the set of a table's items or of a bitmap's marked bits.     *)
(*                                                                         *)
(* The operations ASSERT what they need (an item is not inserted twice,    *)
(* what is removed is there); the actions take place only then.            *)
(***************************************************************************)
EXTENDS Integers, Sequences, FiniteSets, Bitwise

LOCAL INSTANCE FiniteSetsExt
LOCAL INSTANCE SequencesExt

CONSTANTS Items,             \* what lists and tables hold: records of a key and a tag
          HashOf,            \* the unsigned number the hash function gives a key
          InitialBuckets, ResizeRatio, IncreaseSizeBy,
          NumBits, BitsInWord

VARIABLES structure,         \* "list", "sorted", "hash" or "bitmap"
          object,            \* the data structure
          reference

containers == <<structure, object, reference>>

-----------------------------------------------------------------------------
(* List.  cells is the part of the heap that holds the list's elements.     *)

NULL == 0
EmptyList == [first |-> NULL, last |-> NULL, numInList |-> 0, cells |-> << >>]

Fresh(l) == Min((1..Cardinality(DOMAIN l.cells) + 1) \ DOMAIN l.cells)
Without(cells, c) == [d \in DOMAIN cells \ {c} |-> cells[d]]
With(cells, c, item, next) ==
    [d \in DOMAIN cells \union {c} |->
        IF d = c THEN [item |-> item, next |-> next] ELSE cells[d]]

\* The cells from c on, in the order ListIterator and the loops follow them.
Chain(l, c) ==
    LET walk[n \in 0..Cardinality(DOMAIN l.cells)] ==
            IF n = 0 THEN << >>
            ELSE LET before == walk[n - 1]
                     next == IF before = << >> THEN c ELSE l.cells[Last(before)].next
                 IN IF next = NULL THEN before ELSE Append(before, next)
    IN IF c = NULL THEN << >> ELSE walk[Cardinality(DOMAIN l.cells)]
Contents(l) == [n \in DOMAIN Chain(l, l.first) |-> l.cells[Chain(l, l.first)[n]].item]
IsInList(l, item) == item \in ToSet(Contents(l))

ListAppend(l, item) ==
    LET e == Fresh(l)
        cells == With(l.cells, e, item, NULL)
    IN [first |-> IF l.first = NULL THEN e ELSE l.first, last |-> e,
        numInList |-> l.numInList + 1,
        cells |-> IF l.first = NULL THEN cells ELSE [cells EXCEPT ![l.last].next = e]]

ListPrepend(l, item) ==
    LET e == Fresh(l)
    IN [first |-> e, last |-> IF l.first = NULL THEN e ELSE l.last,
        numInList |-> l.numInList + 1, cells |-> With(l.cells, e, item, l.first)]

RemoveFront(l) ==
    LET one == l.first = l.last
    IN [first |-> IF one THEN NULL ELSE l.cells[l.first].next,
        last |-> IF one THEN NULL ELSE l.last,
        numInList |-> l.numInList - 1, cells |-> Without(l.cells, l.first)]

\* Mutant: last is not moved when the last element goes.
ListRemoveKeepsLast(l, item) ==
    LET chain == Chain(l, l.first)
        at == SelectInSeq(chain, LAMBDA c : l.cells[c].item = item)
        next == l.cells[chain[at]].next
    IN IF at = 1 THEN RemoveFront(l)
       ELSE [l EXCEPT !.numInList = @ - 1,
                      !.cells = Without([@ EXCEPT ![chain[at - 1]].next = next], chain[at])]

ListRemove(l, item) ==
    LET chain == Chain(l, l.first)
        at == SelectInSeq(chain, LAMBDA c : l.cells[c].item = item)
        next == l.cells[chain[at]].next
    IN IF at = 1 THEN RemoveFront(l)
       ELSE [first |-> l.first, last |-> IF next = NULL THEN chain[at - 1] ELSE l.last,
             numInList |-> l.numInList - 1,
             cells |-> Without([l.cells EXCEPT ![chain[at - 1]].next = next], chain[at])]

\* SortedList::Insert: before the first element that is bigger.
Insert(l, item) ==
    LET e == Fresh(l)
        chain == Chain(l, l.first)
        bigger == SelectInSeq(chain, LAMBDA c : item.key < l.cells[c].item.key)
    IN CASE bigger = 0 -> ListAppend(l, item)
         [] bigger = 1 -> ListPrepend(l, item)
         [] OTHER -> [l EXCEPT !.numInList = @ + 1,
                               !.cells = [With(@, e, item, chain[bigger]) EXCEPT
                                             ![chain[bigger - 1]].next = e]]

\* List::SanityCheck
ListSane(l) ==
    LET chain == Chain(l, l.first)
    IN /\ (l.first = NULL) => (l.last = NULL /\ l.numInList = 0)
       /\ (l.first # NULL) => /\ l.last = Last(chain)
                              /\ l.numInList = Len(chain)
                              /\ l.cells[l.last].next = NULL

-----------------------------------------------------------------------------
(* HashTable: the buckets are lists, numbered from 0. *)

InitBuckets(n) == [b \in 0..n - 1 |-> EmptyList]
EmptyHashTable == [numItems |-> 0, numBuckets |-> InitialBuckets,
               buckets |-> InitBuckets(InitialBuckets)]

HashValue(t, key) == HashOf[key] % t.numBuckets

\* Every bucket is emptied from its front into the larger table.
ReHash(t) ==
    LET larger == [t EXCEPT !.numBuckets = @ * IncreaseSizeBy,
                            !.buckets = InitBuckets(t.numBuckets * IncreaseSizeBy)]
        items == FoldLeft(LAMBDA s, b : s \o Contents(t.buckets[b]), << >>,
                          [n \in 1..t.numBuckets |-> n - 1])
    IN FoldLeft(LAMBDA u, item :
                    [u EXCEPT !.buckets[HashValue(u, item.key)] = ListAppend(@, item)],
                larger, items)

HashInsert(t, item) ==
    LET u == IF t.numItems \div t.numBuckets >= ResizeRatio THEN ReHash(t) ELSE t
    IN [u EXCEPT !.buckets[HashValue(u, item.key)] = ListAppend(@, item),
                 !.numItems = @ + 1]

\* HashTable::Find: the items of the key's bucket that have the key, or none.
HashFind(t, key) ==
    SelectSeq(Contents(t.buckets[HashValue(t, key)]), LAMBDA item : item.key = key)

HashRemove(t, key) ==
    [t EXCEPT !.buckets[HashValue(t, key)] = ListRemove(@, HashFind(t, key)[1]),
              !.numItems = @ - 1]

\* The first bucket from b on with an item, or numBuckets.
FindNextFullBucket(t, b) ==
    Min({c \in b..t.numBuckets - 1 : t.buckets[c].numInList # 0} \union {t.numBuckets})

\* What a HashIterator goes through.
Iterated(t) ==
    LET visit[n \in 0..t.numBuckets] ==
            IF n = 0 THEN [b |-> FindNextFullBucket(t, 0), items |-> << >>]
            ELSE LET v == visit[n - 1]
                 IN IF v.b = t.numBuckets THEN v
                    ELSE [b |-> FindNextFullBucket(t, v.b + 1),
                          items |-> v.items \o Contents(t.buckets[v.b])]
    IN visit[t.numBuckets].items

\* HashTable::SanityCheck
TableSane(t) ==
    \A b \in DOMAIN t.buckets :
        /\ ListSane(t.buckets[b])
        /\ \A item \in ToSet(Contents(t.buckets[b])) : b = HashValue(t, item.key)

-----------------------------------------------------------------------------
(* Bitmap: words of BitsInWord bits. *)

EmptyBitmap == [w \in 0..((NumBits + BitsInWord - 1) \div BitsInWord) - 1 |-> 0]
Bit(which) == 2^(which % BitsInWord)
Test(map, which) == (map[which \div BitsInWord] & Bit(which)) # 0
Mark(map, which) == [map EXCEPT ![which \div BitsInWord] = @ | Bit(which)]
Clear(map, which) ==
    [map EXCEPT ![which \div BitsInWord] = @ & (2^BitsInWord - 1 - Bit(which))]
NumClear(map) == Cardinality({i \in 0..NumBits - 1 : ~Test(map, i)})
\* FindAndSet: the bit it returns, -1 when all are set.
FirstClear(map) ==
    IF NumClear(map) = 0 THEN -1 ELSE Min({i \in 0..NumBits - 1 : ~Test(map, i)})

-----------------------------------------------------------------------------
ContainersInit ==
    \/ structure \in {"list", "sorted"} /\ object = EmptyList /\ reference = << >>
    \/ structure = "hash" /\ object = EmptyHashTable /\ reference = {}
    \/ structure = "bitmap" /\ object = EmptyBitmap /\ reference = {}

Change(kinds, o, r) ==
    structure \in kinds /\ object' = o /\ reference' = r /\ UNCHANGED structure

\* What the items with a key not above item's, and then the others, come to.
InOrder(s, item) ==
    SelectSeq(s, LAMBDA x : x.key <= item.key) \o <<item>>
    \o SelectSeq(s, LAMBDA x : x.key > item.key)

ListNext ==
    \E item \in Items :
        \/ /\ structure \in {"list", "sorted"} /\ ~IsInList(object, item)
           /\ \/ Change({"list"}, ListAppend(object, item), Append(reference, item))
              \/ Change({"list"}, ListPrepend(object, item), <<item>> \o reference)
              \/ Change({"sorted"}, Insert(object, item), InOrder(reference, item))
        \/ /\ structure \in {"list", "sorted"} /\ IsInList(object, item)
           /\ Change({"list", "sorted"}, ListRemove(object, item),
                     SelectSeq(reference, LAMBDA x : x # item))

RemoveFrontNext ==
    /\ structure \in {"list", "sorted"} /\ object.first # NULL
    /\ Change({"list", "sorted"}, RemoveFront(object), Tail(reference))

HashNext ==
    \E item \in Items :
        /\ structure = "hash"
        /\ \/ /\ HashFind(object, item.key) = << >>
              /\ Change({"hash"}, HashInsert(object, item), reference \union {item})
           \/ /\ HashFind(object, item.key) # << >>
              /\ Change({"hash"}, HashRemove(object, item.key),
                        {x \in reference : x.key # item.key})

BitmapNext ==
    \/ \E i \in 0..NumBits - 1 :
          /\ structure = "bitmap"
          /\ \/ Change({"bitmap"}, Mark(object, i), reference \union {i})
             \/ Change({"bitmap"}, Clear(object, i), reference \ {i})
    \/ /\ structure = "bitmap" /\ FirstClear(object) # -1
       /\ Change({"bitmap"}, Mark(object, FirstClear(object)),
                 reference \union {FirstClear(object)})

ContainersNext == ListNext \/ RemoveFrontNext \/ HashNext \/ BitmapNext

\* After any sequence of calls a list holds the items in the order the calls
\* say (a sorted list keeps ties in the order of their insertion), a table
\* finds exactly the items put in and goes through each once, whatever the
\* number of times it grew, and a bitmap has exactly the marked bits and finds
\* the lowest clear one; and the SanityChecks of the code pass.
ContainersExact ==
    CASE structure \in {"list", "sorted"} ->
            /\ Contents(object) = reference
            /\ ListSane(object)
            /\ Cardinality(DOMAIN object.cells) = Len(reference)
      [] structure = "hash" ->
            /\ TableSane(object)
            /\ object.numItems = Cardinality(reference)
            /\ \A item \in Items :
                  ToSet(HashFind(object, item.key)) = {x \in reference : x.key = item.key}
            /\ ToSet(Iterated(object)) = reference
            /\ Len(Iterated(object)) = Cardinality(reference)
      [] structure = "bitmap" ->
            /\ \A i \in 0..NumBits - 1 : Test(object, i) <=> i \in reference
            /\ NumClear(object) = NumBits - Cardinality(reference)
            /\ FirstClear(object) = IF NumClear(object) = 0 THEN -1
                                    ELSE Min((0..NumBits - 1) \ reference)
=============================================================================
