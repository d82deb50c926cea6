-------------------------------- MODULE Dict --------------------------------
(***************************************************************************)
(* The hash table of callbacks (dict.c): a chain of entries in every slot, *)
(* doubled when there are as many entries as slots.                        *)
(*                                                                         *)
(* A chain is a set: its order shows in nothing but the order in which an  *)
(* iteration meets its entries, which is left open.                        *)
(***************************************************************************)
EXTENDS Integers, FiniteSets

CONSTANTS
    Keys, Values,
    Hash,         \* dictGenHashFunction, from Keys to Nat
    InitialSize,  \* DICT_HT_INITIAL_SIZE
    MayFail       \* whether memory may run out

ASSUME DictAssumption == Hash \in [Keys -> Nat] /\ InitialSize \in Nat \ {0} /\ MayFail \in BOOLEAN

VARIABLES
    table,    \* ht->table: the chain of each slot, from slot 0
    size,     \* ht->size
    used,     \* ht->used
    iter,     \* the iterator: whether one runs, its index, the entries of the
              \* chain from nextEntry on, the key of the entry it returned last
    returned  \* what the last dictReplace returned, 2 after other calls

dictVars == <<table, size, used, iter, returned>>

Entry == [key : Keys, val : Values]
NoTable == [i \in {} |-> {}]
NoIter == [on |-> FALSE, index |-> -1, rest |-> {}, last |-> {}]

DictInit == table = NoTable /\ size = 0 /\ used = 0 /\ iter = NoIter /\ returned = 2

-----------------------------------------------------------------------------

Entries == UNION {table[i] : i \in 0 .. size - 1}

(* hash & sizemask; sizes are powers of two.                                *)
Slot(k, n) == Hash[k] % n

(* dictFind walks the chain of the key.                                     *)
Has(t, n, k) == n > 0 /\ \E e \in t[Slot(k, n)] : e.key = k

(* Mutant: the chains are kept, not dealt out anew.                         *)
ExpandedCopies(n) == [i \in 0 .. n - 1 |-> IF i < size THEN table[i] ELSE {}]

(* dictExpand moves every entry to its new chain.                           *)
Expanded(n) == [i \in 0 .. n - 1 |-> {e \in Entries : Slot(e.key, n) = i}]

(* _dictExpandIfNeeded                                                      *)
NewSize == IF size = 0 THEN InitialSize ELSE IF used = size THEN 2 * size ELSE size
Sized(n) == IF n = size THEN table ELSE Expanded(n)

(* A chain gets an entry for k, or the value of the one it has is replaced. *)
Stored(t, n, k, v) ==
    [t EXCEPT ![Slot(k, n)] = {e \in @ : e.key # k} \cup {[key |-> k, val |-> v]}]

(* dictReplace: dictAdd, and where that fails the value of the entry that   *)
(* is found.  The doubling may fail, or after it the new entry.             *)
Replace(k, v) ==
    /\ ~iter.on
    /\ \/ /\ size' = NewSize
          /\ table' = Stored(Sized(NewSize), NewSize, k, v)
          /\ IF Has(Sized(NewSize), NewSize, k)
             THEN returned' = 0 /\ UNCHANGED used
             ELSE returned' = 1 /\ used' = used + 1
       \/ /\ MayFail
          /\ size' \in {size, NewSize}
          /\ table' = IF Has(Sized(size'), size', k) THEN Stored(Sized(size'), size', k, v) ELSE Sized(size')
          /\ returned' = 0 /\ UNCHANGED used
    /\ UNCHANGED iter

(* dictDelete.  During an iteration only the entry that was returned last   *)
(* may be deleted.                                                          *)
Delete(k) ==
    /\ iter.on => iter.last = {k}
    /\ Has(table, size, k)
    /\ table' = [table EXCEPT ![Slot(k, size)] = {e \in @ : e.key # k}]
    /\ used' = used - 1
    /\ returned' = 2
    /\ UNCHANGED <<size, iter>>

(* _dictClear, in dictRelease                                               *)
Clear ==
    /\ ~iter.on
    /\ table' = NoTable /\ size' = 0 /\ used' = 0 /\ returned' = 2
    /\ UNCHANGED iter

(* dictInitIterator                                                         *)
InitIterator ==
    /\ ~iter.on
    /\ iter' = [NoIter EXCEPT !.on = TRUE]
    /\ returned' = 2
    /\ UNCHANGED <<table, size, used>>

Later == {i \in iter.index + 1 .. size - 1 : table[i] # {}}

(* Mutant: the iterator takes one entry of each chain only.                 *)
MetSkips(i, chain, e) == iter' = [on |-> TRUE, index |-> i, rest |-> {}, last |-> {e.key}]

(* The entry that is returned; the one to come is noted already.            *)
Met(i, chain, e) == iter' = [on |-> TRUE, index |-> i, rest |-> chain \ {e}, last |-> {e.key}]

(* dictNext: the rest of the chain, or the next slot that has one.          *)
DictNext ==
    /\ iter.on
    /\ \/ \E e \in iter.rest : Met(iter.index, iter.rest, e)
       \/ /\ iter.rest = {}
          /\ \E i \in Later : /\ \A j \in Later : i <= j
                              /\ \E e \in table[i] : Met(i, table[i], e)
       \/ iter.rest = {} /\ Later = {} /\ iter' = NoIter
    /\ returned' = 2
    /\ UNCHANGED <<table, size, used>>

DictStep ==
    \/ \E k \in Keys : Delete(k) \/ \E v \in Values : Replace(k, v)
    \/ Clear \/ InitIterator \/ DictNext

DictSpec == DictInit /\ [][DictStep]_dictVars

-----------------------------------------------------------------------------

DictTypeOK ==
    /\ size \in Nat /\ used \in Nat
    /\ table \in [0 .. size - 1 -> SUBSET Entry]
    /\ iter \in [on : BOOLEAN, index : -1 .. size - 1, rest : SUBSET Entry, last : SUBSET Keys]
    /\ returned \in 0 .. 2

(* A look-up finds what was stored: every entry is in the chain its hash    *)
(* selects now, and is the only one of its key, through all the doublings.  *)
ChainsSound ==
    \A i \in 0 .. size - 1 : \A e \in table[i] :
        /\ Slot(e.key, size) = i
        /\ \A f \in table[i] : f.key = e.key => f = e

(* The number of entries that async.c takes for "no subscription left" is   *)
(* the number of entries, and the table is doubled before chains pile up.   *)
UsedCounts ==
    /\ used = Cardinality(Entries)
    /\ used <= size

(* What every operation of the table relies on and leaves behind, whatever  *)
(* order they come in and whichever of their allocations fails.             *)
TableSound == DictTypeOK /\ ChainsSound /\ UsedCounts

(* The table is a map, and an iteration meets every entry once, also when   *)
(* the entry it returned is deleted.                                        *)
KeysOf(E) == {e.key : e \in E}
MapOf(E) == [k \in KeysOf(E) |-> (CHOOSE e \in E : e.key = k).val]
Ahead == iter.rest \cup UNION {table[i] : i \in iter.index + 1 .. size - 1}
Map == INSTANCE CallbackMap
           WITH map <- MapOf(Entries), ahead <- IF iter.on THEN KeysOf(Ahead) ELSE {}
IsMap == Map!Spec
=============================================================================
