----------------------------- MODULE DictProofs -----------------------------
(***************************************************************************)
(* The hash table for all sets of names and callbacks, every hash function *)
(* and every initial size: it is sound, and it is a map.                   *)
(***************************************************************************)
EXTENDS Dict, FiniteSetTheorems, TLAPS

-----------------------------------------------------------------------------
(* Tables of n slots.                                                       *)

EntriesOf(t, n) == UNION {t[i] : i \in 0 .. n - 1}

OneOfAKey(E) == \A e, f \in E : e.key = f.key => e = f

Without(E, k) == {e \in E : e.key # k}
With(E, k, v) == Without(E, k) \cup {[key |-> k, val |-> v]}
Updated(m, k, v) == [x \in DOMAIN m \cup {k} |-> IF x = k THEN v ELSE m[x]]

Sound(t, n) ==
    /\ t \in [0 .. n - 1 -> SUBSET Entry]
    /\ \A i \in 0 .. n - 1 : \A e \in t[i] :
          /\ Slot(e.key, n) = i
          /\ \A f \in t[i] : f.key = e.key => f = e

(* Where a running iterator is: in a chain, of which it has still to meet   *)
(* other entries than the one it returned last.                             *)
IterSound ==
    /\ ~iter.on => iter = NoIter
    /\ iter.index = -1 => iter.rest = {} /\ iter.last = {}
    /\ iter.index # -1 => iter.rest \subseteq table[iter.index]
    /\ \A k \in iter.last : Slot(k, size) = iter.index /\ \A e \in iter.rest : e.key # k

DictInv == TableSound /\ IsFiniteSet(Entries) /\ IterSound

LEMMA SlotInTable ==
    ASSUME NEW n \in Nat, n > 0, NEW k \in Keys PROVE Slot(k, n) \in 0 .. n - 1
<1>1. Hash[k] \in Nat
  BY DictAssumption
<1> QED BY <1>1 DEF Slot

(* A key is in one chain, and there once.                                   *)
LEMMA SoundIsUnique ==
    ASSUME NEW t, NEW n \in Nat, Sound(t, n)
    PROVE  /\ EntriesOf(t, n) \subseteq Entry
           /\ OneOfAKey(EntriesOf(t, n))
BY DEF Sound, EntriesOf, OneOfAKey

LEMMA HasMeans ==
    ASSUME NEW t, NEW n \in Nat, Sound(t, n), NEW k \in Keys
    PROVE  Has(t, n, k) <=> k \in KeysOf(EntriesOf(t, n))
<1>1. ASSUME Has(t, n, k) PROVE k \in KeysOf(EntriesOf(t, n))
  BY <1>1, SlotInTable DEF Has, KeysOf, EntriesOf
<1>2. ASSUME k \in KeysOf(EntriesOf(t, n)) PROVE Has(t, n, k)
  <2>1. PICK i \in 0 .. n - 1 : \E e \in t[i] : e.key = k
    BY <1>2 DEF KeysOf, EntriesOf
  <2> QED BY <2>1 DEF Has, Sound
<1> QED BY <1>1, <1>2

(* Dealing the entries out anew loses none.                                 *)
LEMMA ExpandedSound ==
    ASSUME DictTypeOK, ChainsSound, NEW n \in Nat, n > 0
    PROVE  Sound(Expanded(n), n) /\ EntriesOf(Expanded(n), n) = Entries
<1>0. Sound(table, size) /\ Entries = EntriesOf(table, size) /\ size \in Nat
  BY DEF Sound, Entries, EntriesOf, DictTypeOK, ChainsSound
<1>1. Entries \subseteq Entry /\ OneOfAKey(Entries)
  BY <1>0, SoundIsUnique
<1>2. \A e \in Entries : Slot(e.key, n) \in 0 .. n - 1
  BY <1>1, SlotInTable DEF Entry
<1>3. Sound(Expanded(n), n)
  BY <1>1 DEF Expanded, Sound, OneOfAKey
<1>4. ASSUME NEW e \in Entries PROVE e \in EntriesOf(Expanded(n), n)
  BY <1>2 DEF Expanded, EntriesOf
<1>5. ASSUME NEW e \in EntriesOf(Expanded(n), n) PROVE e \in Entries
  BY DEF Expanded, EntriesOf
<1> QED BY <1>3, <1>4, <1>5

LEMMA SizedSound ==
    ASSUME DictTypeOK, ChainsSound, NEW n \in {size, NewSize}
    PROVE  /\ n \in Nat /\ (n = NewSize => n > 0)
           /\ Sound(Sized(n), n) /\ EntriesOf(Sized(n), n) = Entries
<1>1. NewSize \in Nat /\ NewSize > 0 /\ size \in Nat
  BY DictAssumption DEF NewSize, DictTypeOK
<1>2. CASE n = size
  BY <1>1, <1>2 DEF Sized, Sound, Entries, EntriesOf, DictTypeOK, ChainsSound
<1>3. CASE n # size
  BY <1>1, <1>3, ExpandedSound DEF Sized
<1> QED BY <1>1, <1>2, <1>3

(* What a stored entry adds, and replaces.                                  *)
LEMMA StoredSound ==
    ASSUME NEW t, NEW n \in Nat, n > 0, Sound(t, n), NEW k \in Keys, NEW v \in Values
    PROVE  /\ Sound(Stored(t, n, k, v), n)
           /\ EntriesOf(Stored(t, n, k, v), n) = With(EntriesOf(t, n), k, v)
<1> DEFINE s == Slot(k, n)
           new == [key |-> k, val |-> v]
           u == Stored(t, n, k, v)
<1>0. s \in 0 .. n - 1 /\ new \in Entry /\ new.key = k
  BY SlotInTable DEF Entry
<1>1. /\ u \in [0 .. n - 1 -> SUBSET Entry]
      /\ u[s] = {e \in t[s] : e.key # k} \cup {new}
      /\ \A i \in 0 .. n - 1 : i # s => u[i] = t[i]
  BY <1>0 DEF Stored, Sound
<1> HIDE DEF u, new
<1>2. Sound(u, n)
  <2>1. ASSUME NEW i \in 0 .. n - 1, NEW e \in u[i]
        PROVE  Slot(e.key, n) = i /\ \A f \in u[i] : f.key = e.key => f = e
    BY <1>0, <1>1 DEF Sound
  <2> QED BY <1>1, <2>1 DEF Sound
<1>3. ASSUME NEW e \in EntriesOf(u, n) PROVE e = new \/ (e \in EntriesOf(t, n) /\ e.key # k)
  <2>1. PICK i \in 0 .. n - 1 : e \in u[i]
    BY <1>3 DEF EntriesOf
  <2> QED BY <1>1, <2>1 DEF EntriesOf, Sound
<1>4. new \in EntriesOf(u, n)
  BY <1>0, <1>1 DEF EntriesOf
<1>5. ASSUME NEW e \in EntriesOf(t, n), e.key # k PROVE e \in EntriesOf(u, n)
  <2>1. PICK i \in 0 .. n - 1 : e \in t[i]
    BY <1>5 DEF EntriesOf
  <2>2. e \in u[i]
    BY <1>1, <1>5, <2>1
  <2> QED BY <2>2 DEF EntriesOf
<1>6. EntriesOf(u, n) = Without(EntriesOf(t, n), k) \cup {new}
  BY <1>3, <1>4, <1>5 DEF Without
<1> QED BY <1>2, <1>6 DEF u, new, With

Deleted(t, n, k) == [t EXCEPT ![Slot(k, n)] = {e \in @ : e.key # k}]

LEMMA DeletedSound ==
    ASSUME NEW t, NEW n \in Nat, n > 0, Sound(t, n), NEW k \in Keys
    PROVE  /\ Sound(Deleted(t, n, k), n)
           /\ EntriesOf(Deleted(t, n, k), n) = Without(EntriesOf(t, n), k)
<1> DEFINE s == Slot(k, n)
           u == Deleted(t, n, k)
<1>0. s \in 0 .. n - 1
  BY SlotInTable
<1>1. /\ u \in [0 .. n - 1 -> SUBSET Entry]
      /\ u[s] = {e \in t[s] : e.key # k}
      /\ \A i \in 0 .. n - 1 : i # s => u[i] = t[i]
  BY <1>0 DEF Sound, Deleted
<1> HIDE DEF u
<1>2. Sound(u, n)
  BY <1>1 DEF Sound
<1>3. ASSUME NEW e \in EntriesOf(u, n) PROVE e \in EntriesOf(t, n) /\ e.key # k
  <2>1. PICK i \in 0 .. n - 1 : e \in u[i]
    BY <1>3 DEF EntriesOf
  <2> QED BY <1>1, <2>1 DEF EntriesOf, Sound
<1>4. ASSUME NEW e \in EntriesOf(t, n), e.key # k PROVE e \in EntriesOf(u, n)
  <2>1. PICK i \in 0 .. n - 1 : e \in t[i]
    BY <1>4 DEF EntriesOf
  <2>2. e \in u[i]
    BY <1>1, <1>4, <2>1
  <2> QED BY <2>2 DEF EntriesOf
<1> QED BY <1>2, <1>3, <1>4 DEF u, Without

-----------------------------------------------------------------------------
(* Entries as a map, and how many there are.                                *)

LEMMA MapValue ==
    ASSUME NEW E, OneOfAKey(E), NEW e \in E
    PROVE  e.key \in DOMAIN MapOf(E) /\ MapOf(E)[e.key] = e.val
<1>1. (CHOOSE f \in E : f.key = e.key) = e
  BY DEF OneOfAKey
<1> QED BY <1>1 DEF MapOf, KeysOf

LEMMA MapStored ==
    ASSUME NEW E, OneOfAKey(E), NEW k, NEW v
    PROVE  MapOf(With(E, k, v)) = Updated(MapOf(E), k, v)
<1> DEFINE new == [key |-> k, val |-> v]
           F == With(E, k, v)
<1>0. new.key = k /\ new.val = v /\ F = {e \in E : e.key # k} \cup {new}
  BY DEF With, Without
<1> HIDE DEF new, F
<1>1. OneOfAKey(F)
  BY <1>0 DEF OneOfAKey
<1>2. KeysOf(F) = KeysOf(E) \cup {k}
  BY <1>0 DEF KeysOf
<1>3. MapOf(F)[k] = v
  BY <1>0, <1>1, MapValue
<1>4. ASSUME NEW x \in KeysOf(E), x # k PROVE MapOf(F)[x] = MapOf(E)[x]
  <2>1. PICK e \in E : e.key = x
    BY DEF KeysOf
  <2>2. e \in F
    BY <1>0, <1>4, <2>1
  <2> QED BY <1>1, <2>1, <2>2, MapValue
<1>5. MapOf(F) = [x \in KeysOf(F) |-> MapOf(F)[x]] /\ DOMAIN MapOf(E) = KeysOf(E)
  BY DEF MapOf
<1>6. \A x \in KeysOf(F) : MapOf(F)[x] = IF x = k THEN v ELSE MapOf(E)[x]
  BY <1>2, <1>3, <1>4
<1> QED BY <1>2, <1>5, <1>6 DEF Updated, F

LEMMA MapDeleted ==
    ASSUME NEW E, OneOfAKey(E), NEW k
    PROVE  MapOf(Without(E, k)) = [x \in DOMAIN MapOf(E) \ {k} |-> MapOf(E)[x]]
<1> DEFINE F == Without(E, k)
<1>0. F = {e \in E : e.key # k}
  BY DEF Without
<1> HIDE DEF F
<1>1. OneOfAKey(F)
  BY <1>0 DEF OneOfAKey
<1>2. KeysOf(F) = KeysOf(E) \ {k}
  BY <1>0 DEF KeysOf
<1>3. ASSUME NEW x \in KeysOf(E), x # k PROVE MapOf(F)[x] = MapOf(E)[x]
  <2>1. PICK e \in E : e.key = x
    BY DEF KeysOf
  <2>2. e \in F
    BY <1>0, <1>3, <2>1
  <2> QED BY <1>1, <2>1, <2>2, MapValue
<1>4. MapOf(F) = [x \in KeysOf(F) |-> MapOf(F)[x]] /\ DOMAIN MapOf(E) = KeysOf(E)
  BY DEF MapOf
<1> QED BY <1>2, <1>3, <1>4 DEF F

LEMMA CountDeleted ==
    ASSUME NEW E, IsFiniteSet(E), OneOfAKey(E), NEW k
    PROVE  /\ IsFiniteSet(Without(E, k))
           /\ Cardinality(Without(E, k))
                = IF k \in KeysOf(E) THEN Cardinality(E) - 1 ELSE Cardinality(E)
<1> DEFINE F == Without(E, k)
<1>1. CASE k \in KeysOf(E)
  <2>1. PICK e \in E : e.key = k
    BY <1>1 DEF KeysOf
  <2>2. F = E \ {e}
    BY <2>1 DEF OneOfAKey, Without
  <2> QED BY <1>1, <2>2, FS_RemoveElement
<1>2. CASE k \notin KeysOf(E)
  <2>1. F = E
    BY <1>2 DEF KeysOf, Without
  <2> QED BY <1>2, <2>1
<1> QED BY <1>1, <1>2

LEMMA CountStored ==
    ASSUME NEW E, IsFiniteSet(E), OneOfAKey(E), NEW k, NEW v
    PROVE  /\ IsFiniteSet(With(E, k, v))
           /\ Cardinality(With(E, k, v))
                = IF k \in KeysOf(E) THEN Cardinality(E) ELSE Cardinality(E) + 1
<1> DEFINE D == Without(E, k)
           new == [key |-> k, val |-> v]
<1>1. /\ IsFiniteSet(D) /\ Cardinality(E) \in Nat
      /\ Cardinality(D) = IF k \in KeysOf(E) THEN Cardinality(E) - 1 ELSE Cardinality(E)
  BY CountDeleted, FS_CardinalityType
<1>2. new \notin D
  BY DEF Without
<1> HIDE DEF D, new
<1>3. IsFiniteSet(D \cup {new}) /\ Cardinality(D \cup {new}) = Cardinality(D) + 1
  BY <1>1, <1>2, FS_AddElement
<1>4. Cardinality(D \cup {new}) = IF k \in KeysOf(E) THEN Cardinality(E) ELSE Cardinality(E) + 1
  BY <1>1, <1>3
<1> QED BY <1>3, <1>4 DEF D, new, With

-----------------------------------------------------------------------------
(* The steps.                                                               *)

(* What the invariant says of the table now, and what to show of the next.  *)
LEMMA Now ==
    ASSUME DictInv
    PROVE  /\ Sound(table, size) /\ Entries = EntriesOf(table, size) /\ size \in Nat
           /\ Entries \subseteq Entry /\ OneOfAKey(Entries) /\ IsFiniteSet(Entries)
           /\ used = Cardinality(Entries) /\ used <= size /\ used \in Nat
<1>1. Sound(table, size) /\ Entries = EntriesOf(table, size) /\ size \in Nat
  BY DEF DictInv, TableSound, Sound, Entries, EntriesOf, DictTypeOK, ChainsSound
<1> QED BY <1>1, SoundIsUnique DEF DictInv, TableSound, UsedCounts, DictTypeOK

LEMMA NextTable ==
    ASSUME size' \in Nat, Sound(table', size'), NEW E, EntriesOf(table', size') = E, IsFiniteSet(E),
           used' = Cardinality(E), used' <= size', returned' \in 0 .. 2,
           iter' \in [on : BOOLEAN, index : -1 .. size' - 1, rest : SUBSET Entry, last : SUBSET Keys],
           IterSound'
    PROVE  DictInv' /\ Entries' = E
<1>1. Entries' = E
  BY DEF Entries, EntriesOf
<1>2. used' \in Nat
  BY FS_CardinalityType
<1>3. DictTypeOK' /\ ChainsSound'
  BY <1>2 DEF DictTypeOK, ChainsSound, Sound
<1> QED BY <1>1, <1>3 DEF DictInv, TableSound, UsedCounts

LEMMA NoIterSound ==
    ASSUME NEW n \in Nat
    PROVE  /\ NoIter \in [on : BOOLEAN, index : -1 .. n - 1, rest : SUBSET Entry, last : SUBSET Keys]
           /\ NoIter.on = FALSE /\ NoIter.index = -1 /\ NoIter.rest = {} /\ NoIter.last = {}
BY DEF NoIter

LEMMA InitDict == DictInit => DictInv /\ Map!Init
<1> SUFFICES ASSUME DictInit PROVE DictInv /\ Map!Init
  OBVIOUS
<1>1. 0 .. size - 1 = {} /\ Entries = {} /\ IsFiniteSet({}) /\ Cardinality({}) = 0
  BY FS_EmptySet DEF DictInit, Entries
<1>2. DictTypeOK
  <2>1. table \in [0 .. size - 1 -> SUBSET Entry]
    BY <1>1 DEF DictInit, NoTable
  <2>2. iter \in [on : BOOLEAN, index : -1 .. size - 1, rest : SUBSET Entry, last : SUBSET Keys]
    BY NoIterSound DEF DictInit
  <2> QED BY <2>1, <2>2 DEF DictInit, DictTypeOK
<1>3. ChainsSound /\ UsedCounts
  BY <1>1 DEF DictInit, ChainsSound, UsedCounts
<1>4. IterSound
  BY NoIterSound DEF DictInit, IterSound
<1>5. MapOf(Entries) = Map!Empty
  BY <1>1 DEF MapOf, KeysOf, Map!Empty
<1> QED BY <1>1, <1>2, <1>3, <1>4, <1>5, NoIterSound DEF DictInv, TableSound, Map!Init, DictInit

LEMMA ReplaceStep ==
    ASSUME DictInv, NEW k \in Keys, NEW v \in Values, Replace(k, v)
    PROVE  DictInv' /\ (Map!Put(k, v) \/ UNCHANGED Map!mapVars)
<1>0. /\ ~iter.on /\ iter = NoIter /\ iter' = NoIter
      /\ size' \in {size, NewSize} /\ returned' \in 0 .. 2
  BY DEF Replace, DictInv, IterSound
<1>1. /\ Sound(Sized(size'), size') /\ EntriesOf(Sized(size'), size') = Entries /\ size' \in Nat
      /\ NewSize \in Nat /\ NewSize > 0 /\ size <= size' /\ (used + 1 <= NewSize)
      /\ (size' = NewSize => size' > 0)
  <2>1. NewSize \in Nat /\ NewSize > 0 /\ size <= NewSize /\ used + 1 <= NewSize
    BY Now, DictAssumption DEF NewSize
  <2> QED BY <1>0, <2>1, SizedSound, Now DEF DictInv, TableSound
<1>2. Has(Sized(size'), size', k) <=> k \in KeysOf(Entries)
  BY <1>1, HasMeans
<1>3. IterSound' /\ iter' \in [on : BOOLEAN, index : -1 .. size' - 1, rest : SUBSET Entry, last : SUBSET Keys]
  BY <1>0, <1>1, NoIterSound DEF IterSound
<1> DEFINE F == With(Entries, k, v)
<1>4. CASE /\ size' > 0 /\ table' = Stored(Sized(size'), size', k, v)
           /\ used' = IF k \in KeysOf(Entries) THEN used ELSE used + 1
           /\ used' <= size'
  <2>1. Sound(table', size') /\ EntriesOf(table', size') = F
    BY <1>1, <1>4, StoredSound
  <2>2. IsFiniteSet(F) /\ used' = Cardinality(F)
    BY <1>4, Now, CountStored
  <2>3. DictInv' /\ Entries' = F
    <3> HIDE DEF F
    <3> QED BY <1>0, <1>1, <1>3, <1>4, <2>1, <2>2, NextTable
  <2>4. MapOf(F) = Updated(MapOf(Entries), k, v)
    BY Now, MapStored
  <2>5. Map!Put(k, v)
    <3> HIDE DEF F
    <3> QED BY <1>0, <2>3, <2>4, NoIterSound DEF Map!Put, Updated
  <2> QED BY <2>3, <2>5
<1>5. CASE table' = Sized(size') /\ UNCHANGED used
  <2>1. DictInv' /\ Entries' = Entries
    BY <1>0, <1>1, <1>3, <1>5, Now, NextTable
  <2> QED BY <1>0, <2>1, NoIterSound DEF Map!mapVars
<1>6. CASE /\ size' = NewSize
           /\ table' = Stored(Sized(NewSize), NewSize, k, v)
           /\ IF Has(Sized(NewSize), NewSize, k) THEN UNCHANGED used ELSE used' = used + 1
  BY <1>1, <1>2, <1>4, <1>6, Now
<1>7. CASE /\ table' = IF Has(Sized(size'), size', k) THEN Stored(Sized(size'), size', k, v) ELSE Sized(size')
           /\ UNCHANGED used
  <2>1. CASE Has(Sized(size'), size', k)
    <3>1. size' > 0 /\ used' <= size'
      BY <1>1, <1>7, <2>1, Now DEF Has
    <3> QED BY <1>2, <1>4, <1>7, <2>1, <3>1
  <2>2. CASE ~Has(Sized(size'), size', k)
    BY <1>5, <1>7, <2>2
  <2> QED BY <2>1, <2>2
<1> QED BY <1>6, <1>7 DEF Replace

LEMMA DeleteStep ==
    ASSUME DictInv, NEW k \in Keys, Delete(k)
    PROVE  DictInv' /\ Map!Delete(k)
<1> DEFINE F == Without(Entries, k)
           s == Slot(k, size)
<1>0. /\ size > 0 /\ size' = size /\ iter' = iter /\ returned' = 2 /\ used' = used - 1
      /\ table' = [table EXCEPT ![s] = {e \in @ : e.key # k}]
      /\ k \in KeysOf(Entries)
  BY Now, HasMeans DEF Delete, Has
<1>1. Sound(table', size') /\ EntriesOf(table', size') = F
  <2>1. Sound(table, size) /\ Entries = EntriesOf(table, size) /\ size \in Nat
    BY Now
  <2>2. table' = Deleted(table, size, k)
    BY <1>0 DEF Deleted
  <2>3. /\ Sound(Deleted(table, size, k), size)
        /\ EntriesOf(Deleted(table, size, k), size) = Without(EntriesOf(table, size), k)
    <3>1. size > 0
      BY <1>0
    <3> QED BY <2>1, <3>1, DeletedSound
  <2> QED BY <1>0, <2>1, <2>2, <2>3
<1>2. IsFiniteSet(F) /\ used' = Cardinality(F) /\ used' <= size'
  BY <1>0, Now, CountDeleted
<1>3. /\ s \in 0 .. size - 1
      /\ table'[s] = {e \in table[s] : e.key # k}
      /\ \A i \in 0 .. size - 1 : i # s => table'[i] = table[i]
  BY <1>0, Now, SlotInTable DEF Sound
<1>4. iter \in [on : BOOLEAN, index : -1 .. size - 1, rest : SUBSET Entry, last : SUBSET Keys]
  BY DEF DictInv, TableSound, DictTypeOK
<1>5. (iter.on => k \in iter.last) /\ (~iter.on => iter.index = -1)
  BY NoIterSound, Now DEF Delete, DictInv, IterSound
<1>6. iter.index # -1 => iter.index = s /\ iter.rest \subseteq table'[iter.index]
  BY <1>3, <1>4, <1>5 DEF DictInv, IterSound
<1>7. IterSound'
  BY <1>0, <1>6 DEF DictInv, IterSound, Slot
<1>8. DictInv' /\ Entries' = F
  <2> HIDE DEF F, s
  <2>1. size' \in Nat /\ returned' \in 0 .. 2
    BY <1>0, Now
  <2>2. iter' \in [on : BOOLEAN, index : -1 .. size' - 1, rest : SUBSET Entry, last : SUBSET Keys]
    BY <1>0, <1>4
  <2> QED BY <1>1, <1>2, <1>7, <2>1, <2>2, NextTable
<1>9. MapOf(F) = [x \in DOMAIN MapOf(Entries) \ {k} |-> MapOf(Entries)[x]]
  BY Now, MapDeleted
<1>10. ASSUME iter.on PROVE Ahead' = Ahead /\ k \notin KeysOf(Ahead)
  <2>1. iter.index = s /\ \A e \in iter.rest : e.key # k
    BY <1>4, <1>5, <1>6, <1>10, NoIterSound DEF DictInv, IterSound
  <2>2. \A i \in iter.index + 1 .. size - 1 : i \in 0 .. size - 1 /\ i # s /\ table'[i] = table[i]
    BY <1>3, <1>4, <2>1, Now
  <2>3. Ahead' = Ahead
    BY <1>0, <2>2 DEF Ahead
  <2>4. ASSUME NEW e \in Ahead PROVE e.key # k
    <3>1. CASE e \in iter.rest
      BY <2>1, <3>1
    <3>2. CASE e \notin iter.rest
      <4>1. PICK i \in iter.index + 1 .. size - 1 : e \in table[i]
        BY <3>2 DEF Ahead
      <4> QED BY <2>2, <4>1, Now DEF Sound
    <3> QED BY <3>1, <3>2
  <2> QED BY <2>3, <2>4 DEF KeysOf
<1> QED
  <2> HIDE DEF F, s
  <2> QED BY <1>0, <1>8, <1>9, <1>10 DEF Map!Delete

LEMMA ClearStep ==
    ASSUME DictInv, Clear
    PROVE  DictInv' /\ Map!Clear
<1>1. /\ iter = NoIter /\ iter' = NoIter /\ size' = 0 /\ used' = 0 /\ returned' = 2
      /\ table' = NoTable
  BY DEF Clear, DictInv, IterSound
<1>2. Sound(table', size') /\ EntriesOf(table', size') = {}
  BY <1>1 DEF NoTable, Sound, EntriesOf
<1>3. IterSound' /\ iter' \in [on : BOOLEAN, index : -1 .. size' - 1, rest : SUBSET Entry, last : SUBSET Keys]
  BY <1>1, NoIterSound DEF IterSound
<1>4. DictInv' /\ Entries' = {}
  BY <1>1, <1>2, <1>3, FS_EmptySet, NextTable
<1>5. MapOf({}) = Map!Empty
  BY DEF MapOf, KeysOf, Map!Empty
<1> QED BY <1>1, <1>4, <1>5, NoIterSound DEF Map!Clear

LEMMA InitIteratorStep ==
    ASSUME DictInv, InitIterator
    PROVE  DictInv' /\ Map!Iterate
<1>1. /\ iter = NoIter /\ size' = size /\ used' = used /\ table' = table /\ returned' = 2
      /\ iter' = [on |-> TRUE, index |-> -1, rest |-> {}, last |-> {}]
  BY DEF InitIterator, DictInv, IterSound, NoIter
<1>2. IterSound' /\ iter' \in [on : BOOLEAN, index : -1 .. size' - 1, rest : SUBSET Entry, last : SUBSET Keys]
  BY <1>1, Now DEF IterSound
<1>3. DictInv' /\ Entries' = Entries
  BY <1>1, <1>2, Now, NextTable
<1>4. Ahead' = Entries
  BY <1>1 DEF Ahead, Entries
<1>5. KeysOf(Ahead') = DOMAIN MapOf(Entries)
  BY <1>4 DEF MapOf
<1> QED BY <1>1, <1>3, <1>5, NoIterSound DEF Map!Iterate, KeysOf

LEMMA DictNextStep ==
    ASSUME DictInv, DictNext
    PROVE  DictInv' /\ ((\E k \in Keys : Map!Meet(k)) \/ UNCHANGED Map!mapVars)
<1>0. iter.on /\ size' = size /\ used' = used /\ table' = table /\ returned' = 2
  BY DEF DictNext
<1>1. iter \in [on : BOOLEAN, index : -1 .. size - 1, rest : SUBSET Entry, last : SUBSET Keys]
  BY DEF DictInv, TableSound, DictTypeOK
<1>2. ASSUME IterSound', iter' \in [on : BOOLEAN, index : -1 .. size - 1, rest : SUBSET Entry, last : SUBSET Keys]
      PROVE  DictInv' /\ Entries' = Entries
  BY <1>0, <1>2, Now, NextTable
<1>3. Ahead \subseteq Entries /\ OneOfAKey(Ahead)
  <2>1. iter.rest \subseteq Entries
    BY <1>1, Now DEF DictInv, IterSound, Entries
  <2>2. Ahead \subseteq Entries
    BY <1>1, <2>1, Now DEF Ahead, Entries
  <2> QED BY <2>2, Now DEF OneOfAKey
(* Both ways to an entry: it comes from the first chain that has entries    *)
(* ahead.                                                                   *)
<1>4. ASSUME NEW i \in 0 .. size - 1, NEW C, C \subseteq table[i], NEW e \in C, Met(i, C, e),
             Ahead = C \cup UNION {table[j] : j \in i + 1 .. size - 1}
      PROVE  DictInv' /\ \E k \in Keys : Map!Meet(k)
  <2>1. iter' = [on |-> TRUE, index |-> i, rest |-> C \ {e}, last |-> {e.key}]
    BY <1>4 DEF Met
  <2>2. e \in Entry /\ e.key \in Keys /\ C \subseteq Entry /\ e \in table[i]
    BY <1>4, Now DEF Sound, Entry
  <2>3. \A f \in C : Slot(f.key, size) = i /\ (f.key = e.key => f = e)
    BY <1>4, <2>2, Now DEF Sound
  <2>4. IterSound' /\ iter' \in [on : BOOLEAN, index : -1 .. size - 1, rest : SUBSET Entry, last : SUBSET Keys]
    <3>1. iter' \in [on : BOOLEAN, index : -1 .. size - 1, rest : SUBSET Entry, last : SUBSET Keys]
      BY <2>1, <2>2
    <3>2. IterSound'
      BY <1>0, <1>4, <2>1, <2>2, <2>3 DEF IterSound, Slot
    <3> QED BY <3>1, <3>2
  <2>5. Ahead' = Ahead \ {e}
    <3>1. \A j \in i + 1 .. size - 1 : e \notin table[j]
      BY <2>2, <2>3, Now DEF Sound
    <3>2. Ahead' = (C \ {e}) \cup UNION {table[j] : j \in i + 1 .. size - 1}
      BY <1>0, <2>1 DEF Ahead
    <3> QED BY <1>4, <3>1, <3>2
  <2>6. e \in Ahead
    BY <1>4
  <2>7. KeysOf(Ahead \ {e}) = KeysOf(Ahead) \ {e.key} /\ e.key \in KeysOf(Ahead)
    BY <1>3, <2>6 DEF KeysOf, OneOfAKey
  <2>8. DictInv' /\ Entries' = Entries
    BY <1>2, <2>4
  <2>9. KeysOf(Ahead') = KeysOf(Ahead) \ {e.key}
    BY <2>5, <2>7
  <2>10. iter'.on
    BY <2>1
  <2>11. Map!Meet(e.key)
    BY <1>0, <2>7, <2>8, <2>9, <2>10 DEF Map!Meet, KeysOf
  <2> QED BY <2>2, <2>8, <2>11
<1>5. ASSUME NEW e \in iter.rest, Met(iter.index, iter.rest, e)
      PROVE  DictInv' /\ \E k \in Keys : Map!Meet(k)
  <2>1. iter.index \in 0 .. size - 1 /\ iter.rest \subseteq table[iter.index]
    BY <1>1, <1>5, Now DEF DictInv, IterSound
  <2> QED BY <1>4, <1>5, <2>1 DEF Ahead
<1>6. ASSUME iter.rest = {}, NEW i \in Later, \A j \in Later : i <= j,
             NEW e \in table[i], Met(i, table[i], e)
      PROVE  DictInv' /\ \E k \in Keys : Map!Meet(k)
  <2>1. i \in 0 .. size - 1 /\ i >= iter.index + 1
    BY <1>1, <1>6, Now DEF Later
  <2>2. \A j \in iter.index + 1 .. size - 1 : j < i => table[j] = {}
    BY <1>1, <1>6, <2>1, Now DEF Later
  <2>3. Ahead = table[i] \cup UNION {table[j] : j \in i + 1 .. size - 1}
    BY <1>1, <1>6, <2>1, <2>2, Now DEF Ahead
  <2> QED BY <1>4, <1>6, <2>1, <2>3
<1>7. ASSUME iter.rest = {}, Later = {}, iter' = NoIter
      PROVE  DictInv' /\ UNCHANGED Map!mapVars
  <2>1. IterSound' /\ iter' \in [on : BOOLEAN, index : -1 .. size - 1, rest : SUBSET Entry, last : SUBSET Keys]
    BY <1>7, Now, NoIterSound DEF IterSound
  <2>2. Ahead = {}
    BY <1>7 DEF Ahead, Later
  <2> QED BY <1>0, <1>2, <1>7, <2>1, <2>2, NoIterSound DEF Map!mapVars, KeysOf
<1> QED BY <1>5, <1>6, <1>7 DEF DictNext

-----------------------------------------------------------------------------

(* Every step keeps the invariant, and is a step of the map or none.        *)
LEMMA DictSteps == DictInv /\ [DictStep]_dictVars => DictInv' /\ [Map!Next]_(Map!mapVars)
<1> SUFFICES ASSUME DictInv, [DictStep]_dictVars
             PROVE  DictInv' /\ [Map!Next]_(Map!mapVars)
  OBVIOUS
<1>1. ASSUME NEW k \in Keys, Delete(k) PROVE DictInv' /\ Map!Next
  BY <1>1, DeleteStep DEF Map!Next
<1>2. ASSUME NEW k \in Keys, NEW v \in Values, Replace(k, v)
      PROVE  DictInv' /\ [Map!Next]_(Map!mapVars)
  BY <1>2, ReplaceStep DEF Map!Next
<1>3. CASE Clear
  BY <1>3, ClearStep DEF Map!Next
<1>4. CASE InitIterator
  BY <1>4, InitIteratorStep DEF Map!Next
<1>5. CASE DictNext
  BY <1>5, DictNextStep DEF Map!Next
<1>6. CASE UNCHANGED dictVars
  BY <1>6 DEF dictVars, DictInv, TableSound, DictTypeOK, ChainsSound, UsedCounts, IterSound,
              Entries, Map!mapVars, Ahead, Slot, MapOf, KeysOf
<1> QED BY <1>1, <1>2, <1>3, <1>4, <1>5, <1>6 DEF DictStep

(* Whatever the operations, their order and the allocations that fail, the  *)
(* table is of its type, every entry is in the one chain its hash selects   *)
(* and alone with its key, and the count is the number of entries.          *)
THEOREM TableIsSound == DictSpec => []TableSound
<1>1. DictInit => DictInv
  BY InitDict
<1>2. DictInv /\ [DictStep]_dictVars => DictInv'
  BY DictSteps
<1>3. DictInv => TableSound
  BY DEF DictInv
<1> QED BY <1>1, <1>2, <1>3, PTL DEF DictSpec

(* The table with its chains, doublings and iterator implements a map: what *)
(* is stored is found until it is deleted, and an iteration meets every     *)
(* entry once, also when the entry it returned is deleted.                  *)
THEOREM TableIsMap == DictSpec => IsMap
<1>1. DictInit => DictInv /\ Map!Init
  BY InitDict
<1>2. DictInv /\ [DictStep]_dictVars => DictInv' /\ [Map!Next]_(Map!mapVars)
  BY DictSteps
<1> QED BY <1>1, <1>2, PTL DEF DictSpec, IsMap, Map!Spec
=============================================================================
