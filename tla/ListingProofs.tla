---------------------------- MODULE ListingProofs ----------------------------
(***************************************************************************)
(* Proofs about Listing, for any finite set of keys, any size of the pages *)
(* and any number of changes of the list while it is read: the three       *)
(* methods lose no entry that stays and return none twice, and the sum of  *)
(* getBalanceStaked is made of weights the delegations had meanwhile.      *)
(*                                                                         *)
(* The pages go through the keys in their order: what has been collected   *)
(* is in front of the next key, and what is still to come is not           *)
(* (PagesInv).  That the rest has a first key, and what the folds over the *)
(* entries and the keys add up to, needs induction: over the order of the  *)
(* natural numbers in the library's form (FirstKey), and from it over the  *)
(* subsets of a finite set (SubsetInduction), with a set of good subsets   *)
(* in the place of a predicate.                                            *)
(***************************************************************************)
EXTENDS Listing, FiniteSetTheorems, SequenceTheorems, WellFoundedInduction, TLAPS

\* Entries are in the order of their keys.
Ascending(entries) ==
    \A i, j \in DOMAIN entries : i < j => entries[i].key < entries[j].key

\* What is collected is in order and in front of the next key; what stays on the
\* chain is collected or not in front of it.
PagesInv ==
    /\ Ascending(collected)
    /\ \A j, k \in startAtKey : j = k
    /\ step \in {"idle", "query"} /\ startAtKey = {} => collected = <<>>
    /\ step = "idle" => startAtKey = {}
    /\ \A k \in Keys : low[k] <= stored[k]
    /\ step = "query" =>
          /\ \A i \in DOMAIN collected, s \in startAtKey : collected[i].key < s
          /\ \A k \in Keys : low[k] > 0 => k \in Returned \/ \A s \in startAtKey : s <= k
    /\ step = "resolved" => \A k \in Keys : low[k] > 0 => k \in Returned

IInv ==
    /\ TypeOK
    /\ low \in [Keys -> 0..MaxWeight]
    /\ PagesInv

-----------------------------------------------------------------------------
(* Ordered entries                                                         *)

\* Any keys have a first one.
LEMMA FirstKey ==
    ASSUME NEW S, S \subseteq Nat, S # {}
    PROVE  \E k \in S : \A j \in S : k <= j
<1>1. IsWellFoundedOn(OpToRel(<, Nat), Nat)
  BY NatLessThanWellFounded, Zenon
<1>2. PICK k \in S : \A j \in S : ~ (<<j, k>> \in OpToRel(<, Nat))
  BY <1>1, WFMin, Zenon
<1>3. ASSUME NEW j \in S PROVE k <= j
  <2>1. ~ (j < k)
    BY <1>2, Zenon DEF OpToRel
  <2> QED
    BY <2>1
<1> QED
  BY <1>3

\* Entries in order are no more than there are keys.
LEMMA AscendingIsShort ==
    ASSUME NEW entries \in Seq(Entries), Ascending(entries)
    PROVE  Len(entries) <= Cardinality(Keys)
<1> DEFINE f == [i \in 1..Len(entries) |-> entries[i].key]
<1>1. Keys \subseteq Nat /\ IsFiniteSet(Keys)
  BY ListingAssumption
<1>2. \A i \in 1..Len(entries) : entries[i] \in Entries
  BY ElementOfSeq
<1>3. f \in [1..Len(entries) -> Keys]
  BY <1>2 DEF Entries
<1>4. ASSUME NEW i \in 1..Len(entries), NEW j \in 1..Len(entries), f[i] = f[j]
      PROVE  i = j
  <2>1. entries[i].key = entries[j].key /\ entries[i].key \in Nat
    BY <1>1, <1>2, <1>4 DEF Entries
  <2>2. i \in DOMAIN entries /\ j \in DOMAIN entries
    OBVIOUS
  <2> QED
    BY <2>1, <2>2 DEF Ascending
<1>5. f \in Injection(1..Len(entries), Keys)
  BY <1>3, <1>4 DEF Injection, IsInjective
<1>6. Cardinality(1..Len(entries)) <= Cardinality(Keys)
  BY <1>1, <1>5, FS_Injection
<1>7. Cardinality(1..Len(entries)) = Len(entries)
  <2>1. Len(entries) \in Nat
    BY LenProperties
  <2>2. Cardinality(1..Len(entries)) =
           IF 1 > Len(entries) THEN 0 ELSE Len(entries) - 1 + 1
    BY <2>1, FS_Interval
  <2> QED
    BY <2>1, <2>2
<1> QED
  BY <1>6, <1>7

\* The entries of two lists one after the other.
LEMMA Joined ==
    ASSUME NEW s \in Seq(Entries), NEW t \in Seq(Entries)
    PROVE  /\ s \o t \in Seq(Entries)
           /\ Len(s \o t) = Len(s) + Len(t) /\ Len(s) \in Nat /\ Len(t) \in Nat
           /\ \A i \in DOMAIN s : i \in DOMAIN (s \o t) /\ (s \o t)[i] = s[i]
           /\ \A i \in DOMAIN t :
                 Len(s) + i \in DOMAIN (s \o t) /\ (s \o t)[Len(s) + i] = t[i]
           /\ \A i \in DOMAIN (s \o t) :
                 \/ i \in DOMAIN s /\ (s \o t)[i] = s[i]
                 \/ i > Len(s) /\ i - Len(s) \in DOMAIN t /\ (s \o t)[i] = t[i - Len(s)]
<1>1. Len(s) \in Nat /\ Len(t) \in Nat /\ DOMAIN s = 1..Len(s) /\ DOMAIN t = 1..Len(t)
  BY LenProperties
<1>2. s \o t \in Seq(Entries) /\ Len(s \o t) = Len(s) + Len(t)
      /\ \A i \in 1..(Len(s) + Len(t)) :
            (s \o t)[i] = IF i <= Len(s) THEN s[i] ELSE t[i - Len(s)]
  BY ConcatProperties
<1>3. DOMAIN (s \o t) = 1..(Len(s) + Len(t))
  BY <1>2, LenProperties
<1> QED
  BY <1>1, <1>2, <1>3

LEMMA JoinedKeys ==
    ASSUME NEW s \in Seq(Entries), NEW t \in Seq(Entries)
    PROVE  KeysOf(s \o t) = KeysOf(s) \cup KeysOf(t)
<1>1. ASSUME NEW i \in DOMAIN (s \o t)
      PROVE  (s \o t)[i].key \in KeysOf(s) \cup KeysOf(t)
  <2>1. \/ i \in DOMAIN s /\ (s \o t)[i] = s[i]
        \/ i - Len(s) \in DOMAIN t /\ (s \o t)[i] = t[i - Len(s)]
    BY Joined
  <2> QED
    BY <2>1 DEF KeysOf
<1>2. ASSUME NEW i \in DOMAIN s PROVE s[i].key \in KeysOf(s \o t)
  <2>1. i \in DOMAIN (s \o t) /\ (s \o t)[i] = s[i]
    BY Joined
  <2> QED
    BY <2>1 DEF KeysOf
<1>3. ASSUME NEW i \in DOMAIN t PROVE t[i].key \in KeysOf(s \o t)
  <2>1. Len(s) + i \in DOMAIN (s \o t) /\ (s \o t)[Len(s) + i] = t[i]
    BY Joined
  <2> QED
    BY <2>1 DEF KeysOf
<1> QED
  BY <1>1, <1>2, <1>3 DEF KeysOf

\* Two lists in order, the first in front of the second, are in order.
LEMMA JoinedAscending ==
    ASSUME NEW s \in Seq(Entries), NEW t \in Seq(Entries), Ascending(s), Ascending(t),
           \A i \in DOMAIN s, j \in DOMAIN t : s[i].key < t[j].key
    PROVE  Ascending(s \o t)
<1> SUFFICES ASSUME NEW i \in DOMAIN (s \o t), NEW j \in DOMAIN (s \o t), i < j
             PROVE  (s \o t)[i].key < (s \o t)[j].key
  BY DEF Ascending
<1>1. /\ \/ i \in DOMAIN s /\ (s \o t)[i] = s[i]
         \/ i > Len(s) /\ i - Len(s) \in DOMAIN t /\ (s \o t)[i] = t[i - Len(s)]
      /\ \/ j \in DOMAIN s /\ (s \o t)[j] = s[j]
         \/ j > Len(s) /\ j - Len(s) \in DOMAIN t /\ (s \o t)[j] = t[j - Len(s)]
  BY Joined
<1>2. DOMAIN s = 1..Len(s) /\ Len(s) \in Nat /\ i \in Nat /\ j \in Nat
  <2>1. s \o t \in Seq(Entries)
    BY Joined
  <2> QED
    BY <2>1, LenProperties
<1> QED
  BY <1>1, <1>2 DEF Ascending

-----------------------------------------------------------------------------
(* The pages                                                               *)

\* What a page is: entries in order, behind the key asked for.
LEMMA PageEntries ==
    ASSUME TypeOK, NEW page \in Pages(startAtKey)
    PROVE  /\ page \in Seq(Entries) /\ Len(page) <= PageSize /\ Len(page) \in Nat
           /\ Ascending(page)
           /\ \A i \in DOMAIN page : page[i].key \in Behind(startAtKey)
<1>1. PICK n \in 0..PageSize :
        page \in [1..n -> {[key |-> k, weight |-> stored[k]] : k \in Behind(startAtKey)}]
  BY DEF Pages
<1>2. PageSize \in Nat /\ MaxWeight \in Nat /\ Keys \subseteq Nat
  BY ListingAssumption
<1>3. ASSUME NEW k \in Behind(startAtKey)
      PROVE  [key |-> k, weight |-> stored[k]] \in Entries
  <2>1. k \in Keys /\ stored[k] > 0 /\ stored[k] \in 0..MaxWeight
    BY DEF Behind, Present, TypeOK
  <2> QED
    BY <1>2, <2>1 DEF Entries
<1>4. page \in [1..n -> Entries]
  BY <1>1, <1>3
<1>5. page \in Seq(Entries) /\ Len(page) = n
  BY <1>2, <1>4, SeqDef
<1>6. \A i \in DOMAIN page : page[i].key \in Behind(startAtKey)
  BY <1>1
<1> QED
  BY <1>2, <1>5, <1>6 DEF Pages, IsPage, Ascending

\* The page continues what is collected, and nothing is between it and the rest.
LEMMA PageContinues ==
    ASSUME IInv, step = "query", NEW page \in Pages(startAtKey)
    PROVE  LET entries == collected \o page IN
           /\ entries \in Seq(Entries) /\ Ascending(entries)
           /\ Capped(entries) = entries
           /\ \A i \in DOMAIN entries, k \in Rest(startAtKey, page) : entries[i].key < k
           /\ \A k \in Keys : low[k] > 0 => k \in KeysOf(entries) \cup Rest(startAtKey, page)
<1> DEFINE entries == collected \o page
<1>1. /\ collected \in Seq(Entries) /\ Ascending(collected)
      /\ \A i \in DOMAIN collected, s \in startAtKey : collected[i].key < s
      /\ startAtKey = {} => collected = <<>>
      /\ startAtKey \subseteq Keys
  BY DEF IInv, TypeOK, PagesInv
<1>2. /\ page \in Seq(Entries) /\ Len(page) <= PageSize /\ Len(page) \in Nat
      /\ Ascending(page)
      /\ \A i \in DOMAIN page : page[i].key \in Behind(startAtKey)
  BY PageEntries DEF IInv
<1>3. Keys \subseteq Nat /\ PageSize \in Nat /\ Cardinality(Keys) \in Nat
  BY ListingAssumption, FS_CardinalityType
<1>4. ASSUME NEW i \in DOMAIN collected, NEW k \in Behind(startAtKey)
      PROVE  collected[i].key < k
  <2>1. PICK s \in startAtKey : TRUE
    BY <1>1
  <2>2. collected[i].key < s /\ s <= k /\ k \in Keys /\ s \in Keys
    BY <1>1 DEF Behind, Present
  <2>3. collected[i] \in Entries
    BY <1>1, ElementOfSeq, LenProperties
  <2>4. collected[i].key \in Nat /\ s \in Nat /\ k \in Nat
    BY <1>3, <2>2, <2>3 DEF Entries
  <2> QED
    BY <2>2, <2>4
<1>5. entries \in Seq(Entries) /\ Ascending(entries)
  BY <1>1, <1>2, <1>4, Joined, JoinedAscending
<1>6. Capped(entries) = entries
  <2>1. Len(entries) = Len(collected) + Len(page) /\ Len(collected) \in Nat
    BY <1>1, <1>2, Joined
  <2>2. Len(collected) <= Cardinality(Keys)
    BY <1>1, AscendingIsShort
  <2> QED
    BY <1>2, <1>3, <2>1, <2>2 DEF Capped
<1>7. ASSUME NEW i \in DOMAIN entries, NEW k \in Rest(startAtKey, page)
      PROVE  entries[i].key < k
  <2>1. \/ i \in DOMAIN collected /\ entries[i] = collected[i]
        \/ i - Len(collected) \in DOMAIN page /\ entries[i] = page[i - Len(collected)]
    BY <1>1, <1>2, Joined
  <2>2. k \in Behind(startAtKey) /\ \A j \in DOMAIN page : page[j].key < k
    BY DEF Rest, Pages, IsPage
  <2> QED
    BY <1>4, <2>1, <2>2
<1>8. ASSUME NEW k \in Keys, low[k] > 0
      PROVE  k \in KeysOf(entries) \cup Rest(startAtKey, page)
  <2>1. KeysOf(entries) = KeysOf(collected) \cup KeysOf(page)
    BY <1>1, <1>2, JoinedKeys
  <2>2. CASE k \in Returned
    BY <2>1, <2>2 DEF Returned
  <2>3. CASE \A s \in startAtKey : s <= k
    <3>1. stored[k] > 0
      BY <1>8 DEF IInv, TypeOK, PagesInv
    <3>2. k \in Behind(startAtKey)
      BY <1>1, <1>3, <2>3, <3>1 DEF Behind, Present
    <3> QED
      BY <2>1, <3>2 DEF Rest
  <2> QED
    BY <1>8, <2>2, <2>3 DEF IInv, PagesInv
<1> QED
  BY <1>5, <1>6, <1>7, <1>8

\* The key of the next page is the first of the rest, and there is none only if
\* there is no rest.
LEMMA NextKeyIsFirst ==
    ASSUME NEW start, NEW page
    PROVE  LET next == NextKey(start, page) IN
           /\ next \subseteq Rest(start, page) /\ next \subseteq Keys
           /\ \A j, k \in next : j = k
           /\ \A s \in next, k \in Rest(start, page) : s <= k
           /\ next = {} => Rest(start, page) = {}
<1>1. Rest(start, page) \subseteq Keys /\ Keys \subseteq Nat
  BY ListingAssumption DEF Rest, Behind, Present
<1>2. Rest(start, page) # {} => NextKey(start, page) # {}
  BY <1>1, FirstKey DEF NextKey
<1>3. ASSUME NEW j \in NextKey(start, page), NEW k \in NextKey(start, page) PROVE j = k
  <2>1. j <= k /\ k <= j /\ j \in Nat /\ k \in Nat
    BY <1>1 DEF NextKey
  <2> QED
    BY <2>1
<1> QED
  BY <1>1, <1>2, <1>3 DEF NextKey

-----------------------------------------------------------------------------
(* The steps                                                               *)

LEMMA PageStep ==
    ASSUME IInv, OnPage
    PROVE  IInv'
<1>1. step = "query" /\ UNCHANGED <<stored, listing, low, high, events>>
  BY DEF OnPage
<1>2. PICK page \in Pages(startAtKey), omitted \in BOOLEAN :
        LET next == NextKey(startAtKey, page) IN
        /\ omitted => listing \in MayOmit /\ next = {}
        /\ collected' = Capped(Collect(page))
        /\ startAtKey' = next
        /\ step' = IF Continues(next, omitted) THEN "query" ELSE "resolved"
  BY DEF OnPage
<1> DEFINE next == NextKey(startAtKey, page)
           rest == Rest(startAtKey, page)
<1>3. /\ collected' \in Seq(Entries) /\ Ascending(collected')
      /\ \A i \in DOMAIN collected', k \in rest : collected'[i].key < k
      /\ \A k \in Keys : low[k] > 0 => k \in KeysOf(collected') \cup rest
  BY <1>1, <1>2, PageContinues DEF Collect
<1>4. /\ next \subseteq rest /\ next \subseteq Keys
      /\ \A j, k \in next : j = k
      /\ \A s \in next, k \in rest : s <= k
      /\ next = {} => rest = {}
  BY NextKeyIsFirst
<1>5. /\ startAtKey' = next
      /\ step' = IF next # {} THEN "query" ELSE "resolved"
  BY <1>2, ListingAssumption DEF Continues
<1> HIDE DEF next, rest
<1>6. TypeOK' /\ low' \in [Keys -> 0..MaxWeight]
  BY <1>1, <1>3, <1>4, <1>5 DEF IInv, TypeOK
<1>7. PagesInv'
  BY <1>1, <1>3, <1>4, <1>5 DEF IInv, PagesInv, Returned
<1> QED
  BY <1>6, <1>7 DEF IInv

LEMMA StoreStep ==
    ASSUME IInv, NEW new \in [Keys -> 0..MaxWeight], Store(new)
    PROVE  IInv'
<1>1. MaxWeight \in Nat
  BY ListingAssumption
<1>2. /\ stored' = new /\ step \in {"idle", "query"}
      /\ low' = [k \in Keys |-> IF new[k] < low[k] THEN new[k] ELSE low[k]]
      /\ UNCHANGED <<listing, step, startAtKey, collected>>
  BY DEF Store
<1>3. /\ low' \in [Keys -> 0..MaxWeight]
      /\ \A k \in Keys : low'[k] <= stored'[k]
      /\ \A k \in Keys : low'[k] <= low[k]
  BY <1>1, <1>2 DEF IInv
<1>4. \A k \in Keys : low'[k] > 0 => low[k] > 0
  BY <1>1, <1>3 DEF IInv
<1>5. TypeOK'
  BY <1>2 DEF IInv, TypeOK
<1>6. PagesInv'
  BY <1>2, <1>3, <1>4 DEF IInv, PagesInv, Returned
<1> QED
  BY <1>3, <1>5, <1>6 DEF IInv

LEMMA InitInv == Init => IInv
<1> SUFFICES ASSUME Init PROVE IInv
  OBVIOUS
<1>1. MaxWeight \in Nat /\ 1 <= MaxWeight
  BY ListingAssumption
<1>2. stored \in [Keys -> 0..MaxWeight]
  BY <1>1 DEF Init
<1>3. TypeOK
  BY <1>2 DEF Init, TypeOK
<1>4. PagesInv
  BY <1>1, <1>2 DEF Init, PagesInv, Ascending
<1> QED
  BY <1>2, <1>3, <1>4 DEF Init, IInv

\* Every change of the list stores other weights.
LEMMA ChainStores ==
    ASSUME TypeOK, Chain
    PROVE  \E new \in [Keys -> 0..MaxWeight] : Store(new)
<1> DEFINE Stored == \E new \in [Keys -> 0..MaxWeight] : Store(new)
<1>1. MaxWeight \in Nat /\ 1 <= MaxWeight
  BY ListingAssumption
<1>2. ASSUME NEW k \in Keys, Instantiate(k) PROVE Stored
  <2>1. [stored EXCEPT ![k] = 1] \in [Keys -> 0..MaxWeight]
    BY <1>1 DEF TypeOK
  <2> QED
    BY <1>2, <2>1 DEF Instantiate
<1>3. ASSUME NEW k \in Keys, NEW w \in 0..MaxWeight, Delegate(k, w) PROVE Stored
  <2>1. [stored EXCEPT ![k] = w] \in [Keys -> 0..MaxWeight]
    BY DEF TypeOK
  <2> QED
    BY <1>3, <2>1 DEF Delegate
<1>4. ASSUME NEW j \in Keys, NEW k \in Keys, Redelegate(j, k) PROVE Stored
  <2>1. [stored EXCEPT ![j] = @ - 1, ![k] = @ + 1] \in [Keys -> 0..MaxWeight]
    <3>1. stored \in [Keys -> 0..MaxWeight] /\ j # k
      BY <1>4 DEF TypeOK, Redelegate
    <3>2. stored[j] - 1 \in 0..MaxWeight /\ stored[k] + 1 \in 0..MaxWeight
      BY <1>1, <1>4, <3>1 DEF Redelegate
    <3> QED
      BY <3>1, <3>2
  <2> QED
    BY <1>4, <2>1 DEF Redelegate
<1> QED
  BY <1>2, <1>3, <1>4 DEF Chain

LEMMA NextInv == IInv /\ [Next]_vars => IInv'
<1> SUFFICES ASSUME IInv, [Next]_vars PROVE IInv'
  OBVIOUS
<1>1. MaxWeight \in Nat /\ 1 <= MaxWeight
  BY ListingAssumption
<1>2. CASE Call
  <2>1. collected = <<>> /\ startAtKey = {}
    BY <1>2 DEF Call, IInv, PagesInv
  <2>2. TypeOK' /\ low' \in [Keys -> 0..MaxWeight]
    BY <1>2 DEF Call, IInv, TypeOK
  <2>3. PagesInv'
    BY <1>1, <1>2, <2>1 DEF Call, IInv, TypeOK, PagesInv, Ascending
  <2> QED
    BY <2>2, <2>3 DEF IInv
<1>3. CASE OnPage
  BY <1>3, PageStep
<1>4. CASE Throw
  BY <1>4 DEF Throw, IInv, TypeOK, PagesInv
<1>5. CASE Chain
  BY <1>5, ChainStores, StoreStep DEF IInv
<1>6. CASE UNCHANGED vars
  BY <1>6 DEF vars, IInv, TypeOK, PagesInv, Returned
<1> QED
  BY <1>2, <1>3, <1>4, <1>5, <1>6 DEF Next, Client

LEMMA InductiveInvariant == Spec => []IInv
BY InitInv, NextInv, PTL DEF Spec

\* The locals of the three methods keep their types; a page is never asked for
\* from a key that is not one.
THEOREM ListingTypeCorrect == Spec => []TypeOK
<1>1. IInv => TypeOK
  BY DEF IInv
<1> QED
  BY <1>1, InductiveInvariant, PTL

\* A listing that ended has every stable entry; no entry is collected twice.
LEMMA ReturnedOnce == ASSUME IInv PROVE StableEntriesOnce
<1>1. step = "resolved" => {k \in Keys : low[k] > 0} \subseteq Returned
  BY DEF IInv, PagesInv
<1>2. ASSUME NEW i \in DOMAIN collected, NEW j \in DOMAIN collected, i # j
      PROVE  collected[i].key # collected[j].key
  <2>1. i \in Nat /\ j \in Nat
    BY LenProperties DEF IInv, TypeOK
  <2>2. collected[i].key \in Nat /\ collected[j].key \in Nat
    <3>1. collected[i] \in Entries /\ collected[j] \in Entries
      BY ElementOfSeq, LenProperties DEF IInv, TypeOK
    <3> QED
      BY <3>1, ListingAssumption DEF Entries
  <2> QED
    BY <1>2, <2>1, <2>2 DEF IInv, PagesInv, Ascending
<1> QED
  BY <1>1, <1>2 DEF StableEntriesOnce

\* However the list changes between the pages: what was there all the time is
\* returned, and nothing twice.
THEOREM StableEntriesAreReturned == Spec => []StableEntriesOnce
BY ReturnedOnce, InductiveInvariant, PTL

-----------------------------------------------------------------------------
(* Sums over finite sets                                                   *)

\* The sums of w over the subsets of S, in whatever order they are added up.
IsSum(sum, S, w) ==
    /\ sum \in [SUBSET S -> Nat]
    /\ sum[{}] = 0
    /\ \A s \in SUBSET S : \A x \in s : sum[s] = w[x] + sum[s \ {x}]

\* What holds of a subset if it holds of it without any one element, holds of
\* all subsets: one with the fewest elements it does not hold of would be none.
LEMMA SubsetInduction ==
    ASSUME NEW S, IsFiniteSet(S), NEW Good,
           \A s \in SUBSET S : (\A x \in s : s \ {x} \in Good) => s \in Good
    PROVE  SUBSET S \subseteq Good
<1> DEFINE sizes == {Cardinality(s) : s \in (SUBSET S) \ Good}
<1>1. \A s \in SUBSET S : IsFiniteSet(s) /\ Cardinality(s) \in Nat
  BY FS_Subset, FS_CardinalityType
<1> SUFFICES ASSUME sizes # {} PROVE FALSE
  OBVIOUS
<1>2. PICK n \in sizes : \A m \in sizes : n <= m
  <2>1. sizes \subseteq Nat
    BY <1>1
  <2> HIDE DEF sizes
  <2> QED
    BY <2>1, FirstKey
<1>3. PICK s \in (SUBSET S) \ Good : Cardinality(s) = n
  BY <1>2
<1>4. PICK x \in s : s \ {x} \notin Good
  BY <1>3
<1>5. Cardinality(s \ {x}) = n - 1 /\ n \in Nat
  BY <1>1, <1>3, <1>4, FS_RemoveElement
<1>6. n - 1 \in sizes
  BY <1>4, <1>5
<1> QED
  BY <1>2, <1>5, <1>6

\* A sum with one more element.
LEMMA SumGrows ==
    ASSUME NEW T, NEW x, x \notin T, NEW w, \A y \in T \cup {x} : w[y] \in Nat, NEW old, IsSum(old, T, w)
    PROVE  \E sum : IsSum(sum, T \cup {x}, w)
<1> DEFINE S == T \cup {x}
           sum == [s \in SUBSET S |-> IF x \in s THEN w[x] + old[s \ {x}] ELSE old[s]]
<1>1. \A s \in SUBSET S : s \ {x} \in SUBSET T /\ (x \notin s => s \in SUBSET T)
  OBVIOUS
<1>2. sum \in [SUBSET S -> Nat] /\ sum[{}] = 0
  BY <1>1 DEF IsSum
<1>3. ASSUME NEW s \in SUBSET S, NEW y \in s
      PROVE  sum[s] = w[y] + sum[s \ {y}]
  <2>1. s \ {y} \in SUBSET S
    OBVIOUS
  <2>2. CASE y = x
    BY <2>1, <2>2
  <2>3. CASE y # x /\ x \in s
    <3>1. sum[s] = w[x] + old[s \ {x}] /\ sum[s \ {y}] = w[x] + old[(s \ {y}) \ {x}]
      BY <2>1, <2>3
    <3>2. y \in s \ {x} /\ s \ {x} \in SUBSET T
      BY <2>3
    <3>3. old[s \ {x}] = w[y] + old[(s \ {x}) \ {y}]
      BY <3>2 DEF IsSum
    <3>4. (s \ {y}) \ {x} = (s \ {x}) \ {y} /\ (s \ {x}) \ {y} \in SUBSET T
      BY <3>2
    <3>5. old[(s \ {x}) \ {y}] \in Nat /\ w[x] \in Nat /\ w[y] \in Nat
      BY <3>4 DEF IsSum
    <3> HIDE DEF sum
    <3>6. /\ sum[s] = w[x] + (w[y] + old[(s \ {x}) \ {y}])
          /\ sum[s \ {y}] = w[x] + old[(s \ {x}) \ {y}]
      BY <3>1, <3>3, <3>4
    <3> QED
      BY <3>5, <3>6
  <2>4. CASE x \notin s
    <3>1. sum[s] = old[s] /\ sum[s \ {y}] = old[s \ {y}]
      BY <2>1, <2>4
    <3>2. s \in SUBSET T
      BY <2>4
    <3> QED
      BY <3>1, <3>2 DEF IsSum
  <2> QED
    BY <2>2, <2>3, <2>4
<1> HIDE DEF sum
<1>4. IsSum(sum, S, w)
  BY <1>2, <1>3 DEF IsSum
<1> QED
  BY <1>4

LEMMA SumExists ==
    ASSUME NEW S, IsFiniteSet(S), NEW w, \A x \in S : w[x] \in Nat
    PROVE  \E sum : IsSum(sum, S, w)
<1> DEFINE Good == {T \in SUBSET S : \E sum : IsSum(sum, T, w)}
<1>1. ASSUME NEW s \in SUBSET S, \A x \in s : s \ {x} \in Good
      PROVE  s \in Good
  <2>1. CASE s = {}
    <3>1. IsSum([t \in SUBSET {} |-> 0], {}, w)
      BY DEF IsSum
    <3> QED
      BY <2>1, <3>1
  <2>2. CASE s # {}
    <3>1. PICK x \in s : TRUE
      BY <2>2
    <3>2. PICK old : IsSum(old, s \ {x}, w)
      BY <1>1
    <3>3. \E sum : IsSum(sum, (s \ {x}) \cup {x}, w)
      BY <3>2, SumGrows
    <3>4. (s \ {x}) \cup {x} = s
      OBVIOUS
    <3> QED
      BY <3>3, <3>4
  <2> QED
    BY <2>1, <2>2
<1> HIDE DEF Good
<1>2. S \in Good
  BY <1>1, SubsetInduction
<1> QED
  BY <1>2 DEF Good

\* A loop over the subsets of S, which takes the element next[s] out of s.
AddsUp(loop, S, w, next) ==
    \A s \in SUBSET S :
        /\ s = {} => loop[s] = 0
        /\ s # {} =>
              /\ next[s] \in s
              /\ \/ loop[s] = w[next[s]] + loop[s \ {next[s]}]
                 \/ loop[s] = loop[s \ {next[s]}] + w[next[s]]

\* It has the sum of the elements, in whatever order it takes them.
LEMMA LoopSums ==
    ASSUME NEW S, IsFiniteSet(S), NEW w, \A x \in S : w[x] \in Nat,
           NEW sum, IsSum(sum, S, w), NEW next, NEW loop, AddsUp(loop, S, w, next)
    PROVE  loop[S] = sum[S]
<1> DEFINE Good == {s \in SUBSET S : loop[s] = sum[s]}
<1>1. ASSUME NEW s \in SUBSET S, \A x \in s : s \ {x} \in Good
      PROVE  s \in Good
  <2>1. CASE s = {}
    BY <2>1 DEF IsSum, AddsUp
  <2>2. CASE s # {}
    <3>1. PICK x \in s : x = next[s]
      BY <2>2 DEF AddsUp
    <3>2. loop[s \ {x}] = sum[s \ {x}]
      BY <1>1
    <3>3. sum[s] = w[x] + sum[s \ {x}] /\ sum[s \ {x}] \in Nat
      BY DEF IsSum
    <3>4. loop[s] = w[x] + loop[s \ {x}] \/ loop[s] = loop[s \ {x}] + w[x]
      BY <2>2, <3>1 DEF AddsUp
    <3> QED
      BY <3>2, <3>3, <3>4
  <2> QED
    BY <2>1, <2>2
<1> HIDE DEF Good
<1>2. S \in Good
  BY <1>1, SubsetInduction
<1> QED
  BY <1>2 DEF Good

\* A total is the sum over the keys.
LEMMA TotalIsSum ==
    ASSUME NEW w, \A k \in Keys : w[k] \in Nat, NEW sum, IsSum(sum, Keys, w)
    PROVE  TotalOf(w) = sum[Keys]
<1> DEFINE first == [s \in SUBSET Keys |-> CHOOSE x \in s : TRUE]
           IsFold(f) == f = [s \in SUBSET Keys |->
                               IF s = {} THEN 0
                               ELSE w[CHOOSE x \in s : TRUE] + f[s \ {CHOOSE x \in s : TRUE}]]
           fold == CHOOSE f : IsFold(f)
<1>1. TotalOf(w) = fold[Keys]
  BY DEF TotalOf, MapThenSumSet, MapThenFoldSet
<1>2. \A s \in SUBSET Keys :
        s # {} => first[s] = (CHOOSE x \in s : TRUE) /\ first[s] \in s
  OBVIOUS
<1>3. IsFold(sum)
  BY DEF IsSum
<1>4. IsFold(fold)
  <2> HIDE DEF IsFold
  <2> QED
    BY <1>3
<1>5. AddsUp(fold, Keys, w, first)
  <2> HIDE DEF first, fold
  <2> QED
    BY <1>2, <1>4 DEF AddsUp
<1> HIDE DEF first, fold, IsFold
<1>6. fold[Keys] = sum[Keys]
  BY <1>5, LoopSums, ListingAssumption
<1> QED
  BY <1>1, <1>6

\* The largest of some positions is one of them.
LEMMA LastPosition ==
    ASSUME NEW n \in Nat, NEW s \in SUBSET (1..n), s # {}
    PROVE  Max(s) \in s
<1> DEFINE fromEnd == {n - i : i \in s}
<1>1. fromEnd \subseteq Nat /\ fromEnd # {}
  <2>1. \A i \in s : n - i \in Nat
    OBVIOUS
  <2> QED
    BY <2>1
<1>2. PICK k \in fromEnd : \A j \in fromEnd : k <= j
  <2> HIDE DEF fromEnd
  <2> QED
    BY <1>1, FirstKey
<1>3. PICK i \in s : k = n - i
  BY <1>2
<1>4. \A j \in s : n - i <= n - j
  BY <1>2, <1>3
<1>5. \A j \in s : i >= j
  BY <1>4
<1> QED
  BY <1>5 DEF Max

\* The weights of the entries collected.
Weights == [i \in DOMAIN collected |-> collected[i].weight]

LEMMA WeightsAreNumbers ==
    ASSUME TypeOK
    PROVE  /\ IsFiniteSet(DOMAIN collected)
           /\ \A i \in DOMAIN collected :
                 Weights[i] = collected[i].weight /\ Weights[i] \in Nat
<1>1. DOMAIN collected = 1..Len(collected) /\ Len(collected) \in Nat
  BY LenProperties DEF TypeOK
<1>2. \A i \in DOMAIN collected : collected[i] \in Entries
  BY <1>1, ElementOfSeq DEF TypeOK
<1> QED
  BY <1>1, <1>2, FS_Interval, ListingAssumption DEF Weights, Entries

\* What getBalanceStaked adds up is the sum over the entries.
LEMMA StakedIsSum ==
    ASSUME TypeOK, NEW sum, IsSum(sum, DOMAIN collected, Weights)
    PROVE  SumStaked = sum[DOMAIN collected]
<1> DEFINE S == DOMAIN collected
           last == [s \in SUBSET S |-> Max(s)]
           IsFold(f) == f = [s \in SUBSET S |->
                               IF s = {} THEN 0
                               ELSE f[s \ {Max(s)}] + collected[Max(s)].weight]
           fold == CHOOSE f : IsFold(f)
<1>1. SumStaked = fold[S]
  BY DEF SumStaked, FoldLeft, MapThenFoldSet
<1>2. S = 1..Len(collected) /\ Len(collected) \in Nat
  BY LenProperties DEF TypeOK
<1>3. \A s \in SUBSET S : s # {} => last[s] = Max(s) /\ last[s] \in s
  BY <1>2, LastPosition
<1>4. IsFiniteSet(S) /\ \A i \in S : Weights[i] = collected[i].weight /\ Weights[i] \in Nat
  BY WeightsAreNumbers
<1>5. IsFold(sum)
  <2>1. ASSUME NEW s \in SUBSET S, s # {}
        PROVE  sum[s] = sum[s \ {Max(s)}] + collected[Max(s)].weight
    <3>1. Max(s) \in s
      BY <1>3, <2>1
    <3>2. sum[s \ {Max(s)}] \in Nat /\ sum[s] = Weights[Max(s)] + sum[s \ {Max(s)}]
      BY <3>1 DEF IsSum
    <3> QED
      BY <1>4, <3>1, <3>2
  <2> QED
    BY <2>1 DEF IsSum
<1>6. IsFold(fold)
  <2> HIDE DEF IsFold
  <2> QED
    BY <1>5
<1>7. AddsUp(fold, S, Weights, last)
  <2>1. \A s \in SUBSET S : s # {} => Weights[last[s]] = collected[Max(s)].weight
    BY <1>3, <1>4
  <2> HIDE DEF last, fold
  <2> QED
    BY <1>3, <1>6, <2>1 DEF AddsUp
<1> HIDE DEF last, fold, IsFold, S
<1>8. fold[S] = sum[S]
  BY <1>4, <1>7, LoopSums DEF S
<1> QED
  BY <1>1, <1>8 DEF S

\* Two sums of which one is, element by element, no more than the other.
LEMMA SumsCompare ==
    ASSUME NEW S, IsFiniteSet(S), NEW v, \A x \in S : v[x] \in Nat,
           NEW T, NEW w, \A y \in T : w[y] \in Nat,
           NEW f \in [S -> T], \A x, y \in S : f[x] = f[y] => x = y,
           NEW vsum, IsSum(vsum, S, v), NEW wsum, IsSum(wsum, T, w)
    PROVE  LET image == {f[x] : x \in S} IN
           /\ (\A x \in S : v[x] <= w[f[x]]) => vsum[S] <= wsum[image]
           /\ (\A x \in S : w[f[x]] <= v[x]) => wsum[image] <= vsum[S]
<1> DEFINE Image(s) == {f[x] : x \in s}
           Below(s) == (\A x \in S : v[x] <= w[f[x]]) => vsum[s] <= wsum[Image(s)]
           Above(s) == (\A x \in S : w[f[x]] <= v[x]) => wsum[Image(s)] <= vsum[s]
           Good == {s \in SUBSET S : Below(s) /\ Above(s)}
<1>1. ASSUME NEW s \in SUBSET S, \A x \in s : s \ {x} \in Good
      PROVE  s \in Good
  <2>1. CASE s = {}
    <3>1. Image(s) = {}
      BY <2>1
    <3>2. vsum[s] = 0 /\ wsum[Image(s)] = 0
      BY <2>1, <3>1 DEF IsSum
    <3> QED
      BY <3>2
  <2>2. CASE s # {}
    <3>1. PICK x \in s : TRUE
      BY <2>2
    <3>2. Below(s \ {x}) /\ Above(s \ {x})
      BY <1>1
    <3>3. Image(s \ {x}) = Image(s) \ {f[x]}
      OBVIOUS
    <3>4. f[x] \in Image(s) /\ Image(s) \in SUBSET T /\ x \in S /\ f[x] \in T
      OBVIOUS
    <3> HIDE DEF Image
    <3>5. vsum[s] = v[x] + vsum[s \ {x}]
      BY DEF IsSum
    <3>6. wsum[Image(s)] = w[f[x]] + wsum[Image(s \ {x})]
      <4>1. wsum[Image(s)] = w[f[x]] + wsum[Image(s) \ {f[x]}]
        BY <3>4 DEF IsSum
      <4> QED
        BY <3>3, <4>1
    <3>7. /\ v[x] \in Nat /\ w[f[x]] \in Nat
          /\ vsum[s \ {x}] \in Nat /\ wsum[Image(s \ {x})] \in Nat
      BY <3>3, <3>4 DEF IsSum
    <3>8. ASSUME \A z \in S : v[z] <= w[f[z]]
          PROVE  vsum[s] <= wsum[Image(s)]
      <4>1. v[x] <= w[f[x]] /\ vsum[s \ {x}] <= wsum[Image(s \ {x})]
        BY <3>2, <3>4, <3>8
      <4> QED
        BY <3>5, <3>6, <3>7, <4>1
    <3>9. ASSUME \A z \in S : w[f[z]] <= v[z]
          PROVE  wsum[Image(s)] <= vsum[s]
      <4>1. w[f[x]] <= v[x] /\ wsum[Image(s \ {x})] <= vsum[s \ {x}]
        BY <3>2, <3>4, <3>9
      <4> QED
        BY <3>5, <3>6, <3>7, <4>1
    <3> QED
      BY <3>8, <3>9
  <2> QED
    BY <2>1, <2>2
<1> HIDE DEF Good
<1>2. S \in Good
  BY <1>1, SubsetInduction
<1> QED
  BY <1>2 DEF Good

\* A part of a sum is no more than all of it, and all of it if the rest is 0.
LEMMA SumOfPart ==
    ASSUME NEW S, IsFiniteSet(S), NEW w, \A x \in S : w[x] \in Nat,
           NEW sum, IsSum(sum, S, w), NEW part \in SUBSET S
    PROVE  /\ sum[part] <= sum[S]
           /\ (\A x \in S \ part : w[x] = 0) => sum[part] = sum[S]
<1> DEFINE rest == S \ part
           Below(s) == sum[S \ s] <= sum[S]
           Equal(s) == (\A x \in rest : w[x] = 0) => sum[S \ s] = sum[S]
           Good == {s \in SUBSET rest : Below(s) /\ Equal(s)}
<1>0. sum[S] \in Nat
  BY DEF IsSum
<1>1. ASSUME NEW s \in SUBSET rest, \A x \in s : s \ {x} \in Good
      PROVE  s \in Good
  <2>1. CASE s = {}
    <3>1. S \ s = S
      BY <2>1
    <3> QED
      BY <1>0, <3>1
  <2>2. CASE s # {}
    <3>1. PICK x \in s : TRUE
      BY <2>2
    <3>2. Below(s \ {x}) /\ Equal(s \ {x})
      BY <1>1
    <3>3. x \in S \ (s \ {x}) /\ x \in rest /\ x \in S
      OBVIOUS
    <3>4. (S \ (s \ {x})) \ {x} = S \ s
      OBVIOUS
    <3>5. sum[S \ (s \ {x})] = w[x] + sum[S \ s]
      BY <3>3, <3>4 DEF IsSum
    <3>6. w[x] \in Nat /\ sum[S \ s] \in Nat
      BY <3>3 DEF IsSum
    <3> HIDE DEF rest
    <3>7. Below(s) /\ Equal(s)
      BY <1>0, <3>2, <3>3, <3>5, <3>6
    <3> QED
      BY <3>7
  <2> QED
    BY <2>1, <2>2
<1>2. IsFiniteSet(rest)
  BY FS_Subset
<1>3. S \ rest = part
  OBVIOUS
<1> HIDE DEF Good, rest
<1>4. rest \in Good
  BY <1>1, <1>2, SubsetInduction
<1> QED
  BY <1>3, <1>4 DEF Good, rest

-----------------------------------------------------------------------------
(* The staked sum                                                          *)

\* An entry that was collected has a weight it had between the call and now.
WeightInv ==
    /\ high \in [Keys -> 0..MaxWeight]
    /\ \A k \in Keys : stored[k] <= high[k]
    /\ \A i \in DOMAIN collected :
          /\ low[collected[i].key] <= collected[i].weight
          /\ collected[i].weight <= high[collected[i].key]

\* The weight of an entry of a page is that on the chain.
LEMMA PageWeights ==
    ASSUME NEW page \in Pages(startAtKey), NEW i \in DOMAIN page
    PROVE  page[i].key \in Keys /\ page[i].weight = stored[page[i].key]
<1>1. PICK n \in 0..PageSize :
        page \in [1..n -> {[key |-> k, weight |-> stored[k]] : k \in Behind(startAtKey)}]
  BY DEF Pages
<1>2. PICK k \in Behind(startAtKey) : page[i] = [key |-> k, weight |-> stored[k]]
  BY <1>1
<1> QED
  BY <1>2 DEF Behind, Present

LEMMA StoreKeepsWeights ==
    ASSUME IInv, WeightInv, NEW new \in [Keys -> 0..MaxWeight], Store(new)
    PROVE  WeightInv'
<1>1. MaxWeight \in Nat
  BY ListingAssumption
<1>2. /\ stored' = new
      /\ low' = [k \in Keys |-> IF new[k] < low[k] THEN new[k] ELSE low[k]]
      /\ high' = [k \in Keys |-> IF new[k] > high[k] THEN new[k] ELSE high[k]]
      /\ collected' = collected
  BY DEF Store
<1>3. /\ high' \in [Keys -> 0..MaxWeight]
      /\ \A k \in Keys : stored'[k] <= high'[k]
  BY <1>1, <1>2 DEF WeightInv
<1>4. \A k \in Keys : low'[k] <= low[k] /\ high[k] <= high'[k]
  BY <1>1, <1>2 DEF WeightInv, IInv
<1>5. ASSUME NEW i \in DOMAIN collected
      PROVE  /\ low'[collected[i].key] <= collected[i].weight
             /\ collected[i].weight <= high'[collected[i].key]
  <2>1. collected[i] \in Entries
    BY ElementOfSeq, LenProperties DEF IInv, TypeOK
  <2>2. PICK k \in Keys : k = collected[i].key
    BY <2>1 DEF Entries
  <2>3. PICK w \in Nat : w = collected[i].weight
    BY <1>1, <2>1 DEF Entries
  <2>4. low[k] <= w /\ w <= high[k]
    BY <2>2, <2>3 DEF WeightInv
  <2>5. /\ low[k] \in Nat /\ low'[k] \in Nat /\ high[k] \in Nat /\ high'[k] \in Nat
        /\ low'[k] <= low[k] /\ high[k] <= high'[k]
    BY <1>1, <1>2, <1>3, <1>4 DEF IInv, WeightInv
  <2> QED
    BY <2>2, <2>3, <2>4, <2>5
<1> QED
  BY <1>2, <1>3, <1>5 DEF WeightInv

LEMMA NextKeepsWeights == ASSUME IInv, WeightInv, [Next]_vars PROVE WeightInv'
<1>1. MaxWeight \in Nat /\ 1 <= MaxWeight
  BY ListingAssumption
<1>2. CASE Call
  <2>1. collected = <<>> /\ collected' = collected /\ stored' = stored /\ high' = stored
    BY <1>2 DEF Call, IInv, PagesInv
  <2>2. DOMAIN collected' = {}
    BY <2>1
  <2> QED
    BY <1>1, <2>1, <2>2 DEF IInv, TypeOK, WeightInv
<1>3. CASE OnPage
  <2>1. step = "query" /\ UNCHANGED <<stored, low, high>>
    BY <1>3 DEF OnPage
  <2>2. PICK page \in Pages(startAtKey) : collected' = Capped(collected \o page)
    BY <1>3 DEF OnPage, Collect
  <2>3. collected' = collected \o page
    BY <2>1, <2>2, PageContinues
  <2>4. page \in Seq(Entries) /\ collected \in Seq(Entries)
    BY PageEntries DEF IInv, TypeOK
  <2>5. ASSUME NEW i \in DOMAIN collected'
        PROVE  /\ low[collected'[i].key] <= collected'[i].weight
               /\ collected'[i].weight <= high[collected'[i].key]
    <3>1. CASE i \in DOMAIN collected /\ collected'[i] = collected[i]
      BY <3>1 DEF WeightInv
    <3>2. CASE i - Len(collected) \in DOMAIN page
                 /\ collected'[i] = page[i - Len(collected)]
      <4>1. PICK k \in Keys : k = collected'[i].key /\ collected'[i].weight = stored[k]
        BY <3>2, PageWeights
      <4>2. low[k] <= stored[k] /\ stored[k] <= high[k]
        BY DEF IInv, PagesInv, WeightInv
      <4> QED
        BY <4>1, <4>2
    <3> QED
      BY <2>3, <2>4, <3>1, <3>2, Joined
  <2> QED
    BY <2>1, <2>5 DEF WeightInv
<1>4. CASE Throw
  BY <1>4 DEF Throw, WeightInv
<1>5. ASSUME NEW new \in [Keys -> 0..MaxWeight], Store(new) PROVE WeightInv'
  BY <1>5, StoreKeepsWeights
<1>6. CASE Chain
  BY <1>5, <1>6, ChainStores DEF IInv
<1>7. CASE UNCHANGED vars
  BY <1>7 DEF vars, WeightInv
<1> QED
  BY <1>2, <1>3, <1>4, <1>6, <1>7 DEF Next, Client

LEMMA WeightInvariant == Spec => []WeightInv
<1>1. Init => WeightInv
  <2> SUFFICES ASSUME Init PROVE WeightInv
    OBVIOUS
  <2>1. MaxWeight \in Nat /\ 1 <= MaxWeight
    BY ListingAssumption
  <2>2. stored \in [Keys -> 0..MaxWeight] /\ DOMAIN collected = {}
    BY <2>1 DEF Init
  <2> QED
    BY <2>1, <2>2 DEF Init, WeightInv
<1>2. IInv /\ WeightInv /\ [Next]_vars => WeightInv'
  BY NextKeepsWeights
<1> QED
  BY <1>1, <1>2, InductiveInvariant, PTL DEF Spec

\* What was collected is no less than the least weights of the stable entries
\* and no more than the largest weights of all.
LEMMA SumInBounds ==
    ASSUME IInv, WeightInv, step = "resolved"
    PROVE  SumStaked \in TotalOf(low)..TotalOf(high)
<1> DEFINE S == DOMAIN collected
           key == [i \in S |-> collected[i].key]
           image == {key[i] : i \in S}
<1>1. IsFiniteSet(S) /\ \A i \in S : Weights[i] = collected[i].weight /\ Weights[i] \in Nat
  BY WeightsAreNumbers DEF IInv
<1>2. IsFiniteSet(Keys) /\ Keys \subseteq Nat /\ MaxWeight \in Nat
  BY ListingAssumption
<1>3. \A k \in Keys : low[k] \in Nat /\ high[k] \in Nat
  BY <1>2 DEF IInv, WeightInv
<1>4. key \in [S -> Keys] /\ \A i, j \in S : key[i] = key[j] => i = j
  <2>1. \A i \in S : collected[i] \in Entries
    BY ElementOfSeq, LenProperties DEF IInv, TypeOK
  <2>2. StableEntriesOnce
    BY ReturnedOnce
  <2> QED
    BY <2>1, <2>2 DEF Entries, StableEntriesOnce
<1>5. image = Returned /\ image \subseteq Keys
  BY <1>4 DEF Returned, KeysOf
<1>6. PICK paid : IsSum(paid, S, Weights)
  BY <1>1, SumExists
<1>7. PICK least : IsSum(least, Keys, low)
  BY <1>2, <1>3, SumExists
<1>8. PICK most : IsSum(most, Keys, high)
  BY <1>2, <1>3, SumExists
<1>9. SumStaked = paid[S] /\ TotalOf(low) = least[Keys] /\ TotalOf(high) = most[Keys]
  BY <1>3, <1>6, <1>7, <1>8, StakedIsSum, TotalIsSum DEF IInv
<1>10. \A i \in S : low[key[i]] <= Weights[i] /\ Weights[i] <= high[key[i]]
  BY <1>1 DEF WeightInv
<1>11. \A k \in Keys \ image : low[k] = 0
  <2>1. ASSUME NEW k \in Keys, k \notin image PROVE ~ (low[k] > 0)
    BY <1>5, <2>1 DEF IInv, PagesInv
  <2> QED
    BY <1>3, <2>1
<1> HIDE DEF S, key
<1>12. \A i \in S : Weights[i] \in Nat
  BY <1>1
<1>13. (\A k \in Keys : low[k] \in Nat) /\ (\A k \in Keys : high[k] \in Nat)
  BY <1>3
<1>14. least[image] <= paid[S]
  <2>1. \A i \in S : low[key[i]] <= Weights[i]
    BY <1>10
  <2> QED
    BY <1>1, <1>4, <1>6, <1>7, <1>12, <1>13, <2>1, SumsCompare
<1>15. paid[S] <= most[image]
  <2>1. \A i \in S : Weights[i] <= high[key[i]]
    BY <1>10
  <2> QED
    BY <1>1, <1>4, <1>6, <1>8, <1>12, <1>13, <2>1, SumsCompare
<1> HIDE DEF image
<1>16. least[image] = least[Keys]
  <2>1. /\ IsFiniteSet(Keys) /\ image \in SUBSET Keys
        /\ \A k \in Keys : low[k] \in Nat
    BY <1>2, <1>5, <1>13
  <2>2. (\A k \in Keys \ image : low[k] = 0) => least[image] = least[Keys]
    BY <1>7, <2>1, SumOfPart
  <2> QED
    BY <1>11, <2>2
<1>17. most[image] <= most[Keys]
  BY <1>2, <1>5, <1>8, <1>13, SumOfPart
<1>18. /\ least[Keys] \in Nat /\ most[Keys] \in Nat
       /\ paid[S] \in Nat /\ most[image] \in Nat
  BY <1>5, <1>6, <1>7, <1>8 DEF IsSum
<1> QED
  BY <1>9, <1>14, <1>15, <1>16, <1>17, <1>18

\* However the delegations change between the pages: the sum of
\* getBalanceStaked (289-296) is one of weights they had since the call.
THEOREM StakedSumStaysInBounds == Spec => []StakedSumIsBounded
<1>1. IInv /\ WeightInv => StakedSumIsBounded
  BY SumInBounds DEF StakedSumIsBounded
<1> QED
  BY <1>1, InductiveInvariant, WeightInvariant, PTL
=============================================================================
