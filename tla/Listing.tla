------------------------------- MODULE Listing -------------------------------
(***************************************************************************)
(* The queries of FinschiaClient that collect a list page by page:         *)
(* getBalanceStaked, getCodes and getContracts (finschiaclient.ts 277-299, *)
(* 412-432, 459-471).  Every page is a query of its own, and the chain     *)
(* changes the list in between.                                            *)
(*                                                                         *)
(* The entries are stored under ordered keys; a page starts at the key     *)
(* asked for and names the key of the entry behind it.  An entry has a     *)
(* weight: the tokens of a delegation, 1 for a code or a contract.         *)
(***************************************************************************)
EXTENDS Integers, Sequences, FiniteSets, SequencesExt, FiniteSetsExt

CONSTANTS
    Keys,       \* the keys, natural numbers
    MaxWeight,  \* bound on the weight of an entry
    PageSize,   \* entries of a page
    MayOmit,    \* the listings whose last answer may be without pagination
    MaxEvents   \* bound: changes of the list

Listings == {"getBalanceStaked", "getCodes", "getContracts"}

ASSUME ListingAssumption ==
    /\ Keys \subseteq Nat /\ IsFiniteSet(Keys)
    /\ MaxWeight \in Nat \ {0} /\ PageSize \in Nat \ {0} /\ MaxEvents \in Nat
    /\ MayOmit \subseteq Listings \ {"getCodes"}

VARIABLES
    stored,     \* the weight of every entry on the chain, 0 if there is none
    listing,    \* the method called
    step,       \* "query" while a page is awaited
    startAtKey, \* a singleton of the key, {} for undefined or an empty key
    collected,  \* allDelegations, allCodes, allContracts
    low, high,  \* history: least and largest weight since the call
    events      \* counts the changes

vars == <<stored, listing, step, startAtKey, collected, low, high, events>>

Entries == [key : Keys, weight : 1..MaxWeight]

Init ==
    /\ listing \in Listings
    /\ stored \in [Keys -> 0..(IF listing = "getBalanceStaked" THEN MaxWeight ELSE 1)]
    /\ step = "idle"
    /\ startAtKey = {}
    /\ collected = <<>>
    /\ low = stored /\ high = stored
    /\ events = 0

-----------------------------------------------------------------------------
(* The node.                                                               *)

Present == {k \in Keys : stored[k] > 0}

\* The keys at or behind the one asked for.
Behind(start) == {k \in Present : \A s \in start : k >= s}

\* The keys that are left when a page has been taken from them.
KeysOf(entries) == {entries[i].key : i \in DOMAIN entries}
Rest(start, page) == Behind(start) \ KeysOf(page)

\* A page is in order, in front of the rest, and full if there is a rest.
IsPage(page, start) ==
    /\ \A i, j \in DOMAIN page : i < j => page[i].key < page[j].key
    /\ \A i \in DOMAIN page, k \in Rest(start, page) : page[i].key < k
    /\ Rest(start, page) # {} => Len(page) = PageSize

Pages(start) ==
    {page \in UNION {[1..n -> {[key |-> k, weight |-> stored[k]] : k \in Behind(start)}]
                        : n \in 0..PageSize} : IsPage(page, start)}

\* The first key of the rest.
NextKey(start, page) ==
    {k \in Rest(start, page) : \A j \in Rest(start, page) : k <= j}

-----------------------------------------------------------------------------
(* The client.                                                             *)

Call ==
    /\ step = "idle"
    /\ step' = "query"
    /\ low' = stored /\ high' = stored
    /\ UNCHANGED <<stored, listing, startAtKey, collected, events>>

\* Faulty variant: the condition of getCodes for all three.
ContinuesOnUndefined(next, omitted) == omitted \/ next # {}

\* The condition of the do-while loop, on the key of the last answer: omitted
\* when the answer is without pagination, empty when there is no next page.
Continues(next, omitted) ==
    IF listing = "getCodes" THEN omitted \/ next # {} ELSE ~omitted /\ next # {}

\* Faulty variant: push(loaded)
CollectNested(entries) == Append(collected, entries)

\* Faulty variant: the last page replaces the others.
CollectLast(entries) == entries

\* push(...loaded)
Collect(entries) == collected \o entries

\* Bound: more entries than there are keys are not kept.
Capped(entries) ==
    IF Len(entries) <= Cardinality(Keys) + PageSize THEN entries
    ELSE SubSeq(entries, 1, Cardinality(Keys) + PageSize)

OnPage ==
    /\ step = "query"
    /\ \E page \in Pages(startAtKey), omitted \in BOOLEAN :
        LET next == NextKey(startAtKey, page) IN
        /\ omitted => listing \in MayOmit /\ next = {}
        /\ collected' = Capped(Collect(page))
        /\ startAtKey' = next
        /\ step' = IF Continues(next, omitted) THEN "query" ELSE "resolved"
    /\ UNCHANGED <<stored, listing, low, high, events>>

\* A query fails, or an entry of the answer is incomplete.
Throw ==
    /\ step = "query"
    /\ step' = "rejected"
    /\ UNCHANGED <<stored, listing, startAtKey, collected, low, high, events>>

-----------------------------------------------------------------------------
(* The chain.  Codes and contracts stay; delegations come, grow, shrink,   *)
(* go, and move to another validator.                                      *)

Store(new) ==
    /\ events < MaxEvents
    /\ step \in {"idle", "query"}
    /\ new # stored
    /\ stored' = new
    /\ low' = [k \in Keys |-> IF new[k] < low[k] THEN new[k] ELSE low[k]]
    /\ high' = [k \in Keys |-> IF new[k] > high[k] THEN new[k] ELSE high[k]]
    /\ events' = events + 1
    /\ UNCHANGED <<listing, step, startAtKey, collected>>

Instantiate(k) == stored[k] = 0 /\ Store([stored EXCEPT ![k] = 1])

Delegate(k, w) ==
    /\ listing = "getBalanceStaked"
    /\ Store([stored EXCEPT ![k] = w])

Redelegate(j, k) ==
    /\ listing = "getBalanceStaked"
    /\ j # k
    /\ stored[j] > 0 /\ stored[k] < MaxWeight
    /\ Store([stored EXCEPT ![j] = @ - 1, ![k] = @ + 1])

Client == Call \/ OnPage \/ Throw

Chain ==
    \E k \in Keys :
        \/ Instantiate(k)
        \/ \E w \in 0..MaxWeight : Delegate(k, w)
        \/ \E j \in Keys : Redelegate(j, k)

Next == Client \/ Chain

Spec == Init /\ [][Next]_vars

\* An awaited answer arrives or the query fails.
FairSpec == Spec /\ WF_vars(OnPage \/ Throw)

-----------------------------------------------------------------------------
(* What the caller gets.                                                   *)

Returned == KeysOf(collected)

\* Faulty variant: the first delegation only starts the sum.
SumStakedFromSecond ==
    FoldLeft(LAMBDA sum, entry : sum + entry.weight, 0, SubSeq(collected, 2, Len(collected)))

\* sumValues of getBalanceStaked (289-296).
SumStaked == FoldLeft(LAMBDA sum, entry : sum + entry.weight, 0, collected)

TotalOf(weights) == MapThenSumSet(LAMBDA k : weights[k], Keys)

-----------------------------------------------------------------------------
(* Properties.                                                             *)

\* What the variables hold (the locals of the three methods).
TypeOK ==
    /\ stored \in [Keys -> 0..MaxWeight]
    /\ listing \in Listings
    /\ step \in {"idle", "query", "resolved", "rejected"}
    /\ startAtKey \subseteq Keys
    /\ collected \in Seq(Entries)

\* getCodes, getContracts and getBalanceStaked return every entry that was
\* there from the first to the last page (the loops of 280-287, 416-422 and
\* 462-468), and none twice, however the list changes between two pages.
StableEntriesOnce ==
    /\ step = "resolved" => {k \in Keys : low[k] > 0} \subseteq Returned
    /\ \A i, j \in DOMAIN collected : i # j => collected[i].key # collected[j].key

\* The sum of getBalanceStaked (289-296) is made of one weight of every
\* delegation, one it had between the call and the answer.  (It need not be
\* the total of any one moment: a redelegation between two pages counts
\* twice, or not at all.)
StakedSumIsBounded ==
    step = "resolved" => SumStaked \in TotalOf(low)..TotalOf(high)

\* The loop over the pages ends (287, 422, 468), although the list may grow
\* while it runs.
ListingEnds == (step = "query") ~> (step \in {"resolved", "rejected"})
=============================================================================
