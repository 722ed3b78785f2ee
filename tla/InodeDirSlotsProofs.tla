-------------------------- MODULE InodeDirSlotsProofs --------------------------
(***************************************************************************)
(* For every set of names and inodes, and an array of any size: entries    *)
(* keep their names and inodes apart (EntriesDiffer), and the array is the *)
(* map InodeDir takes it for (ImplementsMap).                              *)
(*                                                                         *)
(* The invariant is that the array is one of slots and EntriesDiffer.      *)
(* Every change of the array takes an entry in, lets one go or renames     *)
(* one; a lemma each says what becomes of the invariant and of the map.    *)
(***************************************************************************)
EXTENDS InodeDirSlots, FiniteSetTheorems, WellFoundedInduction, TLAPS

\* The slots in use and the map, of any array.
UsedIn(e) == {k \in DOMAIN e : e[k].inode # NoInode}
NamesIn(e) == {e[k].name : k \in UsedIn(e)}
EntryIn(e) == [n \in NamesIn(e) |-> e[CHOOSE k \in UsedIn(e) : e[k].name = n].inode]
MapIn(e) == [slots |-> Len(e), entry |-> EntryIn(e)]
Sound(e) ==
    /\ e \in Seq(Slot)
    /\ \A j, k \in UsedIn(e) : e[j].name = e[k].name \/ e[j].inode = e[k].inode => j = k
    /\ \A k \in DOMAIN e \ UsedIn(e) : e[k].name = NoName

LEMMA InTheseTerms ==
    /\ Used = UsedIn(entries) /\ Free = DOMAIN entries \ UsedIn(entries)
    /\ AsMap = MapIn(entries) /\ AsMap' = MapIn(entries')
    /\ entries \in Seq(Slot) /\ EntriesDiffer <=> Sound(entries)
BY DEF Used, UsedIn, Free, AsMap, MapIn, EntryIn, NamesIn, Sound, EntriesDiffer

\* A loop over the array that finds something stops at one of the slots it
\* looks for.
LEMMA FirstIsOne ==
    ASSUME NEW S \in SUBSET Nat, S # {}
    PROVE  First(S) \in S
<1> DEFINE R == OpToRel(<, Nat)
<1>1. \A j, k \in Nat : j < k => <<j, k>> \in R
    <2>1. R = {ss \in Nat \X Nat : ss[1] < ss[2]}
        BY Zenon DEF OpToRel
    <2> HIDE DEF R
    <2> QED
        BY <2>1
<1>2. IsWellFoundedOn(R, Nat)
    BY Zenon, NatLessThanWellFounded
<1> HIDE DEF R
<1>3. PICK k \in S : \A j \in S : ~(<<j, k>> \in R)
    BY <1>2, WFMin
<1>4. \A j \in S : ~(j < k)
    BY <1>1, <1>3
<1>5. \A j \in S : k <= j
    BY <1>4
<1> QED
    BY <1>5 DEF First

\* The places of an array, and what it has there.
LEMMA SlotFacts ==
    ASSUME NEW e \in Seq(Slot)
    PROVE  /\ Len(e) \in Nat /\ DOMAIN e = 1 .. Len(e) /\ DOMAIN e \in SUBSET Nat
           /\ UsedIn(e) \subseteq DOMAIN e
           /\ \A k \in DOMAIN e :
                 /\ e[k] \in Slot /\ e[k].name \in EntryName
                 /\ k \in UsedIn(e) => e[k].inode \in Inode
<1>1. Len(e) \in Nat /\ DOMAIN e = 1 .. Len(e) /\ \A k \in DOMAIN e : e[k] \in Slot
    OBVIOUS
<1>2. \A r \in Slot : r.name \in EntryName /\ (r.inode # NoInode => r.inode \in Inode)
    BY DEF Slot
<1>3. UsedIn(e) \subseteq DOMAIN e /\ \A k \in UsedIn(e) : e[k].inode # NoInode
    BY DEF UsedIn
<1> HIDE DEF Slot
<1> QED
    BY <1>1, <1>2, <1>3

\* An inode is none that is not there.
LEMMA NoInodeIsNone == NoInode \notin Inode
BY BaseAssumption DEF NoInode, Inode

\* The map has an entry for every slot in use.
LEMMA EntryOfSlot ==
    ASSUME NEW e, Sound(e)
    PROVE  /\ DOMAIN EntryIn(e) = NamesIn(e)
           /\ NamesIn(e) \subseteq EntryName
           /\ \A k \in UsedIn(e) : e[k].name \in NamesIn(e) /\ EntryIn(e)[e[k].name] = e[k].inode
           /\ \A n \in NamesIn(e) : \E k \in UsedIn(e) : e[k].name = n /\ EntryIn(e)[n] = e[k].inode
<1>1. \A k \in UsedIn(e) : (CHOOSE j \in UsedIn(e) : e[j].name = e[k].name) = k
    BY DEF Sound
<1>2. NamesIn(e) \subseteq EntryName
    BY SlotFacts DEF Sound, NamesIn
<1>3. \A k \in UsedIn(e) : e[k].name \in NamesIn(e) /\ EntryIn(e)[e[k].name] = e[k].inode
    BY <1>1 DEF EntryIn, NamesIn
<1>4. \A n \in NamesIn(e) : \E k \in UsedIn(e) : e[k].name = n
    BY DEF NamesIn
<1>5. DOMAIN EntryIn(e) = NamesIn(e)
    BY DEF EntryIn
<1> QED
    BY <1>2, <1>3, <1>4, <1>5

\* There is no other map with these entries.
LEMMA EntriesAreAll ==
    ASSUME NEW e, Sound(e), NEW f,
           DOMAIN f = NamesIn(e), f = [n \in DOMAIN f |-> f[n]],
           \A k \in UsedIn(e) : f[e[k].name] = e[k].inode
    PROVE  EntryIn(e) = f
<1>1. \A n \in NamesIn(e) : EntryIn(e)[n] = f[n]
    BY EntryOfSlot
<1>2. EntryIn(e) = [n \in NamesIn(e) |-> EntryIn(e)[n]]
    BY DEF EntryIn
<1> QED
    BY <1>1, <1>2

\* A slot that is free takes an entry, and the rest stays or is new and free.
LEMMA EntryTaken ==
    ASSUME NEW e, Sound(e), NEW g \in Seq(Slot), NEW j \in DOMAIN g, j \notin UsedIn(e),
           g[j].inode \in Inode, \A k \in UsedIn(e) : e[k].inode # g[j].inode,
           g[j].name \in Name, g[j].name \notin NamesIn(e),
           \A k \in UsedIn(e) : k \in DOMAIN g /\ g[k] = e[k],
           \A k \in DOMAIN g : k = j \/ k \in UsedIn(e) \/ g[k] = FreeSlot
    PROVE  /\ Sound(g) /\ NamesIn(g) = NamesIn(e) \cup {g[j].name}
           /\ EntryIn(g)[g[j].name] = g[j].inode
           /\ \A m \in NamesIn(e) : EntryIn(g)[m] = EntryIn(e)[m]
<1>1. UsedIn(g) = UsedIn(e) \cup {j}
    BY NoInodeIsNone DEF UsedIn, FreeSlot
<1>2. \A k \in UsedIn(e) : e[k].name # g[j].name
    BY DEF NamesIn
<1>3. Sound(g)
    <2>1. \A k, l \in UsedIn(g) : g[k].name = g[l].name \/ g[k].inode = g[l].inode => k = l
        BY <1>1, <1>2 DEF Sound
    <2>2. \A k \in DOMAIN g \ UsedIn(g) : g[k].name = NoName
        BY <1>1 DEF FreeSlot
    <2> QED
        BY <2>1, <2>2 DEF Sound
<1>4. NamesIn(g) = NamesIn(e) \cup {g[j].name}
    BY <1>1 DEF NamesIn
<1>5. \A m \in NamesIn(e) : EntryIn(g)[m] = EntryIn(e)[m]
    <2> TAKE m \in NamesIn(e)
    <2>1. PICK k \in UsedIn(e) : e[k].name = m /\ EntryIn(e)[m] = e[k].inode
        BY EntryOfSlot
    <2>2. k \in UsedIn(g) /\ g[k] = e[k]
        BY <1>1
    <2>3. EntryIn(g)[g[k].name] = g[k].inode
        BY <1>3, <2>2, EntryOfSlot
    <2> QED
        BY <2>1, <2>2, <2>3
<1>6. EntryIn(g)[g[j].name] = g[j].inode
    BY <1>1, <1>3, EntryOfSlot
<1> QED
    BY <1>3, <1>4, <1>5, <1>6

\* A slot lets its entry go.
LEMMA EntryGone ==
    ASSUME NEW e, Sound(e), NEW j \in UsedIn(e),
           NEW g \in Seq(Slot), DOMAIN g = DOMAIN e, g[j] = FreeSlot,
           \A k \in DOMAIN e : k # j => g[k] = e[k]
    PROVE  /\ Sound(g)
           /\ EntryIn(g) = [m \in NamesIn(e) \ {e[j].name} |-> EntryIn(e)[m]]
<1>1. j \in DOMAIN e /\ UsedIn(e) \subseteq DOMAIN e
    BY SlotFacts DEF Sound
<1>2. FreeSlot.inode = NoInode /\ FreeSlot.name = NoName
    BY DEF FreeSlot
<1>3. UsedIn(g) = UsedIn(e) \ {j}
    BY <1>1, <1>2 DEF UsedIn
<1>4. Sound(g)
    <2>1. \A k, l \in UsedIn(g) : g[k].name = g[l].name \/ g[k].inode = g[l].inode => k = l
        BY <1>1, <1>3 DEF Sound
    <2>2. \A k \in DOMAIN g \ UsedIn(g) : g[k].name = NoName
        BY <1>1, <1>2, <1>3 DEF Sound
    <2> QED
        BY <2>1, <2>2 DEF Sound
<1>5. \A k \in UsedIn(e) : k # j => e[k].name # e[j].name
    BY DEF Sound
<1>6. NamesIn(g) = NamesIn(e) \ {e[j].name}
    BY <1>1, <1>3, <1>5 DEF NamesIn
<1> DEFINE f == [m \in NamesIn(e) \ {e[j].name} |-> EntryIn(e)[m]]
<1>7. \A k \in UsedIn(g) : f[g[k].name] = g[k].inode
    BY <1>1, <1>3, <1>5, EntryOfSlot
<1>8. DOMAIN f = NamesIn(g) /\ f = [m \in DOMAIN f |-> f[m]]
    BY <1>6
<1> HIDE DEF f
<1>9. EntryIn(g) = f
    BY <1>4, <1>7, <1>8, EntriesAreAll
<1> QED
    BY <1>4, <1>9 DEF f

\* A slot gives its entry another name, which no slot has.
LEMMA EntryRenamed ==
    ASSUME NEW e, Sound(e), NEW j \in UsedIn(e),
           NEW g \in Seq(Slot), DOMAIN g = DOMAIN e,
           g[j].name \in EntryName, \A k \in DOMAIN e : e[k].name # g[j].name,
           g[j].inode = e[j].inode, \A k \in DOMAIN e : k # j => g[k] = e[k]
    PROVE  /\ Sound(g) /\ NamesIn(g) = (NamesIn(e) \ {e[j].name}) \cup {g[j].name}
           /\ EntryIn(g)[g[j].name] = e[j].inode
           /\ \A m \in NamesIn(e) \ {e[j].name} : EntryIn(g)[m] = EntryIn(e)[m]
<1>1. j \in DOMAIN e /\ UsedIn(e) \subseteq DOMAIN e
    BY SlotFacts DEF Sound
<1>2. UsedIn(g) = UsedIn(e)
    BY <1>1 DEF UsedIn
<1>3. Sound(g)
    <2>1. \A k, l \in UsedIn(g) : g[k].name = g[l].name \/ g[k].inode = g[l].inode => k = l
        BY <1>1, <1>2 DEF Sound
    <2>2. \A k \in DOMAIN g \ UsedIn(g) : g[k].name = NoName
        BY <1>2 DEF Sound
    <2> QED
        BY <2>1, <2>2 DEF Sound
<1>4. \A k \in UsedIn(e) : k # j => e[k].name # e[j].name
    BY DEF Sound
<1>5. NamesIn(g) = (NamesIn(e) \ {e[j].name}) \cup {g[j].name}
    BY <1>1, <1>2, <1>4 DEF NamesIn
<1>6. \A m \in NamesIn(e) \ {e[j].name} : EntryIn(g)[m] = EntryIn(e)[m]
    <2> TAKE m \in NamesIn(e) \ {e[j].name}
    <2>1. PICK k \in UsedIn(e) : e[k].name = m /\ EntryIn(e)[m] = e[k].inode
        BY EntryOfSlot
    <2>2. k \in UsedIn(g) /\ g[k] = e[k]
        BY <1>1, <1>2, <2>1
    <2>3. EntryIn(g)[g[k].name] = g[k].inode
        BY <1>3, <2>2, EntryOfSlot
    <2> QED
        BY <2>1, <2>2, <2>3
<1>7. EntryIn(g)[g[j].name] = e[j].inode
    BY <1>2, <1>3, EntryOfSlot
<1> QED
    BY <1>3, <1>5, <1>6, <1>7

\* There are as many names as slots in use: the map has a free slot just when
\* the array has one.
LEMMA FreeSlotFacts ==
    ASSUME NEW e, Sound(e)
    PROVE  /\ Cardinality(NamesIn(e)) \in Nat
           /\ Len(e) - Cardinality(NamesIn(e)) > 0 <=> DOMAIN e \ UsedIn(e) # {}
<1>1. Len(e) \in Nat /\ DOMAIN e = 1 .. Len(e) /\ UsedIn(e) \subseteq DOMAIN e
    BY SlotFacts DEF Sound
<1>2. IsFiniteSet(DOMAIN e) /\ Cardinality(DOMAIN e) = Len(e)
    BY <1>1, FS_Interval
<1>3. /\ IsFiniteSet(UsedIn(e)) /\ Cardinality(UsedIn(e)) <= Len(e)
      /\ Cardinality(UsedIn(e)) = Len(e) => UsedIn(e) = DOMAIN e
    BY <1>1, <1>2, FS_Subset
<1>4. ExistsBijection(UsedIn(e), NamesIn(e))
    <2> DEFINE f == [k \in UsedIn(e) |-> e[k].name]
    <2>1. f \in [UsedIn(e) -> NamesIn(e)]
        BY DEF NamesIn
    <2>2. \A j, k \in UsedIn(e) : f[j] = f[k] => j = k
        BY DEF Sound
    <2>3. \A n \in NamesIn(e) : \E k \in UsedIn(e) : f[k] = n
        BY DEF NamesIn
    <2> HIDE DEF f
    <2>4. f \in Bijection(UsedIn(e), NamesIn(e))
        BY <2>1, <2>2, <2>3 DEF Bijection, Injection, Surjection, IsInjective
    <2> QED
        BY <2>4 DEF ExistsBijection
<1>5. Cardinality(NamesIn(e)) = Cardinality(UsedIn(e))
    BY <1>3, <1>4, FS_Bijection
<1>6. Cardinality(UsedIn(e)) \in Nat
    BY <1>3, FS_CardinalityType
<1>7. DOMAIN e \ UsedIn(e) # {} <=> UsedIn(e) # DOMAIN e
    BY <1>1
<1>8. Cardinality(UsedIn(e)) = Len(e) <=> UsedIn(e) = DOMAIN e
    BY <1>2, <1>3
<1> QED
    BY <1>1, <1>3, <1>5, <1>6, <1>7, <1>8

-----------------------------------------------------------------------------
\* What the map is to its own operations: the entries of the slots in use.
LEMMA MapSeen ==
    ASSUME Sound(entries)
    PROVE  /\ AsMap.slots = Len(entries) /\ AsMap.entry = EntryIn(entries)
           /\ Map!Names(AsMap) = NamesIn(entries)
           /\ Map!Children(AsMap) = {entries[k].inode : k \in UsedIn(entries)}
           /\ Map!FreeSlots(AsMap) > 0 <=> Free # {}
           /\ Map!FreeSlots(AsMap) > 0 <=> NoInode \in {entries[k].inode : k \in Free}
<1>1. AsMap.slots = Len(entries) /\ AsMap.entry = EntryIn(entries)
    BY InTheseTerms DEF MapIn
<1>2. Map!Names(AsMap) = NamesIn(entries)
    BY <1>1 DEF Map!Names, EntryIn
<1>3. Map!Children(AsMap) = {entries[k].inode : k \in UsedIn(entries)}
    BY <1>1, <1>2, EntryOfSlot DEF Map!Children
<1>4. Map!FreeSlots(AsMap) > 0 <=> Free # {}
    <2>1. Map!Cardinality(NamesIn(entries)) = Cardinality(NamesIn(entries))
        BY DEF Map!Cardinality, Cardinality
    <2> QED
        BY <1>1, <1>2, <2>1, FreeSlotFacts, InTheseTerms DEF Map!FreeSlots
<1>5. \A k \in Free : entries[k].inode = NoInode
    BY DEF Free, Used
<1> QED
    BY <1>1, <1>2, <1>3, <1>4, <1>5

\* The slots with a name hold what the map has under it.
LEMMA InodesSeen ==
    ASSUME Sound(entries), NEW n \in EntryName
    PROVE  Map!InodesOf(n) = {entries[k].inode : k \in Named(n)}
<1>1. {AsMap.entry[m] : m \in Map!Names(AsMap) \cap {n}}
        = {entries[k].inode : k \in UsedIn(entries) \cap Named(n)}
    <2>1. \A k \in UsedIn(entries) \cap Named(n) : n \in NamesIn(entries) /\ EntryIn(entries)[n] = entries[k].inode
        BY EntryOfSlot DEF Named
    <2>2. n \in NamesIn(entries) => \E k \in UsedIn(entries) \cap Named(n) : EntryIn(entries)[n] = entries[k].inode
        BY EntryOfSlot DEF Named, UsedIn
    <2> QED
        BY <2>1, <2>2, MapSeen
<1>2. (IF n = NoName /\ Map!FreeSlots(AsMap) > 0 THEN {Map!NoInode} ELSE {})
        = {entries[k].inode : k \in Free \cap Named(n)}
    <2>1. \A k \in Free : entries[k].name = NoName /\ entries[k].inode = NoInode /\ k \in DOMAIN entries
        BY DEF Sound, Free, Used, UsedIn
    <2>2. Map!NoInode = NoInode
        BY DEF NoInode, Map!NoInode
    <2>3. Free \cap Named(n) = IF n = NoName THEN Free ELSE {}
        BY <2>1 DEF Named
    <2> QED
        BY <2>1, <2>2, <2>3, MapSeen
<1>3. Named(n) = (UsedIn(entries) \cap Named(n)) \cup (Free \cap Named(n))
    BY InTheseTerms DEF Named
<1> QED
    BY <1>1, <1>2, <1>3 DEF Map!InodesOf

\* tfs_inode_dir_is_empty
LEMMA IsEmptyStep ==
    ASSUME Sound(entries), IsEmpty
    PROVE  Map!IsEmpty
<1>1. NamesIn(entries) = {} <=> Used = {}
    BY InTheseTerms DEF NamesIn
<1>2. AsMap' = AsMap
    BY InTheseTerms DEF IsEmpty
<1> QED
    BY <1>1, <1>2, MapSeen
    DEF IsEmpty, Map!IsEmpty, Map!DirIsEmpty, Answer, Map!Answer, NoInode, Map!NoInode

\* The slots a search finds are those the map has the name for.
LEMMA FoundSeen ==
    ASSUME Sound(entries), NEW n
    PROVE  /\ Found(n) = {} <=> n \notin NamesIn(entries)
           /\ Found(n) # {} =>
                 /\ First(Found(n)) \in UsedIn(entries) /\ First(Found(n)) \in Named(n)
                 /\ entries[First(Found(n))].name = n
                 /\ EntryIn(entries)[n] = entries[First(Found(n))].inode
<1>1. Found(n) = {k \in UsedIn(entries) : entries[k].name = n}
    BY InTheseTerms DEF Found, Named, UsedIn
<1>2. UsedIn(entries) \in SUBSET Nat
    BY SlotFacts DEF Sound
<1>3. Found(n) # {} => First(Found(n)) \in Found(n)
    BY <1>1, <1>2, FirstIsOne
<1>4. Found(n) = {} <=> n \notin NamesIn(entries)
    BY <1>1 DEF NamesIn
<1> QED
    BY <1>1, <1>3, <1>4, EntryOfSlot DEF Found

\* tfs_inode_dir_search_by_name
LEMMA SearchStep ==
    ASSUME Sound(entries), NEW n \in EntryName, Search(n)
    PROVE  Map!Search(n)
<1>1. AsMap' = AsMap
    BY InTheseTerms DEF Search
<1> QED
    BY <1>1, FoundSeen, MapSeen
    DEF Search, Map!Search, Answer, Map!Answer, NoInode, Map!NoInode

\* tfs_inode_dir_remove_entry_by_dir_idx
LEMMA RemoveStep ==
    ASSUME Sound(entries), NEW n \in EntryName, Remove(n)
    PROVE  Sound(entries') /\ Map!Remove(n)
<1> DEFINE j == First(Found(n))
<1>1. j \in UsedIn(entries) /\ entries[j].name = n /\ n \in NamesIn(entries)
    BY FoundSeen DEF Remove
<1>2. entries' = [entries EXCEPT ![j] = FreeSlot] /\ entries \in Seq(Slot)
    BY DEF Remove, Sound
<1>3. FreeSlot \in Slot
    BY DEF FreeSlot, Slot, EntryName
<1> HIDE DEF j
<1>4. /\ entries' \in Seq(Slot) /\ DOMAIN entries' = DOMAIN entries /\ Len(entries') = Len(entries)
      /\ entries'[j] = FreeSlot /\ \A k \in DOMAIN entries : k # j => entries'[k] = entries[k]
    BY <1>1, <1>2, <1>3 DEF UsedIn
<1>5. /\ Sound(entries')
      /\ EntryIn(entries') = [m \in NamesIn(entries) \ {n} |-> EntryIn(entries)[m]]
    BY <1>1, <1>4, EntryGone
<1>6. AsMap' = Map!RemoveEntry(AsMap, n)
    <2>1. AsMap = [slots |-> Len(entries), entry |-> EntryIn(entries)]
          /\ AsMap' = [slots |-> Len(entries'), entry |-> EntryIn(entries')]
        BY InTheseTerms DEF MapIn
    <2> QED
        BY <2>1, <1>4, <1>5, MapSeen DEF Map!RemoveEntry
<1> QED
    BY <1>1, <1>5, <1>6, MapSeen DEF Remove, Map!Remove, Answer, Map!Answer, NoInode, Map!NoInode

\* The map at the two ends of a step.
LEMMA MapEnds ==
    /\ AsMap = [slots |-> Len(entries), entry |-> EntryIn(entries)]
    /\ AsMap' = [slots |-> Len(entries'), entry |-> EntryIn(entries')]
BY InTheseTerms DEF MapIn

\* A function on the first numbers is a sequence.
LEMMA FunctionIsSequence ==
    ASSUME NEW T, NEW m \in Nat, NEW f \in [1 .. m -> T]
    PROVE  f \in Seq(T) /\ Len(f) = m /\ DOMAIN f = 1 .. m
OBVIOUS

\* The array with one more entry: in a slot that was free, or in the first
\* slot that realloc has added.
WithEntry(i, n) ==
    IF Free # {}
    THEN [entries EXCEPT ![First(Free)] = [inode |-> i, name |-> n]]
    ELSE [Grown EXCEPT ![Len(entries) + 1] = [inode |-> i, name |-> n]]
LEMMA ArrayTakes ==
    ASSUME Sound(entries), NEW i \in Inode, NEW n \in EntryName, n # NoName,
           entries' = WithEntry(i, n)
    PROVE  /\ entries' \in Seq(Slot)
           /\ Len(entries') = IF Free # {} THEN Len(entries)
                              ELSE IF 2 * Len(entries) > MinEntries THEN 2 * Len(entries) ELSE MinEntries
           /\ \E j \in DOMAIN entries' :
                 /\ j \notin UsedIn(entries)
                 /\ entries'[j] = [inode |-> i, name |-> n]
                 /\ \A k \in UsedIn(entries) : k \in DOMAIN entries' /\ entries'[k] = entries[k]
                 /\ \A k \in DOMAIN entries' :
                       k = j \/ k \in UsedIn(entries) \/ entries'[k] = FreeSlot
<1> DEFINE new == [inode |-> i, name |-> n]
<1>1. /\ entries \in Seq(Slot) /\ Len(entries) \in Nat /\ DOMAIN entries = 1 .. Len(entries)
      /\ UsedIn(entries) \subseteq DOMAIN entries
      /\ \A k \in DOMAIN entries : entries[k] \in Slot
    BY SlotFacts DEF Sound
<1>2. new \in Slot /\ FreeSlot \in Slot
    BY DEF Slot, FreeSlot, EntryName
<1>3. Free = DOMAIN entries \ UsedIn(entries)
    BY InTheseTerms
<1>4. \A k \in Free : entries[k] = FreeSlot
    <2>1. \A k \in Free : entries[k].inode = NoInode /\ entries[k].name = NoName
        BY <1>3 DEF Sound, UsedIn
    <2>2. \A r \in Slot : r.inode = NoInode /\ r.name = NoName => r = FreeSlot
        BY DEF Slot, FreeSlot
    <2> QED
        BY <1>1, <1>3, <2>1, <2>2
<1> HIDE DEF new, Slot, FreeSlot
<1>5. CASE Free # {}
    <2> DEFINE j == First(Free)
    <2>1. j \in Free
        <3>1. Free \in SUBSET Nat
            BY <1>1, <1>3
        <3> QED
            BY <1>5, <3>1, FirstIsOne
    <2>2. entries' = [entries EXCEPT ![j] = new]
        BY <1>5, Zenon DEF new, WithEntry
    <2> HIDE DEF j
    <2>3. /\ entries' \in Seq(Slot) /\ Len(entries') = Len(entries) /\ DOMAIN entries' = DOMAIN entries
          /\ entries'[j] = new /\ \A k \in DOMAIN entries : k # j => entries'[k] = entries[k]
        BY <1>1, <1>2, <1>3, <2>1, <2>2
    <2> QED
        BY <1>1, <1>3, <1>4, <1>5, <2>1, <2>3 DEF new
<1>6. CASE Free = {}
    <2> DEFINE j == Len(entries) + 1
               size == IF 2 * Len(entries) > MinEntries THEN 2 * Len(entries) ELSE MinEntries
               g == [k \in 1 .. size |-> IF k \in DOMAIN entries THEN entries[k] ELSE FreeSlot]
    <2>1. size \in Nat /\ j \in 1 .. size /\ DOMAIN entries \subseteq 1 .. size /\ j \notin DOMAIN entries
        BY <1>1, MinEntriesAssumption
    <2>2. entries' = [g EXCEPT ![j] = new]
        BY <1>6 DEF Grown, new, WithEntry
    <2>3. g \in [1 .. size -> Slot]
        BY <1>1, <1>2
    <2>4. \A k \in 1 .. size : g[k] = IF k \in DOMAIN entries THEN entries[k] ELSE FreeSlot
        OBVIOUS
    <2>5. UsedIn(entries) = DOMAIN entries
        BY <1>1, <1>3, <1>6
    <2> HIDE DEF j, g
    <2>6. entries' \in [1 .. size -> Slot]
        BY <1>2, <2>1, <2>2, <2>3
    <2>7. entries'[j] = new /\ \A k \in 1 .. size : k # j => entries'[k] = g[k]
        BY <2>1, <2>2, <2>3
    <2>8. size = IF 2 * Len(entries) > MinEntries THEN 2 * Len(entries) ELSE MinEntries
        OBVIOUS
    <2> HIDE DEF size
    <2>9. entries' \in Seq(Slot) /\ Len(entries') = size /\ DOMAIN entries' = 1 .. size
        BY <2>1, <2>6, FunctionIsSequence
    <2> QED
        BY <1>6, <2>1, <2>4, <2>5, <2>7, <2>8, <2>9 DEF new
<1> QED
    BY <1>5, <1>6

\* tfs_inode_dir_add_entry
LEMMA AddStep ==
    ASSUME Sound(entries), NEW i \in Inode, NEW n \in EntryName, Add(i, n)
    PROVE  Sound(entries') /\ Map!Add(i, n)
<1>1. i \notin Map!Children(AsMap)
    BY MapSeen, InTheseTerms DEF Add
<1>2. Map!AddRefused(AsMap, n) <=> n = NoName \/ AddClash(n) # {}
    BY MapSeen, FoundSeen DEF Map!AddRefused, AddClash
<1>3. CASE n = NoName
    <2>1. Answer("EmptyName", NoInode) /\ UNCHANGED entries
        BY <1>3 DEF Add
    <2> QED
        BY <1>1, <1>2, <1>3, <2>1, MapEnds DEF Map!Add, Answer, Map!Answer, NoInode, Map!NoInode
<1>4. CASE n # NoName /\ AddClash(n) # {}
    <2> DEFINE clash == entries[First(AddClash(n))].inode
    <2>1. Answer("DuplicateName", clash) /\ UNCHANGED entries
        BY <1>4 DEF Add
    <2>2. clash \in Map!InodesOf(n)
        BY <1>4, FoundSeen, InodesSeen DEF AddClash
    <2> HIDE DEF clash
    <2> QED
        BY <1>1, <1>2, <1>4, <2>1, <2>2, MapEnds DEF Map!Add, Map!Clashes, Answer, Map!Answer
<1>5. CASE n # NoName /\ AddClash(n) = {}
    <2>1. Answer("success", NoInode) /\ entries' = WithEntry(i, n)
        BY <1>5 DEF Add, WithEntry
    <2>2. n \in Name /\ n \notin NamesIn(entries) /\ \A k \in UsedIn(entries) : entries[k].inode # i
        BY <1>5, FoundSeen, InTheseTerms DEF EntryName, AddClash, Add
    <2>3. /\ Sound(entries')
          /\ EntryIn(entries') = [m \in NamesIn(entries) \cup {n} |->
                                     IF m = n THEN i ELSE EntryIn(entries)[m]]
        <3>1. PICK j \in DOMAIN entries' :
                 /\ j \notin UsedIn(entries)
                 /\ entries'[j] = [inode |-> i, name |-> n]
                 /\ \A k \in UsedIn(entries) : k \in DOMAIN entries' /\ entries'[k] = entries[k]
                 /\ \A k \in DOMAIN entries' :
                       k = j \/ k \in UsedIn(entries) \/ entries'[k] = FreeSlot
            BY <1>5, <2>1, ArrayTakes
        <3>2. entries' \in Seq(Slot) /\ entries'[j].inode = i /\ entries'[j].name = n
            BY <1>5, <2>1, <3>1, ArrayTakes
        <3>3. /\ entries'[j].inode \in Inode
              /\ \A k \in UsedIn(entries) : entries[k].inode # entries'[j].inode
              /\ entries'[j].name \in Name /\ entries'[j].name \notin NamesIn(entries)
            BY <2>2, <3>2
        <3>4. /\ Sound(entries') /\ NamesIn(entries') = NamesIn(entries) \cup {n}
              /\ EntryIn(entries')[n] = i
              /\ \A m \in NamesIn(entries) : EntryIn(entries')[m] = EntryIn(entries)[m]
            BY <3>1, <3>2, <3>3, EntryTaken
        <3>5. EntryIn(entries') = [m \in NamesIn(entries') |-> EntryIn(entries')[m]]
            BY DEF EntryIn
        <3> QED
            BY <2>2, <3>4, <3>5
    <2>4. Len(entries') = IF Free # {} THEN Len(entries)
                          ELSE IF 2 * Len(entries) > MinEntries THEN 2 * Len(entries) ELSE MinEntries
        BY <1>5, <2>1, ArrayTakes
    <2>5. AsMap' = Map!AddEntry(AsMap, n, i)
        BY <2>3, <2>4, MapEnds, MapSeen DEF Map!AddEntry
    <2> QED
        BY <1>1, <1>2, <1>5, <2>1, <2>3, <2>5 DEF Map!Add, Answer, Map!Answer, NoInode, Map!NoInode
<1> QED
    BY <1>3, <1>4, <1>5

\* tfs_inode_dir_rename, when a slot has the new name already: the map says
\* the same of the entry of the inode, or of an inode without one.
LEMMA RenameClashes ==
    ASSUME Sound(entries), NEW i \in Inode, NEW n \in EntryName, Rename(i, n), RenameClash(n) # {}
    PROVE  /\ UNCHANGED entries
           /\ (\E o \in EntryName : Map!Rename(o, n)) \/ Map!RenameMissing(i, n)
<1> DEFINE c == First(Named(n))
           clash == entries[c].inode
<1>1. Named(n) \in SUBSET Nat /\ Named(n) # {} /\ Named(n) \subseteq DOMAIN entries
    BY SlotFacts DEF Sound, Named, RenameClash
<1>2. c \in Named(n)
    BY <1>1, FirstIsOne
<1>3. /\ UNCHANGED entries
      /\ clash = i => Answer("success", NoInode)
      /\ clash # i => Answer("DuplicateName", clash)
    BY DEF Rename, RenameClash
<1>4. clash \in Map!InodesOf(n)
    BY <1>2, InodesSeen
<1>5. AsMap' = AsMap
    BY <1>3, MapEnds
<1>6. c \in DOMAIN entries /\ entries[c].name = n
    BY <1>2 DEF Named
<1> HIDE DEF c
<1>7. CASE \A k \in UsedIn(entries) : entries[k].inode # i
    <2>1. clash # i
        BY <1>6, <1>7, NoInodeIsNone DEF UsedIn
    <2>2. i \notin Map!Children(AsMap)
        BY <1>7, MapSeen
    <2> HIDE DEF clash
    <2> QED
        BY <1>3, <1>4, <1>5, <2>1, <2>2 DEF Map!RenameMissing, Map!Clashes, Answer, Map!Answer
<1>8. ASSUME NEW k \in UsedIn(entries), entries[k].inode = i
      PROVE  \E o \in EntryName : Map!Rename(o, n)
    <2> DEFINE o == entries[k].name
    <2>1. /\ o \in EntryName /\ o \in NamesIn(entries)
          /\ EntryIn(entries)[o] = i
        BY <1>8, EntryOfSlot
    <2>2. ~(o = NoName /\ n = NoName)
        BY <1>8, InTheseTerms DEF Rename, Found, Named, UsedIn
    <2>3. CASE clash = i
        <3>1. c = k
            BY <1>6, <1>8, <2>3, NoInodeIsNone DEF Sound, UsedIn
        <3>2. o = n
            BY <1>6, <3>1
        <3>3. ~Map!RenameRefused(AsMap, o, n)
            BY <2>2, <3>2 DEF Map!RenameRefused
        <3>4. AsMap' = Map!RenameEntry(AsMap, o, n)
            <4>1. [m \in (NamesIn(entries) \ {o}) \cup {n} |->
                      IF m = n THEN EntryIn(entries)[o] ELSE EntryIn(entries)[m]]
                    = [m \in NamesIn(entries) |-> EntryIn(entries)[m]]
                BY <2>1, <3>2
            <4>2. EntryIn(entries) = [m \in NamesIn(entries) |-> EntryIn(entries)[m]]
                BY DEF EntryIn
            <4> QED
                BY <1>5, <4>1, <4>2, MapEnds, MapSeen DEF Map!RenameEntry
        <3> QED
            BY <1>3, <2>1, <2>2, <2>3, <3>3, <3>4, MapSeen
            DEF Map!Rename, Answer, Map!Answer, NoInode, Map!NoInode
    <2>4. CASE clash # i
        <3>1. c # k
            BY <1>8, <2>4
        <3>2. Map!RenameRefused(AsMap, o, n)
            <4>1. CASE c \in UsedIn(entries)
                <5>1. n # o /\ n \in NamesIn(entries)
                    BY <1>6, <3>1, <4>1, EntryOfSlot DEF Sound
                <5> QED
                    BY <5>1, MapSeen DEF Map!RenameRefused
            <4>2. CASE c \notin UsedIn(entries)
                <5>1. n = NoName /\ c \in Free
                    BY <1>6, <4>2, InTheseTerms DEF Sound
                <5> QED
                    BY <5>1, MapSeen DEF Map!RenameRefused
            <4> QED
                BY <4>1, <4>2
        <3> HIDE DEF clash
        <3> QED
            BY <1>3, <1>4, <1>5, <2>1, <2>2, <2>4, <3>2, MapSeen
            DEF Map!Rename, Map!Clashes, Answer, Map!Answer
    <2> QED
        BY <2>3, <2>4
<1> QED
    BY <1>3, <1>7, <1>8

\* The same, when no slot has it.
LEMMA RenameDone ==
    ASSUME Sound(entries), NEW i \in Inode, NEW n \in EntryName, Rename(i, n), RenameClash(n) = {}
    PROVE  /\ Sound(entries')
           /\ (\E o \in EntryName : Map!Rename(o, n)) \/ Map!RenameMissing(i, n)
<1>1. Map!InodesOf(n) = {}
    BY InodesSeen DEF RenameClash
<1>2. \A k \in DOMAIN entries : entries[k].name # n
    BY DEF RenameClash, Named
<1>3. CASE \A k \in UsedIn(entries) : entries[k].inode # i
    <2>1. Answer("NotFound", NoInode) /\ UNCHANGED entries
        BY <1>3, InTheseTerms DEF Rename
    <2>2. i \notin Map!Children(AsMap)
        BY <1>3, MapSeen
    <2>3. AsMap' = AsMap
        BY <2>1, MapEnds
    <2> QED
        BY <1>1, <2>1, <2>2, <2>3 DEF Map!RenameMissing, Answer, Map!Answer, NoInode, Map!NoInode
<1>4. CASE \E k \in UsedIn(entries) : entries[k].inode = i
    <2>1. Answer("success", NoInode)
        BY <1>4, InTheseTerms DEF Rename
    <2>2. PICK k \in UsedIn(entries) :
              entries[k].inode = i /\ entries' = [entries EXCEPT ![k].name = n]
        BY <1>4, InTheseTerms DEF Rename
    <2> DEFINE o == entries[k].name
               r == [entries[k] EXCEPT !.name = n]
    <2>3. entries \in Seq(Slot) /\ k \in DOMAIN entries /\ entries[k] \in Slot
        BY SlotFacts DEF Sound
    <2>4. r \in Slot /\ r.name = n /\ r.inode = entries[k].inode
        BY <2>3 DEF Slot
    <2>5. entries' = [entries EXCEPT ![k] = r]
        BY <2>2, <2>3
    <2> HIDE DEF r
    <2>6. /\ entries' \in Seq(Slot) /\ DOMAIN entries' = DOMAIN entries /\ Len(entries') = Len(entries)
          /\ entries'[k].name = n /\ entries'[k].inode = entries[k].inode
          /\ \A l \in DOMAIN entries : l # k => entries'[l] = entries[l]
        BY <2>3, <2>4, <2>5
    <2>7. /\ Sound(entries')
          /\ EntryIn(entries') = [m \in (NamesIn(entries) \ {o}) \cup {n} |->
                                     IF m = n THEN EntryIn(entries)[o] ELSE EntryIn(entries)[m]]
        <3>1. /\ Sound(entries') /\ NamesIn(entries') = (NamesIn(entries) \ {o}) \cup {n}
              /\ EntryIn(entries')[n] = entries[k].inode
              /\ \A m \in NamesIn(entries) \ {o} : EntryIn(entries')[m] = EntryIn(entries)[m]
            BY <1>2, <2>6, EntryRenamed
        <3>2. EntryIn(entries') = [m \in NamesIn(entries') |-> EntryIn(entries')[m]]
            BY DEF EntryIn
        <3>3. EntryIn(entries)[o] = entries[k].inode
            BY EntryOfSlot
        <3>4. n \notin NamesIn(entries)
            BY <1>2 DEF NamesIn, UsedIn
        <3> HIDE DEF o
        <3> QED
            BY <3>1, <3>2, <3>3, <3>4
    <2>8. o \in NamesIn(entries) /\ o \in EntryName /\ o # n
        BY <1>2, <2>3, EntryOfSlot
    <2>9. ~Map!RenameRefused(AsMap, o, n)
        <3>1. n \notin NamesIn(entries)
            BY <1>2 DEF NamesIn, UsedIn
        <3>2. n = NoName => Free = {}
            BY <1>2, InTheseTerms DEF Sound
        <3> QED
            BY <3>1, <3>2, MapSeen DEF Map!RenameRefused
    <2>10. AsMap' = Map!RenameEntry(AsMap, o, n)
        BY <2>6, <2>7, MapEnds, MapSeen DEF Map!RenameEntry
    <2> HIDE DEF o
    <2>11. Map!Rename(o, n)
        BY <2>1, <2>8, <2>9, <2>10, MapSeen DEF Map!Rename, Answer, Map!Answer, NoInode, Map!NoInode
    <2> QED
        BY <2>7, <2>8, <2>11
<1> QED
    BY <1>3, <1>4

-----------------------------------------------------------------------------
\* Every step keeps the invariant and is one of the map.
LEMMA EveryStep ==
    ASSUME Sound(entries), [Next]_vars
    PROVE  Sound(entries') /\ [Map!MapNext]_<<AsMap, answer>>
<1>1. CASE IsEmpty
    BY <1>1, IsEmptyStep DEF IsEmpty, Map!MapNext
<1>2. ASSUME NEW n \in EntryName, Search(n)
      PROVE  Sound(entries') /\ Map!MapNext
    BY <1>2, SearchStep DEF Search, Map!MapNext, EntryName, Map!EntryName
<1>3. ASSUME NEW n \in EntryName, Remove(n)
      PROVE  Sound(entries') /\ Map!MapNext
    BY <1>3, RemoveStep DEF Map!MapNext, EntryName, Map!EntryName
<1>4. ASSUME NEW i \in Inode, NEW n \in EntryName, Add(i, n)
      PROVE  Sound(entries') /\ Map!MapNext
    BY <1>4, AddStep DEF Map!MapNext, EntryName, Map!EntryName, Inode, Map!Inode
<1>5. ASSUME NEW i \in Inode, NEW n \in EntryName, Rename(i, n)
      PROVE  Sound(entries') /\ Map!MapNext
    <2>1. /\ Sound(entries')
          /\ (\E o \in EntryName : Map!Rename(o, n)) \/ Map!RenameMissing(i, n)
        BY <1>5, RenameClashes, RenameDone
    <2> QED
        BY <2>1 DEF Map!MapNext, EntryName, Map!EntryName, Inode, Map!Inode
<1>6. CASE UNCHANGED vars
    BY <1>6, MapEnds DEF vars
<1> QED
    BY <1>1, <1>2, <1>3, <1>4, <1>5, <1>6 DEF Next

\* No operation leaves two entries of a directory with one name or one inode,
\* nor a free slot with a name.  (dir.h:40: "All entries shall have different
\* filenames".)
THEOREM EntriesStayApart == Spec => []EntriesDiffer
<1>1. Init => Sound(entries)
    BY DEF Init, Sound, UsedIn
<1>2. Sound(entries) /\ [Next]_vars => Sound(entries)'
    BY EveryStep
<1>3. Sound(entries) => EntriesDiffer
    BY InTheseTerms
<1> QED
    BY <1>1, <1>2, <1>3, PTL DEF Spec

\* To its callers the array of dir.c is the map from names to inodes that the
\* modules above it use, at every size of the array.
THEOREM ArrayIsMap == Spec => ImplementsMap
<1>1. Init => Sound(entries) /\ Map!MapInit
    <2> SUFFICES ASSUME Init PROVE Sound(entries) /\ Map!MapInit
        OBVIOUS
    <2>1. entries = <<>> /\ UsedIn(entries) = {}
        BY DEF Init, UsedIn
    <2>2. Sound(entries)
        BY <2>1 DEF Sound
    <2>3. EntryIn(entries) = [n \in {} |-> 0]
        BY <2>1 DEF EntryIn, NamesIn
    <2> QED
        BY <2>1, <2>2, <2>3, MapEnds
        DEF Init, Map!MapInit, Map!EmptyDir, NoAnswer, Map!NoAnswer, NoInode, Map!NoInode
<1>2. Sound(entries) /\ [Next]_vars => Sound(entries)' /\ [Map!MapNext]_<<AsMap, answer>>
    BY EveryStep
<1> QED
    BY <1>1, <1>2, PTL DEF Spec, ImplementsMap, Map!MapSpec
=============================================================================
