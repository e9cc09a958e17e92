------------------------------- MODULE Memory -------------------------------
(***************************************************************************)
(* The guest memory manager (class MemoryManager, core/memory.cpp), in     *)
(* pages of the alignment it uses.  An area map (vma_map, dmem_map,        *)
(* fmem_map, the phys_areas of the VMAs) is a function on pages and the    *)
(* set of the pages at which an area begins: to split an area adds a page  *)
(* to that set, to merge two takes one away.  dmem_map and fmem_map share  *)
(* one function, fmem_map from page NumDirect on.  Every operation holds   *)
(* unmap_mutex and changes the maps under mutex, so it is one step, but    *)
(* MapMemory looks at flexible_usage before it locks, in a step of its     *)
(* own.  A failed ASSERT ends the process; a call that returns an error    *)
(* changes nothing and is no step.  The GPU's copy of the mappings, host   *)
(* protections, names, NoCoalesce and file, stack and code mappings are    *)
(* left out.                                                               *)
(***************************************************************************)
EXTENDS Integers, FiniteSets, FiniteSetsExt

CONSTANTS
    NumVirtual,   \* pages of the address space
    NumDirect,    \* total_direct_size
    NumFlexible,  \* total_flexible_size
    MemoryTypes,  \* the memory types the guest asks for
    Mappers,      \* the threads that map flexible memory
    Careful,      \* the guest releases and decommits only what it has allocated and pooled,
                  \* and maps nothing over committed pool memory
    MaxSize       \* bound: pages of one request

ASSUME MemoryAssumption ==
    /\ {NumVirtual, NumDirect, NumFlexible, MaxSize} \subseteq Nat \ {0}
    /\ MemoryTypes \subseteq Nat
    /\ Careful \in BOOLEAN

VARIABLES
    mm,    \* the manager's state, see TypeOK
    calls  \* of every mapper: the call of MapMemory it is in

vars == <<mm, calls>>

Virtual == 0 .. NumVirtual - 1
Direct == 0 .. NumDirect - 1
Flexible == NumDirect .. NumDirect + NumFlexible - 1
Physical == Direct \cup Flexible
Sizes == 1 .. MaxSize
None == -1

Page(type, prot, phys, mtype) ==
    [type |-> type, prot |-> prot, phys |-> phys, mtype |-> mtype]
FreePage == Page("Free", "NoAccess", None, 0)

\* HasPhysicalBacking
Backed(s, v) == s.vma[v].type \in {"Direct", "Flexible", "Pooled"}

\* A call of MapMemory for flexible memory: the pages it has asked for when the check of
\* flexible_usage has let it pass, and whether other flexible memory was mapped since.
Call(at, size, stale) == [at |-> at, size |-> size, stale |-> stale]
Idle == Call("idle", 0, FALSE)

\* torn: the ASSERT of CarvePhysArea has failed; abort: another one.  aliased remembers that
\* direct memory was mapped that was mapped already, and is read by the properties alone.
Start == [vma |-> [v \in Virtual |-> FreePage], vcut |-> {0}, acut |-> {},
          phys |-> [p \in Physical |-> [dma |-> "Free", mtype |-> 0]],
          pcut |-> {0, NumDirect},
          host |-> [v \in Virtual |-> None],
          flexible_usage |-> 0, pool_budget |-> 0,
          abort |-> FALSE, torn |-> FALSE, aliased |-> FALSE]

Init == mm = Start /\ calls = [t \in Mappers |-> Idle]

\* What an operation leaves: a failed ASSERT ends the process, and its maps are gone.
Outcome(s) ==
    IF s.abort \/ s.torn
      THEN [Start EXCEPT !.abort = s.abort, !.torn = s.torn, !.aliased = mm.aliased]
      ELSE s

\* The function g with the values that f has for some of its arguments.
Over(f, g) == [x \in DOMAIN g |-> IF x \in DOMAIN f THEN f[x] ELSE g[x]]

Pages(a, n) == a .. a + n - 1
Typed(s, pages, types) == {v \in pages : s.vma[v].type \in types}
Dma(s, pages, types) == {p \in pages : s.phys[p].dma \in types}

-----------------------------------------------------------------------------
(* Area maps                                                               *)

\* The pieces of a set of pages in a map with these cuts: where they begin, where they
\* begin or end.
Starts(pages, cuts) == {x \in pages : x - 1 \notin pages \/ x \in cuts}
Ends(pages, cuts) == Starts(pages, cuts) \cup {x + 1 : x \in {y \in pages : y + 1 \notin pages}}

\* CanMergeWith: do the areas that meet at a page merge?
PhysMerge(s, p) == p \notin {0, NumDirect} /\ s.phys[p - 1] = s.phys[p]
VmaMerge(s, v) ==
    /\ v # 0
    /\ LET l == s.vma[v - 1]
           r == s.vma[v]
       IN  /\ l.type = r.type /\ l.prot = r.prot
           /\ r.type = "Direct" => l.phys + 1 = r.phys /\ l.mtype = r.mtype

\* CarvePhysArea, then MergeAdjacent on the new areas.
PhysCarved(s, ends) ==
    LET at == ends \cap Physical
    IN  [s EXCEPT !.pcut = (@ \cup at) \ {p \in at : PhysMerge(s, p)}]

\* CarveVMA, then MergeAdjacent.  Split cuts phys_areas too; no merge of VMAs undoes that.
VmaCarved(s, ends) ==
    LET at == ends \cap Virtual
    IN  [s EXCEPT !.vcut = (@ \cup at) \ {v \in at : VmaMerge(s, v)},
                  !.acut = {v \in @ \cup at : Backed(s, v)}]

\* The physical pages where the pieces of phys_areas in a set of pages begin or end.
PhysEnds(s, pages) ==
    {s.vma[v].phys : v \in Starts(pages, s.acut)}
    \cup {s.vma[v].phys + 1 : v \in {u \in pages : u + 1 \notin pages \/ u + 1 \in s.acut}}

\* Pages of dmem_map or fmem_map get another type; memory types change only if mtype is one.
Painted(s, pages, dma, mtype) ==
    Over([p \in pages |-> [dma |-> dma, mtype |-> IF mtype = None THEN s.phys[p].mtype ELSE mtype]],
         s.phys)

\* The physical memory behind a set of pages is given back, piece by piece: direct memory
\* stays allocated, flexible memory becomes free, that of the pool is pooled again.
GivenBack(s, pages) ==
    LET Phys(type) == {s.vma[v].phys : v \in Typed(s, pages, {type})}
        freed == [s EXCEPT !.phys = Painted(s, Phys("Flexible"), "Free", None)]
        allocated == [s EXCEPT !.phys = Painted(freed, Phys("Direct"), "Allocated", None)]
        pooled == [s EXCEPT !.phys = Painted(allocated, Phys("Pooled"), "Pooled", None)]
    IN  PhysCarved(pooled, PhysEnds(s, pages))

\* The pages of the pieces that come before that of page v.
Before(s, pages, v) == {u \in pages : \E b \in Starts(pages, s.acut) : u < b /\ b <= v}

\* CarvePhysArea asserts that a piece is inside one area of the map, which is the map that
\* the pieces before it have left.
PhysTorn(s, pages) ==
    \E v \in pages \ Starts(pages, s.acut) :
        s.vma[v].phys \in GivenBack(s, Before(s, pages, v)).pcut

-----------------------------------------------------------------------------
(* Unmapping                                                               *)

\* UnmapMemoryImpl, one UnmapBytesFromEntry for every VMA: Free and Pooled ones are passed
\* over.
UnmapMemoryImpl(s, pages) ==
    LET gone == {v \in pages : s.vma[v].type \notin {"Free", "Pooled"}}
        backed == Typed(s, gone, {"Direct", "Flexible"})
        s1 == [GivenBack(s, backed) EXCEPT
                 !.vma = Over([v \in gone |-> FreePage], @),
                 !.host = Over([v \in backed |-> None], @),
                 !.flexible_usage = @ - Cardinality(Typed(s, gone, {"Flexible"})),
                 !.torn = @ \/ PhysTorn(s, backed)]
    IN  VmaCarved(s1, Ends(gone, s.vcut))

UnmapMemory ==
    \E a \in Virtual, n \in Sizes :
        /\ Pages(a, n) \subseteq Virtual
        /\ mm' = Outcome(UnmapMemoryImpl(mm, Pages(a, n)))
        /\ UNCHANGED calls

-----------------------------------------------------------------------------
(* Mapping                                                                 *)

\* Where the VMA of a page ends.
VmaEnd(v) == Min({c \in mm.vcut \cup {NumVirtual} : c > v})

\* Mutant of SearchFree: the size of the area the address is in is not looked at.
SearchFreeShort(hint, n) ==
    LET later == {c \in mm.vcut : c > hint /\ mm.vma[c].type = "Free" /\ c + n <= VmaEnd(c)}
    IN  IF mm.vma[hint].type = "Free" /\ hint + n <= NumVirtual THEN hint
        ELSE IF later = {} THEN None ELSE Min(later)

\* SearchFree: the address itself, or the first free VMA after it that is large enough.
SearchFree(hint, n) ==
    LET later == {c \in mm.vcut : c > hint /\ mm.vma[c].type = "Free" /\ c + n <= VmaEnd(c)}
    IN  IF mm.vma[hint].type = "Free" /\ hint + n <= VmaEnd(hint) THEN hint
        ELSE IF later = {} THEN None ELSE Min(later)

\* What a mapping of n pages may begin with: a fixed address, where CreateArea unmaps what
\* is there, all but committed pool memory, or a found one.
Places(n) ==
    {<<a, UnmapMemoryImpl(mm, Pages(a, n))>> :
        a \in {b \in Virtual : Pages(b, n) \subseteq Virtual
                               /\ (Careful => Typed(mm, Pages(b, n), {"Pooled"}) = {})}}
    \cup {<<a, mm>> : a \in {SearchFree(h, n) : h \in Virtual} \ {None}}

\* The VMA of a mapping at a: the ASSERTs of CreateArea and CarveVMA, the pages and their
\* backing.  phys_areas that follow each other become one.
Mapped(s, a, n, was, page) ==
    VmaCarved(
        [s EXCEPT
           !.vma = Over(page, @),
           !.host = Over([v \in {u \in Pages(a, n) : page[u].phys # None} |-> page[v].phys], @),
           !.acut = (@ \ Pages(a, n)) \cup
                    {v \in Pages(a + 1, n - 1) : \/ page[v].phys # page[v - 1].phys + 1
                                                 \/ page[v].mtype # page[v - 1].mtype},
           !.abort = @ \/ s.vma[a].type # was \/ s.vcut \cap Pages(a + 1, n - 1) # {}],
        {a, a + n})

\* The n pages that come first.
First(pages, n) == {p \in pages : Cardinality({q \in pages : q < p}) < n}
Nth(pages, i) == CHOOSE p \in pages : Cardinality({q \in pages : q < p}) = i

\* Reserved and PoolReserved mappings have no backing.
MapReserved ==
    \E n \in Sizes : \E place \in Places(n), type \in {"Reserved", "PoolReserved"} :
        /\ mm' = Outcome(Mapped(place[2], place[1], n, "Free",
                                [v \in Pages(place[1], n) |-> Page(type, "NoAccess", None, 0)]))
        /\ UNCHANGED calls

\* The check MapMemory makes before it locks unmap_mutex.
CheckFlexible(t) ==
    \E n \in Sizes :
        /\ calls[t].at = "idle"
        /\ mm.flexible_usage + n <= NumFlexible
        /\ calls' = [calls EXCEPT ![t] = Call("checked", n, FALSE)]
        /\ UNCHANGED mm

\* Thread t has mapped flexible memory.  What the others have checked no longer holds; and
\* they may have looked, at the sizes in asked, while the call had unmapped its range and
\* not taken its pages: flexible_usage was low then.
CallsAfter(t, low) ==
    {[u \in Mappers |->
        IF u = t THEN Idle
        ELSE IF calls[u].at = "checked" THEN [calls[u] EXCEPT !.stale = TRUE]
        ELSE IF asked[u] = 0 THEN calls[u]
        ELSE Call("checked", asked[u], TRUE)] :
     asked \in {f \in [Mappers \ {t} -> 0 .. MaxSize] :
                  \A u \in Mappers \ {t} :
                    f[u] # 0 => calls[u].at = "idle" /\ low + f[u] <= NumFlexible}}

\* The part of MapMemory under the locks: it takes the first free pages, wherever they are.
MapFlexible(t) ==
    LET n == calls[t].size
        free(s) == Dma(s, Flexible, {"Free"})
        Taken(s) == LET taken == First(free(s), n)
                    IN  PhysCarved([s EXCEPT !.phys = Painted(s, taken, "Flexible", None),
                                             !.flexible_usage = @ + n],
                                   Ends(taken, s.pcut))
        Backing(a, s) == [v \in Pages(a, n) |->
                            Page("Flexible", "ReadWrite", Nth(free(s), v - a), 0)]
    IN  /\ calls[t].at = "checked"
        /\ \E place \in Places(n) :
             LET a == place[1]
                 s == place[2]
             IN  IF Cardinality(free(s)) < n /\ ~s.torn  \* the ASSERT after the loop
                 THEN /\ calls' = [calls EXCEPT ![t].at = "aborted"]
                      /\ mm' = [Start EXCEPT !.aliased = mm.aliased]
                 ELSE /\ mm' = Outcome(IF s.torn THEN s
                                       ELSE Mapped(Taken(s), a, n, "Free", Backing(a, s)))
                      /\ calls' \in CallsAfter(t, s.flexible_usage)

\* MapMemory finds no place, or something where NoOverwrite asks for a free one.
MapRefused(t) ==
    /\ calls[t].at = "checked"
    /\ \E hint \in Virtual : SearchFree(hint, calls[t].size) # hint
    /\ calls' = [calls EXCEPT ![t] = Idle]
    /\ UNCHANGED mm

\* A direct mapping; validate_dmem refuses memory that is mapped already.  The range is
\* validated before what is at the fixed range is unmapped.
MapDirect ==
    \E n \in Sizes : \E place \in Places(n), p \in Direct, validate_dmem \in BOOLEAN :
        LET a == place[1]
            s == place[2]
            s1 == [s EXCEPT !.phys = Painted(s, Pages(p, n), "Mapped", None),
                            !.aliased = @ \/ Dma(s, Pages(p, n), {"Mapped"}) # {}]
        IN  /\ Pages(p, n) \subseteq Dma(mm, Direct, IF validate_dmem THEN {"Allocated"}
                                                     ELSE {"Allocated", "Mapped"})
            /\ mm' = Outcome(Mapped(PhysCarved(s1, Ends(Pages(p, n), s.pcut)), a, n, "Free",
                                [v \in Pages(a, n) |-> Page("Direct", "ReadWrite", p + v - a,
                                                             s.phys[p + v - a].mtype)]))
            /\ UNCHANGED calls

-----------------------------------------------------------------------------
(* Direct memory                                                           *)

\* The first free area from start on that has n pages, and where the pages begin in it.
FindFree(start, n) ==
    LET Begin(p) == Max({c \in mm.pcut : c <= p})
        Last(p) == Min({c \in mm.pcut \cup {NumDirect} : c > p})
        at == {p \in {start} \cup {c \in mm.pcut \cap Direct : c > start} :
                 mm.phys[p].dma = "Free" /\ p + n <= Last(p)}
    IN  IF at = {} THEN {} ELSE {[at |-> Min(at), area |-> Begin(Min(at))]}

\* Allocate merges at the area it found, which after a split at its start is what is left
\* of it in front of the new one: then nothing merges behind.
Allocate ==
    \E start \in Direct, n \in Sizes, mtype \in MemoryTypes :
        \E found \in FindFree(start, n) :
            LET p == found.at
                s1 == [mm EXCEPT !.phys = Painted(mm, Pages(p, n), "Allocated", mtype),
                                 !.pcut = @ \cup ({p, p + n} \cap Physical)]
            IN  /\ mm' = PhysCarved(s1, IF p = found.area THEN {p, p + n} ELSE {found.area, p})
                /\ UNCHANGED calls

\* PoolExpand merges nothing.
PoolExpand ==
    \E start \in Direct, n \in Sizes : \E found \in FindFree(start, n) :
        LET p == found.at
        IN  /\ mm' = [mm EXCEPT !.phys = Painted(mm, Pages(p, n), "Pooled", 3),
                                !.pcut = @ \cup ({p, p + n} \cap Physical),
                                !.pool_budget = @ + n]
            /\ UNCHANGED calls

\* Free's remove_list: of every area of a direct mapping that meets the range, as many
\* pages as the range has, from the first that is in both.
RemoveList(p, n) ==
    LET Begin(v) == Max({c \in mm.acut : c <= v})
        OfArea(b) == {v \in Typed(mm, Virtual, {"Direct"}) : Begin(v) = b}
        base(b) == mm.vma[b].phys
        skip(b) == Max({base(b), p}) - base(b)
    IN  UNION {OfArea(b) \cap Pages(b + skip(b), n) :
                 b \in {c \in mm.acut : \E v \in OfArea(c) : mm.vma[v].phys \in Pages(p, n)}}

\* Mutant of Free: the mappings of the range are left.
FreeMapped ==
    \E p \in Direct, n \in Sizes :
        /\ Pages(p, n) \subseteq Dma(mm, Direct, {"Allocated", "Mapped"})
        /\ mm' = PhysCarved([mm EXCEPT !.phys = Painted(mm, Pages(p, n), "Free", 0)],
                            Ends(Pages(p, n), mm.pcut))
        /\ UNCHANGED calls

\* Free, which passes over free memory and goes on behind the range; is_checked only makes
\* it refuse such a range.  free_list is made of the areas before the mappings are removed.
Free ==
    \E p \in Direct, n \in Sizes :
        LET used == {q \in Direct : mm.phys[q].dma # "Free"}
            released == First({q \in used : q >= p}, n)
            s == UnmapMemoryImpl(mm, RemoveList(p, n))
            torn == (released \ Starts(released, mm.pcut)) \cap s.pcut # {}
            s1 == [s EXCEPT !.phys = Painted(s, released, "Free", 0), !.torn = @ \/ torn]
        IN  /\ Careful => Pages(p, n) \subseteq Dma(mm, Direct, {"Allocated", "Mapped"})
            /\ mm' = Outcome(PhysCarved(s1, Ends(released, mm.pcut)))
            /\ UNCHANGED calls

-----------------------------------------------------------------------------
(* Memory pools                                                            *)

\* PoolCommit's test of the budget, which refuses the last page too.
Affordable(n) == mm.pool_budget > n

\* PoolCommit takes the first pooled pages, wherever they are.
PoolCommit ==
    \E a \in Virtual, n \in Sizes, mtype \in MemoryTypes :
        /\ Pages(a, n) \subseteq Typed(mm, Virtual, {"PoolReserved"})
        /\ Pages(a + 1, n - 1) \cap mm.vcut = {}
        /\ Affordable(n)
        /\ LET pool == Dma(mm, Direct, {"Pooled"})
               taken == First(pool, n)
               s1 == [mm EXCEPT !.phys = Painted(mm, taken, "Committed", mtype),
                                !.pool_budget = @ - n]
           IN  mm' = Outcome(
                       IF Cardinality(pool) < n THEN [s1 EXCEPT !.abort = TRUE]
                       ELSE Mapped(PhysCarved(s1, Ends(taken, mm.pcut)), a, n, "PoolReserved",
                                   [v \in Pages(a, n) |->
                                      Page("Pooled", "ReadWrite", Nth(pool, v - a), mtype)]))
        /\ UNCHANGED calls

\* Mutant of Decommitted: the host mapping of the pages stays.
DecommittedMapped(s, pages, pooled) ==
    [GivenBack(s, pooled) EXCEPT
       !.pool_budget = @ + Cardinality(pooled),
       !.vma = Over([v \in pages |-> Page("PoolReserved", "NoAccess", None, 0)], @),
       !.torn = @ \/ PhysTorn(s, pooled)]

\* Mutant of Decommitted: pages that were not committed are given back too.
DecommittedAll(s, pages, pooled) ==
    [GivenBack(s, pooled) EXCEPT
       !.pool_budget = @ + Cardinality(pages),
       !.vma = Over([v \in pages |-> Page("PoolReserved", "NoAccess", None, 0)], @),
       !.host = Over([v \in pages |-> None], @),
       !.torn = @ \/ PhysTorn(s, pooled)]

\* The loop of PoolDecommit: the memory goes back to the pool and keeps its memory type.
Decommitted(s, pages, pooled) ==
    [GivenBack(s, pooled) EXCEPT
       !.pool_budget = @ + Cardinality(pooled),
       !.vma = Over([v \in pages |-> Page("PoolReserved", "NoAccess", None, 0)], @),
       !.host = Over([v \in pages |-> None], @),
       !.torn = @ \/ PhysTorn(s, pooled)]

\* PoolDecommit, which looks at the VMAs that end in the range only.
PoolDecommit ==
    \E a \in Virtual, n \in Sizes :
        LET pages == Pages(a, n)
        IN  /\ pages \subseteq Virtual
            /\ {v \in pages : VmaEnd(v) <= a + n} \subseteq Typed(mm, pages, {"Pooled", "PoolReserved"})
            /\ Careful => pages \subseteq Typed(mm, pages, {"Pooled", "PoolReserved"})
            /\ mm' = Outcome(VmaCarved(Decommitted(mm, pages, Typed(mm, pages, {"Pooled"})),
                                       Ends(pages, mm.vcut)))
            /\ UNCHANGED calls

-----------------------------------------------------------------------------
(* Attributes                                                              *)

\* Protect, one ProtectBytes for every VMA.
Protect ==
    \E a \in Virtual, n \in Sizes, prot \in {"NoAccess", "ReadWrite"} :
        /\ Pages(a, n) \subseteq Virtual
        /\ LET pages == Pages(a, n) \ Typed(mm, Pages(a, n), {"Free", "PoolReserved"})
           IN  mm' = VmaCarved([mm EXCEPT !.vma = Over([v \in pages |->
                                                          [@[v] EXCEPT !.prot = prot]], @)],
                               Ends(pages, mm.vcut))
        /\ UNCHANGED calls

\* SetDirectMemoryType: dmem_map is cut and not merged.
SetDirectMemoryType ==
    \E a \in Virtual, n \in Sizes, mtype \in MemoryTypes :
        /\ Pages(a, n) \subseteq Virtual
        /\ LET pages == Typed(mm, Pages(a, n), {"Direct", "Pooled"})
               phys == {mm.vma[v].phys : v \in pages}
               torn == \E v \in pages \ Starts(pages, mm.acut) :
                         mm.vma[v].phys \in mm.pcut \cup PhysEnds(mm, Before(mm, pages, v))
           IN  mm' = Outcome(VmaCarved(
                   [mm EXCEPT
                      !.vma = Over([v \in pages |-> [@[v] EXCEPT !.mtype = mtype]], @),
                      !.phys = Over([p \in phys |-> [@[p] EXCEPT !.mtype = mtype]], @),
                      !.pcut = @ \cup (PhysEnds(mm, pages) \cap Physical),
                      !.torn = @ \/ torn],
                   Ends(pages, mm.vcut)))
        /\ UNCHANGED calls

-----------------------------------------------------------------------------
\* The process is there until an ASSERT fails.
Running == ~mm.abort /\ ~mm.torn /\ \A t \in Mappers : calls[t].at # "aborted"

Next ==
    /\ Running
    /\ \/ UnmapMemory \/ MapReserved \/ MapDirect
       \/ \E t \in Mappers : CheckFlexible(t) \/ MapFlexible(t) \/ MapRefused(t)
       \/ Allocate \/ PoolExpand \/ Free \/ PoolCommit \/ PoolDecommit
       \/ Protect \/ SetDirectMemoryType

Spec == Init /\ [][Next]_vars

-----------------------------------------------------------------------------
(* Properties                                                              *)

\* A page of a VMA, of the physical maps.
VmaPage == [type : {"Free", "Reserved", "Direct", "Flexible", "Pooled", "PoolReserved"},
            prot : {"NoAccess", "ReadWrite"}, phys : Physical \cup {None},
            mtype : MemoryTypes \cup {0, 3}]
PhysPage == [dma : {"Free", "Allocated", "Mapped", "Pooled", "Committed", "Flexible"},
             mtype : MemoryTypes \cup {0, 3}]

\* The state has its type; the counts of MemoryManager do not go below 0.
TypeOK ==
    /\ mm \in [vma : [Virtual -> VmaPage], vcut : SUBSET Virtual, acut : SUBSET Virtual,
              phys : [Physical -> PhysPage], pcut : SUBSET Physical,
              host : [Virtual -> Physical \cup {None}],
              flexible_usage : 0 .. NumFlexible, pool_budget : 0 .. NumDirect,
              abort : BOOLEAN, torn : BOOLEAN, aliased : BOOLEAN]
    /\ 0 \in mm.vcut /\ {0, NumDirect} \subseteq mm.pcut
    /\ calls \in [Mappers -> [at : {"idle", "checked", "aborted"}, size : 0 .. MaxSize,
                              stale : BOOLEAN]]

\* Whatever is split and merged, an ASSERT of MemoryManager fails in two ways only.  A
\* physical area a VMA remembers no longer lies inside one area of dmem_map, after direct
\* memory was mapped twice; and flexible memory runs out in a call whose check of
\* flexible_usage was made before another thread mapped more of it.  No mapping found or
\* made free is too small, and no commit the budget allows finds too little in the pool.
NoAbort ==
    /\ ~mm.abort
    /\ mm.torn => mm.aliased
    /\ \A t \in Mappers : calls[t].at = "aborted" => calls[t].stale

\* The host's mappings are those the VMAs describe: a page is mapped to the backing its
\* VMA has for it, and not mapped without one.
HostAgrees ==
    \A v \in Virtual : mm.host[v] = IF Backed(mm, v) THEN mm.vma[v].phys ELSE None

\* The physical maps say what the VMAs use: a page of a Direct, Pooled or Flexible VMA is
\* backed by one that is Mapped, Committed or Flexible and has the same memory type, and
\* every such page backs exactly one.  Once direct memory was mapped twice, the first to
\* unmap it leaves it Allocated under the others, and this is left of it for direct memory:
\* it is not released to anyone while it is mapped, and not Mapped when it is not.
UseOf == [Direct |-> "Mapped", Pooled |-> "Committed", Flexible |-> "Flexible"]
PhysExact ==
    /\ \A v \in Virtual : Backed(mm, v) =>
         LET page == mm.vma[v]
             used == mm.phys[page.phys]
         IN  \/ used.dma = UseOf[page.type] /\ used.mtype = page.mtype
             \/ mm.aliased /\ page.type = "Direct" /\ used.dma \in {"Mapped", "Allocated"}
    /\ \A p \in Physical : mm.phys[p].dma \in {"Mapped", "Committed", "Flexible"} =>
         LET users == {v \in Virtual : Backed(mm, v) /\ mm.vma[v].phys = p}
         IN  /\ users # {}
             /\ (mm.aliased /\ mm.phys[p].dma = "Mapped") \/ Cardinality(users) = 1

\* The counters agree with the maps: flexible_usage with the flexible pages in use,
\* pool_budget with the pooled pages that are not committed.
BudgetsExact ==
    /\ mm.flexible_usage = Cardinality(Dma(mm, Flexible, {"Flexible"}))
    /\ mm.pool_budget = Cardinality(Dma(mm, Direct, {"Pooled"}))
=============================================================================
