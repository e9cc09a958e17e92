---------------------------- MODULE MemoryProofs ----------------------------
(***************************************************************************)
(* Proofs about Memory, for any numbers of pages, memory types, sizes of   *)
(* requests and mappers, and a careful guest: the maps of virtual and      *)
(* physical areas, the counters and the host agree after every call, also  *)
(* when direct memory was mapped twice, and an ASSERT fails only after     *)
(* that or in a call whose check was stale.  The operations are functions  *)
(* on states, so the lemmas are about states too.                          *)
(***************************************************************************)
EXTENDS Memory, FiniteSetTheorems, FunctionTheorems, NaturalsInduction,
        WellFoundedInduction, TLAPS

DmaTypes == {"Free", "Allocated", "Mapped", "Pooled", "Committed", "Flexible"}

\* The state with the counts not yet bounded.
State == [vma : [Virtual -> VmaPage], vcut : SUBSET Virtual, acut : SUBSET Virtual,
          phys : [Physical -> PhysPage], pcut : SUBSET Physical,
          host : [Virtual -> Physical \cup {None}],
          flexible_usage : Int, pool_budget : Int, abort : BOOLEAN, torn : BOOLEAN,
          aliased : BOOLEAN]

-----------------------------------------------------------------------------
(* The inductive invariant, a property of a state s                        *)

\* A page without backing has no physical page; direct and pooled memory is backed by
\* dmem_map, flexible memory by fmem_map, whose pages have no memory type.
KindInv(s) ==
    /\ \A v \in Virtual :
         /\ s.vma[v].type = "Free" => s.vma[v] = FreePage
         /\ ~Backed(s, v) => s.vma[v].phys = None
         /\ s.vma[v].type \in {"Direct", "Pooled"} => s.vma[v].phys \in Direct
         /\ s.vma[v].type = "Flexible" => s.vma[v].phys \in Flexible /\ s.vma[v].mtype = 0
    /\ \A p \in Direct : s.phys[p].dma # "Flexible"
    /\ \A p \in Flexible : s.phys[p].dma \in {"Free", "Flexible"} /\ s.phys[p].mtype = 0

\* The host maps what the VMAs say.
HostInv(s) == \A v \in Virtual : s.host[v] = IF Backed(s, v) THEN s.vma[v].phys ELSE None

\* A page that shares its backing with none: once direct memory was mapped twice, no page of
\* a direct mapping counts as one.
Sole(s, v) == Backed(s, v) /\ (s.vma[v].type = "Direct" => ~s.aliased)

\* A page in use backs one page of a VMA, of the right kind and memory type, but direct
\* memory that was mapped twice is Mapped, or Allocated when one of its users has left.
UseInv(s) ==
    /\ \A v \in Virtual : Sole(s, v) =>
         /\ s.phys[s.vma[v].phys].dma = UseOf[s.vma[v].type]
         /\ s.phys[s.vma[v].phys].mtype = s.vma[v].mtype
    /\ \A v \in Virtual : s.vma[v].type = "Direct" =>
         s.phys[s.vma[v].phys].dma \in {"Mapped", "Allocated"}
    /\ \A u, v \in Virtual : Sole(s, u) /\ Sole(s, v) /\ s.vma[u].phys = s.vma[v].phys => u = v
    /\ \A p \in Physical : s.phys[p].dma \in {"Mapped", "Committed", "Flexible"} =>
         \E v \in Virtual : Backed(s, v) /\ s.vma[v].phys = p

\* The counters agree with the maps.
BudgetInv(s) ==
    /\ s.flexible_usage = Cardinality(Dma(s, Flexible, {"Flexible"}))
    /\ s.pool_budget = Cardinality(Dma(s, Direct, {"Pooled"}))

\* A VMA has one type, and free VMAs that meet are merged.
VcutInv(s) ==
    /\ 0 \in s.vcut
    /\ \A v \in Virtual : v \notin s.vcut => s.vma[v].type = s.vma[v - 1].type
    /\ \A v \in s.vcut \ {0} : ~(s.vma[v].type = "Free" /\ s.vma[v - 1].type = "Free")

\* An area of dmem_map or fmem_map has one state.
PcutInv(s) ==
    /\ {0, NumDirect} \subseteq s.pcut
    /\ \A p \in Physical : p \notin s.pcut => s.phys[p] = s.phys[p - 1]

\* One of the phys_areas of a VMA is contiguous, of one kind and memory type, and lies
\* inside one area of the physical maps until direct memory is mapped twice.
AcutInv(s) ==
    /\ \A v \in s.acut : Backed(s, v)
    /\ \A v \in Virtual : Backed(s, v) /\ v \notin s.acut =>
         /\ v - 1 \in Virtual /\ s.vma[v - 1].type = s.vma[v].type
         /\ s.vma[v].phys = s.vma[v - 1].phys + 1 /\ s.vma[v].mtype = s.vma[v - 1].mtype
         /\ ~s.aliased => s.vma[v].phys \notin s.pcut

MapInv(s) == KindInv(s) /\ HostInv(s) /\ UseInv(s) /\ BudgetInv(s)
CutInv(s) == VcutInv(s) /\ PcutInv(s) /\ AcutInv(s)
Good(s) == s \in State /\ MapInv(s) /\ CutInv(s) /\ ~s.abort /\ (s.torn => s.aliased)

\* What a call has checked is there for it as long as no other has mapped flexible memory.
CallInv ==
    /\ calls \in [Mappers -> [at : {"idle", "checked", "aborted"}, size : 0 .. MaxSize,
                              stale : BOOLEAN]]
    /\ \A t \in Mappers :
         /\ calls[t].at = "checked" => calls[t].size \in Sizes
         /\ calls[t].at = "checked" /\ ~calls[t].stale =>
              mm.flexible_usage + calls[t].size <= NumFlexible
         /\ calls[t].at = "aborted" => calls[t].stale

IInv == Good(mm) /\ CallInv


-----------------------------------------------------------------------------
(* Pages and cuts                                                          *)

\* The ranges of pages.
LEMMA Ranges ==
  /\ \A v : v \in Virtual <=> v \in Int /\ 0 <= v /\ v < NumVirtual
  /\ \A p : p \in Direct <=> p \in Int /\ 0 <= p /\ p < NumDirect
  /\ \A p : p \in Flexible <=> p \in Int /\ NumDirect <= p /\ p < NumDirect + NumFlexible
  /\ \A p : p \in Physical <=> p \in Int /\ 0 <= p /\ p < NumDirect + NumFlexible
  /\ None \notin Physical /\ Physical = Direct \cup Flexible
  /\ NumVirtual \in Nat \ {0} /\ NumDirect \in Nat \ {0} /\ NumFlexible \in Nat \ {0}
  /\ MaxSize \in Nat \ {0} /\ MemoryTypes \subseteq Nat
<1>1. /\ NumVirtual \in Nat \ {0} /\ NumDirect \in Nat \ {0} /\ NumFlexible \in Nat \ {0}
      /\ MaxSize \in Nat \ {0} /\ MemoryTypes \subseteq Nat
  BY MemoryAssumption
<1> QED
  BY <1>1 DEF Virtual, Direct, Flexible, Physical, None

\* A request: its pages and its size.
LEMMA PagesIs ==
  ASSUME NEW a \in Int, NEW n \in Sizes
  PROVE  /\ n \in Nat \ {0} /\ \A x : x \in Pages(a, n) <=> x \in Int /\ a <= x /\ x < a + n
         /\ \A x : x \in Pages(a + 1, n - 1) <=> x \in Int /\ a < x /\ x < a + n
BY Ranges DEF Pages, Sizes

\* The fields of a state have their types.
LEMMA Fields ==
  ASSUME NEW s \in State
  PROVE  /\ s.vma \in [Virtual -> VmaPage] /\ s.vcut \subseteq Virtual /\ s.acut \subseteq Virtual
         /\ s.phys \in [Physical -> PhysPage] /\ s.pcut \subseteq Physical
         /\ s.host \in [Virtual -> Physical \cup {None}] /\ s.flexible_usage \in Int
         /\ s.pool_budget \in Int /\ s.abort \in BOOLEAN /\ s.torn \in BOOLEAN /\ s.aliased \in BOOLEAN
BY DEF State

\* The fields of the pages have their types.
LEMMA PageFields ==
  ASSUME NEW s \in State
  PROVE  /\ \A v \in Virtual : /\ s.vma[v] \in VmaPage
              /\ s.vma[v].type \in {"Free", "Reserved", "Direct", "Flexible", "Pooled", "PoolReserved"}
              /\ s.vma[v].prot \in {"NoAccess", "ReadWrite"}
              /\ s.vma[v].phys \in Physical \cup {None}
              /\ s.vma[v].mtype \in MemoryTypes \cup {0, 3}
         /\ \A p \in Physical : /\ s.phys[p] \in PhysPage
              /\ s.phys[p].dma \in {"Free", "Allocated", "Mapped", "Pooled", "Committed", "Flexible"}
              /\ s.phys[p].mtype \in MemoryTypes \cup {0, 3}
BY Fields DEF VmaPage, PhysPage

\* Two pages of a physical map are the same if their fields are.
LEMMA SamePhys ==
  ASSUME NEW x \in PhysPage, NEW y \in PhysPage, x.dma = y.dma, x.mtype = y.mtype
  PROVE  x = y
BY DEF PhysPage

\* A page that is backed.
LEMMA BackedIs ==
  ASSUME NEW s \in State, KindInv(s), NEW v \in Virtual
  PROVE  /\ Backed(s, v) => s.vma[v].phys \in Physical /\ s.vma[v].phys # None
         /\ Backed(s, v) <=> s.vma[v].type \in {"Direct", "Flexible", "Pooled"}
BY Ranges DEF KindInv, Backed

\* CarveVMA and MergeAdjacent change the cuts only.
LEMMA VmaCarvedIs ==
  ASSUME NEW s \in State, NEW ends
  PROVE  /\ VmaCarved(s, ends) \in State
         /\ VmaCarved(s, ends).vma = s.vma /\ VmaCarved(s, ends).phys = s.phys
         /\ VmaCarved(s, ends).pcut = s.pcut /\ VmaCarved(s, ends).host = s.host
         /\ VmaCarved(s, ends).flexible_usage = s.flexible_usage
         /\ VmaCarved(s, ends).pool_budget = s.pool_budget
         /\ VmaCarved(s, ends).abort = s.abort /\ VmaCarved(s, ends).torn = s.torn
         /\ VmaCarved(s, ends).aliased = s.aliased
         /\ VmaCarved(s, ends).vcut = (s.vcut \cup (ends \cap Virtual))
                                        \ {v \in ends \cap Virtual : VmaMerge(s, v)}
         /\ VmaCarved(s, ends).acut = {v \in s.acut \cup (ends \cap Virtual) : Backed(s, v)}
<1> DEFINE vc == (s.vcut \cup (ends \cap Virtual)) \ {v \in ends \cap Virtual : VmaMerge(s, v)}
           ac == {v \in s.acut \cup (ends \cap Virtual) : Backed(s, v)}
<1>1. VmaCarved(s, ends) = [s EXCEPT !.vcut = vc, !.acut = ac]
  BY DEF VmaCarved
<1>2. vc \in SUBSET Virtual /\ ac \in SUBSET Virtual
  BY Fields
<1> HIDE DEF vc, ac
<1>3. /\ [s EXCEPT !.vcut = vc, !.acut = ac] \in State
      /\ [s EXCEPT !.vcut = vc, !.acut = ac].vcut = vc
      /\ [s EXCEPT !.vcut = vc, !.acut = ac].acut = ac
  BY <1>2 DEF State
<1>4. /\ [s EXCEPT !.vcut = vc, !.acut = ac].vma = s.vma
      /\ [s EXCEPT !.vcut = vc, !.acut = ac].phys = s.phys
      /\ [s EXCEPT !.vcut = vc, !.acut = ac].pcut = s.pcut
      /\ [s EXCEPT !.vcut = vc, !.acut = ac].host = s.host
      /\ [s EXCEPT !.vcut = vc, !.acut = ac].flexible_usage = s.flexible_usage
      /\ [s EXCEPT !.vcut = vc, !.acut = ac].pool_budget = s.pool_budget
      /\ [s EXCEPT !.vcut = vc, !.acut = ac].abort = s.abort
      /\ [s EXCEPT !.vcut = vc, !.acut = ac].torn = s.torn
      /\ [s EXCEPT !.vcut = vc, !.acut = ac].aliased = s.aliased
  BY DEF State
<1> QED
  BY <1>1, <1>3, <1>4 DEF vc, ac

\* CarvePhysArea and MergeAdjacent change the cuts of the physical maps only.
LEMMA PhysCarvedIs ==
  ASSUME NEW s \in State, NEW ends
  PROVE  /\ PhysCarved(s, ends) \in State
         /\ PhysCarved(s, ends).vma = s.vma /\ PhysCarved(s, ends).phys = s.phys
         /\ PhysCarved(s, ends).vcut = s.vcut /\ PhysCarved(s, ends).acut = s.acut
         /\ PhysCarved(s, ends).host = s.host
         /\ PhysCarved(s, ends).flexible_usage = s.flexible_usage
         /\ PhysCarved(s, ends).pool_budget = s.pool_budget
         /\ PhysCarved(s, ends).abort = s.abort /\ PhysCarved(s, ends).torn = s.torn
         /\ PhysCarved(s, ends).aliased = s.aliased
         /\ PhysCarved(s, ends).pcut = (s.pcut \cup (ends \cap Physical))
                                         \ {p \in ends \cap Physical : PhysMerge(s, p)}
<1> DEFINE pc == (s.pcut \cup (ends \cap Physical)) \ {p \in ends \cap Physical : PhysMerge(s, p)}
<1>1. PhysCarved(s, ends) = [s EXCEPT !.pcut = pc]
  BY DEF PhysCarved
<1>2. pc \in SUBSET Physical
  BY Fields
<1> HIDE DEF pc
<1>3. /\ [s EXCEPT !.pcut = pc] \in State /\ [s EXCEPT !.pcut = pc].pcut = pc
  BY <1>2 DEF State
<1>4. /\ [s EXCEPT !.pcut = pc].vma = s.vma
      /\ [s EXCEPT !.pcut = pc].phys = s.phys
      /\ [s EXCEPT !.pcut = pc].vcut = s.vcut
      /\ [s EXCEPT !.pcut = pc].acut = s.acut
      /\ [s EXCEPT !.pcut = pc].host = s.host
      /\ [s EXCEPT !.pcut = pc].flexible_usage = s.flexible_usage
      /\ [s EXCEPT !.pcut = pc].pool_budget = s.pool_budget
      /\ [s EXCEPT !.pcut = pc].abort = s.abort /\ [s EXCEPT !.pcut = pc].torn = s.torn
      /\ [s EXCEPT !.pcut = pc].aliased = s.aliased
  BY DEF State
<1> QED
  BY <1>1, <1>3, <1>4 DEF pc

\* Painted without a memory type changes the type of the pages it is given.
LEMMA PaintedKeeps ==
  ASSUME NEW s \in State, NEW P \in SUBSET Physical, NEW d \in DmaTypes
  PROVE  /\ Painted(s, P, d, None) \in [Physical -> PhysPage]
         /\ \A p \in Physical \ P : Painted(s, P, d, None)[p] = s.phys[p]
         /\ \A p \in P : /\ Painted(s, P, d, None)[p].dma = d
                         /\ Painted(s, P, d, None)[p].mtype = s.phys[p].mtype
<1> DEFINE f == [p \in P |-> [dma |-> d, mtype |-> s.phys[p].mtype]]
<1>1. DOMAIN s.phys = Physical /\ \A p \in Physical : s.phys[p] \in PhysPage
  BY Fields
<1>2. Painted(s, P, d, None) = [x \in Physical |-> IF x \in P THEN f[x] ELSE s.phys[x]]
  BY <1>1 DEF Painted, Over
<1>3. ASSUME NEW p \in P
      PROVE  f[p] \in PhysPage /\ f[p].dma = d /\ f[p].mtype = s.phys[p].mtype
  <2>1. s.phys[p].mtype \in MemoryTypes \cup {0, 3}
    BY PageFields
  <2> QED
    BY <2>1 DEF PhysPage, DmaTypes
<1> HIDE DEF f
<1> QED
  BY <1>1, <1>2, <1>3

\* Painted with a memory type changes that too.
LEMMA PaintedTypes ==
  ASSUME NEW s \in State, NEW P \in SUBSET Physical, NEW d \in DmaTypes, NEW m \in MemoryTypes \cup {0, 3}
  PROVE  /\ Painted(s, P, d, m) \in [Physical -> PhysPage]
         /\ \A p \in Physical \ P : Painted(s, P, d, m)[p] = s.phys[p]
         /\ \A p \in P : Painted(s, P, d, m)[p].dma = d /\ Painted(s, P, d, m)[p].mtype = m
<1> DEFINE f == [p \in P |-> [dma |-> d, mtype |-> m]]
<1>1. DOMAIN s.phys = Physical /\ \A p \in Physical : s.phys[p] \in PhysPage
  BY Fields
<1>2. m # None
  BY Ranges DEF None
<1>3. Painted(s, P, d, m) = [x \in Physical |-> IF x \in P THEN f[x] ELSE s.phys[x]]
  BY <1>1, <1>2 DEF Painted, Over
<1>4. ASSUME NEW p \in P PROVE f[p] \in PhysPage /\ f[p].dma = d /\ f[p].mtype = m
  BY DEF PhysPage, DmaTypes
<1> HIDE DEF f
<1> QED
  BY <1>1, <1>3, <1>4

\* Other pages in some places of a map of the VMAs.
LEMMA OverVma ==
  ASSUME NEW s \in State, NEW S \in SUBSET Virtual, NEW f, DOMAIN f = S, \A v \in S : f[v] \in VmaPage
  PROVE  /\ Over(f, s.vma) \in [Virtual -> VmaPage] /\ \A v \in S : Over(f, s.vma)[v] = f[v]
         /\ \A v \in Virtual \ S : Over(f, s.vma)[v] = s.vma[v]
<1>1. s.vma \in [Virtual -> VmaPage]
  BY Fields
<1> QED
  BY <1>1 DEF Over

\* Other mappings of some pages of the host.
LEMMA OverHost ==
  ASSUME NEW s \in State, NEW S \in SUBSET Virtual, NEW f, DOMAIN f = S,
         \A v \in S : f[v] \in Physical \cup {None}
  PROVE  /\ Over(f, s.host) \in [Virtual -> Physical \cup {None}]
         /\ \A v \in S : Over(f, s.host)[v] = f[v]
         /\ \A v \in Virtual \ S : Over(f, s.host)[v] = s.host[v]
<1>1. s.host \in [Virtual -> Physical \cup {None}]
  BY Fields
<1> QED
  BY <1>1 DEF Over

\* The types of physical memory that operations give.
LEMMA DmaTypesAre ==
  /\ "Free" \in DmaTypes /\ "Allocated" \in DmaTypes /\ "Mapped" \in DmaTypes
  /\ "Pooled" \in DmaTypes /\ "Committed" \in DmaTypes /\ "Flexible" \in DmaTypes
BY DEF DmaTypes

\* Pages W of the VMAs have changed and are cut out at ends.
VcutStep(s, r, W, ends) ==
  /\ W \subseteq Virtual
  /\ r.vcut = (s.vcut \cup (ends \cap Virtual)) \ {v \in ends \cap Virtual : VmaMerge(r, v)}
  /\ \A v \in Virtual \ W : r.vma[v].type = s.vma[v].type
  /\ \A v \in Virtual : v # 0 /\ v \notin ends => (v \in W <=> v - 1 \in W)
  /\ \A v \in W : v - 1 \in W /\ v \notin s.vcut \cup ends => r.vma[v].type = r.vma[v - 1].type
  /\ \A v \in W : v \in s.vcut /\ r.vma[v].type = "Free" => v \in ends

\* The cuts of the VMAs after such a change.
LEMMA VcutKept ==
  ASSUME NEW s \in State, NEW r \in State, VcutInv(s), KindInv(r), NEW W, NEW ends, VcutStep(s, r, W, ends)
  PROVE  VcutInv(r)
<1> USE DEF VcutStep
<1>1. \A v \in Virtual : v # 0 => v - 1 \in Virtual
  BY Ranges
<1>2. 0 \in r.vcut
  BY DEF VcutInv, VmaMerge
<1>3. ASSUME NEW v \in Virtual, v \notin r.vcut
      PROVE  r.vma[v].type = r.vma[v - 1].type
  <2>1. v # 0
    BY <1>2, <1>3
  <2>2. CASE v \in ends
    BY <1>3, <2>2 DEF VmaMerge
  <2>3. CASE v \notin ends
    <3>1. v \notin s.vcut /\ (v \in W <=> v - 1 \in W) /\ v - 1 \in Virtual
      BY <1>1, <1>3, <2>1, <2>3
    <3>2. CASE v \in W
      BY <2>3, <3>1, <3>2
    <3>3. CASE v \notin W
      BY <3>1, <3>3 DEF VcutInv
    <3> QED
      BY <3>2, <3>3
  <2> QED
    BY <2>2, <2>3
<1>4. ASSUME NEW v \in r.vcut \ {0}, r.vma[v].type = "Free", r.vma[v - 1].type = "Free"
      PROVE  FALSE
  <2>1. v \in Virtual /\ v # 0 /\ v - 1 \in Virtual
    BY <1>1, Fields
  <2>2. r.vma[v] = FreePage /\ r.vma[v - 1] = FreePage
    BY <1>4, <2>1 DEF KindInv
  <2>3. VmaMerge(r, v)
    BY <2>1, <2>2 DEF VmaMerge, FreePage, Page
  <2>4. v \in s.vcut /\ v \notin ends
    BY <1>4, <2>1, <2>3
  <2>5. v \notin W /\ v - 1 \notin W
    BY <1>4, <2>1, <2>4
  <2> QED
    BY <1>4, <2>1, <2>4, <2>5 DEF VcutInv
<1> QED
  BY <1>2, <1>3, <1>4 DEF VcutInv

\* Pages W of the physical maps have changed and are cut out at X; areas merge at ends.
PcutStep(s, r, W, X, ends) ==
  /\ W \subseteq Physical
  /\ r.pcut = (s.pcut \cup X) \ {p \in ends \cap Physical : PhysMerge(r, p)}
  /\ \A p \in Physical \ W : r.phys[p] = s.phys[p]
  /\ \A p \in Physical : p # 0 /\ p \notin s.pcut \cup X => (p \in W <=> p - 1 \in W)
  /\ \A p \in W : p - 1 \in W /\ s.phys[p] = s.phys[p - 1] => r.phys[p] = r.phys[p - 1]

\* The cuts of the physical maps after such a change.
LEMMA PcutKept ==
  ASSUME NEW s \in State, NEW r \in State, PcutInv(s), NEW W, NEW X, NEW ends, PcutStep(s, r, W, X, ends)
  PROVE  PcutInv(r)
<1> USE DEF PcutStep
<1>1. \A p \in Physical : p # 0 => p - 1 \in Physical
  BY Ranges
<1>2. {0, NumDirect} \subseteq r.pcut
  BY DEF PcutInv, PhysMerge
<1>3. ASSUME NEW p \in Physical, p \notin r.pcut
      PROVE  r.phys[p] = r.phys[p - 1]
  <2>1. p # 0
    BY <1>2, <1>3
  <2>2. CASE PhysMerge(r, p)
    BY <2>2 DEF PhysMerge
  <2>3. CASE ~PhysMerge(r, p)
    <3>1. p \notin s.pcut \cup X
      BY <1>3, <2>3
    <3>2. s.phys[p] = s.phys[p - 1] /\ (p \in W <=> p - 1 \in W) /\ p - 1 \in Physical
      BY <1>1, <2>1, <3>1 DEF PcutInv
    <3> QED
      BY <3>2
  <2> QED
    BY <2>2, <2>3
<1> QED
  BY <1>2, <1>3 DEF PcutInv

\* Pages W of the VMAs have changed; A is left of the cuts of the phys_areas, ends are new.
\* The areas of the pages outside W stay inside areas of the physical maps, as long as no
\* direct memory is mapped twice.
AcutStep(s, r, W, A, ends) ==
  /\ W \subseteq Virtual /\ (s.aliased => r.aliased)
  /\ r.acut = {v \in A \cup (ends \cap Virtual) : Backed(r, v)} /\ s.acut \ W \subseteq A
  /\ \A v \in Virtual \ W : /\ r.vma[v].type = s.vma[v].type /\ r.vma[v].phys = s.vma[v].phys
                            /\ r.vma[v].mtype = s.vma[v].mtype
  /\ \A v \in Virtual : v \notin W /\ v - 1 \in W => v \in ends
  /\ \A v \in W : Backed(r, v) /\ v \notin r.acut =>
       /\ v - 1 \in Virtual /\ r.vma[v - 1].type = r.vma[v].type
       /\ r.vma[v].phys = r.vma[v - 1].phys + 1 /\ r.vma[v].mtype = r.vma[v - 1].mtype
       /\ ~r.aliased => r.vma[v].phys \notin r.pcut
  /\ ~r.aliased => \A v \in Virtual \ W : Backed(s, v) /\ Backed(s, v - 1) /\ v - 1 \in Virtual \ W
       /\ s.vma[v].phys = s.vma[v - 1].phys + 1 /\ s.vma[v].phys \in r.pcut => s.vma[v].phys \in s.pcut

\* The phys_areas of the VMAs after such a change.
LEMMA AcutKept ==
  ASSUME NEW s \in State, NEW r \in State, AcutInv(s), NEW W, NEW A, NEW ends, AcutStep(s, r, W, A, ends)
  PROVE  AcutInv(r)
<1> USE DEF AcutStep
<1>1. \A v \in r.acut : Backed(r, v)
  OBVIOUS
<1>2. ASSUME NEW v \in Virtual, Backed(r, v), v \notin r.acut
      PROVE  /\ v - 1 \in Virtual /\ r.vma[v - 1].type = r.vma[v].type
             /\ r.vma[v].phys = r.vma[v - 1].phys + 1 /\ r.vma[v].mtype = r.vma[v - 1].mtype
             /\ ~r.aliased => r.vma[v].phys \notin r.pcut
  <2>1. CASE v \in W
    BY <1>2, <2>1
  <2>2. CASE v \notin W
    <3>1. Backed(s, v)
      BY <1>2, <2>2 DEF Backed
    <3>2. v \notin s.acut /\ v \notin ends
      BY <1>2, <2>2
    <3>3. /\ v - 1 \in Virtual /\ s.vma[v - 1].type = s.vma[v].type
          /\ s.vma[v].phys = s.vma[v - 1].phys + 1 /\ s.vma[v].mtype = s.vma[v - 1].mtype
          /\ ~s.aliased => s.vma[v].phys \notin s.pcut
      BY <3>1, <3>2 DEF AcutInv
    <3>4. v - 1 \notin W
      BY <2>2, <3>2
    <3>5. Backed(s, v - 1)
      BY <3>1, <3>3 DEF Backed
    <3>6. ~r.aliased => s.vma[v].phys \notin r.pcut
      BY <2>2, <3>1, <3>3, <3>4, <3>5
    <3> QED
      BY <2>2, <3>3, <3>4, <3>6
  <2> QED
    BY <2>1, <2>2
<1> QED
  BY <1>1, <1>2 DEF AcutInv


-----------------------------------------------------------------------------
(* Least pages, runs of pages, and the pages that come first               *)

\* A set of naturals that is not empty has a least member.
LEMMA LeastNat ==
  ASSUME NEW T, T \subseteq Nat, T # {}
  PROVE  \E x \in T : \A y \in T : x <= y
<1> DEFINE R == OpToRel(<, Nat)
<1>1. IsWellFoundedOn(R, Nat)
  BY NatLessThanWellFounded
<1>2. R = {ss \in Nat \X Nat : ss[1] < ss[2]}
  BY DEF OpToRel
<1> HIDE DEF R
<1>3. PICK x \in T : \A y \in T : ~(<<y, x>> \in R)
  BY <1>1, WFMin
<1>4. ASSUME NEW y \in T PROVE x <= y
  <2>1. x \in Nat /\ y \in Nat
    OBVIOUS
  <2>2. CASE y < x
    <3>1. <<y, x>> \in R
      BY <1>2, <2>1, <2>2
    <3> QED
      BY <1>3, <3>1
  <2> QED
    BY <2>1, <2>2
<1> QED
  BY <1>4

\* Min of a set of pages.
LEMMA MinIs ==
  ASSUME NEW T, T \subseteq Nat, T # {}
  PROVE  Min(T) \in T /\ \A y \in T : Min(T) <= y
<1>1. \E x \in T : \A y \in T : x <= y
  BY LeastNat
<1> QED
  BY <1>1 DEF Min

\* Max of a set of pages that has a bound.
LEMMA MaxIs ==
  ASSUME NEW b \in Nat, NEW T, T \subseteq 0 .. b, T # {}
  PROVE  Max(T) \in T /\ \A y \in T : y <= Max(T)
<1> DEFINE D == {b - y : y \in T}
<1>0. \A y \in T : y \in Int /\ 0 <= y /\ y <= b
  OBVIOUS
<1>1. D \subseteq Nat /\ D # {}
  <2>1. \A y \in T : b - y \in Nat
    BY <1>0
  <2> QED
    BY <2>1
<1>2. PICK d \in D : \A e \in D : d <= e
  BY <1>1, LeastNat
<1>3. PICK x \in T : d = b - x
  OBVIOUS
<1>4. \A y \in T : b - x <= b - y
  BY <1>2, <1>3
<1> HIDE DEF D
<1>5. \A y \in T : x >= y
  <2> TAKE y \in T
  <2>1. x \in Int /\ y \in Int /\ b - x <= b - y
    BY <1>0, <1>4
  <2> QED
    BY <2>1
<1>6. Max(T) \in T /\ \A y \in T : Max(T) >= y
  BY <1>5 DEF Max
<1> QED
  BY <1>6

\* What does not change from one page to the next is the same on a run of pages.
LEMMA Run ==
  ASSUME NEW f, NEW a \in Nat, NEW b \in Int,
         \A x \in Nat : a < x /\ x < b => f[x] = f[x - 1]
  PROVE  \A x \in Nat : a <= x /\ x < b => f[x] = f[a]
<1> DEFINE T == {x \in Nat : a <= x /\ x < b /\ f[x] # f[a]}
<1>1. ASSUME T # {} PROVE FALSE
  <2>1. PICK x \in T : \A y \in T : x <= y
    BY <1>1, LeastNat
  <2>2. x \in Nat /\ a < x /\ x < b /\ f[x] # f[a]
    BY <2>1
  <2>3. f[x] = f[x - 1] /\ x - 1 \in Nat /\ a <= x - 1
    BY <2>2
  <2>4. x - 1 \in T
    BY <2>2, <2>3
  <2> QED
    BY <2>1, <2>2, <2>4
<1> QED
  BY <1>1

\* A part of a VMA has one type.
LEMMA VmaRun ==
  ASSUME NEW s \in State, VcutInv(s), NEW a \in Virtual, NEW n \in Sizes, Pages(a, n) \subseteq Virtual,
         Pages(a + 1, n - 1) \cap s.vcut = {}
  PROVE  \A v \in Pages(a, n) : s.vma[v].type = s.vma[a].type
<1> DEFINE f == [v \in Virtual |-> s.vma[v].type]
<1>1. a \in Nat /\ n \in Nat \ {0} /\ a + n \in Int
  BY Ranges, PagesIs
<1>2. ASSUME NEW x \in Nat, a < x, x < a + n PROVE f[x] = f[x - 1]
  <2>1. x \in Pages(a, n) /\ x \in Pages(a + 1, n - 1)
    BY <1>1, <1>2 DEF Pages
  <2>2. x - 1 \in Pages(a, n)
    BY <1>1, <1>2, PagesIs
  <2> QED
    BY <2>1, <2>2 DEF VcutInv
<1> HIDE DEF f
<1>3. \A x \in Nat : a <= x /\ x < a + n => f[x] = f[a]
  BY <1>1, <1>2, Run
<1>4. \A v \in Pages(a, n) : v \in Nat /\ a <= v /\ v < a + n /\ v \in Virtual
  BY <1>1, PagesIs, Ranges
<1> QED
  BY <1>3, <1>4 DEF f

\* A part of an area of a physical map has one state.
LEMMA PhysRun ==
  ASSUME NEW s \in State, PcutInv(s), NEW p \in Physical, NEW n \in Sizes, Pages(p, n) \subseteq Physical,
         Pages(p + 1, n - 1) \cap s.pcut = {}
  PROVE  \A x \in Pages(p, n) : s.phys[x] = s.phys[p]
<1> DEFINE f == s.phys
<1>1. p \in Nat /\ n \in Nat \ {0} /\ p + n \in Int
  BY Ranges, PagesIs
<1>2. ASSUME NEW x \in Nat, p < x, x < p + n PROVE f[x] = f[x - 1]
  <2>1. x \in Pages(p, n) /\ x \in Pages(p + 1, n - 1)
    BY <1>1, <1>2 DEF Pages
  <2> QED
    BY <2>1 DEF PcutInv
<1> HIDE DEF f
<1>3. \A x \in Nat : p <= x /\ x < p + n => f[x] = f[p]
  BY <1>1, <1>2, Run
<1>4. \A x \in Pages(p, n) : x \in Nat /\ p <= x /\ x < p + n
  BY <1>1, PagesIs
<1> QED
  BY <1>3, <1>4 DEF f

\* Down to where it begins one of the phys_areas of a VMA is contiguous.
LEMMA AreaRun ==
  ASSUME NEW s \in State, KindInv(s), AcutInv(s), NEW v \in Virtual, Backed(s, v), NEW b \in Nat, b <= v,
         \A x \in s.acut : ~(b < x /\ x <= v)
  PROVE  \A x \in b .. v : /\ x \in Virtual /\ s.vma[x].type = s.vma[v].type
                           /\ s.vma[v].phys = s.vma[x].phys + (v - x)
<1> DEFINE Q(x) == /\ x \in Virtual /\ s.vma[x].type = s.vma[v].type
                   /\ s.vma[v].phys = s.vma[x].phys + (v - x)
           T == {k \in Nat : b <= v - k /\ ~Q(v - k)}
<1>1. v \in Nat /\ s.vma[v].phys \in Int
  BY Ranges, BackedIs
<1>2. ASSUME T # {} PROVE FALSE
  <2>1. PICK k \in T : \A j \in T : k <= j
    BY <1>2, LeastNat
  <2>2. k \in Nat /\ b <= v - k /\ ~Q(v - k)
    BY <2>1
  <2>3. k # 0
    BY <1>1, <2>2
  <2>4. k - 1 \in Nat /\ k - 1 \notin T /\ b <= v - (k - 1)
    BY <1>1, <2>1, <2>2, <2>3
  <2>5. PICK y \in Int : y = v - (k - 1) /\ y = (v - k) + 1 /\ v - k = y - 1
    BY <1>1, <2>2
  <2>6. Q(y)
    BY <2>4, <2>5
  <2>7. Backed(s, y) /\ y \in Virtual
    BY <2>6 DEF Backed
  <2>8. y \notin s.acut
    BY <1>1, <2>2, <2>3, <2>5
  <2>9. y - 1 \in Virtual /\ s.vma[y - 1].type = s.vma[y].type /\ s.vma[y].phys = s.vma[y - 1].phys + 1
    BY <2>7, <2>8 DEF AcutInv
  <2>10. Backed(s, y - 1)
    BY <2>7, <2>9 DEF Backed
  <2>11. s.vma[y - 1].phys \in Int /\ s.vma[y].phys \in Int
    BY <2>7, <2>9, <2>10, BackedIs, Ranges
  <2>12. s.vma[v].phys = s.vma[y - 1].phys + (v - (y - 1))
    BY <1>1, <2>6, <2>9, <2>11
  <2>13. Q(y - 1)
    BY <2>6, <2>9, <2>12
  <2> QED
    BY <2>2, <2>5, <2>13
<1>3. ASSUME NEW x \in b .. v PROVE Q(x)
  <2>1. v - x \in Nat /\ v - (v - x) = x /\ b <= x
    BY <1>1
  <2>2. v - x \notin T
    BY <1>2
  <2> QED
    BY <2>1, <2>2
<1> QED
  BY <1>3

\* The pages of a finite set can be numbered in their order.
LEMMA Numbered ==
  ASSUME NEW b \in Nat, NEW S, S \subseteq 0 .. b
  PROVE  /\ IsFiniteSet(S) /\ Cardinality(S) \in Nat
         /\ \A i \in 0 .. Cardinality(S) - 1 :
              Nth(S, i) \in S /\ Cardinality({q \in S : q < Nth(S, i)}) = i
         /\ \A p \in S : Cardinality({q \in S : q < p}) \in 0 .. Cardinality(S) - 1
         /\ \A p, q \in S : Cardinality({x \in S : x < p}) = Cardinality({x \in S : x < q}) => p = q
<1> DEFINE C == Cardinality(S)
           Below(p) == {q \in S : q < p}
           g == [p \in S |-> Cardinality(Below(p))]
<1>1. IsFiniteSet(0 .. b)
  BY FS_Interval
<1>2. IsFiniteSet(S) /\ C \in Nat
  BY <1>1, FS_Subset, FS_CardinalityType
<1>3. ASSUME NEW p \in S
      PROVE  /\ IsFiniteSet(Below(p)) /\ Cardinality(Below(p)) \in 0 .. C - 1
  <2>1. Below(p) \in SUBSET S /\ p \notin Below(p)
    OBVIOUS
  <2>2. IsFiniteSet(Below(p)) /\ Cardinality(Below(p)) <= C /\ Cardinality(Below(p)) # C
    BY <1>2, <2>1, FS_Subset
  <2>3. Cardinality(Below(p)) \in Nat
    BY <2>2, FS_CardinalityType
  <2> HIDE DEF C, Below
  <2> QED
    BY <1>2, <2>2, <2>3
<1>4. ASSUME NEW p \in S, NEW q \in S, p < q
      PROVE  Cardinality(Below(p)) # Cardinality(Below(q))
  <2>1. p \in Int /\ q \in Int /\ \A k \in S : k \in Int
    OBVIOUS
  <2>2. p \in Below(q) /\ p \notin Below(p)
    BY <1>4, <2>1
  <2>3. Below(p) \in SUBSET Below(q)
    <3> SUFFICES ASSUME NEW k \in S, k < p PROVE k < q
      OBVIOUS
    <3> QED
      BY <1>4, <2>1
  <2> HIDE DEF Below
  <2> QED
    BY <1>3, <2>2, <2>3, FS_Subset
<1>5. \A p, q \in S : Cardinality(Below(p)) = Cardinality(Below(q)) => p = q
  <2>1. \A p \in S : p \in Int
    OBVIOUS
  <2> HIDE DEF Below
  <2> QED
    BY <1>4, <2>1
<1>6. g \in Injection(S, 0 .. C - 1)
  <2>1. g \in [S -> 0 .. C - 1]
    BY <1>3
  <2>2. \A p, q \in S : g[p] = g[q] => p = q
    BY <1>5
  <2> HIDE DEF g, C
  <2> QED
    BY <2>1, <2>2 DEF Injection, IsInjective
<1>7. IsFiniteSet(0 .. C - 1) /\ Cardinality(0 .. C - 1) = C
  <2> HIDE DEF C
  <2>1. 0 \in Int /\ C - 1 \in Int
    BY <1>2
  <2>2. IsFiniteSet(0 .. C - 1) /\ Cardinality(0 .. C - 1) = IF 0 > C - 1 THEN 0 ELSE (C - 1) - 0 + 1
    BY <2>1, FS_Interval
  <2> QED
    BY <1>2, <2>2
<1>8. g \in Surjection(S, 0 .. C - 1)
  BY <1>6, <1>7, FS_Injection
<1>9. ASSUME NEW i \in 0 .. C - 1
      PROVE  Nth(S, i) \in S /\ Cardinality(Below(Nth(S, i))) = i
  <2>1. \E p \in S : Cardinality(Below(p)) = i
    BY <1>8 DEF Surjection
  <2> QED
    BY <2>1 DEF Nth
<1> QED
  BY <1>2, <1>3, <1>5, <1>9

-----------------------------------------------------------------------------
(* Where pieces begin and end, counting, and what the VMAs use             *)

\* Between two ends a set of pages goes on or stays away, and is not cut.
LEMMA EndsIs ==
  ASSUME NEW S, S \subseteq Int, NEW cuts
  PROVE  /\ \A x \in Int : x \notin Ends(S, cuts) =>
              (x \in S <=> x - 1 \in S) /\ (x \in S => x \notin cuts)
         /\ \A x \in Ends(S, cuts) : x \in Int /\ (x \in S \/ x - 1 \in S)
<1>1. ASSUME NEW x \in Int, x \notin Ends(S, cuts)
      PROVE  (x \in S <=> x - 1 \in S) /\ (x \in S => x \notin cuts)
  <2>1. x \in S => x - 1 \in S /\ x \notin cuts
    BY <1>1 DEF Ends, Starts
  <2>2. ASSUME x - 1 \in S, x \notin S PROVE FALSE
    <3>1. (x - 1) + 1 = x
      OBVIOUS
    <3>2. x - 1 \in {y \in S : y + 1 \notin S}
      BY <2>2, <3>1
    <3> QED
      BY <1>1, <3>1, <3>2 DEF Ends
  <2> QED
    BY <2>1, <2>2
<1>2. ASSUME NEW x \in Ends(S, cuts)
      PROVE  x \in Int /\ (x \in S \/ x - 1 \in S)
  <2>1. CASE x \in Starts(S, cuts)
    BY <2>1 DEF Starts
  <2>2. CASE \E y \in S : x = y + 1
    <3>1. PICK y \in S : x = y + 1
      BY <2>2
    <3>2. y \in Int /\ x \in Int /\ x - 1 = y
      BY <3>1
    <3> QED
      BY <3>2
  <2> QED
    BY <2>1, <2>2 DEF Ends
<1> QED
  BY <1>1, <1>2

\* Whether areas merge depends on the map only.
LEMMA MergeSame ==
  ASSUME NEW s, NEW r
  PROVE  /\ s.phys = r.phys => \A p : PhysMerge(s, p) <=> PhysMerge(r, p)
         /\ s.vma = r.vma => \A v : (VmaMerge(s, v) <=> VmaMerge(r, v)) /\ (Backed(s, v) <=> Backed(r, v))
BY DEF PhysMerge, VmaMerge, Backed

\* A free page is one.
LEMMA FreePageIs ==
  /\ FreePage \in VmaPage /\ FreePage.type = "Free" /\ FreePage.phys = None /\ FreePage.mtype = 0
  /\ None \in Physical \cup {None}
BY DEF FreePage, Page, VmaPage

\* Pages that are backed, and pages that share their backing with none.
LEMMA SoleIs ==
  ASSUME NEW s \in State, NEW v
  PROVE  /\ Sole(s, v) => Backed(s, v)
         /\ Backed(s, v) => Sole(s, v) \/ (s.vma[v].type = "Direct" /\ s.aliased)
         /\ Backed(s, v) /\ ~s.aliased => Sole(s, v)
         /\ Sole(s, v) /\ s.aliased => s.vma[v].type \in {"Flexible", "Pooled"}
         /\ s.vma[v].type \in {"Flexible", "Pooled"} => Sole(s, v)
         /\ s.vma[v].type = "Direct" => Backed(s, v)
BY DEF Sole, Backed

\* Inside one of the phys_areas of a set of pages none of some of the areas begins or ends:
\* of B, which has the page and the one before it, or neither.
LEMMA PhysEndsInside ==
  ASSUME NEW s \in State, KindInv(s), UseInv(s), AcutInv(s), ~s.aliased, NEW S \in SUBSET Virtual,
         \A u \in S : Backed(s, u), NEW v \in S, v \notin Starts(S, s.acut), NEW B \in SUBSET S,
         v \in B <=> v - 1 \in B
  PROVE  s.vma[v].phys \notin PhysEnds(s, B)
<1> SUFFICES ASSUME s.vma[v].phys \in PhysEnds(s, B) PROVE FALSE
  OBVIOUS
<1>1. \A u \in S : u \in Virtual /\ u \in Int /\ Sole(s, u) /\ s.vma[u].phys \in Int
  BY BackedIs, SoleIs, Ranges
<1>2. v - 1 \in S /\ v \notin s.acut
  BY DEF Starts
<1>3. s.vma[v].phys = s.vma[v - 1].phys + 1
  BY <1>1, <1>2 DEF AcutInv
<1>4. CASE \E u \in Starts(B, s.acut) : s.vma[v].phys = s.vma[u].phys
  <2>1. PICK u \in Starts(B, s.acut) : s.vma[v].phys = s.vma[u].phys
    BY <1>4
  <2>2. u \in S /\ u \in B /\ (u - 1 \notin B \/ u \in s.acut)
    BY <2>1 DEF Starts
  <2>3. u = v
    BY <1>1, <2>1, <2>2 DEF UseInv
  <2> QED
    BY <1>2, <2>2, <2>3
<1>5. CASE \E u \in B : (u + 1 \notin B \/ u + 1 \in s.acut) /\ s.vma[v].phys = s.vma[u].phys + 1
  <2>1. PICK u \in B : (u + 1 \notin B \/ u + 1 \in s.acut) /\ s.vma[v].phys = s.vma[u].phys + 1
    BY <1>5
  <2>2. s.vma[u].phys = s.vma[v - 1].phys
    BY <1>1, <1>2, <1>3, <2>1
  <2>3. u = v - 1
    BY <1>1, <1>2, <2>2 DEF UseInv
  <2>4. u + 1 = v
    BY <1>1, <2>3
  <2> QED
    BY <1>2, <2>1, <2>3, <2>4
<1> QED
  BY <1>4, <1>5 DEF PhysEnds

\* The pieces before that of a page which does not begin one have neither the page nor the
\* one before it.
LEMMA BeforeIs ==
  ASSUME NEW s, NEW S \in SUBSET Virtual, NEW v \in S, v \notin Starts(S, s.acut)
  PROVE  /\ Before(s, S, v) \in SUBSET S
         /\ v \notin Before(s, S, v) /\ v - 1 \notin Before(s, S, v)
<1>1. v \in Int /\ \A b \in Starts(S, s.acut) : b \in Int /\ b # v
  BY Ranges DEF Starts
<1> QED
  BY <1>1 DEF Before

\* The pages behind pages of one type.
Behind(s, S, type) == {s.vma[v].phys : v \in Typed(s, S, {type})}

\* Which pages these are: of direct and pooled memory in dmem_map, of flexible memory in
\* fmem_map, and none of two types.
LEMMA BehindIs ==
  ASSUME NEW s \in State, KindInv(s), UseInv(s), NEW S \in SUBSET Virtual,
         NEW D, D = Behind(s, S, "Direct"), NEW F, F = Behind(s, S, "Flexible"),
         NEW C, C = Behind(s, S, "Pooled")
  PROVE  /\ D \subseteq Direct /\ F \subseteq Flexible /\ C \subseteq Direct
         /\ D \cap F = {} /\ C \cap F = {} /\ C \cap D = {}
         /\ \A p \in D : s.phys[p].dma \in {"Mapped", "Allocated"}
         /\ \A p \in F : s.phys[p].dma = "Flexible"
         /\ \A p \in C : s.phys[p].dma = "Committed"
         /\ \A v \in S : /\ s.vma[v].type = "Direct" => s.vma[v].phys \in D
                         /\ s.vma[v].type = "Flexible" => s.vma[v].phys \in F
                         /\ s.vma[v].type = "Pooled" => s.vma[v].phys \in C
         /\ \A v \in S : Backed(s, v) <=> s.vma[v].phys \in D \cup F \cup C
<1>1. ASSUME NEW p \in D PROVE p \in Direct /\ s.phys[p].dma \in {"Mapped", "Allocated"}
  <2>1. PICK v \in S : s.vma[v].type = "Direct" /\ p = s.vma[v].phys
    BY <1>1 DEF Behind, Typed
  <2> QED
    BY <2>1 DEF KindInv, UseInv
<1>2. ASSUME NEW p \in F PROVE p \in Flexible /\ s.phys[p].dma = "Flexible"
  <2>1. PICK v \in S : s.vma[v].type = "Flexible" /\ p = s.vma[v].phys
    BY <1>2 DEF Behind, Typed
  <2>2. Sole(s, v)
    BY <2>1, SoleIs
  <2> QED
    BY <2>1, <2>2 DEF KindInv, UseInv, UseOf
<1>3. ASSUME NEW p \in C PROVE p \in Direct /\ s.phys[p].dma = "Committed"
  <2>1. PICK v \in S : s.vma[v].type = "Pooled" /\ p = s.vma[v].phys
    BY <1>3 DEF Behind, Typed
  <2>2. Sole(s, v)
    BY <2>1, SoleIs
  <2> QED
    BY <2>1, <2>2 DEF KindInv, UseInv, UseOf
<1>4. \A v \in S : /\ s.vma[v].type = "Direct" => s.vma[v].phys \in D
                   /\ s.vma[v].type = "Flexible" => s.vma[v].phys \in F
                   /\ s.vma[v].type = "Pooled" => s.vma[v].phys \in C
  BY DEF Behind, Typed
<1>5. \A v \in S : Backed(s, v) <=> s.vma[v].phys \in D \cup F \cup C
  <2>1. \A v \in S : ~Backed(s, v) => s.vma[v].phys = None
    BY DEF KindInv
  <2>2. None \notin D \cup F \cup C
    BY <1>1, <1>2, <1>3, Ranges
  <2> QED
    BY <1>4, <2>1, <2>2 DEF Backed
<1> HIDE DEF Behind
<1> QED
  BY <1>1, <1>2, <1>3, <1>4, <1>5

\* What is given back: direct memory stays allocated, flexible memory becomes free, that of
\* the pool is pooled again, all with their memory types.
LEMMA GivenBackIs ==
  ASSUME NEW s \in State, KindInv(s), UseInv(s), NEW S \in SUBSET Virtual,
         NEW D, D = Behind(s, S, "Direct"), NEW F, F = Behind(s, S, "Flexible"),
         NEW C, C = Behind(s, S, "Pooled"), NEW r, r = GivenBack(s, S)
  PROVE  /\ r \in State /\ r.vma = s.vma /\ r.vcut = s.vcut /\ r.acut = s.acut /\ r.host = s.host
         /\ r.flexible_usage = s.flexible_usage /\ r.pool_budget = s.pool_budget
         /\ r.abort = s.abort /\ r.torn = s.torn /\ r.aliased = s.aliased
         /\ \A p \in D : r.phys[p].dma = "Allocated" /\ r.phys[p].mtype = s.phys[p].mtype
         /\ \A p \in F : r.phys[p].dma = "Free" /\ r.phys[p].mtype = s.phys[p].mtype
         /\ \A p \in C : r.phys[p].dma = "Pooled" /\ r.phys[p].mtype = s.phys[p].mtype
         /\ \A p \in Physical \ (D \cup F \cup C) : r.phys[p] = s.phys[p]
         /\ r.pcut = (s.pcut \cup (PhysEnds(s, S) \cap Physical))
                       \ {p \in PhysEnds(s, S) \cap Physical : PhysMerge(r, p)}
<1> DEFINE P1 == Painted(s, F, "Free", None)
           s1 == [s EXCEPT !.phys = P1]
           P2 == Painted(s1, D, "Allocated", None)
           s2 == [s EXCEPT !.phys = P2]
           P3 == Painted(s2, C, "Pooled", None)
           s3 == [s EXCEPT !.phys = P3]
<1>1. /\ D \in SUBSET Physical /\ F \in SUBSET Physical /\ C \in SUBSET Physical
      /\ D \cap F = {} /\ C \cap F = {} /\ C \cap D = {}
  BY BehindIs, Ranges
<1>2. r = PhysCarved(s3, PhysEnds(s, S))
  BY DEF GivenBack, Behind
<1>3. /\ P1 \in [Physical -> PhysPage]
      /\ \A p \in Physical \ F : P1[p] = s.phys[p]
      /\ \A p \in F : P1[p].dma = "Free" /\ P1[p].mtype = s.phys[p].mtype
  <2>1. "Free" \in DmaTypes /\ F \in SUBSET Physical
    BY <1>1, DmaTypesAre
  <2> QED
    BY <2>1, PaintedKeeps
<1> HIDE DEF P1
<1>4. s1 \in State /\ s1.phys = P1
  BY <1>3 DEF State
<1> HIDE DEF s1
<1>5. /\ P2 \in [Physical -> PhysPage]
      /\ \A p \in Physical \ D : P2[p] = P1[p]
      /\ \A p \in D : P2[p].dma = "Allocated" /\ P2[p].mtype = P1[p].mtype
  <2>1. "Allocated" \in DmaTypes /\ D \in SUBSET Physical
    BY <1>1, DmaTypesAre
  <2> QED
    BY <1>4, <2>1, PaintedKeeps
<1> HIDE DEF P2
<1>6. s2 \in State /\ s2.phys = P2
  BY <1>5 DEF State
<1> HIDE DEF s2
<1>7. /\ P3 \in [Physical -> PhysPage]
      /\ \A p \in Physical \ C : P3[p] = P2[p]
      /\ \A p \in C : P3[p].dma = "Pooled" /\ P3[p].mtype = P2[p].mtype
  <2>1. "Pooled" \in DmaTypes
    BY DmaTypesAre
  <2> QED
    BY <1>1, <1>6, <2>1, PaintedKeeps
<1> HIDE DEF P3
<1>8. /\ s3 \in State /\ s3.phys = P3 /\ s3.vma = s.vma /\ s3.vcut = s.vcut /\ s3.acut = s.acut
      /\ s3.host = s.host /\ s3.flexible_usage = s.flexible_usage /\ s3.pool_budget = s.pool_budget
      /\ s3.abort = s.abort /\ s3.torn = s.torn /\ s3.aliased = s.aliased /\ s3.pcut = s.pcut
  BY <1>7 DEF State
<1> HIDE DEF s3
<1>9. /\ r \in State /\ r.phys = P3 /\ r.vma = s.vma /\ r.vcut = s.vcut /\ r.acut = s.acut
      /\ r.host = s.host /\ r.flexible_usage = s.flexible_usage /\ r.pool_budget = s.pool_budget
      /\ r.abort = s.abort /\ r.torn = s.torn /\ r.aliased = s.aliased
      /\ r.pcut = (s.pcut \cup (PhysEnds(s, S) \cap Physical))
                    \ {p \in PhysEnds(s, S) \cap Physical : PhysMerge(s3, p)}
  BY <1>2, <1>8, PhysCarvedIs
<1>10. \A p : PhysMerge(s3, p) <=> PhysMerge(r, p)
  BY <1>8, <1>9, MergeSame
<1>11. /\ \A p \in D : P3[p].dma = "Allocated" /\ P3[p].mtype = s.phys[p].mtype
       /\ \A p \in F : P3[p].dma = "Free" /\ P3[p].mtype = s.phys[p].mtype
       /\ \A p \in C : P3[p].dma = "Pooled" /\ P3[p].mtype = s.phys[p].mtype
       /\ \A p \in Physical \ (D \cup F \cup C) : P3[p] = s.phys[p]
  <2>1. /\ \A p \in D : p \in Physical \ C /\ p \in Physical \ F
        /\ \A p \in F : p \in Physical \ C /\ p \in Physical \ D
        /\ \A p \in C : p \in Physical \ D /\ p \in Physical \ F
    BY <1>1
  <2> QED
    BY <1>3, <1>5, <1>7, <2>1
<1> QED
  BY <1>9, <1>10, <1>11

\* Where the physical pages behind pages that are backed begin and end.  As long as no direct
\* memory is mapped twice no other area is cut there, and CarvePhysArea finds its pieces
\* inside one area.
LEMMA PhysEndsIs ==
  ASSUME NEW s \in State, KindInv(s), UseInv(s), AcutInv(s), NEW S \in SUBSET Virtual,
         \A v \in S : Backed(s, v), NEW Q, Q = {s.vma[v].phys : v \in S}
  PROVE  /\ Q \subseteq Physical
         /\ \A p \in Int : p \notin PhysEnds(s, S) => (p \in Q <=> p - 1 \in Q)
         /\ ~s.aliased => \A v \in Virtual \ S : Backed(s, v) /\ Backed(s, v - 1) /\ v - 1 \in Virtual \ S
              /\ s.vma[v].phys = s.vma[v - 1].phys + 1 => s.vma[v].phys \notin PhysEnds(s, S)
         /\ ~s.aliased => ~PhysTorn(s, S)
<1>1. \A v \in S : v \in Int /\ s.vma[v].phys \in Physical /\ s.vma[v].phys \in Int
  BY BackedIs, Ranges
<1>2. ASSUME NEW p \in Int, p \notin PhysEnds(s, S), p \in Q PROVE p - 1 \in Q
  <2>1. PICK v \in S : p = s.vma[v].phys
    BY <1>2
  <2>2. v - 1 \in S /\ v \notin s.acut
    BY <1>2, <2>1 DEF PhysEnds, Starts
  <2>3. s.vma[v].phys = s.vma[v - 1].phys + 1
    BY <2>2 DEF AcutInv
  <2> QED
    BY <1>1, <2>1, <2>2, <2>3
<1>3. ASSUME NEW p \in Int, p \notin PhysEnds(s, S), p - 1 \in Q PROVE p \in Q
  <2>1. PICK v \in S : p - 1 = s.vma[v].phys
    BY <1>3
  <2>2. p = s.vma[v].phys + 1
    BY <1>1, <2>1
  <2>3. v + 1 \in S /\ v + 1 \notin s.acut
    BY <1>3, <2>2 DEF PhysEnds
  <2>4. PICK w \in S : w = v + 1 /\ w - 1 = v /\ w \notin s.acut
    BY <1>1, <2>3
  <2>5. s.vma[w].phys = s.vma[v].phys + 1
    BY <2>4 DEF AcutInv
  <2> QED
    BY <2>2, <2>5
<1>4. ASSUME ~s.aliased, NEW v \in Virtual \ S, Backed(s, v), Backed(s, v - 1), v - 1 \in Virtual \ S,
             s.vma[v].phys = s.vma[v - 1].phys + 1, s.vma[v].phys \in PhysEnds(s, S)
      PROVE  FALSE
  <2>0. Sole(s, v) /\ Sole(s, v - 1) /\ \A u \in S : Sole(s, u)
    BY <1>4, SoleIs
  <2>1. CASE \E u \in S : s.vma[v].phys = s.vma[u].phys
    BY <1>4, <2>0, <2>1 DEF UseInv
  <2>2. CASE \E u \in S : s.vma[v].phys = s.vma[u].phys + 1
    <3>1. PICK u \in S : s.vma[v].phys = s.vma[u].phys + 1
      BY <2>2
    <3>2. s.vma[v - 1].phys \in Int
      BY <1>4, BackedIs, Ranges
    <3>3. s.vma[v - 1].phys = s.vma[u].phys
      BY <1>1, <1>4, <3>1, <3>2
    <3> QED
      BY <1>4, <2>0, <3>3 DEF UseInv
  <2> QED
    BY <1>4, <2>1, <2>2 DEF PhysEnds, Starts
<1>5. ASSUME ~s.aliased, PhysTorn(s, S) PROVE FALSE
  <2>1. PICK v \in S \ Starts(S, s.acut) : s.vma[v].phys \in GivenBack(s, Before(s, S, v)).pcut
    BY <1>5 DEF PhysTorn
  <2>2. /\ Before(s, S, v) \in SUBSET S /\ Before(s, S, v) \in SUBSET Virtual
        /\ v \notin Before(s, S, v) /\ v - 1 \notin Before(s, S, v)
    BY <2>1, BeforeIs
  <2>3. s.vma[v].phys \notin PhysEnds(s, Before(s, S, v))
    BY <1>5, <2>1, <2>2, PhysEndsInside
  <2>4. s.vma[v].phys \in s.pcut \cup PhysEnds(s, Before(s, S, v))
    BY <2>1, <2>2, GivenBackIs
  <2>5. v \notin s.acut
    BY <2>1 DEF Starts
  <2> QED
    BY <1>5, <2>1, <2>3, <2>4, <2>5 DEF AcutInv
<1> QED
  BY <1>1, <1>2, <1>3, <1>4, <1>5

\* Pages W of the VMAs have changed, and the pages Q of the physical maps, which are those
\* that W used or uses.  Another page uses one of Q only where direct memory is mapped twice.
UseStep(s, r, W, Q) ==
  /\ W \subseteq Virtual /\ Q \subseteq Physical /\ (s.aliased => r.aliased)
  /\ \A v \in Virtual \ W : /\ r.vma[v].type = s.vma[v].type /\ r.vma[v].phys = s.vma[v].phys
                            /\ r.vma[v].mtype = s.vma[v].mtype
  /\ \A p \in Physical \ Q : r.phys[p] = s.phys[p]
  /\ \A v \in W : Backed(s, v) => s.vma[v].phys \in Q
  /\ \A v \in Virtual \ W : Backed(s, v) /\ s.vma[v].phys \in Q =>
       /\ s.vma[v].type = "Direct" /\ r.aliased
       /\ r.phys[s.vma[v].phys].dma \in {"Mapped", "Allocated"}
  /\ \A v \in W : Backed(r, v) => r.vma[v].phys \in Q
  /\ \A v \in W : Sole(r, v) => /\ r.phys[r.vma[v].phys].dma = UseOf[r.vma[v].type]
                                /\ r.phys[r.vma[v].phys].mtype = r.vma[v].mtype
  /\ \A v \in W : r.vma[v].type = "Direct" => r.phys[r.vma[v].phys].dma \in {"Mapped", "Allocated"}
  /\ \A u, v \in W : Sole(r, u) /\ Sole(r, v) /\ r.vma[u].phys = r.vma[v].phys => u = v
  /\ \A p \in Q : r.phys[p].dma \in {"Mapped", "Committed", "Flexible"} =>
       \E v \in W : Backed(r, v) /\ r.vma[v].phys = p

\* What the VMAs use after such a change.
LEMMA UseKept ==
  ASSUME NEW s \in State, NEW r \in State, UseInv(s), KindInv(s), NEW W, NEW Q, UseStep(s, r, W, Q)
  PROVE  UseInv(r)
<1> USE DEF UseStep
<1>1. \A v \in Virtual \ W : /\ Backed(r, v) <=> Backed(s, v)
                             /\ Sole(r, v) => Sole(s, v)
  BY DEF Backed, Sole
<1>2. \A v \in Virtual \ W : Backed(s, v) => s.vma[v].phys \in Physical
  BY BackedIs
<1>3. \A v \in Virtual \ W : Sole(r, v) => s.vma[v].phys \in Physical \ Q
  BY <1>1, <1>2 DEF Sole, Backed
<1>4. \A v \in Virtual : Sole(r, v) =>
        /\ r.phys[r.vma[v].phys].dma = UseOf[r.vma[v].type]
        /\ r.phys[r.vma[v].phys].mtype = r.vma[v].mtype
  <2> SUFFICES ASSUME NEW v \in Virtual, Sole(r, v)
               PROVE  /\ r.phys[r.vma[v].phys].dma = UseOf[r.vma[v].type]
                      /\ r.phys[r.vma[v].phys].mtype = r.vma[v].mtype
    OBVIOUS
  <2>1. CASE v \in W
    BY <2>1
  <2>2. CASE v \notin W
    <3>1. Sole(s, v) /\ r.phys[s.vma[v].phys] = s.phys[s.vma[v].phys]
      BY <1>1, <1>3, <2>2
    <3>2. /\ s.phys[s.vma[v].phys].dma = UseOf[s.vma[v].type]
          /\ s.phys[s.vma[v].phys].mtype = s.vma[v].mtype
      BY <3>1 DEF UseInv
    <3> QED
      BY <2>2, <3>1, <3>2
  <2> QED
    BY <2>1, <2>2
<1>5. ASSUME NEW v \in Virtual, r.vma[v].type = "Direct"
      PROVE  r.phys[r.vma[v].phys].dma \in {"Mapped", "Allocated"}
  <2>1. CASE v \in W
    BY <1>5, <2>1
  <2>2. CASE v \notin W /\ s.vma[v].phys \in Q
    <3>1. Backed(s, v)
      BY <1>5, <2>2 DEF Backed
    <3> QED
      BY <2>2, <3>1
  <2>3. CASE v \notin W /\ s.vma[v].phys \notin Q
    <3>1. Backed(s, v) /\ s.vma[v].type = "Direct"
      BY <1>5, <2>3 DEF Backed
    <3>2. r.phys[s.vma[v].phys] = s.phys[s.vma[v].phys]
      BY <1>2, <2>3, <3>1
    <3>3. s.phys[s.vma[v].phys].dma \in {"Mapped", "Allocated"}
      BY <3>1 DEF UseInv
    <3> QED
      BY <2>3, <3>2, <3>3
  <2> QED
    BY <2>1, <2>2, <2>3
<1>6. ASSUME NEW u \in Virtual, NEW v \in Virtual, Sole(r, u), Sole(r, v), r.vma[u].phys = r.vma[v].phys
      PROVE  u = v
  <2>0. Backed(r, u) /\ Backed(r, v)
    BY <1>6 DEF Sole
  <2>1. CASE u \in W /\ v \in W
    BY <1>6, <2>1
  <2>2. CASE u \notin W /\ v \notin W
    BY <1>1, <1>6, <2>2 DEF UseInv
  <2>3. CASE u \in W /\ v \notin W
    BY <1>3, <1>6, <2>0, <2>3
  <2>4. CASE u \notin W /\ v \in W
    BY <1>3, <1>6, <2>0, <2>4
  <2> QED
    BY <2>1, <2>2, <2>3, <2>4
<1>7. ASSUME NEW p \in Physical, r.phys[p].dma \in {"Mapped", "Committed", "Flexible"}
      PROVE  \E v \in Virtual : Backed(r, v) /\ r.vma[v].phys = p
  <2>1. CASE p \in Q
    BY <1>7, <2>1
  <2>2. CASE p \notin Q
    <3>1. s.phys[p].dma \in {"Mapped", "Committed", "Flexible"}
      BY <1>7, <2>2
    <3>2. PICK v \in Virtual : Backed(s, v) /\ s.vma[v].phys = p
      BY <3>1 DEF UseInv
    <3>3. v \notin W
      BY <2>2, <3>2
    <3> QED
      BY <1>1, <3>2, <3>3
  <2> QED
    BY <2>1, <2>2
<1> QED
  BY <1>4, <1>5, <1>6, <1>7 DEF UseInv

\* A page that is not in use backs nothing but direct memory that was mapped twice, and
\* then it is allocated.
LEMMA NotUsed ==
  ASSUME NEW s \in State, UseInv(s), KindInv(s), NEW p \in Physical,
         s.phys[p].dma \notin {"Mapped", "Committed", "Flexible"}, NEW v \in Virtual,
         Backed(s, v), s.vma[v].phys = p
  PROVE  s.vma[v].type = "Direct" /\ s.aliased /\ s.phys[p].dma = "Allocated"
<1>1. s.vma[v].type \in {"Direct", "Flexible", "Pooled"}
  BY DEF Backed
<1>2. UseOf[s.vma[v].type] \in {"Mapped", "Committed", "Flexible"}
  BY <1>1 DEF UseOf
<1>3. ~Sole(s, v)
  BY <1>2 DEF UseInv
<1>4. s.vma[v].type = "Direct" /\ s.aliased
  BY <1>3, SoleIs
<1> QED
  BY <1>4 DEF UseInv

\* The sets of pages the counters are about are finite.
LEMMA DmaFinite ==
  ASSUME NEW s, NEW d
  PROVE  /\ IsFiniteSet(Dma(s, Flexible, d)) /\ Cardinality(Dma(s, Flexible, d)) \in 0 .. NumFlexible
         /\ IsFiniteSet(Dma(s, Direct, d)) /\ Cardinality(Dma(s, Direct, d)) \in 0 .. NumDirect
         /\ IsFiniteSet(Flexible) /\ Cardinality(Flexible) = NumFlexible /\ IsFiniteSet(Direct)
         /\ Dma(s, Flexible, d) \subseteq Flexible /\ Dma(s, Direct, d) \subseteq Direct
<1>1. NumDirect \in Int /\ NumDirect + NumFlexible - 1 \in Int /\ NumDirect - 1 \in Int /\ 0 \in Int
      /\ NumDirect \in Nat \ {0} /\ NumFlexible \in Nat \ {0}
  BY Ranges
<1>2. IsFiniteSet(Flexible) /\ Cardinality(Flexible) = NumFlexible
  <2>1. /\ IsFiniteSet(Flexible)
        /\ Cardinality(Flexible) = IF NumDirect > NumDirect + NumFlexible - 1 THEN 0
                                   ELSE (NumDirect + NumFlexible - 1) - NumDirect + 1
    BY <1>1, FS_Interval DEF Flexible
  <2> QED
    BY <1>1, <2>1
<1>3. IsFiniteSet(Direct) /\ Cardinality(Direct) = NumDirect
  <2>1. /\ IsFiniteSet(Direct)
        /\ Cardinality(Direct) = IF 0 > NumDirect - 1 THEN 0 ELSE (NumDirect - 1) - 0 + 1
    BY <1>1, FS_Interval DEF Direct
  <2> QED
    BY <1>1, <2>1
<1>4. Dma(s, Flexible, d) \in SUBSET Flexible /\ Dma(s, Direct, d) \in SUBSET Direct
  BY DEF Dma
<1>5. IsFiniteSet(Dma(s, Flexible, d)) /\ Cardinality(Dma(s, Flexible, d)) <= NumFlexible
  BY <1>2, <1>4, FS_Subset
<1>6. IsFiniteSet(Dma(s, Direct, d)) /\ Cardinality(Dma(s, Direct, d)) <= NumDirect
  BY <1>3, <1>4, FS_Subset
<1>7. Cardinality(Dma(s, Flexible, d)) \in Nat /\ Cardinality(Dma(s, Direct, d)) \in Nat
  BY <1>5, <1>6, FS_CardinalityType
<1> QED
  BY <1>1, <1>2, <1>3, <1>4, <1>5, <1>6, <1>7

\* To add pages to a set or to take pages away changes its size by their number.
LEMMA Counted ==
  ASSUME NEW S, NEW T, IsFiniteSet(S), IsFiniteSet(T)
  PROVE  /\ S \cap T = {} => Cardinality(S \cup T) = Cardinality(S) + Cardinality(T)
         /\ T \subseteq S => Cardinality(S \ T) = Cardinality(S) - Cardinality(T)
<1>1. Cardinality(S) \in Nat /\ Cardinality(T) \in Nat /\ Cardinality({}) = 0
  BY FS_CardinalityType, FS_EmptySet
<1>2. Cardinality(S \cup T) = Cardinality(S) + Cardinality(T) - Cardinality(S \cap T)
  BY FS_Union
<1>3. Cardinality(S \ T) = Cardinality(S) - Cardinality(S \cap T)
  BY FS_Difference
<1>4. ASSUME S \cap T = {} PROVE Cardinality(S \cup T) = Cardinality(S) + Cardinality(T)
  <2>1. Cardinality(S \cap T) = 0
    BY <1>1, <1>4
  <2> QED
    BY <1>1, <1>2, <2>1
<1>5. ASSUME T \subseteq S PROVE Cardinality(S \ T) = Cardinality(S) - Cardinality(T)
  <2>1. S \cap T = T
    BY <1>5
  <2> QED
    BY <1>3, <2>1
<1> QED
  BY <1>4, <1>5

\* The pages that come first are as many as asked for, and numbered.
LEMMA FirstIs ==
  ASSUME NEW b \in Nat, NEW S, S \subseteq 0 .. b, NEW n \in Nat, n <= Cardinality(S)
  PROVE  /\ First(S, n) \subseteq S /\ IsFiniteSet(First(S, n)) /\ Cardinality(First(S, n)) = n
         /\ \A i \in 0 .. n - 1 : Nth(S, i) \in First(S, n)
         /\ \A p \in First(S, n) : \E i \in 0 .. n - 1 : p = Nth(S, i)
         /\ \A i, j \in 0 .. n - 1 : Nth(S, i) = Nth(S, j) => i = j
<1> DEFINE B(p) == Cardinality({q \in S : q < p})
           C == Cardinality(S)
           f == [i \in 0 .. n - 1 |-> Nth(S, i)]
<1>1. /\ IsFiniteSet(S) /\ C \in Nat
      /\ \A i \in 0 .. C - 1 : Nth(S, i) \in S /\ B(Nth(S, i)) = i
      /\ \A p \in S : B(p) \in 0 .. C - 1
      /\ \A p, q \in S : B(p) = B(q) => p = q
  BY Numbered
<1>2. First(S, n) = {p \in S : B(p) < n}
  BY DEF First
<1> HIDE DEF B
<1>3. \A i \in 0 .. n - 1 : i \in 0 .. C - 1 /\ i \in Int /\ i < n
  BY <1>1
<1> HIDE DEF C
<1>4. \A i \in 0 .. n - 1 : Nth(S, i) \in First(S, n) /\ B(Nth(S, i)) = i
  BY <1>1, <1>2, <1>3
<1>5. ASSUME NEW p \in First(S, n) PROVE \E i \in 0 .. n - 1 : p = Nth(S, i)
  <2>1. p \in S /\ B(p) < n /\ B(p) \in 0 .. C - 1
    BY <1>1, <1>2
  <2>2. B(p) \in 0 .. n - 1
    BY <1>1, <2>1
  <2>3. Nth(S, B(p)) \in S /\ B(Nth(S, B(p))) = B(p)
    BY <1>1, <2>1
  <2> QED
    BY <1>1, <2>1, <2>2, <2>3
<1>6. f \in Bijection(0 .. n - 1, First(S, n))
  <2>1. f \in [0 .. n - 1 -> First(S, n)]
    BY <1>4
  <2>2. \A i, j \in 0 .. n - 1 : f[i] = f[j] => i = j
    BY <1>4
  <2>3. \A p \in First(S, n) : \E i \in 0 .. n - 1 : f[i] = p
    BY <1>5
  <2> HIDE DEF f
  <2> QED
    BY <2>1, <2>2, <2>3 DEF Bijection, Injection, Surjection, IsInjective
<1>7. IsFiniteSet(0 .. n - 1) /\ Cardinality(0 .. n - 1) = n
  <2>1. 0 \in Int /\ n - 1 \in Int
    OBVIOUS
  <2>2. IsFiniteSet(0 .. n - 1) /\ Cardinality(0 .. n - 1) = IF 0 > n - 1 THEN 0 ELSE (n - 1) - 0 + 1
    BY <2>1, FS_Interval
  <2> QED
    BY <2>2
<1>8. IsFiniteSet(First(S, n)) /\ Cardinality(First(S, n)) = n
  BY <1>6, <1>7, FS_Bijection DEF ExistsBijection
<1>9. First(S, n) \subseteq S
  BY <1>2
<1> QED
  BY <1>4, <1>5, <1>8, <1>9

\* A request has as many pages as its size.
LEMMA PagesCount ==
  ASSUME NEW a \in Int, NEW n \in Sizes
  PROVE  IsFiniteSet(Pages(a, n)) /\ Cardinality(Pages(a, n)) = n
<1>1. n \in Nat \ {0} /\ a + n - 1 \in Int
  BY PagesIs
<1>2. IsFiniteSet(Pages(a, n)) /\ Cardinality(Pages(a, n)) = IF a > a + n - 1 THEN 0 ELSE (a + n - 1) - a + 1
  BY <1>1, FS_Interval DEF Pages
<1> QED
  BY <1>1, <1>2

\* As many physical pages as pages that they back, of those that share none.
LEMMA BackingCount ==
  ASSUME NEW s \in State, UseInv(s), NEW S \in SUBSET Virtual, \A v \in S : Sole(s, v)
  PROVE  /\ IsFiniteSet(S) /\ IsFiniteSet({s.vma[v].phys : v \in S})
         /\ Cardinality({s.vma[v].phys : v \in S}) = Cardinality(S)
<1> DEFINE Q == {s.vma[v].phys : v \in S}
           f == [v \in S |-> s.vma[v].phys]
<1>1. IsFiniteSet(Virtual)
  BY Ranges, FS_Interval DEF Virtual
<1>2. IsFiniteSet(S)
  BY <1>1, FS_Subset
<1>3. f \in Bijection(S, Q)
  <2>1. f \in [S -> Q] /\ \A q \in Q : \E v \in S : f[v] = q
    OBVIOUS
  <2>2. \A u, v \in S : f[u] = f[v] => u = v
    BY DEF UseInv
  <2> HIDE DEF f, Q
  <2> QED
    BY <2>1, <2>2 DEF Bijection, Injection, Surjection, IsInjective
<1> HIDE DEF Q
<1>4. IsFiniteSet(Q) /\ Cardinality(Q) = Cardinality(S)
  BY <1>2, <1>3, FS_Bijection DEF ExistsBijection
<1> QED
  BY <1>2, <1>4 DEF Q

-----------------------------------------------------------------------------
(* Unmapping                                                               *)

\* The pages UnmapMemoryImpl takes.
Gone(s, pages) == {v \in pages : s.vma[v].type \notin {"Free", "Pooled"}}

\* What UnmapMemoryImpl does to the fields of a state: the pages in gone become free, the
\* direct pages D behind them allocated, the flexible pages F free.
Unmapped(s, r, gone, S, D, F) ==
  /\ r \in State /\ D \subseteq Direct /\ F \subseteq Flexible /\ D \cup F = {s.vma[v].phys : v \in S}
  /\ \A p \in D : s.phys[p].dma \in {"Mapped", "Allocated"}
  /\ \A p \in F : s.phys[p].dma = "Flexible"
  /\ \A v \in gone : r.vma[v] = FreePage
  /\ \A v \in Virtual \ gone : r.vma[v] = s.vma[v]
  /\ \A v \in S : r.host[v] = None
  /\ \A v \in Virtual \ S : r.host[v] = s.host[v]
  /\ \A p \in D : r.phys[p].dma = "Allocated" /\ r.phys[p].mtype = s.phys[p].mtype
  /\ \A p \in F : r.phys[p].dma = "Free" /\ r.phys[p].mtype = s.phys[p].mtype
  /\ \A p \in Physical \ (D \cup F) : r.phys[p] = s.phys[p]
  /\ r.flexible_usage = s.flexible_usage - Cardinality(F) /\ r.pool_budget = s.pool_budget
  /\ r.abort = FALSE /\ (r.torn => r.aliased) /\ r.aliased = s.aliased
  /\ r.pcut = (s.pcut \cup (PhysEnds(s, S) \cap Physical))
                \ {p \in PhysEnds(s, S) \cap Physical : PhysMerge(r, p)}
  /\ r.vcut = (s.vcut \cup (Ends(gone, s.vcut) \cap Virtual))
                \ {v \in Ends(gone, s.vcut) \cap Virtual : VmaMerge(r, v)}
  /\ r.acut = {v \in s.acut \cup (Ends(gone, s.vcut) \cap Virtual) : Backed(r, v)}

\* UnmapMemoryImpl does that.
LEMMA UnmapIs ==
  ASSUME NEW s, Good(s), NEW pages \in SUBSET Virtual, NEW r, r = UnmapMemoryImpl(s, pages),
         NEW gone, gone = Gone(s, pages), NEW S, S = Typed(s, gone, {"Direct", "Flexible"}),
         NEW D, D = Behind(s, S, "Direct"), NEW F, F = Behind(s, S, "Flexible")
  PROVE  Unmapped(s, r, gone, S, D, F)
<1> DEFINE s0 == GivenBack(s, S)
           T == Typed(s, gone, {"Flexible"})
           V2 == Over([v \in gone |-> FreePage], s0.vma)
           H2 == Over([v \in S |-> None], s0.host)
           u2 == s0.flexible_usage - Cardinality(T)
           t2 == s0.torn \/ PhysTorn(s, S)
           s1 == [s0 EXCEPT !.vma = V2, !.host = H2, !.flexible_usage = u2, !.torn = t2]
<1>1. /\ s \in State /\ KindInv(s) /\ UseInv(s) /\ AcutInv(s) /\ s.abort = FALSE
      /\ s.torn \in BOOLEAN /\ s.aliased \in BOOLEAN /\ (s.torn => s.aliased)
  BY Fields DEF Good, MapInv, CutInv
<1>2. gone \in SUBSET Virtual /\ S \in SUBSET Virtual
  BY DEF Gone, Typed
<1>3. \A v \in S : Backed(s, v) /\ s.vma[v].type # "Pooled"
  BY DEF Backed, Typed
<1>4. PICK C : C = Behind(s, S, "Pooled")
  OBVIOUS
<1>5. C = {}
  BY <1>3, <1>4 DEF Behind, Typed
<1>6. /\ D \subseteq Direct /\ F \subseteq Flexible /\ D \cap F = {}
      /\ \A p \in D : s.phys[p].dma \in {"Mapped", "Allocated"}
      /\ \A p \in F : s.phys[p].dma = "Flexible"
  BY <1>1, <1>2, <1>4, BehindIs
<1>7. D \cup F = {s.vma[v].phys : v \in S}
  BY DEF Behind, Typed
<1>8. Cardinality(T) = Cardinality(F) /\ Cardinality(F) \in Nat
  <2>1. F = {s.vma[v].phys : v \in T}
    BY DEF Behind, Typed
  <2>2. T \in SUBSET Virtual /\ \A v \in T : Sole(s, v)
    <3>1. \A v \in T : s.vma[v].type = "Flexible"
      BY DEF Typed
    <3> QED
      BY <1>1, <1>2, <3>1, SoleIs DEF Typed
  <2> HIDE DEF T
  <2> QED
    BY <1>1, <2>1, <2>2, BackingCount, FS_CardinalityType
<1>9. /\ s0 \in State /\ s0.vma = s.vma /\ s0.vcut = s.vcut /\ s0.acut = s.acut /\ s0.host = s.host
      /\ s0.flexible_usage = s.flexible_usage /\ s0.pool_budget = s.pool_budget
      /\ s0.abort = s.abort /\ s0.torn = s.torn /\ s0.aliased = s.aliased
      /\ \A p \in D : s0.phys[p].dma = "Allocated" /\ s0.phys[p].mtype = s.phys[p].mtype
      /\ \A p \in F : s0.phys[p].dma = "Free" /\ s0.phys[p].mtype = s.phys[p].mtype
      /\ \A p \in Physical \ (D \cup F) : s0.phys[p] = s.phys[p]
      /\ s0.pcut = (s.pcut \cup (PhysEnds(s, S) \cap Physical))
                    \ {p \in PhysEnds(s, S) \cap Physical : PhysMerge(s0, p)}
  BY <1>1, <1>2, <1>4, <1>5, GivenBackIs
<1>10. r = VmaCarved(s1, Ends(gone, s.vcut))
  BY DEF UnmapMemoryImpl, Gone
<1> HIDE DEF s0
<1>11. ~s.aliased => ~PhysTorn(s, S)
  BY <1>1, <1>2, <1>3, <1>7, PhysEndsIs
<1>12. t2 \in BOOLEAN /\ (t2 => s.aliased)
  BY <1>1, <1>9, <1>11
<1>13. /\ V2 \in [Virtual -> VmaPage] /\ \A v \in gone : V2[v] = FreePage
       /\ \A v \in Virtual \ gone : V2[v] = s.vma[v]
  <2> DEFINE f == [v \in gone |-> FreePage]
  <2>0. s \in State /\ gone \in SUBSET Virtual
    BY <1>1, <1>2
  <2>1. DOMAIN f = gone /\ \A v \in gone : f[v] = FreePage /\ f[v] \in VmaPage
    BY FreePageIs
  <2> HIDE DEF f
  <2>2. /\ Over(f, s.vma) \in [Virtual -> VmaPage] /\ \A v \in gone : Over(f, s.vma)[v] = f[v]
        /\ \A v \in Virtual \ gone : Over(f, s.vma)[v] = s.vma[v]
    BY <2>0, <2>1, OverVma
  <2> QED
    BY <1>9, <2>1, <2>2 DEF f
<1> HIDE DEF V2
<1>14. /\ H2 \in [Virtual -> Physical \cup {None}] /\ \A v \in S : H2[v] = None
       /\ \A v \in Virtual \ S : H2[v] = s.host[v]
  <2> DEFINE f == [v \in S |-> None]
  <2>0. s \in State /\ S \in SUBSET Virtual
    BY <1>1, <1>2
  <2>1. DOMAIN f = S /\ \A v \in S : f[v] = None /\ f[v] \in Physical \cup {None}
    OBVIOUS
  <2> HIDE DEF f
  <2>2. /\ Over(f, s.host) \in [Virtual -> Physical \cup {None}] /\ \A v \in S : Over(f, s.host)[v] = f[v]
        /\ \A v \in Virtual \ S : Over(f, s.host)[v] = s.host[v]
    BY <2>0, <2>1, OverHost
  <2> QED
    BY <1>9, <2>1, <2>2 DEF f
<1> HIDE DEF H2
<1>15. u2 \in Int /\ u2 = s.flexible_usage - Cardinality(F)
  BY <1>1, <1>8, <1>9, Fields
<1> HIDE DEF u2, t2, T
<1>16. /\ s1 \in State /\ s1.phys = s0.phys /\ s1.vma = V2 /\ s1.host = H2 /\ s1.flexible_usage = u2
       /\ s1.vcut = s.vcut /\ s1.acut = s.acut /\ s1.pcut = s0.pcut /\ s1.pool_budget = s.pool_budget
       /\ s1.abort = FALSE /\ s1.torn = t2 /\ s1.aliased = s.aliased
  BY <1>1, <1>9, <1>12, <1>13, <1>14, <1>15 DEF State
<1> HIDE DEF s1
<1>17. /\ r \in State /\ r.phys = s0.phys /\ r.vma = V2 /\ r.host = H2 /\ r.flexible_usage = u2
       /\ r.pool_budget = s.pool_budget /\ r.pcut = s0.pcut
       /\ r.abort = FALSE /\ r.torn = t2 /\ r.aliased = s.aliased
       /\ r.vcut = (s.vcut \cup (Ends(gone, s.vcut) \cap Virtual))
                       \ {v \in Ends(gone, s.vcut) \cap Virtual : VmaMerge(s1, v)}
       /\ r.acut = {v \in s.acut \cup (Ends(gone, s.vcut) \cap Virtual) : Backed(s1, v)}
  BY <1>10, <1>16, VmaCarvedIs
<1>18. /\ \A p : PhysMerge(s0, p) <=> PhysMerge(r, p)
       /\ \A v : (VmaMerge(s1, v) <=> VmaMerge(r, v)) /\ (Backed(s1, v) <=> Backed(r, v))
  BY <1>16, <1>17, MergeSame
<1>19. /\ r.pcut = (s.pcut \cup (PhysEnds(s, S) \cap Physical))
                       \ {p \in PhysEnds(s, S) \cap Physical : PhysMerge(r, p)}
       /\ r.vcut = (s.vcut \cup (Ends(gone, s.vcut) \cap Virtual))
                       \ {v \in Ends(gone, s.vcut) \cap Virtual : VmaMerge(r, v)}
       /\ r.acut = {v \in s.acut \cup (Ends(gone, s.vcut) \cap Virtual) : Backed(r, v)}
  BY <1>9, <1>17, <1>18
<1>20. /\ \A p \in D : r.phys[p].dma = "Allocated" /\ r.phys[p].mtype = s.phys[p].mtype
       /\ \A p \in F : r.phys[p].dma = "Free" /\ r.phys[p].mtype = s.phys[p].mtype
       /\ \A p \in Physical \ (D \cup F) : r.phys[p] = s.phys[p]
  BY <1>9, <1>17
<1>21. r.torn => r.aliased
  BY <1>12, <1>17
<1> QED
  BY <1>6, <1>7, <1>13, <1>14, <1>15, <1>17, <1>19, <1>20, <1>21 DEF Unmapped

\* UnmapMemoryImpl keeps the invariant.  Allocated memory stays as it is, mapped memory
\* stays mapped or becomes allocated, and no area is cut where it could merge.
LEMMA UnmapGood ==
  ASSUME NEW s, Good(s), NEW pages \in SUBSET Virtual, NEW r, r = UnmapMemoryImpl(s, pages)
  PROVE  /\ Good(r) /\ r.aliased = s.aliased
         /\ \A v \in Gone(s, pages) : r.vma[v] = FreePage
         /\ \A v \in Virtual \ Gone(s, pages) : r.vma[v] = s.vma[v]
         /\ \A p \in Physical : s.phys[p].dma = "Allocated" => r.phys[p] = s.phys[p]
         /\ \A p \in Physical : s.phys[p].dma \in {"Mapped", "Allocated"} =>
              r.phys[p].dma \in {"Mapped", "Allocated"} /\ r.phys[p].mtype = s.phys[p].mtype
         /\ \A v \in pages : s.vma[v].type = "Direct" => r.phys[s.vma[v].phys].dma = "Allocated"
         /\ \A p \in r.pcut : p \in s.pcut \/ ~PhysMerge(r, p)
         /\ r.flexible_usage <= s.flexible_usage
<1> DEFINE gone == Gone(s, pages)
           S == Typed(s, gone, {"Direct", "Flexible"})
           D == Behind(s, S, "Direct")
           F == Behind(s, S, "Flexible")
           Q == D \cup F
<1>1. s \in State /\ KindInv(s) /\ HostInv(s) /\ UseInv(s) /\ BudgetInv(s)
      /\ VcutInv(s) /\ PcutInv(s) /\ AcutInv(s)
  BY DEF Good, MapInv, CutInv
<1>0. Unmapped(s, r, gone, S, D, F)
  <2>1. /\ gone = Gone(s, pages) /\ S = Typed(s, gone, {"Direct", "Flexible"})
        /\ D = Behind(s, S, "Direct") /\ F = Behind(s, S, "Flexible")
    OBVIOUS
  <2> HIDE DEF gone, S, D, F
  <2> QED
    BY <2>1, UnmapIs
<1>2. /\ r \in State /\ D \subseteq Direct /\ F \subseteq Flexible /\ Q = {s.vma[v].phys : v \in S}
      /\ \A v \in gone : r.vma[v] = FreePage
      /\ \A v \in Virtual \ gone : r.vma[v] = s.vma[v]
      /\ \A v \in S : r.host[v] = None
      /\ \A v \in Virtual \ S : r.host[v] = s.host[v]
      /\ \A p \in D : r.phys[p].dma = "Allocated" /\ r.phys[p].mtype = s.phys[p].mtype
      /\ \A p \in F : r.phys[p].dma = "Free" /\ r.phys[p].mtype = s.phys[p].mtype
      /\ \A p \in Physical \ Q : r.phys[p] = s.phys[p]
      /\ \A p \in D : s.phys[p].dma \in {"Mapped", "Allocated"}
      /\ \A p \in F : s.phys[p].dma = "Flexible"
  BY <1>0 DEF Unmapped
<1>3. /\ r.flexible_usage = s.flexible_usage - Cardinality(F) /\ r.pool_budget = s.pool_budget
      /\ r.abort = FALSE /\ (r.torn => r.aliased) /\ r.aliased = s.aliased
      /\ r.pcut = (s.pcut \cup (PhysEnds(s, S) \cap Physical))
                    \ {p \in PhysEnds(s, S) \cap Physical : PhysMerge(r, p)}
      /\ r.vcut = (s.vcut \cup (Ends(gone, s.vcut) \cap Virtual))
                    \ {v \in Ends(gone, s.vcut) \cap Virtual : VmaMerge(r, v)}
      /\ r.acut = {v \in s.acut \cup (Ends(gone, s.vcut) \cap Virtual) : Backed(r, v)}
  BY <1>0 DEF Unmapped
<1>4. /\ gone \in SUBSET Virtual /\ S \in SUBSET gone /\ gone \subseteq pages
      /\ \A v \in gone : Backed(s, v) <=> v \in S
      /\ \A v \in pages \ gone : s.vma[v].type \in {"Free", "Pooled"}
  BY DEF Gone, Typed, Backed
<1>5. \A v \in pages : s.vma[v].type = "Direct" => s.vma[v].phys \in D
  BY DEF Behind, Typed, Gone
<1> HIDE DEF gone, S, D, F, Q
<1>7. Q = D \cup F /\ Q \in SUBSET Physical
  BY <1>2, Ranges DEF Q
<1>8. \A v \in gone : r.vma[v].type = "Free" /\ r.vma[v].phys = None /\ ~Backed(r, v)
  BY <1>2, FreePageIs DEF Backed
<1>9. \A v \in Virtual \ gone : (Backed(r, v) <=> Backed(s, v))
  BY <1>2 DEF Backed
<1>10. KindInv(r)
  <2>1. \A v \in Virtual :
          /\ r.vma[v].type = "Free" => r.vma[v] = FreePage
          /\ ~Backed(r, v) => r.vma[v].phys = None
          /\ r.vma[v].type \in {"Direct", "Pooled"} => r.vma[v].phys \in Direct
          /\ r.vma[v].type = "Flexible" => r.vma[v].phys \in Flexible /\ r.vma[v].mtype = 0
    <3> TAKE v \in Virtual
    <3>1. CASE v \in gone
      BY <1>2, <1>8, <3>1
    <3>2. CASE v \notin gone
      BY <1>1, <1>2, <1>9, <3>2 DEF KindInv
    <3> QED
      BY <3>1, <3>2
  <2>2. \A p \in Direct : r.phys[p].dma # "Flexible"
    <3> TAKE p \in Direct
    <3>1. p \in Physical /\ p \notin F
      BY <1>2, Ranges
    <3>2. CASE p \in D
      BY <1>2, <3>2
    <3>3. CASE p \notin D
      BY <1>1, <1>2, <1>7, <3>1, <3>3 DEF KindInv
    <3> QED
      BY <3>2, <3>3
  <2>3. \A p \in Flexible : r.phys[p].dma \in {"Free", "Flexible"} /\ r.phys[p].mtype = 0
    <3> TAKE p \in Flexible
    <3>1. p \in Physical /\ p \notin D
      BY <1>2, Ranges
    <3>2. CASE p \in F
      BY <1>1, <1>2, <3>2 DEF KindInv
    <3>3. CASE p \notin F
      BY <1>1, <1>2, <1>7, <3>1, <3>3 DEF KindInv
    <3> QED
      BY <3>2, <3>3
  <2> QED
    BY <2>1, <2>2, <2>3 DEF KindInv
<1>11. HostInv(r)
  <2> SUFFICES ASSUME NEW v \in Virtual
               PROVE  r.host[v] = IF Backed(r, v) THEN r.vma[v].phys ELSE None
    BY DEF HostInv
  <2>1. s.host[v] = IF Backed(s, v) THEN s.vma[v].phys ELSE None
    BY <1>1 DEF HostInv
  <2>2. CASE v \in gone
    BY <1>2, <1>4, <1>8, <2>1, <2>2
  <2>3. CASE v \notin gone
    BY <1>2, <1>4, <1>9, <2>1, <2>3
  <2> QED
    BY <2>2, <2>3
<1>12. UseInv(r)
  <2>1. \A v \in gone : Backed(s, v) => s.vma[v].phys \in Q
    BY <1>2, <1>4
  <2>2. ASSUME NEW v \in Virtual \ gone, Backed(s, v), s.vma[v].phys \in Q
        PROVE  /\ s.vma[v].type = "Direct" /\ s.aliased
               /\ r.phys[s.vma[v].phys].dma \in {"Mapped", "Allocated"}
    <3>1. PICK u \in S : s.vma[u].phys = s.vma[v].phys
      BY <1>2, <2>2
    <3>2. u \in Virtual /\ Backed(s, u) /\ u # v
      BY <1>4, <2>2
    <3>3. ~(Sole(s, u) /\ Sole(s, v))
      BY <1>1, <3>1, <3>2 DEF UseInv
    <3>4. s.aliased /\ (s.vma[u].type = "Direct" \/ s.vma[v].type = "Direct")
      BY <1>1, <2>2, <3>2, <3>3, SoleIs
    <3>5. s.phys[s.vma[v].phys].dma \in {"Mapped", "Allocated"}
      BY <1>1, <3>1, <3>2, <3>4 DEF UseInv
    <3>6. s.vma[v].phys \in D
      BY <1>2, <1>7, <2>2, <3>5
    <3>7. s.vma[v].type = "Direct"
      <4> SUFFICES ASSUME s.vma[v].type # "Direct" PROVE FALSE
        OBVIOUS
      <4>1. Sole(s, v) /\ s.vma[v].type \in {"Flexible", "Pooled"}
        BY <1>1, <2>2 DEF Sole, Backed
      <4>2. s.phys[s.vma[v].phys].dma \in {"Committed", "Flexible"}
        BY <1>1, <4>1 DEF UseInv, UseOf
      <4> QED
        BY <3>5, <4>2
    <3> QED
      BY <1>2, <3>4, <3>6, <3>7
  <2>3. \A p \in Q : r.phys[p].dma \notin {"Mapped", "Committed", "Flexible"}
    BY <1>2, <1>7
  <2>4. \A v \in Virtual \ gone : /\ r.vma[v].type = s.vma[v].type /\ r.vma[v].phys = s.vma[v].phys
                                  /\ r.vma[v].mtype = s.vma[v].mtype
    BY <1>2
  <2>5. \A v \in gone : ~Backed(r, v) /\ ~Sole(r, v) /\ r.vma[v].type # "Direct"
    BY <1>8 DEF Sole
  <2>6. UseStep(s, r, gone, Q)
    BY <1>2, <1>3, <1>4, <1>7, <2>1, <2>2, <2>3, <2>4, <2>5 DEF UseStep
  <2> QED
    BY <1>1, <1>2, <2>6, UseKept
<1>13. BudgetInv(r) /\ r.flexible_usage <= s.flexible_usage
  <2> DEFINE X == Dma(s, Flexible, {"Flexible"})
  <2>1. F \subseteq X /\ Dma(r, Flexible, {"Flexible"}) = X \ F
    <3>1. \A p \in Flexible : p \in Physical /\ p \notin D
      BY <1>2, Ranges
    <3>2. ASSUME NEW p \in Flexible
          PROVE  r.phys[p].dma = "Flexible" <=> s.phys[p].dma = "Flexible" /\ p \notin F
      <4>1. CASE p \in F
        BY <1>2, <4>1
      <4>2. CASE p \notin F
        BY <1>2, <1>7, <3>1, <4>2
      <4> QED
        BY <4>1, <4>2
    <3> QED
      BY <1>2, <3>2 DEF Dma
  <2>2. Dma(r, Direct, {"Pooled"}) = Dma(s, Direct, {"Pooled"})
    <3> SUFFICES ASSUME NEW p \in Direct PROVE r.phys[p].dma = "Pooled" <=> s.phys[p].dma = "Pooled"
      BY DEF Dma
    <3>1. p \in Physical /\ p \notin F
      BY <1>2, Ranges
    <3>2. CASE p \in D
      BY <1>2, <3>2
    <3>3. CASE p \notin D
      BY <1>2, <1>7, <3>1, <3>3
    <3> QED
      BY <3>2, <3>3
  <2>3. IsFiniteSet(X) /\ IsFiniteSet(F) /\ Cardinality(X) \in Nat /\ Cardinality(F) \in Nat
    BY <2>1, DmaFinite, FS_Subset, FS_CardinalityType
  <2>4. Cardinality(X \ F) = Cardinality(X) - Cardinality(F)
    BY <2>1, <2>3, Counted
  <2>5. s.flexible_usage = Cardinality(X) /\ s.pool_budget = Cardinality(Dma(s, Direct, {"Pooled"}))
    BY <1>1 DEF BudgetInv
  <2> HIDE DEF X
  <2>6. r.flexible_usage = Cardinality(X \ F)
    BY <1>3, <2>4, <2>5
  <2>7. r.flexible_usage <= s.flexible_usage
    BY <1>3, <2>3, <2>5
  <2> QED
    BY <1>3, <2>1, <2>2, <2>5, <2>6, <2>7 DEF BudgetInv
<1>14. VcutInv(r)
  <2> DEFINE E == Ends(gone, s.vcut)
  <2>1. gone \subseteq Int /\ Virtual \subseteq Int
    BY <1>4, Ranges
  <2>2. \A x \in Int : x \notin E => (x \in gone <=> x - 1 \in gone) /\ (x \in gone => x \notin s.vcut)
    BY <2>1, EndsIs
  <2>3. \A v \in Virtual \ gone : r.vma[v].type = s.vma[v].type
    BY <1>2
  <2>4. \A v \in Virtual : v # 0 /\ v \notin E => (v \in gone <=> v - 1 \in gone)
    BY <2>1, <2>2
  <2>5. \A v \in gone : v - 1 \in gone /\ v \notin s.vcut \cup E => r.vma[v].type = r.vma[v - 1].type
    BY <1>8
  <2>6. \A v \in gone : v \in s.vcut /\ r.vma[v].type = "Free" => v \in E
    BY <2>1, <2>2
  <2>7. r.vcut = (s.vcut \cup (E \cap Virtual)) \ {v \in E \cap Virtual : VmaMerge(r, v)}
    BY <1>3
  <2> HIDE DEF E
  <2>8. VcutStep(s, r, gone, E)
    BY <1>4, <2>3, <2>4, <2>5, <2>6, <2>7 DEF VcutStep
  <2> QED
    BY <1>1, <1>2, <1>10, <2>8, VcutKept
<1>15. /\ \A p \in Int : p \notin PhysEnds(s, S) => (p \in Q <=> p - 1 \in Q)
       /\ ~s.aliased => \A v \in Virtual \ S : Backed(s, v) /\ Backed(s, v - 1) /\ v - 1 \in Virtual \ S
              /\ s.vma[v].phys = s.vma[v - 1].phys + 1 => s.vma[v].phys \notin PhysEnds(s, S)
  <2>1. S \in SUBSET Virtual /\ \A v \in S : Backed(s, v)
    BY <1>4
  <2> QED
    BY <1>1, <1>2, <2>1, PhysEndsIs
<1>16. PcutInv(r)
  <2> DEFINE X == PhysEnds(s, S) \cap Physical
  <2>1. \A p \in Physical : p # 0 /\ p \notin s.pcut \cup X => (p \in Q <=> p - 1 \in Q)
    BY <1>15, Ranges
  <2>2. ASSUME NEW p \in Q, p - 1 \in Q, s.phys[p] = s.phys[p - 1] PROVE r.phys[p] = r.phys[p - 1]
    <3>1. p \in Physical /\ p - 1 \in Physical
      BY <1>7, <2>2
    <3>2. r.phys[p].mtype = r.phys[p - 1].mtype
      BY <1>2, <1>7, <2>2
    <3>3. r.phys[p].dma = r.phys[p - 1].dma
      BY <1>2, <1>7, <2>2
    <3>4. r.phys[p] \in PhysPage /\ r.phys[p - 1] \in PhysPage
      BY <1>2, <3>1, PageFields
    <3> QED
      BY <3>2, <3>3, <3>4, SamePhys
  <2>3. r.pcut = (s.pcut \cup X) \ {p \in PhysEnds(s, S) \cap Physical : PhysMerge(r, p)}
    BY <1>3
  <2> HIDE DEF X
  <2>4. PcutStep(s, r, Q, X, PhysEnds(s, S))
    BY <1>2, <1>7, <2>1, <2>2, <2>3 DEF PcutStep
  <2> QED
    BY <1>1, <1>2, <2>4, PcutKept
<1>17. AcutInv(r)
  <2> DEFINE E == Ends(gone, s.vcut)
  <2>1. \A v \in Virtual : v \notin gone /\ v - 1 \in gone => v \in E
    BY <1>4, Ranges, EndsIs
  <2>2. \A v \in Virtual \ gone : /\ r.vma[v].type = s.vma[v].type /\ r.vma[v].phys = s.vma[v].phys
                                  /\ r.vma[v].mtype = s.vma[v].mtype
    BY <1>2
  <2>3. r.acut = {v \in s.acut \cup (E \cap Virtual) : Backed(r, v)} /\ s.acut \ gone \subseteq s.acut
    BY <1>3
  <2>4. ~r.aliased => \A v \in Virtual \ gone : Backed(s, v) /\ Backed(s, v - 1) /\ v - 1 \in Virtual \ gone
           /\ s.vma[v].phys = s.vma[v - 1].phys + 1 /\ s.vma[v].phys \in r.pcut => s.vma[v].phys \in s.pcut
    BY <1>3, <1>4, <1>15
  <2>5. \A v \in gone : ~Backed(r, v)
    BY <1>8
  <2> HIDE DEF E
  <2>6. AcutStep(s, r, gone, s.acut, E)
    BY <1>3, <1>4, <2>1, <2>2, <2>3, <2>4, <2>5 DEF AcutStep
  <2> QED
    BY <1>1, <1>2, <2>6, AcutKept
<1>18. Good(r)
  BY <1>2, <1>3, <1>10, <1>11, <1>12, <1>13, <1>14, <1>16, <1>17 DEF Good, MapInv, CutInv
<1>19. \A p \in r.pcut : p \in s.pcut \/ ~PhysMerge(r, p)
  BY <1>3
<1>20. ASSUME NEW p \in Physical, s.phys[p].dma \in {"Mapped", "Allocated"}
       PROVE  /\ r.phys[p].dma \in {"Mapped", "Allocated"} /\ r.phys[p].mtype = s.phys[p].mtype
              /\ s.phys[p].dma = "Allocated" => r.phys[p] = s.phys[p]
  <2>1. p \notin F
    BY <1>2, <1>20
  <2>2. CASE p \in D
    <3>1. r.phys[p].dma = "Allocated" /\ r.phys[p].mtype = s.phys[p].mtype
      BY <1>2, <2>2
    <3>2. r.phys[p] \in PhysPage /\ s.phys[p] \in PhysPage
      BY <1>1, <1>2, PageFields
    <3> QED
      BY <3>1, <3>2, SamePhys
  <2>3. CASE p \notin D
    BY <1>2, <1>7, <1>20, <2>1, <2>3
  <2> QED
    BY <2>2, <2>3
<1>21. \A v \in pages : s.vma[v].type = "Direct" => r.phys[s.vma[v].phys].dma = "Allocated"
  BY <1>2, <1>5
<1> QED
  BY <1>2, <1>3, <1>13, <1>18, <1>19, <1>20, <1>21 DEF gone

-----------------------------------------------------------------------------
(* Mapping                                                                 *)

\* What Mapped does to the fields of a state.
IsMapped(s, r, a, n, page) ==
  /\ r \in State /\ r.phys = s.phys /\ r.pcut = s.pcut
  /\ r.flexible_usage = s.flexible_usage /\ r.pool_budget = s.pool_budget /\ r.abort = FALSE
  /\ r.torn = s.torn /\ r.aliased = s.aliased
  /\ \A v \in Pages(a, n) : r.vma[v] = page[v]
  /\ \A v \in Virtual \ Pages(a, n) : r.vma[v] = s.vma[v]
  /\ \A v \in Pages(a, n) : r.host[v] = IF page[v].phys # None THEN page[v].phys ELSE s.host[v]
  /\ \A v \in Virtual \ Pages(a, n) : r.host[v] = s.host[v]
  /\ r.vcut = (s.vcut \cup ({a, a + n} \cap Virtual)) \ {v \in {a, a + n} \cap Virtual : VmaMerge(r, v)}
  /\ r.acut = {v \in (s.acut \ Pages(a, n))
                       \cup {v \in Pages(a + 1, n - 1) : \/ page[v].phys # page[v - 1].phys + 1
                                                         \/ page[v].mtype # page[v - 1].mtype}
                       \cup ({a, a + n} \cap Virtual) : Backed(r, v)}

\* Mapped does that, and no ASSERT fails where the pages are of one VMA of the right type.
LEMMA MappedIs ==
  ASSUME NEW s \in State, s.abort = FALSE, NEW a \in Virtual, NEW n \in Sizes, Pages(a, n) \subseteq Virtual,
         NEW page, DOMAIN page = Pages(a, n), \A v \in Pages(a, n) : page[v] \in VmaPage,
         NEW was, s.vma[a].type = was, s.vcut \cap Pages(a + 1, n - 1) = {},
         NEW r, r = Mapped(s, a, n, was, page)
  PROVE  IsMapped(s, r, a, n, page)
<1> DEFINE B == {v \in Pages(a + 1, n - 1) : \/ page[v].phys # page[v - 1].phys + 1
                                             \/ page[v].mtype # page[v - 1].mtype}
           M == {u \in Pages(a, n) : page[u].phys # None}
           V1 == Over(page, s.vma)
           H1 == Over([v \in M |-> page[v].phys], s.host)
           A1 == (s.acut \ Pages(a, n)) \cup B
           b1 == s.abort \/ s.vma[a].type # was \/ s.vcut \cap Pages(a + 1, n - 1) # {}
           s1 == [s EXCEPT !.vma = V1, !.host = H1, !.acut = A1, !.abort = b1]
<1>1. r = VmaCarved(s1, {a, a + n})
  BY DEF Mapped
<1>2. b1 = FALSE
  OBVIOUS
<1>3. /\ V1 \in [Virtual -> VmaPage] /\ \A v \in Pages(a, n) : V1[v] = page[v]
      /\ \A v \in Virtual \ Pages(a, n) : V1[v] = s.vma[v]
  BY OverVma
<1>4. /\ H1 \in [Virtual -> Physical \cup {None}] /\ \A v \in M : H1[v] = page[v].phys
      /\ \A v \in Virtual \ M : H1[v] = s.host[v]
  <2>1. \A v \in M : page[v].phys \in Physical \cup {None}
    BY DEF VmaPage
  <2>2. M \in SUBSET Virtual /\ s.host \in [Virtual -> Physical \cup {None}]
    BY Fields
  <2> HIDE DEF M
  <2>3. H1 = [v \in Virtual |-> IF v \in M THEN page[v].phys ELSE s.host[v]]
    BY <2>2 DEF Over
  <2> QED
    BY <2>1, <2>2, <2>3
<1>5. A1 \in SUBSET Virtual
  <2>1. Pages(a + 1, n - 1) \subseteq Pages(a, n)
    BY PagesIs, Ranges
  <2> QED
    BY <2>1, Fields
<1>6. \A v \in Pages(a, n) : H1[v] = IF page[v].phys # None THEN page[v].phys ELSE s.host[v]
  BY <1>4
<1>7. \A v \in Virtual \ Pages(a, n) : H1[v] = s.host[v]
  BY <1>4
<1> HIDE DEF V1, H1, A1, b1, M
<1>8. /\ s1 \in State /\ s1.vma = V1 /\ s1.host = H1 /\ s1.acut = A1 /\ s1.vcut = s.vcut
      /\ s1.phys = s.phys /\ s1.pcut = s.pcut /\ s1.flexible_usage = s.flexible_usage
      /\ s1.pool_budget = s.pool_budget
  BY <1>2, <1>3, <1>4, <1>5 DEF State
<1>9. s1.abort = FALSE /\ s1.torn = s.torn /\ s1.aliased = s.aliased
  BY <1>2 DEF State
<1> HIDE DEF s1
<1>10. /\ r \in State /\ r.phys = s.phys /\ r.pcut = s.pcut /\ r.vma = V1 /\ r.host = H1
       /\ r.flexible_usage = s.flexible_usage /\ r.pool_budget = s.pool_budget /\ r.abort = FALSE
       /\ r.torn = s.torn /\ r.aliased = s.aliased
       /\ r.vcut = (s.vcut \cup ({a, a + n} \cap Virtual)) \ {v \in {a, a + n} \cap Virtual : VmaMerge(s1, v)}
       /\ r.acut = {v \in A1 \cup ({a, a + n} \cap Virtual) : Backed(s1, v)}
  BY <1>1, <1>8, <1>9, VmaCarvedIs
<1>11. \A v : (VmaMerge(s1, v) <=> VmaMerge(r, v)) /\ (Backed(s1, v) <=> Backed(r, v))
  BY <1>8, <1>10, MergeSame
<1>12. r.vcut = (s.vcut \cup ({a, a + n} \cap Virtual)) \ {v \in {a, a + n} \cap Virtual : VmaMerge(r, v)}
  BY <1>10, <1>11
<1>13. r.acut = {v \in A1 \cup ({a, a + n} \cap Virtual) : Backed(r, v)}
  BY <1>10, <1>11
<1> QED
  BY <1>3, <1>6, <1>7, <1>10, <1>12, <1>13 DEF IsMapped, A1

\* The room for a mapping: pages of one VMA of a type without backing.
Room(s, a, n, was) ==
  /\ a \in Virtual /\ n \in Sizes /\ Pages(a, n) \subseteq Virtual /\ was \in {"Free", "PoolReserved"}
  /\ \A v \in Pages(a, n) : s.vma[v].type = was
  /\ s.vcut \cap Pages(a + 1, n - 1) = {}

\* The cuts of the VMAs after a mapping of pages of one type other than Free.
LEMMA MappedVcut ==
  ASSUME NEW s \in State, NEW s2 \in State, NEW r, NEW a, NEW n, NEW was, NEW page, NEW ty, ty # "Free",
         VcutInv(s), KindInv(r), Room(s, a, n, was), IsMapped(s2, r, a, n, page),
         s2.vcut = s.vcut, s2.vma = s.vma, \A v \in Pages(a, n) : page[v].type = ty
  PROVE  VcutInv(r)
<1> DEFINE W == Pages(a, n)
           E == {a, a + n}
<1>1. /\ a \in Int /\ n \in Nat \ {0} /\ W \subseteq Virtual /\ Virtual \subseteq Int /\ n \in Sizes
      /\ s.vcut \cap Pages(a + 1, n - 1) = {}
  BY Ranges, PagesIs DEF Room
<1>2. /\ \A x : x \in W <=> x \in Int /\ a <= x /\ x < a + n
      /\ \A x : x \in Pages(a + 1, n - 1) <=> x \in Int /\ a < x /\ x < a + n
  BY <1>1, PagesIs
<1>3. /\ r \in State /\ \A v \in W : r.vma[v].type = ty
      /\ \A v \in Virtual \ W : r.vma[v].type = s.vma[v].type
      /\ r.vcut = (s.vcut \cup (E \cap Virtual)) \ {v \in E \cap Virtual : VmaMerge(r, v)}
  BY DEF IsMapped
<1> HIDE DEF W
<1>4. \A v \in Virtual : v # 0 /\ v \notin E => (v \in W <=> v - 1 \in W)
  BY <1>1, <1>2
<1> HIDE DEF E
<1>5. VcutStep(s, r, W, E)
  BY <1>1, <1>3, <1>4 DEF VcutStep
<1> QED
  BY <1>3, <1>5, VcutKept

\* The pages of a mapping and their backing: physical pages P, each for one page.  Direct
\* memory may be mapped already, other memory is not in use.
Backing(s, a, n, page, ty, P) ==
  /\ DOMAIN page = Pages(a, n) /\ ty \in {"Direct", "Flexible", "Pooled"}
  /\ \A v \in Pages(a, n) : page[v] \in VmaPage /\ page[v].type = ty /\ page[v].phys \in P
  /\ \A p \in P : \E v \in Pages(a, n) : page[v].phys = p
  /\ \A u, v \in Pages(a, n) : page[u].phys = page[v].phys => u = v
  /\ P \subseteq IF ty = "Flexible" THEN Flexible ELSE Direct
  /\ ty = "Flexible" => \A v \in Pages(a, n) : page[v].mtype = 0
  /\ \A p \in P : s.phys[p].dma \in IF ty = "Direct" THEN {"Allocated", "Mapped"}
                                      ELSE {"Free", "Pooled"}

\* The state in which the physical maps say that P is in use, and whether direct memory is
\* mapped twice.
Taken(s, s1, a, n, page, ty, P) ==
  /\ s1 \in State /\ s1.vma = s.vma /\ s1.vcut = s.vcut /\ s1.acut = s.acut /\ s1.pcut = s.pcut
  /\ s1.host = s.host /\ s1.abort = FALSE /\ BudgetInv(s1)
  /\ s1.torn = s.torn /\ (s.aliased => s1.aliased)
  /\ \A p \in P : s.phys[p].dma = "Mapped" => s1.aliased
  /\ \A p \in Physical \ P : s1.phys[p] = s.phys[p]
  /\ \A v \in Pages(a, n) : /\ s1.phys[page[v].phys].dma = UseOf[ty]
                            /\ s1.phys[page[v].phys].mtype = page[v].mtype
  /\ \A p \in P : p - 1 \in P /\ s.phys[p] = s.phys[p - 1] => s1.phys[p] = s1.phys[p - 1]

\* A mapping with backing keeps the invariant.
LEMMA MapBacked ==
  ASSUME NEW s, Good(s), NEW a, NEW n, NEW was, Room(s, a, n, was), NEW page, NEW ty, NEW P,
         Backing(s, a, n, page, ty, P), NEW s1, Taken(s, s1, a, n, page, ty, P),
         NEW r, r = Mapped(PhysCarved(s1, Ends(P, s.pcut)), a, n, was, page)
  PROVE  Good(r) /\ r.torn = s.torn /\ r.flexible_usage = s1.flexible_usage
<1> DEFINE W == Pages(a, n)
           E == Ends(P, s.pcut)
           s2 == PhysCarved(s1, E)
           B == {v \in Pages(a + 1, n - 1) : \/ page[v].phys # page[v - 1].phys + 1
                                             \/ page[v].mtype # page[v - 1].mtype}
<1>1. s \in State /\ KindInv(s) /\ HostInv(s) /\ UseInv(s) /\ BudgetInv(s)
      /\ VcutInv(s) /\ PcutInv(s) /\ AcutInv(s) /\ (s.torn => s.aliased)
  BY DEF Good, MapInv, CutInv
<1>2. /\ s1 \in State /\ s1.vma = s.vma /\ s1.vcut = s.vcut /\ s1.acut = s.acut /\ s1.pcut = s.pcut
      /\ s1.host = s.host /\ s1.abort = FALSE /\ BudgetInv(s1)
      /\ s1.torn = s.torn /\ (s.aliased => s1.aliased)
      /\ \A p \in Physical \ P : s1.phys[p] = s.phys[p]
  BY DEF Taken
<1>3. /\ s2 \in State /\ s2.vma = s.vma /\ s2.vcut = s.vcut /\ s2.acut = s.acut /\ s2.phys = s1.phys
      /\ s2.host = s.host /\ s2.abort = FALSE /\ s2.flexible_usage = s1.flexible_usage
      /\ s2.pool_budget = s1.pool_budget /\ s2.torn = s.torn /\ s2.aliased = s1.aliased
      /\ s2.pcut = (s.pcut \cup (E \cap Physical)) \ {p \in E \cap Physical : PhysMerge(s1, p)}
  BY <1>2, PhysCarvedIs
<1>4. r = Mapped(s2, a, n, was, page)
  OBVIOUS
<1> HIDE DEF s2
<1>5. /\ a \in Virtual /\ a \in Int /\ n \in Sizes /\ n \in Nat \ {0} /\ W \subseteq Virtual /\ a \in W
      /\ \A v \in W : s.vma[v].type = was /\ ~Backed(s, v)
      /\ \A x : x \in W <=> x \in Int /\ a <= x /\ x < a + n
      /\ \A x : x \in Pages(a + 1, n - 1) <=> x \in Int /\ a < x /\ x < a + n
  <2>1. a \in Virtual /\ a \in Int /\ n \in Sizes /\ W \subseteq Virtual
    BY Ranges DEF Room
  <2>2. /\ n \in Nat \ {0} /\ \A x : x \in W <=> x \in Int /\ a <= x /\ x < a + n
        /\ \A x : x \in Pages(a + 1, n - 1) <=> x \in Int /\ a < x /\ x < a + n
    BY <2>1, PagesIs
  <2>3. \A v \in W : s.vma[v].type = was /\ ~Backed(s, v)
    BY DEF Room, Backed
  <2> HIDE DEF W
  <2>4. a \in W
    BY <2>1, <2>2
  <2> QED
    BY <2>1, <2>2, <2>3, <2>4
<1>6. IsMapped(s2, r, a, n, page)
  <2>1. s2.vma[a].type = was /\ s2.vcut \cap Pages(a + 1, n - 1) = {} /\ Pages(a, n) \subseteq Virtual
    BY <1>3, <1>5 DEF Room
  <2>2. DOMAIN page = Pages(a, n) /\ \A v \in Pages(a, n) : page[v] \in VmaPage
    BY DEF Backing
  <2> QED
    BY <1>3, <1>4, <1>5, <2>1, <2>2, MappedIs
<1>7. /\ r \in State /\ r.phys = s1.phys /\ r.pcut = s2.pcut
      /\ r.flexible_usage = s1.flexible_usage /\ r.pool_budget = s1.pool_budget /\ r.abort = FALSE
      /\ r.torn = s.torn /\ r.aliased = s1.aliased /\ (s.aliased => r.aliased)
      /\ \A v \in W : r.vma[v] = page[v]
      /\ \A v \in Virtual \ W : r.vma[v] = s.vma[v]
      /\ \A v \in W : r.host[v] = IF page[v].phys # None THEN page[v].phys ELSE s.host[v]
      /\ \A v \in Virtual \ W : r.host[v] = s.host[v]
      /\ r.acut = {v \in ((s.acut \ W) \cup B) \cup ({a, a + n} \cap Virtual) : Backed(r, v)}
  BY <1>2, <1>3, <1>6 DEF IsMapped
<1>8. r.pcut = (s.pcut \cup (E \cap Physical)) \ {p \in E \cap Physical : PhysMerge(r, p)}
  <2>1. \A p : PhysMerge(s1, p) <=> PhysMerge(r, p)
    BY <1>7, MergeSame
  <2> QED
    BY <1>3, <1>7, <2>1
<1>9. /\ ty \in {"Direct", "Flexible", "Pooled"} /\ P \in SUBSET Physical /\ None \notin P
      /\ P \subseteq IF ty = "Flexible" THEN Flexible ELSE Direct
  BY Ranges DEF Backing
<1>10. \A v \in W : /\ page[v].type = ty /\ page[v].phys \in P /\ page[v].phys # None
                    /\ ty = "Flexible" => page[v].mtype = 0
                    /\ s1.phys[page[v].phys].dma = UseOf[ty]
                    /\ s1.phys[page[v].phys].mtype = page[v].mtype
  BY <1>9 DEF Backing, Taken
<1>11. /\ \A p \in P : \E v \in W : page[v].phys = p
       /\ \A u, v \in W : page[u].phys = page[v].phys => u = v
  BY DEF Backing
<1>12. ASSUME NEW v \in Virtual, Backed(s, v), s.vma[v].phys \in P
       PROVE  ty = "Direct" /\ s.vma[v].type = "Direct" /\ r.aliased
  <2> DEFINE p == s.vma[v].phys
  <2>1. /\ s.phys[p].dma \in IF ty = "Direct" THEN {"Allocated", "Mapped"} ELSE {"Free", "Pooled"}
        /\ s.phys[p].dma = "Mapped" => r.aliased
    BY <1>7, <1>12 DEF Backing, Taken
  <2>2. p \in Physical
    BY <1>9, <1>12
  <2>3. CASE s.phys[p].dma = "Mapped"
    <3>1. ty = "Direct" /\ r.aliased
      BY <2>1, <2>3
    <3>2. ASSUME s.vma[v].type # "Direct" PROVE FALSE
      <4>1. s.vma[v].type \in {"Flexible", "Pooled"} /\ Sole(s, v)
        BY <1>12, <3>2 DEF Backed, Sole
      <4>2. s.phys[p].dma \in {"Committed", "Flexible"}
        BY <1>1, <1>12, <4>1 DEF UseInv, UseOf
      <4> QED
        BY <2>3, <4>2
    <3> QED
      BY <3>1, <3>2
  <2>4. CASE s.phys[p].dma # "Mapped"
    <3>1. s.phys[p].dma \notin {"Mapped", "Committed", "Flexible"}
      BY <2>1, <2>4
    <3> HIDE DEF p
    <3>2. p = s.vma[v].phys
      BY DEF p
    <3>3. s.vma[v].type = "Direct" /\ s.aliased /\ s.phys[p].dma = "Allocated"
      BY <1>1, <1>12, <2>2, <3>1, <3>2, NotUsed
    <3> QED
      BY <1>7, <2>1, <3>3
  <2> QED
    BY <2>3, <2>4
<1>13. \A p \in P : p - 1 \in P /\ s.phys[p] = s.phys[p - 1] => s1.phys[p] = s1.phys[p - 1]
  BY DEF Taken
<1> HIDE DEF W, E, B
<1>14. KindInv(r)
  <2>1. \A v \in Virtual :
          /\ r.vma[v].type = "Free" => r.vma[v] = FreePage
          /\ ~Backed(r, v) => r.vma[v].phys = None
          /\ r.vma[v].type \in {"Direct", "Pooled"} => r.vma[v].phys \in Direct
          /\ r.vma[v].type = "Flexible" => r.vma[v].phys \in Flexible /\ r.vma[v].mtype = 0
    <3> TAKE v \in Virtual
    <3>1. CASE v \in W
      <4>1. r.vma[v].type = ty /\ r.vma[v].phys \in P /\ (ty = "Flexible" => r.vma[v].mtype = 0)
        BY <1>7, <1>10, <3>1
      <4>2. Backed(r, v)
        BY <1>9, <4>1 DEF Backed
      <4> QED
        BY <1>9, <4>1, <4>2
    <3>2. CASE v \notin W
      BY <1>1, <1>7, <3>2 DEF KindInv, Backed
    <3> QED
      BY <3>1, <3>2
  <2>2. \A p \in P : r.phys[p].dma = UseOf[ty] /\ (ty = "Flexible" => r.phys[p].mtype = 0)
    BY <1>7, <1>10, <1>11
  <2>3. \A p \in Direct : r.phys[p].dma # "Flexible"
    <3> TAKE p \in Direct
    <3>1. p \in Physical /\ p \notin Flexible
      BY Ranges
    <3>2. CASE p \in P
      <4>1. ty \in {"Direct", "Pooled"}
        BY <1>9, <3>1, <3>2
      <4>2. UseOf[ty] # "Flexible"
        BY <4>1 DEF UseOf
      <4> QED
        BY <2>2, <3>2, <4>2
    <3>3. CASE p \notin P
      BY <1>1, <1>2, <1>7, <3>1, <3>3 DEF KindInv
    <3> QED
      BY <3>2, <3>3
  <2>4. \A p \in Flexible : r.phys[p].dma \in {"Free", "Flexible"} /\ r.phys[p].mtype = 0
    <3> TAKE p \in Flexible
    <3>1. p \in Physical /\ p \notin Direct
      BY Ranges
    <3>2. CASE p \in P
      <4>1. ty = "Flexible"
        BY <1>9, <3>1, <3>2
      <4>2. UseOf[ty] = "Flexible"
        BY <4>1 DEF UseOf
      <4> QED
        BY <2>2, <3>2, <4>1, <4>2
    <3>3. CASE p \notin P
      BY <1>1, <1>2, <1>7, <3>1, <3>3 DEF KindInv
    <3> QED
      BY <3>2, <3>3
  <2> QED
    BY <2>1, <2>3, <2>4 DEF KindInv
<1>15. \A v \in W : Backed(r, v)
  BY <1>7, <1>9, <1>10 DEF Backed
<1>16. \A v \in Virtual \ W : Backed(r, v) <=> Backed(s, v)
  BY <1>7 DEF Backed
<1>17. HostInv(r)
  <2> SUFFICES ASSUME NEW v \in Virtual
               PROVE  r.host[v] = IF Backed(r, v) THEN r.vma[v].phys ELSE None
    BY DEF HostInv
  <2>1. CASE v \in W
    BY <1>7, <1>10, <1>15, <2>1
  <2>2. CASE v \notin W
    BY <1>1, <1>7, <1>16, <2>2 DEF HostInv
  <2> QED
    BY <2>1, <2>2
<1>18. UseInv(r)
  <2>1. \A v \in Virtual \ W : /\ r.vma[v].type = s.vma[v].type /\ r.vma[v].phys = s.vma[v].phys
                               /\ r.vma[v].mtype = s.vma[v].mtype
    BY <1>7
  <2>2. \A v \in Virtual \ W : Backed(s, v) /\ s.vma[v].phys \in P =>
          /\ s.vma[v].type = "Direct" /\ r.aliased
          /\ r.phys[s.vma[v].phys].dma \in {"Mapped", "Allocated"}
    <3>1. ty = "Direct" => \A p \in P : r.phys[p].dma = "Mapped"
      BY <1>7, <1>10, <1>11 DEF UseOf
    <3> QED
      BY <1>12, <3>1
  <2>3. \A v \in W : /\ r.vma[v].phys \in P /\ ~Backed(s, v)
                     /\ r.vma[v].type = "Direct" => r.phys[r.vma[v].phys].dma = "Mapped"
                     /\ r.phys[r.vma[v].phys].dma = UseOf[r.vma[v].type]
                     /\ r.phys[r.vma[v].phys].mtype = r.vma[v].mtype
    BY <1>5, <1>7, <1>10 DEF UseOf
  <2>4. \A u, v \in W : r.vma[u].phys = r.vma[v].phys => u = v
    BY <1>7, <1>11
  <2>5. \A p \in P : \E v \in W : Backed(r, v) /\ r.vma[v].phys = p
    BY <1>7, <1>11, <1>15
  <2>6. \A p \in Physical \ P : r.phys[p] = s.phys[p]
    BY <1>2, <1>7
  <2>7. UseStep(s, r, W, P)
    <3>1. W \subseteq Virtual /\ P \subseteq Physical /\ (s.aliased => r.aliased)
      BY <1>5, <1>7, <1>9
    <3>2. \A v \in W : Backed(s, v) => s.vma[v].phys \in P
      BY <2>3
    <3>3. \A v \in W : Backed(r, v) => r.vma[v].phys \in P
      BY <2>3
    <3>4. \A v \in W : Sole(r, v) => /\ r.phys[r.vma[v].phys].dma = UseOf[r.vma[v].type]
                                     /\ r.phys[r.vma[v].phys].mtype = r.vma[v].mtype
      BY <2>3
    <3>5. \A v \in W : r.vma[v].type = "Direct" => r.phys[r.vma[v].phys].dma \in {"Mapped", "Allocated"}
      BY <2>3
    <3>6. \A u, v \in W : Sole(r, u) /\ Sole(r, v) /\ r.vma[u].phys = r.vma[v].phys => u = v
      BY <2>4
    <3>7. \A p \in P : r.phys[p].dma \in {"Mapped", "Committed", "Flexible"} =>
            \E v \in W : Backed(r, v) /\ r.vma[v].phys = p
      BY <2>5
    <3> QED
      BY <2>1, <2>2, <2>6, <3>1, <3>2, <3>3, <3>4, <3>5, <3>6, <3>7 DEF UseStep
  <2> QED
    BY <1>1, <1>7, <2>7, UseKept
<1>19. BudgetInv(r)
  BY <1>2, <1>7 DEF BudgetInv, Dma
<1>20. VcutInv(r)
  <2>1. \A v \in Pages(a, n) : page[v].type = ty
    BY <1>10 DEF W
  <2>2. ty # "Free"
    BY <1>9
  <2> QED
    BY <1>1, <1>3, <1>6, <1>14, <2>1, <2>2, MappedVcut
<1>21. P \subseteq Int /\ Physical \subseteq Int
  BY <1>9, Ranges
<1>22. /\ \A x \in Int : x \notin E => (x \in P <=> x - 1 \in P) /\ (x \in P => x \notin s.pcut)
       /\ \A x \in E : x \in Int /\ (x \in P \/ x - 1 \in P)
  BY <1>21, EndsIs DEF E
<1>23. PcutInv(r)
  <2>1. \A p \in Physical : p # 0 /\ p \notin s.pcut \cup (E \cap Physical) => (p \in P <=> p - 1 \in P)
    BY <1>21, <1>22
  <2>2. \A p \in Physical \ P : r.phys[p] = s.phys[p]
    BY <1>2, <1>7
  <2>3. PcutStep(s, r, P, E \cap Physical, E)
    BY <1>7, <1>8, <1>9, <1>13, <2>1, <2>2 DEF PcutStep
  <2> QED
    BY <1>1, <1>7, <2>3, PcutKept
<1>24. AcutInv(r)
  <2>1. \A v \in Virtual \ W : /\ r.vma[v].type = s.vma[v].type /\ r.vma[v].phys = s.vma[v].phys
                               /\ r.vma[v].mtype = s.vma[v].mtype
    BY <1>7
  <2>2. \A v \in Virtual : v \notin W /\ v - 1 \in W => v \in {a, a + n}
    BY <1>5, Ranges
  <2>3. ASSUME NEW v \in W, v \notin r.acut
        PROVE  /\ v - 1 \in Virtual /\ r.vma[v - 1].type = r.vma[v].type
               /\ r.vma[v].phys = r.vma[v - 1].phys + 1 /\ r.vma[v].mtype = r.vma[v - 1].mtype
               /\ r.vma[v].phys \notin r.pcut
    <3>1. v # a /\ v \notin B /\ v \in Virtual
      BY <1>5, <1>7, <1>15, <2>3
    <3>2. v \in Pages(a + 1, n - 1) /\ v - 1 \in W
      BY <1>5, <3>1
    <3>3. page[v].phys = page[v - 1].phys + 1 /\ page[v].mtype = page[v - 1].mtype
      BY <3>1, <3>2 DEF B
    <3>4. PICK p \in P : p = page[v].phys /\ p - 1 = page[v - 1].phys /\ p \in Int
      <4>1. page[v].phys \in P /\ page[v - 1].phys \in P
        BY <1>10, <3>2
      <4>2. page[v].phys \in Int /\ page[v - 1].phys \in Int
        BY <1>21, <4>1
      <4> QED
        BY <3>3, <4>1, <4>2
    <3>5. p - 1 \in P /\ p \in Physical /\ p - 1 \in Physical
      BY <1>9, <1>10, <3>2, <3>4
    <3>6. r.phys[p].dma = r.phys[p - 1].dma /\ r.phys[p].mtype = r.phys[p - 1].mtype
      BY <1>7, <1>10, <3>2, <3>3, <3>4
    <3>7. r.phys[p] = r.phys[p - 1]
      BY <1>7, <3>5, <3>6, PageFields, SamePhys
    <3>8. p \notin {0, NumDirect}
      BY <1>9, <3>4, <3>5, Ranges
    <3>9. PhysMerge(r, p)
      BY <3>7, <3>8 DEF PhysMerge
    <3>10. p \notin r.pcut
      BY <1>8, <1>22, <3>4, <3>5, <3>9
    <3> QED
      BY <1>5, <1>7, <1>10, <3>2, <3>3, <3>4, <3>10
  <2>4. ASSUME ~r.aliased, NEW v \in Virtual \ W, Backed(s, v), Backed(s, v - 1), v - 1 \in Virtual \ W,
               s.vma[v].phys = s.vma[v - 1].phys + 1, s.vma[v].phys \in r.pcut, s.vma[v].phys \notin s.pcut
        PROVE  FALSE
    <3>1. s.vma[v].phys \in E
      BY <1>8, <2>4
    <3>2. s.vma[v - 1].phys \in Int /\ s.vma[v].phys - 1 = s.vma[v - 1].phys
      BY <1>1, <2>4, BackedIs, Ranges
    <3> QED
      BY <1>12, <1>22, <2>4, <3>1, <3>2
  <2>5. s.acut \ W \subseteq (s.acut \ W) \cup B
    OBVIOUS
  <2>6. AcutStep(s, r, W, (s.acut \ W) \cup B, {a, a + n})
    BY <1>5, <1>7, <2>1, <2>2, <2>3, <2>4, <2>5 DEF AcutStep
  <2> QED
    BY <1>1, <1>7, <2>6, AcutKept
<1> QED
  BY <1>1, <1>7, <1>14, <1>17, <1>18, <1>19, <1>20, <1>23, <1>24 DEF Good, MapInv, CutInv

\* A mapping without backing keeps the invariant.
LEMMA MapPlain ==
  ASSUME NEW s, Good(s), NEW a, NEW n, Room(s, a, n, "Free"), NEW ty \in {"Reserved", "PoolReserved"},
         NEW page, page = [v \in Pages(a, n) |-> Page(ty, "NoAccess", None, 0)],
         NEW r, r = Mapped(s, a, n, "Free", page)
  PROVE  Good(r) /\ r.torn = s.torn /\ r.flexible_usage = s.flexible_usage
<1> DEFINE W == Pages(a, n)
           B == {v \in Pages(a + 1, n - 1) : \/ page[v].phys # page[v - 1].phys + 1
                                             \/ page[v].mtype # page[v - 1].mtype}
<1>1. s \in State /\ KindInv(s) /\ HostInv(s) /\ UseInv(s) /\ BudgetInv(s) /\ s.abort = FALSE
      /\ VcutInv(s) /\ PcutInv(s) /\ AcutInv(s) /\ (s.torn => s.aliased)
  <2>1. s \in State /\ ~s.abort
    BY DEF Good
  <2>2. s.abort = FALSE
    BY <2>1, Fields
  <2> QED
    BY <2>2 DEF Good, MapInv, CutInv
<1>2. /\ a \in Virtual /\ a \in Int /\ n \in Sizes /\ W \subseteq Virtual
      /\ \A v \in W : s.vma[v].type = "Free" /\ ~Backed(s, v)
  BY Ranges DEF Room, Backed
<1>3. /\ n \in Nat \ {0} /\ \A x : x \in W <=> x \in Int /\ a <= x /\ x < a + n
      /\ \A x : x \in Pages(a + 1, n - 1) <=> x \in Int /\ a < x /\ x < a + n
  BY <1>2, PagesIs
<1>4. /\ DOMAIN page = W
      /\ \A v \in W : /\ page[v] \in VmaPage /\ page[v].type = ty /\ page[v].phys = None /\ page[v].mtype = 0
  BY DEF Page, VmaPage
<1>5. IsMapped(s, r, a, n, page)
  <2>1. s.vma[a].type = "Free"
    <3> HIDE DEF W
    <3>1. a \in W
      BY <1>2, <1>3
    <3> QED
      BY <1>2, <3>1
  <2>2. s.vcut \cap Pages(a + 1, n - 1) = {}
    BY DEF Room
  <2> QED
    BY <1>1, <1>2, <1>4, <2>1, <2>2, MappedIs
<1>6. /\ r \in State /\ r.phys = s.phys /\ r.pcut = s.pcut
      /\ r.flexible_usage = s.flexible_usage /\ r.pool_budget = s.pool_budget /\ r.abort = FALSE
      /\ r.torn = s.torn /\ r.aliased = s.aliased
      /\ \A v \in W : r.vma[v].type = ty /\ r.vma[v].phys = None /\ r.host[v] = s.host[v]
      /\ \A v \in Virtual \ W : r.vma[v] = s.vma[v] /\ r.host[v] = s.host[v]
      /\ r.acut = {v \in ((s.acut \ W) \cup B) \cup ({a, a + n} \cap Virtual) : Backed(r, v)}
  BY <1>4, <1>5 DEF IsMapped
<1> HIDE DEF W, B
<1>7. \A v \in W : ~Backed(r, v) /\ ~Sole(r, v) /\ r.vma[v].type # "Direct"
  BY <1>6 DEF Backed, Sole
<1>8. \A v \in Virtual \ W : Backed(r, v) <=> Backed(s, v)
  BY <1>6 DEF Backed
<1>9. KindInv(r)
  <2>1. \A v \in Virtual :
          /\ r.vma[v].type = "Free" => r.vma[v] = FreePage
          /\ ~Backed(r, v) => r.vma[v].phys = None
          /\ r.vma[v].type \in {"Direct", "Pooled"} => r.vma[v].phys \in Direct
          /\ r.vma[v].type = "Flexible" => r.vma[v].phys \in Flexible /\ r.vma[v].mtype = 0
    <3> TAKE v \in Virtual
    <3>1. CASE v \in W
      BY <1>6, <3>1
    <3>2. CASE v \notin W
      BY <1>1, <1>6, <1>8, <3>2 DEF KindInv
    <3> QED
      BY <3>1, <3>2
  <2> QED
    BY <1>1, <1>6, <2>1 DEF KindInv
<1>10. HostInv(r)
  <2> SUFFICES ASSUME NEW v \in Virtual
               PROVE  r.host[v] = IF Backed(r, v) THEN r.vma[v].phys ELSE None
    BY DEF HostInv
  <2>1. CASE v \in W
    BY <1>1, <1>2, <1>6, <1>7, <2>1 DEF HostInv
  <2>2. CASE v \notin W
    BY <1>1, <1>6, <1>8, <2>2 DEF HostInv
  <2> QED
    BY <2>1, <2>2
<1>11. UseInv(r)
  <2>1. \A v \in Virtual \ W : /\ r.vma[v].type = s.vma[v].type /\ r.vma[v].phys = s.vma[v].phys
                               /\ r.vma[v].mtype = s.vma[v].mtype
    BY <1>6
  <2>2. UseStep(s, r, W, {})
    BY <1>2, <1>6, <1>7, <2>1 DEF UseStep
  <2> QED
    BY <1>1, <1>6, <2>2, UseKept
<1>12. BudgetInv(r)
  BY <1>1, <1>6 DEF BudgetInv, Dma
<1>13. VcutInv(r)
  <2>1. VcutStep(s, r, W, {a, a + n})
    <3>1. /\ r.vcut = (s.vcut \cup ({a, a + n} \cap Virtual)) \ {v \in {a, a + n} \cap Virtual : VmaMerge(r, v)}
          /\ \A v \in Virtual \ W : r.vma[v].type = s.vma[v].type
      BY <1>5, <1>6 DEF IsMapped
    <3>2. \A v \in Virtual : v # 0 /\ v \notin {a, a + n} => (v \in W <=> v - 1 \in W)
      BY <1>2, <1>3, Ranges DEF W
    <3>3. \A v \in W : r.vma[v].type = ty /\ ty # "Free"
      BY <1>6
    <3> QED
      BY <1>2, <3>1, <3>2, <3>3 DEF VcutStep
  <2> QED
    BY <1>1, <1>6, <1>9, <2>1, VcutKept
<1>14. PcutInv(r)
  BY <1>1, <1>6 DEF PcutInv
<1>15. AcutInv(r)
  <2>1. \A v \in Virtual \ W : /\ r.vma[v].type = s.vma[v].type /\ r.vma[v].phys = s.vma[v].phys
                               /\ r.vma[v].mtype = s.vma[v].mtype
    BY <1>6
  <2>2. \A v \in Virtual : v \notin W /\ v - 1 \in W => v \in {a, a + n}
    BY <1>2, <1>3, Ranges DEF W
  <2>3. s.acut \ W \subseteq (s.acut \ W) \cup B
    OBVIOUS
  <2>4. AcutStep(s, r, W, (s.acut \ W) \cup B, {a, a + n})
    BY <1>2, <1>6, <1>7, <2>1, <2>2, <2>3 DEF AcutStep
  <2> QED
    BY <1>1, <1>6, <2>4, AcutKept
<1> QED
  BY <1>1, <1>6, <1>9, <1>10, <1>11, <1>12, <1>13, <1>14, <1>15 DEF Good, MapInv, CutInv

\* An area found by SearchFree is one free VMA.
LEMMA SearchFreeIs ==
  ASSUME Good(mm), NEW h \in Virtual, NEW n \in Sizes, NEW a, a = SearchFree(h, n), a # None
  PROVE  Room(mm, a, n, "Free")
<1> DEFINE later == {c \in mm.vcut : c > h /\ mm.vma[c].type = "Free" /\ c + n <= VmaEnd(c)}
<1>1. mm \in State /\ VcutInv(mm) /\ mm.vcut \subseteq Virtual /\ NumVirtual \in Nat
  BY Fields, Ranges DEF Good, CutInv
<1>2. \A v \in Virtual : v \in Nat /\ v < NumVirtual
  BY Ranges
<1>3. ASSUME NEW v \in Virtual PROVE /\ VmaEnd(v) \in Nat /\ VmaEnd(v) <= NumVirtual
                                     /\ \A c \in mm.vcut : c > v => VmaEnd(v) <= c
  <2> DEFINE T == {c \in mm.vcut \cup {NumVirtual} : c > v}
  <2>1. T \subseteq Nat /\ NumVirtual \in T
    BY <1>1, <1>2
  <2>2. Min(T) \in T /\ \A y \in T : Min(T) <= y
    BY <2>1, MinIs
  <2> QED
    BY <2>1, <2>2 DEF VmaEnd
<1>4. a = IF mm.vma[h].type = "Free" /\ h + n <= VmaEnd(h) THEN h
          ELSE IF later = {} THEN None ELSE Min(later)
  BY DEF SearchFree
<1>5. a \in Virtual /\ mm.vma[a].type = "Free" /\ a + n <= VmaEnd(a)
  <2>1. CASE mm.vma[h].type = "Free" /\ h + n <= VmaEnd(h)
    BY <1>4, <2>1
  <2>2. CASE ~(mm.vma[h].type = "Free" /\ h + n <= VmaEnd(h))
    <3>1. later # {} /\ a = Min(later)
      BY <1>4, <2>2
    <3>2. later \subseteq Nat
      BY <1>1, <1>2
    <3>3. a \in later
      BY <3>1, <3>2, MinIs
    <3> QED
      BY <1>1, <3>3
  <2> QED
    BY <2>1, <2>2
<1> HIDE DEF later
<1>6. a \in Int /\ n \in Nat \ {0}
  BY <1>2, <1>5, PagesIs
<1>7. /\ \A x : x \in Pages(a, n) <=> x \in Int /\ a <= x /\ x < a + n
      /\ \A x : x \in Pages(a + 1, n - 1) <=> x \in Int /\ a < x /\ x < a + n
  BY <1>6, PagesIs
<1>8. VmaEnd(a) \in Nat /\ VmaEnd(a) <= NumVirtual /\ \A c \in mm.vcut : c > a => VmaEnd(a) <= c
  BY <1>3, <1>5
<1>9. Pages(a, n) \subseteq Virtual
  BY <1>1, <1>2, <1>5, <1>6, <1>7, <1>8, Ranges
<1>10. mm.vcut \cap Pages(a + 1, n - 1) = {}
  BY <1>1, <1>2, <1>5, <1>6, <1>7, <1>8
<1>11. \A v \in Pages(a, n) : mm.vma[v].type = mm.vma[a].type
  BY <1>1, <1>5, <1>9, <1>10, VmaRun
<1> QED
  BY <1>5, <1>9, <1>10, <1>11 DEF Room

\* Where a mapping begins there is room, in a state that has the invariant, uses no more
\* flexible memory and in which allocated memory is as before, and mapped memory mapped or
\* allocated.
LEMMA PlaceIs ==
  ASSUME Careful, Good(mm), NEW n \in Sizes, NEW place \in Places(n)
  PROVE  /\ Good(place[2]) /\ Room(place[2], place[1], n, "Free")
         /\ place[2].flexible_usage <= mm.flexible_usage /\ place[2].aliased = mm.aliased
         /\ \A p \in Physical : mm.phys[p].dma = "Allocated" => place[2].phys[p] = mm.phys[p]
         /\ \A p \in Physical : mm.phys[p].dma \in {"Mapped", "Allocated"} =>
              place[2].phys[p].dma \in {"Mapped", "Allocated"} /\ place[2].phys[p].mtype = mm.phys[p].mtype
<1>0. mm \in State
  BY DEF Good
<1>1. CASE \E a \in Virtual : /\ Pages(a, n) \subseteq Virtual /\ Typed(mm, Pages(a, n), {"Pooled"}) = {}
                              /\ place = <<a, UnmapMemoryImpl(mm, Pages(a, n))>>
  <2>1. PICK a \in Virtual : /\ Pages(a, n) \subseteq Virtual /\ Typed(mm, Pages(a, n), {"Pooled"}) = {}
                             /\ place = <<a, UnmapMemoryImpl(mm, Pages(a, n))>>
    BY <1>1
  <2> DEFINE s == UnmapMemoryImpl(mm, Pages(a, n))
  <2>2. place[1] = a /\ place[2] = s
    BY <2>1
  <2>3. s = UnmapMemoryImpl(mm, Pages(a, n)) /\ Pages(a, n) \in SUBSET Virtual
    BY <2>1
  <2> HIDE DEF s
  <2>4. /\ Good(s) /\ \A v \in Gone(mm, Pages(a, n)) : s.vma[v] = FreePage
        /\ \A v \in Virtual \ Gone(mm, Pages(a, n)) : s.vma[v] = mm.vma[v]
        /\ \A p \in Physical : mm.phys[p].dma = "Allocated" => s.phys[p] = mm.phys[p]
        /\ \A p \in Physical : mm.phys[p].dma \in {"Mapped", "Allocated"} =>
             s.phys[p].dma \in {"Mapped", "Allocated"} /\ s.phys[p].mtype = mm.phys[p].mtype
        /\ s.flexible_usage <= mm.flexible_usage /\ s.aliased = mm.aliased
    BY <2>3, UnmapGood
  <2>5. ASSUME NEW v \in Pages(a, n) PROVE s.vma[v].type = "Free"
    <3>1. CASE v \in Gone(mm, Pages(a, n))
      BY <2>4, <3>1, FreePageIs
    <3>2. CASE v \notin Gone(mm, Pages(a, n))
      <4>1. mm.vma[v].type \in {"Free", "Pooled"}
        BY <3>2 DEF Gone
      <4>2. mm.vma[v].type # "Pooled"
        BY <2>1 DEF Typed
      <4> QED
        BY <2>3, <2>4, <3>2, <4>1, <4>2
    <3> QED
      BY <3>1, <3>2
  <2>6. s.vcut \cap Pages(a + 1, n - 1) = {}
    <3> SUFFICES ASSUME NEW x \in Pages(a + 1, n - 1), x \in s.vcut PROVE FALSE
      OBVIOUS
    <3>1. a \in Int /\ 0 <= a
      BY Ranges
    <3>2. x \in Int /\ a < x /\ x < a + n
      BY <3>1, PagesIs
    <3>3. x \in Pages(a, n) /\ x - 1 \in Pages(a, n) /\ x # 0
      BY <3>1, <3>2, PagesIs
    <3>4. VcutInv(s)
      BY <2>4 DEF Good, CutInv
    <3> QED
      BY <2>5, <3>3, <3>4 DEF VcutInv
  <2>7. Room(s, a, n, "Free")
    BY <2>3, <2>5, <2>6 DEF Room
  <2> QED
    BY <2>2, <2>4, <2>7
<1>2. CASE \E h \in Virtual : SearchFree(h, n) # None /\ place = <<SearchFree(h, n), mm>>
  <2>1. PICK h \in Virtual : SearchFree(h, n) # None /\ place = <<SearchFree(h, n), mm>>
    BY <1>2
  <2>2. place[1] = SearchFree(h, n) /\ place[2] = mm
    BY <2>1
  <2>3. Room(mm, place[1], n, "Free")
    BY <2>1, <2>2, SearchFreeIs
  <2>4. mm.flexible_usage \in Int
    BY <1>0, Fields
  <2> QED
    BY <2>2, <2>3, <2>4
<1> QED
  BY <1>1, <1>2 DEF Places

-----------------------------------------------------------------------------
(* The operations keep the invariant                                       *)

\* The manager begins with free maps that satisfy the invariant; those that a failed ASSERT
\* leaves satisfy it too.
LEMMA StartGood ==
  ASSUME NEW t \in BOOLEAN, NEW b \in BOOLEAN, t => b,
         NEW s, s \in {Start, [Start EXCEPT !.aliased = b],
                       [Start EXCEPT !.abort = FALSE, !.torn = t, !.aliased = b]}
  PROVE  Good(s) /\ s.flexible_usage = 0
<1>1. /\ s.vma = [v \in Virtual |-> FreePage] /\ s.vcut = {0} /\ s.acut = {}
      /\ s.phys = [p \in Physical |-> [dma |-> "Free", mtype |-> 0]]
      /\ s.pcut = {0, NumDirect} /\ s.host = [v \in Virtual |-> None]
      /\ s.flexible_usage = 0 /\ s.pool_budget = 0 /\ s.abort = FALSE
      /\ s.torn \in BOOLEAN /\ s.aliased \in BOOLEAN /\ (s.torn => s.aliased)
  <2>1. CASE s = Start
    BY <2>1 DEF Start
  <2>2. CASE s = [Start EXCEPT !.aliased = b]
    BY <2>2 DEF Start
  <2>3. CASE s = [Start EXCEPT !.abort = FALSE, !.torn = t, !.aliased = b]
    BY <2>3 DEF Start
  <2> QED
    BY <2>1, <2>2, <2>3
<1>2. 0 \in Virtual /\ 0 \in Physical /\ NumDirect \in Physical
  BY Ranges
<1>3. s \in State
  <2>1. [dma |-> "Free", mtype |-> 0] \in PhysPage
    BY DEF PhysPage
  <2>2. /\ [v \in Virtual |-> FreePage] \in [Virtual -> VmaPage]
        /\ [p \in Physical |-> [dma |-> "Free", mtype |-> 0]] \in [Physical -> PhysPage]
        /\ [v \in Virtual |-> None] \in [Virtual -> Physical \cup {None}]
    BY <2>1, FreePageIs
  <2>3. /\ {0} \in SUBSET Virtual /\ {} \in SUBSET Virtual /\ {0, NumDirect} \in SUBSET Physical
        /\ 0 \in Int /\ FALSE \in BOOLEAN
    BY <1>2
  <2>4. Start \in State
    BY <2>2, <2>3 DEF Start, State
  <2>5. /\ [Start EXCEPT !.aliased = b] \in State
        /\ [Start EXCEPT !.abort = FALSE, !.torn = t, !.aliased = b] \in State
    BY <2>4 DEF State
  <2> QED
    BY <2>4, <2>5
<1>4. /\ \A v \in Virtual : s.vma[v] = FreePage /\ ~Backed(s, v) /\ s.host[v] = None
      /\ \A p \in Physical : s.phys[p].dma = "Free" /\ s.phys[p].mtype = 0
  BY <1>1, FreePageIs DEF Backed
<1>5. KindInv(s)
  <2>1. Direct \subseteq Physical /\ Flexible \subseteq Physical
    BY Ranges
  <2> QED
    BY <1>4, <2>1, FreePageIs DEF KindInv
<1>6. HostInv(s) /\ UseInv(s)
  BY <1>4, FreePageIs DEF HostInv, UseInv, Sole
<1>7. BudgetInv(s)
  <2>1. Dma(s, Flexible, {"Flexible"}) = {} /\ Dma(s, Direct, {"Pooled"}) = {}
    BY <1>4, Ranges DEF Dma
  <2> QED
    BY <1>1, <2>1, FS_EmptySet DEF BudgetInv
<1>8. VcutInv(s)
  <2>1. \A v \in Virtual : v # 0 => v - 1 \in Virtual
    BY Ranges
  <2> QED
    BY <1>1, <1>4, <2>1 DEF VcutInv
<1>9. PcutInv(s)
  <2>1. \A p \in Physical : p # 0 => p - 1 \in Physical
    BY Ranges
  <2> QED
    BY <1>1, <2>1 DEF PcutInv
<1>10. AcutInv(s)
  BY <1>1, <1>4 DEF AcutInv
<1> QED
  BY <1>1, <1>3, <1>5, <1>6, <1>7, <1>8, <1>9, <1>10 DEF Good, MapInv, CutInv

\* What an operation leaves keeps the invariant, if the ASSERT of CarvePhysArea fails only
\* where direct memory was mapped twice.
LEMMA OutcomeGood ==
  ASSUME Good(mm), NEW s, Good(s), s.torn => mm.aliased
  PROVE  /\ Good(Outcome(s)) /\ Outcome(s).flexible_usage \in Int
         /\ s.flexible_usage <= mm.flexible_usage => Outcome(s).flexible_usage <= mm.flexible_usage
<1>1. /\ s \in State /\ mm \in State /\ s.abort = FALSE /\ s.torn \in BOOLEAN /\ mm.aliased \in BOOLEAN
      /\ s.flexible_usage \in Int /\ mm.flexible_usage \in Int
  BY Fields DEF Good
<1>2. mm.flexible_usage >= 0
  <2>1. mm.flexible_usage = Cardinality(Dma(mm, Flexible, {"Flexible"}))
    BY DEF Good, MapInv, BudgetInv
  <2> QED
    BY <2>1, DmaFinite
<1>3. CASE s.torn
  <2>1. Outcome(s) = [Start EXCEPT !.abort = FALSE, !.torn = s.torn, !.aliased = mm.aliased]
    BY <1>1, <1>3 DEF Outcome
  <2>2. Good(Outcome(s)) /\ Outcome(s).flexible_usage = 0
    BY <1>1, <1>3, <2>1, StartGood
  <2> QED
    BY <1>2, <2>2
<1>4. CASE ~s.torn
  <2>1. Outcome(s) = s
    BY <1>1, <1>4 DEF Outcome
  <2> QED
    BY <1>1, <2>1
<1> QED
  BY <1>1, <1>3, <1>4

\* The calls in progress stay right when others change nothing but the maps and use no more
\* flexible memory.
LEMMA CallsKept ==
  ASSUME Good(mm), CallInv, Good(mm'), mm'.flexible_usage <= mm.flexible_usage, UNCHANGED calls
  PROVE  CallInv'
<1>1. mm.flexible_usage \in Int /\ mm'.flexible_usage \in Int
  BY DEF Good, State
<1>2. ASSUME NEW t \in Mappers, calls[t].at = "checked", ~calls[t].stale
      PROVE  mm'.flexible_usage + calls[t].size <= NumFlexible
  <2>1. mm.flexible_usage + calls[t].size <= NumFlexible /\ calls[t].size \in Sizes
    BY <1>2 DEF CallInv
  <2>2. calls[t].size \in Int /\ NumFlexible \in Int
    BY <2>1, PagesIs, Ranges DEF Sizes
  <2> QED
    BY <1>1, <2>1, <2>2
<1> QED
  BY <1>2 DEF CallInv

\* After a mapping of flexible memory no check that another call has made counts any more.
LEMMA CallsAfterIs ==
  ASSUME CallInv, NEW t \in Mappers, NEW low, NEW c \in CallsAfter(t, low)
  PROVE  /\ c \in [Mappers -> [at : {"idle", "checked", "aborted"}, size : 0 .. MaxSize, stale : BOOLEAN]]
         /\ \A u \in Mappers : c[u].at = "checked" => c[u].size \in Sizes /\ c[u].stale
         /\ \A u \in Mappers : c[u].at = "aborted" => c[u].stale
<1>1. PICK asked \in [Mappers \ {t} -> 0 .. MaxSize] :
        c = [u \in Mappers |->
               IF u = t THEN Idle
               ELSE IF calls[u].at = "checked" THEN [calls[u] EXCEPT !.stale = TRUE]
               ELSE IF asked[u] = 0 THEN calls[u]
               ELSE Call("checked", asked[u], TRUE)]
  BY DEF CallsAfter
<1> DEFINE R == [at : {"idle", "checked", "aborted"}, size : 0 .. MaxSize, stale : BOOLEAN]
<1>2. /\ \A u \in Mappers : calls[u] \in R
      /\ \A u \in Mappers : calls[u].at = "checked" => calls[u].size \in Sizes
      /\ \A u \in Mappers : calls[u].at = "aborted" => calls[u].stale
  BY DEF CallInv
<1>3. ASSUME NEW u \in Mappers
      PROVE  /\ c[u] \in R
             /\ c[u].at = "checked" => c[u].size \in Sizes /\ c[u].stale
             /\ c[u].at = "aborted" => c[u].stale
  <2>1. CASE u = t
    <3>1. c[u] = Idle /\ 0 \in 0 .. MaxSize
      BY <1>1, <2>1, Ranges
    <3> QED
      BY <3>1 DEF Idle, Call
  <2>2. CASE u # t /\ calls[u].at = "checked"
    <3>1. c[u] = [calls[u] EXCEPT !.stale = TRUE]
      BY <1>1, <2>2
    <3>2. calls[u] \in R /\ calls[u].at = "checked" /\ calls[u].size \in Sizes
      BY <1>2, <2>2
    <3>3. c[u] \in R /\ c[u].at = calls[u].at /\ c[u].size = calls[u].size /\ c[u].stale = TRUE
      BY <3>1, <3>2
    <3> QED
      BY <3>2, <3>3
  <2>3. CASE u # t /\ calls[u].at # "checked" /\ asked[u] = 0
    <3>1. c[u] = calls[u]
      BY <1>1, <2>3
    <3> QED
      BY <1>2, <2>3, <3>1
  <2>4. CASE u # t /\ calls[u].at # "checked" /\ asked[u] # 0
    <3>1. c[u] = Call("checked", asked[u], TRUE)
      BY <1>1, <2>4
    <3>2. asked[u] \in 0 .. MaxSize /\ asked[u] \in Sizes
      BY <2>4 DEF Sizes
    <3> QED
      BY <3>1, <3>2 DEF Call
  <2> QED
    BY <2>1, <2>2, <2>3, <2>4
<1>4. c = [u \in Mappers |-> c[u]]
  BY <1>1
<1> HIDE DEF R
<1>5. c \in [Mappers -> R]
  BY <1>3, <1>4
<1> QED
  BY <1>3, <1>5 DEF R

\* UnmapMemory keeps the invariant.
LEMMA UnmapMemoryKeeps ==
  ASSUME Good(mm), UnmapMemory
  PROVE  Good(mm') /\ mm'.flexible_usage <= mm.flexible_usage
<1>1. PICK a \in Virtual, n \in Sizes :
        Pages(a, n) \subseteq Virtual /\ mm' = Outcome(UnmapMemoryImpl(mm, Pages(a, n)))
  BY DEF UnmapMemory
<1> DEFINE r == UnmapMemoryImpl(mm, Pages(a, n))
<1>2. r = UnmapMemoryImpl(mm, Pages(a, n)) /\ Pages(a, n) \in SUBSET Virtual /\ mm' = Outcome(r)
  BY <1>1
<1> HIDE DEF r
<1>3. Good(r) /\ r.aliased = mm.aliased /\ r.flexible_usage <= mm.flexible_usage
  BY <1>2, UnmapGood
<1>4. r.torn => mm.aliased
  BY <1>3 DEF Good
<1> QED
  BY <1>2, <1>3, <1>4, OutcomeGood

\* MapReserved keeps the invariant.
LEMMA MapReservedKeeps ==
  ASSUME Careful, Good(mm), MapReserved
  PROVE  Good(mm') /\ mm'.flexible_usage <= mm.flexible_usage
<1>1. PICK n \in Sizes : \E place \in Places(n), type \in {"Reserved", "PoolReserved"} :
        mm' = Outcome(Mapped(place[2], place[1], n, "Free",
                             [v \in Pages(place[1], n) |-> Page(type, "NoAccess", None, 0)]))
  BY DEF MapReserved
<1>2. PICK place \in Places(n), type \in {"Reserved", "PoolReserved"} :
        mm' = Outcome(Mapped(place[2], place[1], n, "Free",
                             [v \in Pages(place[1], n) |-> Page(type, "NoAccess", None, 0)]))
  BY <1>1
<1> DEFINE page == [v \in Pages(place[1], n) |-> Page(type, "NoAccess", None, 0)]
           r == Mapped(place[2], place[1], n, "Free", page)
<1>3. /\ Good(place[2]) /\ Room(place[2], place[1], n, "Free")
      /\ place[2].flexible_usage <= mm.flexible_usage /\ place[2].aliased = mm.aliased
  BY PlaceIs
<1>4. Good(r) /\ r.torn = place[2].torn /\ r.flexible_usage = place[2].flexible_usage
  BY <1>3, MapPlain
<1>5. mm' = Outcome(r)
  BY <1>2
<1> HIDE DEF r
<1>6. r.torn => mm.aliased
  BY <1>3, <1>4 DEF Good
<1> QED
  BY <1>3, <1>4, <1>5, <1>6, OutcomeGood

\* A mapping of pages v to the pages that Nth numbers.
LEMMA Numbering ==
  ASSUME NEW a \in Int, NEW n \in Sizes, NEW S \in SUBSET Physical, n <= Cardinality(S)
  PROVE  /\ First(S, n) \subseteq S /\ IsFiniteSet(First(S, n)) /\ Cardinality(First(S, n)) = n
         /\ \A v \in Pages(a, n) : Nth(S, v - a) \in First(S, n)
         /\ \A p \in First(S, n) : \E v \in Pages(a, n) : Nth(S, v - a) = p
         /\ \A u, v \in Pages(a, n) : Nth(S, u - a) = Nth(S, v - a) => u = v
<1>1. n \in Nat /\ \A x : x \in Pages(a, n) <=> x \in Int /\ a <= x /\ x < a + n
  BY PagesIs
<1>2. \A v \in Pages(a, n) : v \in Int /\ v - a \in 0 .. n - 1
  BY <1>1
<1> DEFINE b == NumDirect + NumFlexible - 1
<1>0. b \in Nat /\ S \subseteq 0 .. b
  BY Ranges
<1> HIDE DEF b
<1>3. /\ First(S, n) \subseteq S /\ IsFiniteSet(First(S, n)) /\ Cardinality(First(S, n)) = n
      /\ \A i \in 0 .. n - 1 : Nth(S, i) \in First(S, n)
      /\ \A p \in First(S, n) : \E i \in 0 .. n - 1 : p = Nth(S, i)
      /\ \A i, j \in 0 .. n - 1 : Nth(S, i) = Nth(S, j) => i = j
  BY <1>0, <1>1, FirstIs
<1>4. ASSUME NEW p \in First(S, n) PROVE \E v \in Pages(a, n) : Nth(S, v - a) = p
  <2>1. PICK i \in 0 .. n - 1 : p = Nth(S, i)
    BY <1>3
  <2>2. a + i \in Pages(a, n) /\ (a + i) - a = i
    BY <1>1
  <2> QED
    BY <2>1, <2>2
<1>5. ASSUME NEW u \in Pages(a, n), NEW v \in Pages(a, n), Nth(S, u - a) = Nth(S, v - a) PROVE u = v
  <2>1. u - a = v - a /\ u \in Int /\ v \in Int
    BY <1>2, <1>3, <1>5
  <2> QED
    BY <2>1
<1> QED
  BY <1>2, <1>3, <1>4, <1>5

\* A mapping of flexible memory at a place.
FlexibleAt(t, place) ==
    LET n == calls[t].size
        a == place[1]
        s == place[2]
        free == Dma(s, Flexible, {"Free"})
        taken == First(free, n)
        s1 == [s EXCEPT !.phys = Painted(s, taken, "Flexible", None), !.flexible_usage = @ + n]
    IN  IF Cardinality(free) < n /\ ~s.torn
        THEN /\ calls' = [calls EXCEPT ![t].at = "aborted"]
             /\ mm' = [Start EXCEPT !.aliased = mm.aliased]
        ELSE /\ mm' = Outcome(IF s.torn THEN s
                              ELSE Mapped(PhysCarved(s1, Ends(taken, s.pcut)), a, n, "Free",
                                          [v \in Pages(a, n) |->
                                             Page("Flexible", "ReadWrite", Nth(free, v - a), 0)]))
             /\ calls' \in CallsAfter(t, s.flexible_usage)

\* MapFlexible keeps the invariant: a call whose check still holds finds as much free
\* flexible memory as flexible_usage leaves.
LEMMA MapFlexibleKeeps ==
  ASSUME Careful, IInv, NEW t \in Mappers, MapFlexible(t)
  PROVE  IInv'
<1>1. calls[t].at = "checked" /\ \E place \in Places(calls[t].size) : FlexibleAt(t, place)
  BY DEF MapFlexible, FlexibleAt
<1>2. PICK place \in Places(calls[t].size) : FlexibleAt(t, place)
  BY <1>1
<1>3. PICK n \in Sizes : n = calls[t].size
  BY <1>1 DEF IInv, CallInv
<1> DEFINE a == place[1]
           s == place[2]
           free == Dma(s, Flexible, {"Free"})
           P == First(free, n)
           f == Painted(s, P, "Flexible", None)
           u1 == s.flexible_usage + n
           s1 == [s EXCEPT !.phys = f, !.flexible_usage = u1]
           page == [v \in Pages(a, n) |-> Page("Flexible", "ReadWrite", Nth(free, v - a), 0)]
<1>4. /\ Good(s) /\ Room(s, a, n, "Free") /\ s.flexible_usage <= mm.flexible_usage
      /\ (s.torn => mm.aliased) /\ Good(mm)
  <2>1. Good(mm) /\ place \in Places(n)
    BY <1>2, <1>3 DEF IInv
  <2>2. Good(s) /\ Room(s, a, n, "Free") /\ s.flexible_usage <= mm.flexible_usage /\ s.aliased = mm.aliased
    BY <2>1, PlaceIs
  <2>3. s.torn => s.aliased
    BY <2>2 DEF Good
  <2> QED
    BY <2>1, <2>2, <2>3
<1>5. IF Cardinality(free) < n /\ ~s.torn
      THEN /\ calls' = [calls EXCEPT ![t].at = "aborted"]
           /\ mm' = [Start EXCEPT !.aliased = mm.aliased]
      ELSE /\ mm' = Outcome(IF s.torn THEN s ELSE Mapped(PhysCarved(s1, Ends(P, s.pcut)), a, n, "Free", page))
           /\ calls' \in CallsAfter(t, s.flexible_usage)
  BY <1>2, <1>3 DEF FlexibleAt
<1> HIDE DEF a, s
<1>6. /\ s \in State /\ KindInv(s) /\ UseInv(s) /\ BudgetInv(s) /\ s.abort = FALSE /\ mm \in State
      /\ s.torn \in BOOLEAN /\ mm.aliased \in BOOLEAN
  BY <1>4, Fields DEF Good, MapInv
<1>7. n \in Nat /\ mm.flexible_usage \in Int /\ s.flexible_usage \in Int /\ mm.flexible_usage >= 0
      /\ NumFlexible \in Nat
  <2>1. n \in Nat /\ mm.flexible_usage \in Int /\ s.flexible_usage \in Int /\ NumFlexible \in Nat
    BY <1>6, PagesIs, Ranges, Fields
  <2>2. mm.flexible_usage = Cardinality(Dma(mm, Flexible, {"Flexible"}))
    BY <1>4 DEF Good, MapInv, BudgetInv
  <2> QED
    BY <2>1, <2>2, DmaFinite
<1>8. IsFiniteSet(free) /\ Cardinality(free) \in Nat
  BY DmaFinite
<1>9. Cardinality(free) = NumFlexible - s.flexible_usage
  <2> DEFINE X == Dma(s, Flexible, {"Flexible"})
  <2>1. free = Flexible \ X
    BY <1>6 DEF KindInv, Dma
  <2>2. IsFiniteSet(Flexible) /\ Cardinality(Flexible) = NumFlexible /\ IsFiniteSet(X) /\ X \subseteq Flexible
    BY DmaFinite
  <2>3. Cardinality(free) = NumFlexible - Cardinality(X)
    BY <2>1, <2>2, Counted
  <2>4. s.flexible_usage = Cardinality(X)
    BY <1>6 DEF BudgetInv
  <2> QED
    BY <2>3, <2>4
<1> HIDE DEF free
<1>10. CASE Cardinality(free) < n /\ ~s.torn
  <2>1. calls' = [calls EXCEPT ![t].at = "aborted"] /\ mm' = [Start EXCEPT !.aliased = mm.aliased]
    BY <1>5, <1>10
  <2>2. Good(mm') /\ mm'.flexible_usage = 0
    <3>1. FALSE \in BOOLEAN /\ (FALSE => mm.aliased)
      OBVIOUS
    <3> QED
      BY <1>6, <2>1, <3>1, StartGood
  <2>3. calls[t].stale
    <3>1. CallInv /\ calls[t].stale \in BOOLEAN
      BY DEF IInv, CallInv
    <3>2. ~calls[t].stale => mm.flexible_usage + n <= NumFlexible
      BY <1>1, <1>3, <3>1 DEF CallInv
    <3> QED
      BY <1>4, <1>7, <1>8, <1>9, <1>10, <3>2
  <2>4. CallInv'
    <3> DEFINE R == [at : {"idle", "checked", "aborted"}, size : 0 .. MaxSize, stale : BOOLEAN]
    <3>1. calls \in [Mappers -> R]
      BY DEF IInv, CallInv
    <3>2. [calls[t] EXCEPT !.at = "aborted"] \in R /\ [calls[t] EXCEPT !.at = "aborted"].stale = calls[t].stale
          /\ [calls[t] EXCEPT !.at = "aborted"].at = "aborted"
      BY <3>1
    <3>3. calls'[t] = [calls[t] EXCEPT !.at = "aborted"] /\ \A u \in Mappers \ {t} : calls'[u] = calls[u]
      BY <2>1, <3>1
    <3>4. calls' \in [Mappers -> R]
      BY <2>1, <3>1, <3>2
    <3>5. ASSUME NEW u \in Mappers
          PROVE  /\ calls'[u].at = "checked" => calls'[u].size \in Sizes
                 /\ calls'[u].at = "checked" /\ ~calls'[u].stale =>
                      mm'.flexible_usage + calls'[u].size <= NumFlexible
                 /\ calls'[u].at = "aborted" => calls'[u].stale
      <4>1. CASE u = t
        BY <2>3, <3>2, <3>3, <4>1
      <4>2. CASE u # t
        <5>1. /\ calls'[u] = calls[u]
              /\ calls[u].at = "checked" => calls[u].size \in Sizes
              /\ calls[u].at = "checked" /\ ~calls[u].stale => mm.flexible_usage + calls[u].size <= NumFlexible
              /\ calls[u].at = "aborted" => calls[u].stale
          BY <3>3, <4>2 DEF IInv, CallInv
        <5>2. calls[u].size \in Int
          BY <3>1
        <5> QED
          BY <1>7, <2>2, <5>1, <5>2
      <4> QED
        BY <4>1, <4>2
    <3> QED
      BY <3>4, <3>5 DEF CallInv
  <2> QED
    BY <2>2, <2>4 DEF IInv
<1>11. ASSUME Cardinality(free) >= n
       PROVE  /\ Good(Mapped(PhysCarved(s1, Ends(P, s.pcut)), a, n, "Free", page))
              /\ Mapped(PhysCarved(s1, Ends(P, s.pcut)), a, n, "Free", page).torn = s.torn
  <2>1. a \in Virtual /\ a \in Int /\ n \in Nat
    <3>1. a \in Virtual
      BY <1>4 DEF Room
    <3> QED
      BY <1>7, <3>1, Ranges
  <2>2. /\ free \subseteq Flexible /\ \A p \in free : s.phys[p].dma = "Free"
        /\ \A p \in free : s.phys[p].mtype = 0
    <3>1. free \subseteq Flexible /\ \A p \in free : s.phys[p].dma = "Free"
      BY DEF Dma, free
    <3> QED
      BY <1>6, <3>1 DEF KindInv
  <2>3. /\ P \subseteq free /\ IsFiniteSet(P) /\ Cardinality(P) = n
        /\ \A v \in Pages(a, n) : Nth(free, v - a) \in P
        /\ \A p \in P : \E v \in Pages(a, n) : Nth(free, v - a) = p
        /\ \A u, v \in Pages(a, n) : Nth(free, u - a) = Nth(free, v - a) => u = v
    <3>1. free \in SUBSET Physical /\ n <= Cardinality(free)
      BY <1>11, <2>1, <2>2, <1>8, Ranges
    <3> HIDE DEF free
    <3> QED
      BY <2>1, <3>1, Numbering
  <2> HIDE DEF P, free
  <2>4. \A v \in Pages(a, n) : /\ page[v] \in VmaPage /\ page[v].type = "Flexible"
                               /\ page[v].phys = Nth(free, v - a) /\ page[v].mtype = 0
    <3>1. \A v \in Pages(a, n) : Nth(free, v - a) \in Physical
      BY <2>2, <2>3, Ranges
    <3> QED
      BY <3>1 DEF Page, VmaPage
  <2>5. DOMAIN page = Pages(a, n)
    OBVIOUS
  <2> HIDE DEF page
  <2>6. Backing(s, a, n, page, "Flexible", P)
    BY <2>2, <2>3, <2>4, <2>5 DEF Backing
  <2>7. /\ f \in [Physical -> PhysPage]
        /\ \A p \in Physical \ P : f[p] = s.phys[p]
        /\ \A p \in P : f[p].dma = "Flexible" /\ f[p].mtype = s.phys[p].mtype
    <3>1. P \in SUBSET Physical /\ "Flexible" \in DmaTypes
      BY <2>2, <2>3, Ranges, DmaTypesAre
    <3> QED
      BY <1>6, <3>1, PaintedKeeps
  <2>8. u1 \in Int /\ u1 = s.flexible_usage + n
    BY <1>6, <2>1, Fields
  <2> HIDE DEF f, u1
  <2>9. /\ s1 \in State /\ s1.phys = f /\ s1.flexible_usage = u1 /\ s1.pool_budget = s.pool_budget
        /\ s1.vma = s.vma /\ s1.vcut = s.vcut /\ s1.acut = s.acut /\ s1.pcut = s.pcut /\ s1.host = s.host
        /\ s1.abort = s.abort /\ s1.torn = s.torn /\ s1.aliased = s.aliased
    BY <1>6, <2>7, <2>8 DEF State
  <2> HIDE DEF s1
  <2>10. BudgetInv(s1)
    <3> DEFINE X == Dma(s, Flexible, {"Flexible"})
    <3>1. Dma(s1, Flexible, {"Flexible"}) = X \cup P /\ X \cap P = {}
      <4>1. P \subseteq Flexible /\ Flexible \subseteq Physical /\ \A p \in P : s.phys[p].dma = "Free"
        BY <2>2, <2>3, Ranges
      <4> QED
        BY <2>7, <2>9, <4>1 DEF Dma
    <3>2. Dma(s1, Direct, {"Pooled"}) = Dma(s, Direct, {"Pooled"})
      <4>1. \A p \in Direct : p \in Physical \ P
        BY <2>2, <2>3, Ranges
      <4> QED
        BY <2>7, <2>9, <4>1 DEF Dma
    <3>3. IsFiniteSet(X)
      BY DmaFinite
    <3>4. Cardinality(X \cup P) = Cardinality(X) + n
      BY <2>3, <3>1, <3>3, Counted
    <3> HIDE DEF X
    <3> QED
      BY <1>6, <2>8, <2>9, <3>1, <3>2, <3>4 DEF BudgetInv, X
  <2>11. Taken(s, s1, a, n, page, "Flexible", P)
    <3>1. \A v \in Pages(a, n) : /\ s1.phys[page[v].phys].dma = UseOf["Flexible"]
                                 /\ s1.phys[page[v].phys].mtype = page[v].mtype
      <4>1. UseOf["Flexible"] = "Flexible"
        BY DEF UseOf
      <4> QED
        BY <2>2, <2>3, <2>4, <2>7, <2>9, <4>1
    <3>2. ASSUME NEW p \in P, p - 1 \in P PROVE s1.phys[p] = s1.phys[p - 1]
      <4>1. p \in Physical /\ p - 1 \in Physical
        BY <2>2, <2>3, <3>2, Ranges
      <4>2. s1.phys[p].dma = s1.phys[p - 1].dma /\ s1.phys[p].mtype = s1.phys[p - 1].mtype
        BY <2>2, <2>3, <2>7, <2>9, <3>2
      <4> QED
        BY <2>9, <4>1, <4>2, PageFields, SamePhys
    <3>3. \A p \in P : s.phys[p].dma # "Mapped"
      BY <2>2, <2>3
    <3> QED
      BY <1>6, <2>7, <2>9, <2>10, <3>1, <3>2, <3>3 DEF Taken
  <2> DEFINE r == Mapped(PhysCarved(s1, Ends(P, s.pcut)), a, n, "Free", page)
  <2>12. r = Mapped(PhysCarved(s1, Ends(P, s.pcut)), a, n, "Free", page)
    OBVIOUS
  <2> HIDE DEF r
  <2>13. Good(r) /\ r.torn = s.torn
    BY <1>4, <2>6, <2>11, <2>12, MapBacked
  <2> QED
    BY <2>12, <2>13
<1>12. CASE ~(Cardinality(free) < n /\ ~s.torn)
  <2> DEFINE r == IF s.torn THEN s ELSE Mapped(PhysCarved(s1, Ends(P, s.pcut)), a, n, "Free", page)
  <2>1. mm' = Outcome(r) /\ calls' \in CallsAfter(t, s.flexible_usage)
    BY <1>5, <1>12
  <2>2. Good(r) /\ r.torn = s.torn
    <3>1. ~s.torn => Cardinality(free) >= n
      BY <1>7, <1>8, <1>12
    <3> QED
      BY <1>4, <1>11, <3>1
  <2> HIDE DEF r
  <2>3. Good(mm')
    BY <1>4, <2>1, <2>2, OutcomeGood
  <2>4. /\ calls' \in [Mappers -> [at : {"idle", "checked", "aborted"}, size : 0 .. MaxSize,
                                   stale : BOOLEAN]]
        /\ \A u \in Mappers : calls'[u].at = "checked" => calls'[u].size \in Sizes /\ calls'[u].stale
        /\ \A u \in Mappers : calls'[u].at = "aborted" => calls'[u].stale
    <3>1. CallInv
      BY DEF IInv
    <3> QED
      BY <2>1, <3>1, CallsAfterIs
  <2>5. \A u \in Mappers :
          /\ calls'[u].at = "checked" => calls'[u].size \in Sizes
          /\ calls'[u].at = "checked" /\ ~calls'[u].stale =>
               mm'.flexible_usage + calls'[u].size <= NumFlexible
          /\ calls'[u].at = "aborted" => calls'[u].stale
    BY <2>4
  <2> QED
    BY <2>3, <2>4, <2>5 DEF IInv, CallInv
<1> QED
  BY <1>10, <1>12

\* A mapping of direct memory at a place.
DirectAt(n, p, place) ==
    LET a == place[1]
        s == place[2]
        s1 == [s EXCEPT !.phys = Painted(s, Pages(p, n), "Mapped", None),
                        !.aliased = @ \/ Dma(s, Pages(p, n), {"Mapped"}) # {}]
    IN  mm' = Outcome(Mapped(PhysCarved(s1, Ends(Pages(p, n), s.pcut)), a, n, "Free",
                             [v \in Pages(a, n) |->
                                Page("Direct", "ReadWrite", p + v - a, s.phys[p + v - a].mtype)]))

\* MapDirect keeps the invariant: the memory it found allocated is still so after CreateArea
\* has unmapped what was at the address, and mapped memory is mapped or allocated.
LEMMA MapDirectKeeps ==
  ASSUME Careful, Good(mm), MapDirect
  PROVE  Good(mm') /\ mm'.flexible_usage <= mm.flexible_usage
<1>00. PICK n \in Sizes : \E place \in Places(n), q \in Direct, validate_dmem \in BOOLEAN :
         /\ Pages(q, n) \subseteq Dma(mm, Direct, IF validate_dmem THEN {"Allocated"}
                                                 ELSE {"Allocated", "Mapped"})
         /\ DirectAt(n, q, place)
  BY DEF MapDirect, DirectAt
<1>01. PICK place \in Places(n), q \in Direct, validate_dmem \in BOOLEAN :
         /\ Pages(q, n) \subseteq Dma(mm, Direct, IF validate_dmem THEN {"Allocated"}
                                                 ELSE {"Allocated", "Mapped"})
         /\ DirectAt(n, q, place)
  BY <1>00
<1>0. \A p \in Pages(q, n) : p \in Direct /\ mm.phys[p].dma \in {"Mapped", "Allocated"}
  BY <1>01 DEF Dma
<1>1. DirectAt(n, q, place)
  BY <1>01
<1> DEFINE a == place[1]
           s == place[2]
           P == Pages(q, n)
           f == Painted(s, P, "Mapped", None)
           b1 == s.aliased \/ Dma(s, P, {"Mapped"}) # {}
           s1 == [s EXCEPT !.phys = f, !.aliased = b1]
           page == [v \in Pages(a, n) |-> Page("Direct", "ReadWrite", q + v - a, s.phys[q + v - a].mtype)]
<1>2. /\ Good(s) /\ Room(s, a, n, "Free") /\ s.flexible_usage <= mm.flexible_usage /\ s.aliased = mm.aliased
      /\ \A p \in Physical : mm.phys[p].dma \in {"Mapped", "Allocated"} => s.phys[p].dma \in {"Mapped", "Allocated"}
  BY PlaceIs
<1>3. mm' = Outcome(Mapped(PhysCarved(s1, Ends(P, s.pcut)), a, n, "Free", page))
  BY <1>1 DEF DirectAt
<1> HIDE DEF a, s
<1>4. /\ s \in State /\ KindInv(s) /\ UseInv(s) /\ BudgetInv(s) /\ s.abort = FALSE /\ s.aliased \in BOOLEAN
      /\ (s.torn => mm.aliased)
  BY <1>2, Fields DEF Good, MapInv
<1>5. a \in Virtual /\ a \in Int /\ q \in Int
  BY <1>2, Ranges DEF Room
<1>6. /\ n \in Nat /\ \A x : x \in Pages(a, n) <=> x \in Int /\ a <= x /\ x < a + n
      /\ \A x : x \in P <=> x \in Int /\ q <= x /\ x < q + n
  BY <1>5, PagesIs
<1>7. P \subseteq Direct /\ \A p \in P : p \in Physical /\ s.phys[p].dma \in {"Mapped", "Allocated"}
  <2>1. \A p \in Direct : p \in Physical
    BY Ranges
  <2> QED
    BY <1>0, <1>2, <2>1
<1>07. b1 \in BOOLEAN /\ (s.aliased => b1) /\ \A p \in P : s.phys[p].dma = "Mapped" => b1
  BY <1>4 DEF Dma
<1> HIDE DEF P, b1
<1>8. /\ \A v \in Pages(a, n) : v \in Int /\ q + v - a \in P
      /\ \A p \in P : \E v \in Pages(a, n) : q + v - a = p
  <2>1. \A v \in Pages(a, n) : v \in Int /\ q + v - a \in P
    BY <1>5, <1>6
  <2>2. ASSUME NEW p \in P PROVE \E v \in Pages(a, n) : q + v - a = p
    <3>1. p \in Int /\ a + (p - q) \in Pages(a, n) /\ q + (a + (p - q)) - a = p
      BY <1>5, <1>6
    <3> QED
      BY <3>1
  <2> QED
    BY <2>1, <2>2
<1>9. \A v \in Pages(a, n) : /\ page[v] \in VmaPage /\ page[v].type = "Direct"
                             /\ page[v].phys = q + v - a /\ page[v].mtype = s.phys[q + v - a].mtype
  <2>1. \A v \in Pages(a, n) : q + v - a \in Physical /\ s.phys[q + v - a].mtype \in MemoryTypes \cup {0, 3}
    BY <1>4, <1>7, <1>8, PageFields
  <2> QED
    BY <2>1 DEF Page, VmaPage
<1>10. DOMAIN page = Pages(a, n)
  OBVIOUS
<1> HIDE DEF page
<1>11. \A u, v \in Pages(a, n) : page[u].phys = page[v].phys => u = v
  <2> SUFFICES ASSUME NEW u \in Pages(a, n), NEW v \in Pages(a, n), q + u - a = q + v - a PROVE u = v
    BY <1>9
  <2>1. u \in Int /\ v \in Int
    BY <1>8
  <2> QED
    BY <1>5, <2>1
<1>12. Backing(s, a, n, page, "Direct", P)
  <2>1. \A v \in Pages(a, n) : page[v].phys \in P
    BY <1>8, <1>9
  <2>2. \A p \in P : \E v \in Pages(a, n) : page[v].phys = p
    BY <1>8, <1>9
  <2> QED
    BY <1>7, <1>9, <1>10, <1>11, <2>1, <2>2 DEF Backing
<1>13. /\ f \in [Physical -> PhysPage]
       /\ \A p \in Physical \ P : f[p] = s.phys[p]
       /\ \A p \in P : f[p].dma = "Mapped" /\ f[p].mtype = s.phys[p].mtype
  <2>1. P \in SUBSET Physical /\ "Mapped" \in DmaTypes
    BY <1>7, DmaTypesAre
  <2> QED
    BY <1>4, <2>1, PaintedKeeps
<1> HIDE DEF f
<1>15. /\ s1 \in State /\ s1.phys = f /\ s1.torn = s.torn /\ s1.aliased = b1 /\ s1.flexible_usage = s.flexible_usage /\ s1.pool_budget = s.pool_budget
       /\ s1.vma = s.vma /\ s1.vcut = s.vcut /\ s1.acut = s.acut /\ s1.pcut = s.pcut /\ s1.host = s.host
       /\ s1.abort = s.abort
  BY <1>4, <1>07, <1>13 DEF State
<1> HIDE DEF s1
<1>16. BudgetInv(s1)
  <2>1. Dma(s1, Flexible, {"Flexible"}) = Dma(s, Flexible, {"Flexible"})
    <3>1. \A p \in Flexible : p \in Physical \ P
      BY <1>7, Ranges
    <3> QED
      BY <1>13, <1>15, <3>1 DEF Dma
  <2>2. Dma(s1, Direct, {"Pooled"}) = Dma(s, Direct, {"Pooled"})
    <3> SUFFICES ASSUME NEW p \in Direct PROVE f[p].dma = "Pooled" <=> s.phys[p].dma = "Pooled"
      BY <1>15 DEF Dma
    <3>1. p \in Physical
      BY Ranges
    <3> QED
      BY <1>7, <1>13, <3>1
  <2> QED
    BY <1>4, <1>15, <2>1, <2>2 DEF BudgetInv
<1>17. Taken(s, s1, a, n, page, "Direct", P)
  <2>1. \A v \in Pages(a, n) : /\ s1.phys[page[v].phys].dma = UseOf["Direct"]
                               /\ s1.phys[page[v].phys].mtype = page[v].mtype
    <3>1. UseOf["Direct"] = "Mapped"
      BY DEF UseOf
    <3> QED
      BY <1>8, <1>9, <1>13, <1>15, <3>1
  <2>2. ASSUME NEW p \in P, p - 1 \in P, s.phys[p] = s.phys[p - 1] PROVE s1.phys[p] = s1.phys[p - 1]
    <3>1. p \in Physical /\ p - 1 \in Physical
      BY <1>7, <2>2
    <3>2. s1.phys[p].dma = s1.phys[p - 1].dma /\ s1.phys[p].mtype = s1.phys[p - 1].mtype
      BY <1>13, <1>15, <2>2
    <3> QED
      BY <1>15, <3>1, <3>2, PageFields, SamePhys
  <2> QED
    BY <1>4, <1>07, <1>13, <1>15, <1>16, <2>1, <2>2 DEF Taken
<1> DEFINE r == Mapped(PhysCarved(s1, Ends(P, s.pcut)), a, n, "Free", page)
<1>18. mm' = Outcome(r) /\ r = Mapped(PhysCarved(s1, Ends(P, s.pcut)), a, n, "Free", page)
  BY <1>3 DEF f, s1
<1> HIDE DEF r
<1>19. Good(r) /\ r.torn = s.torn /\ r.flexible_usage = s.flexible_usage
  BY <1>2, <1>12, <1>15, <1>17, <1>18, MapBacked
<1> QED
  BY <1>2, <1>4, <1>18, <1>19, OutcomeGood

\* PoolCommit keeps the invariant: pool_budget counts the pooled pages, so there are enough.
LEMMA PoolCommitKeeps ==
  ASSUME Good(mm), PoolCommit
  PROVE  Good(mm') /\ mm'.flexible_usage <= mm.flexible_usage
<1>1. PICK a \in Virtual, n \in Sizes, mtype \in MemoryTypes :
        /\ Pages(a, n) \subseteq Typed(mm, Virtual, {"PoolReserved"})
        /\ Pages(a + 1, n - 1) \cap mm.vcut = {}
        /\ Affordable(n)
        /\ LET pool == Dma(mm, Direct, {"Pooled"})
               taken == First(pool, n)
               s1 == [mm EXCEPT !.phys = Painted(mm, taken, "Committed", mtype),
                                !.pool_budget = @ - n]
           IN  mm' = Outcome(
                       IF Cardinality(pool) < n THEN [s1 EXCEPT !.abort = TRUE]
                       ELSE Mapped(PhysCarved(s1, Ends(taken, mm.pcut)), a, n, "PoolReserved",
                                   [v \in Pages(a, n) |->
                                      Page("Pooled", "ReadWrite", Nth(pool, v - a), mtype)]))
  BY DEF PoolCommit
<1> DEFINE pool == Dma(mm, Direct, {"Pooled"})
           P == First(pool, n)
           f == Painted(mm, P, "Committed", mtype)
           u1 == mm.pool_budget - n
           s1 == [mm EXCEPT !.phys = f, !.pool_budget = u1]
           page == [v \in Pages(a, n) |-> Page("Pooled", "ReadWrite", Nth(pool, v - a), mtype)]
<1>3. mm' = Outcome(IF Cardinality(pool) < n THEN [s1 EXCEPT !.abort = TRUE]
                    ELSE Mapped(PhysCarved(s1, Ends(P, mm.pcut)), a, n, "PoolReserved", page))
  BY <1>1
<1>4. /\ mm \in State /\ KindInv(mm) /\ UseInv(mm) /\ BudgetInv(mm) /\ mm.abort = FALSE
      /\ (mm.torn => mm.aliased) /\ mm.flexible_usage \in Int
  BY Fields DEF Good, MapInv
<1>2. Room(mm, a, n, "PoolReserved")
  BY <1>1 DEF Room, Typed
<1>5. IsFiniteSet(pool) /\ Cardinality(pool) \in Nat
  BY DmaFinite
<1>6. a \in Virtual /\ a \in Int /\ n \in Nat
  BY Ranges, PagesIs
<1>7. pool \subseteq Direct /\ pool \in SUBSET Physical /\ \A p \in pool : mm.phys[p].dma = "Pooled"
  BY Ranges DEF Dma
<1>8. n <= Cardinality(pool) /\ mm.pool_budget = Cardinality(pool)
  <2>1. mm.pool_budget = Cardinality(pool)
    BY <1>4 DEF BudgetInv
  <2> HIDE DEF pool
  <2> QED
    BY <1>1, <1>5, <1>6, <2>1 DEF Affordable
<1>9. /\ P \subseteq pool /\ IsFiniteSet(P) /\ Cardinality(P) = n
      /\ \A v \in Pages(a, n) : Nth(pool, v - a) \in P
      /\ \A p \in P : \E v \in Pages(a, n) : Nth(pool, v - a) = p
      /\ \A u, v \in Pages(a, n) : Nth(pool, u - a) = Nth(pool, v - a) => u = v
  <2> HIDE DEF pool
  <2> QED
    BY <1>6, <1>7, <1>8, Numbering
<1> HIDE DEF P
<1>10. \A v \in Pages(a, n) : /\ page[v] \in VmaPage /\ page[v].type = "Pooled"
                              /\ page[v].phys = Nth(pool, v - a) /\ page[v].mtype = mtype
  <2> HIDE DEF pool
  <2>1. \A v \in Pages(a, n) : Nth(pool, v - a) \in Physical
    BY <1>7, <1>9
  <2> QED
    BY <2>1 DEF Page, VmaPage
<1>11. DOMAIN page = Pages(a, n)
  OBVIOUS
<1> HIDE DEF page, pool
<1>12. Backing(mm, a, n, page, "Pooled", P)
  BY <1>7, <1>9, <1>10, <1>11 DEF Backing
<1>13. /\ f \in [Physical -> PhysPage]
       /\ \A p \in Physical \ P : f[p] = mm.phys[p]
       /\ \A p \in P : f[p].dma = "Committed" /\ f[p].mtype = mtype
  <2>1. P \in SUBSET Physical /\ "Committed" \in DmaTypes /\ mtype \in MemoryTypes \cup {0, 3}
    BY <1>7, <1>9, DmaTypesAre
  <2> QED
    BY <1>4, <2>1, PaintedTypes
<1>14. u1 \in Int /\ u1 = mm.pool_budget - n
  BY <1>4, <1>6, Fields
<1> HIDE DEF f, u1
<1>15. /\ s1 \in State /\ s1.phys = f /\ s1.flexible_usage = mm.flexible_usage /\ s1.pool_budget = u1
       /\ s1.vma = mm.vma /\ s1.vcut = mm.vcut /\ s1.acut = mm.acut /\ s1.pcut = mm.pcut
       /\ s1.host = mm.host /\ s1.abort = mm.abort /\ s1.torn = mm.torn /\ s1.aliased = mm.aliased
  BY <1>4, <1>13, <1>14 DEF State
<1> HIDE DEF s1
<1>16. BudgetInv(s1)
  <2>1. Dma(s1, Direct, {"Pooled"}) = pool \ P
    <3>1. \A p \in Direct : p \in Physical
      BY Ranges
    <3> QED
      BY <1>7, <1>9, <1>13, <1>15, <3>1 DEF Dma, pool
  <2>2. Dma(s1, Flexible, {"Flexible"}) = Dma(mm, Flexible, {"Flexible"})
    <3>1. \A p \in Flexible : p \in Physical \ P
      BY <1>7, <1>9, Ranges
    <3> QED
      BY <1>13, <1>15, <3>1 DEF Dma
  <2>3. Cardinality(pool \ P) = Cardinality(pool) - n
    BY <1>5, <1>9, Counted
  <2> QED
    BY <1>4, <1>8, <1>14, <1>15, <2>1, <2>2, <2>3 DEF BudgetInv
<1>17. Taken(mm, s1, a, n, page, "Pooled", P)
  <2>1. \A v \in Pages(a, n) : /\ s1.phys[page[v].phys].dma = UseOf["Pooled"]
                               /\ s1.phys[page[v].phys].mtype = page[v].mtype
    <3>1. UseOf["Pooled"] = "Committed"
      BY DEF UseOf
    <3> QED
      BY <1>9, <1>10, <1>13, <1>15, <3>1
  <2>2. ASSUME NEW p \in P, p - 1 \in P PROVE s1.phys[p] = s1.phys[p - 1]
    <3>1. p \in Physical /\ p - 1 \in Physical
      BY <1>7, <1>9, <2>2
    <3>2. s1.phys[p].dma = s1.phys[p - 1].dma /\ s1.phys[p].mtype = s1.phys[p - 1].mtype
      BY <1>13, <1>15, <2>2
    <3> QED
      BY <1>15, <3>1, <3>2, PageFields, SamePhys
  <2>3. \A p \in P : mm.phys[p].dma # "Mapped"
    BY <1>7, <1>9
  <2> QED
    BY <1>4, <1>13, <1>15, <1>16, <2>1, <2>2, <2>3 DEF Taken
<1> DEFINE r == Mapped(PhysCarved(s1, Ends(P, mm.pcut)), a, n, "PoolReserved", page)
<1>18. mm' = Outcome(r) /\ r = Mapped(PhysCarved(s1, Ends(P, mm.pcut)), a, n, "PoolReserved", page)
  BY <1>3, <1>5, <1>6, <1>8 DEF f, u1, s1
<1> HIDE DEF r
<1>19. Good(r) /\ r.torn = mm.torn /\ r.flexible_usage = mm.flexible_usage
  BY <1>2, <1>12, <1>15, <1>17, <1>18, MapBacked
<1> QED
  BY <1>4, <1>18, <1>19, OutcomeGood

\* The pages Q of dmem_map, which back no page, have changed; X are new cuts at their ends.
PhysStep(s, r, Q, X, ends) ==
  /\ r \in State /\ r.vma = s.vma /\ r.vcut = s.vcut /\ r.acut = s.acut /\ r.host = s.host
  /\ r.abort = FALSE /\ r.aliased = s.aliased /\ (r.torn => r.aliased)
  /\ BudgetInv(r) /\ Q \subseteq Direct
  /\ \A p \in Physical \ Q : r.phys[p] = s.phys[p]
  /\ \A p \in Q : r.phys[p].dma \notin {"Mapped", "Committed", "Flexible"}
  /\ \A v \in Virtual : Backed(s, v) => s.vma[v].phys \notin Q
  /\ r.pcut = (s.pcut \cup X) \ {p \in ends \cap Physical : PhysMerge(r, p)}
  /\ \A p \in Physical : p # 0 /\ p \notin s.pcut \cup X => (p \in Q <=> p - 1 \in Q)
  /\ \A p \in Q : p - 1 \in Q /\ s.phys[p] = s.phys[p - 1] => r.phys[p] = r.phys[p - 1]
  /\ \A x \in X : x \in s.pcut \/ x \in Q \/ x - 1 \in Q

\* Such a change keeps the invariant.
LEMMA PhysOnly ==
  ASSUME NEW s, Good(s), NEW r, NEW Q, NEW X, NEW ends, PhysStep(s, r, Q, X, ends)
  PROVE  Good(r)
<1>1. s \in State /\ KindInv(s) /\ HostInv(s) /\ UseInv(s)
      /\ VcutInv(s) /\ PcutInv(s) /\ AcutInv(s)
  BY DEF Good, MapInv, CutInv
<1>2. /\ r \in State /\ r.vma = s.vma /\ r.vcut = s.vcut /\ r.acut = s.acut /\ r.host = s.host
      /\ r.abort = FALSE /\ r.aliased = s.aliased /\ (r.torn => r.aliased)
      /\ BudgetInv(r) /\ Q \subseteq Direct /\ Q \subseteq Physical
      /\ \A p \in Physical \ Q : r.phys[p] = s.phys[p]
  BY Ranges DEF PhysStep
<1>3. \A p \in Q : r.phys[p].dma \notin {"Mapped", "Committed", "Flexible"}
  BY DEF PhysStep
<1>4. \A v : Backed(r, v) <=> Backed(s, v)
  BY <1>2, MergeSame
<1>5. KindInv(r)
  <2>1. \A p \in Flexible : p \in Physical /\ p \notin Q
    BY <1>2, Ranges
  <2>2. \A p \in Direct : p \in Physical
    BY Ranges
  <2>3. \A p \in Direct : r.phys[p].dma # "Flexible"
    BY <1>1, <1>2, <1>3, <2>2 DEF KindInv
  <2>4. \A p \in Flexible : r.phys[p].dma \in {"Free", "Flexible"} /\ r.phys[p].mtype = 0
    BY <1>1, <1>2, <2>1 DEF KindInv
  <2> QED
    BY <1>1, <1>2, <1>4, <2>3, <2>4 DEF KindInv
<1>6. HostInv(r)
  BY <1>1, <1>2, <1>4 DEF HostInv
<1>7. \A v \in Virtual : Backed(s, v) => s.vma[v].phys \notin Q
  BY DEF PhysStep
<1>8. UseInv(r)
  <2>1. UseStep(s, r, {}, Q)
    BY <1>2, <1>3, <1>7 DEF UseStep
  <2> QED
    BY <1>1, <1>2, <2>1, UseKept
<1>9. VcutInv(r)
  BY <1>1, <1>2 DEF VcutInv
<1>10. PcutInv(r)
  <2>1. PcutStep(s, r, Q, X, ends)
    BY <1>2 DEF PhysStep, PcutStep
  <2> QED
    BY <1>1, <1>2, <2>1, PcutKept
<1>11. AcutInv(r)
  <2>1. ASSUME NEW v \in Virtual, Backed(s, v), Backed(s, v - 1), v - 1 \in Virtual,
               s.vma[v].phys = s.vma[v - 1].phys + 1, s.vma[v].phys \in r.pcut, s.vma[v].phys \notin s.pcut
        PROVE  FALSE
    <3>1. s.vma[v].phys \in X
      BY <2>1 DEF PhysStep
    <3>2. s.vma[v].phys - 1 \in Q
      BY <1>7, <2>1, <3>1 DEF PhysStep
    <3>3. s.vma[v - 1].phys \in Int
      BY <1>1, <2>1, BackedIs, Ranges
    <3>4. s.vma[v].phys - 1 = s.vma[v - 1].phys
      BY <2>1, <3>3
    <3> QED
      BY <1>7, <2>1, <3>2, <3>4
  <2>2. r.acut = {v \in s.acut \cup ({} \cap Virtual) : Backed(r, v)}
    BY <1>1, <1>2, <1>4 DEF AcutInv
  <2>3. AcutStep(s, r, {}, s.acut, {})
    BY <1>2, <2>1, <2>2 DEF AcutStep
  <2> QED
    BY <1>1, <1>2, <2>3, AcutKept
<1> QED
  BY <1>2, <1>5, <1>6, <1>8, <1>9, <1>10, <1>11 DEF Good, MapInv, CutInv

\* What FindFree finds is inside one free area.
LEMMA FindFreeIs ==
  ASSUME Good(mm), NEW start \in Direct, NEW n \in Sizes, NEW found \in FindFree(start, n)
  PROVE  /\ found.at \in Direct /\ found.area \in mm.pcut /\ Pages(found.at, n) \subseteq Direct
         /\ \A x \in Pages(found.at, n) : mm.phys[x].dma = "Free"
<1> DEFINE Begin(p) == Max({c \in mm.pcut : c <= p})
           Last(p) == Min({c \in mm.pcut \cup {NumDirect} : c > p})
           at == {p \in {start} \cup {c \in mm.pcut \cap Direct : c > start} :
                    mm.phys[p].dma = "Free" /\ p + n <= Last(p)}
           q == Min(at)
<1>1. at # {} /\ found = [at |-> q, area |-> Begin(q)]
  BY DEF FindFree
<1>2. found.at = q /\ found.area = Begin(q)
  BY <1>1
<1>3. mm \in State /\ PcutInv(mm) /\ mm.pcut \subseteq Physical
  BY Fields DEF Good, CutInv
<1>4. Physical \subseteq Nat /\ Direct \subseteq Nat /\ NumDirect \in Nat
  BY Ranges
<1>5. at \subseteq Direct
  OBVIOUS
<1>6. q \in at
  BY <1>1, <1>4, <1>5, MinIs
<1>7. q \in Direct /\ q \in Nat /\ mm.phys[q].dma = "Free" /\ q + n <= Last(q)
  BY <1>4, <1>5, <1>6
<1> HIDE DEF at, q
<1>8. Begin(q) \in mm.pcut
  <2> DEFINE T == {c \in mm.pcut : c <= q}
  <2>1. T \subseteq 0 .. q
    <3> SUFFICES ASSUME NEW c \in mm.pcut, c <= q PROVE c \in 0 .. q
      OBVIOUS
    <3>1. c \in Nat
      BY <1>3, <1>4
    <3> QED
      BY <1>7, <3>1
  <2>2. 0 \in T
    BY <1>3, <1>7 DEF PcutInv
  <2>3. T # {}
    BY <2>2
  <2> HIDE DEF T
  <2>4. Max(T) \in T
    BY <1>7, <2>1, <2>3, MaxIs
  <2> QED
    BY <2>4 DEF T
<1>9. /\ Last(q) \in Nat /\ Last(q) <= NumDirect
      /\ \A c \in mm.pcut : c > q => Last(q) <= c
  <2> DEFINE T == {c \in mm.pcut \cup {NumDirect} : c > q}
  <2>1. T \subseteq Nat /\ NumDirect \in T
    BY <1>3, <1>4, <1>7, Ranges
  <2>2. Min(T) \in T /\ \A y \in T : Min(T) <= y
    BY <2>1, MinIs
  <2> QED
    BY <2>1, <2>2
<1> HIDE DEF Last, Begin
<1>10. /\ n \in Nat \ {0} /\ \A x : x \in Pages(q, n) <=> x \in Int /\ q <= x /\ x < q + n
       /\ \A x : x \in Pages(q + 1, n - 1) <=> x \in Int /\ q < x /\ x < q + n
  BY <1>7, PagesIs
<1>11. Pages(q, n) \subseteq Direct
  BY <1>4, <1>7, <1>9, <1>10, Ranges
<1>12. Pages(q + 1, n - 1) \cap mm.pcut = {}
  BY <1>3, <1>4, <1>7, <1>9, <1>10
<1>13. \A x \in Pages(q, n) : mm.phys[x] = mm.phys[q]
  <2>1. q \in Physical /\ Pages(q, n) \subseteq Physical
    BY <1>7, <1>11, Ranges
  <2> QED
    BY <1>3, <1>12, <2>1, PhysRun
<1> QED
  BY <1>2, <1>7, <1>8, <1>11, <1>13

\* Allocate keeps the invariant.
LEMMA AllocateKeeps ==
  ASSUME Good(mm), Allocate
  PROVE  Good(mm') /\ mm'.flexible_usage <= mm.flexible_usage
<1>0. PICK start \in Direct, n \in Sizes, mtype \in MemoryTypes : \E found \in FindFree(start, n) :
        LET p == found.at
            s1 == [mm EXCEPT !.phys = Painted(mm, Pages(p, n), "Allocated", mtype),
                             !.pcut = @ \cup ({p, p + n} \cap Physical)]
        IN  mm' = PhysCarved(s1, IF p = found.area THEN {p, p + n} ELSE {found.area, p})
  BY DEF Allocate
<1>1. PICK found \in FindFree(start, n) :
        LET p == found.at
            s1 == [mm EXCEPT !.phys = Painted(mm, Pages(p, n), "Allocated", mtype),
                             !.pcut = @ \cup ({p, p + n} \cap Physical)]
        IN  mm' = PhysCarved(s1, IF p = found.area THEN {p, p + n} ELSE {found.area, p})
  BY <1>0
<1> DEFINE q == found.at
           area == found.area
           Q == Pages(q, n)
           f == Painted(mm, Q, "Allocated", mtype)
           C == mm.pcut \cup ({q, q + n} \cap Physical)
           s1 == [mm EXCEPT !.phys = f, !.pcut = C]
           ends == IF q = area THEN {q, q + n} ELSE {area, q}
           X == ({q, q + n} \cap Physical) \cup (ends \cap Physical)
<1>2. mm' = PhysCarved(s1, ends)
  BY <1>1
<1>3. q \in Direct /\ area \in mm.pcut /\ Q \subseteq Direct /\ \A x \in Q : mm.phys[x].dma = "Free"
  BY FindFreeIs
<1>4. /\ mm \in State /\ BudgetInv(mm) /\ mm.abort = FALSE /\ mm.pcut \subseteq Physical
      /\ UseInv(mm) /\ KindInv(mm) /\ (mm.torn => mm.aliased) /\ mm.flexible_usage \in Int
  BY Fields DEF Good, MapInv
<1> HIDE DEF q, area
<1>5. /\ q \in Int /\ n \in Nat \ {0} /\ \A x : x \in Q <=> x \in Int /\ q <= x /\ x < q + n
  BY <1>3, PagesIs, Ranges
<1> HIDE DEF Q
<1>6. /\ f \in [Physical -> PhysPage]
      /\ \A p \in Physical \ Q : f[p] = mm.phys[p]
      /\ \A p \in Q : f[p].dma = "Allocated" /\ f[p].mtype = mtype
  <2>1. Q \in SUBSET Physical
    BY <1>3, Ranges
  <2>2. PICK d \in DmaTypes : d = "Allocated"
    BY DmaTypesAre
  <2>3. PICK m \in MemoryTypes \cup {0, 3} : m = mtype
    OBVIOUS
  <2>4. mm \in State
    BY <1>4
  <2>5. /\ Painted(mm, Q, d, m) \in [Physical -> PhysPage]
        /\ \A p \in Physical \ Q : Painted(mm, Q, d, m)[p] = mm.phys[p]
        /\ \A p \in Q : Painted(mm, Q, d, m)[p].dma = d /\ Painted(mm, Q, d, m)[p].mtype = m
    BY <2>1, <2>4, PaintedTypes
  <2> QED
    BY <2>2, <2>3, <2>5
<1>7. C \in SUBSET Physical
  BY <1>4
<1> HIDE DEF f, C
<1>8. /\ s1 \in State /\ s1.phys = f /\ s1.pcut = C /\ s1.vma = mm.vma /\ s1.vcut = mm.vcut
      /\ s1.acut = mm.acut /\ s1.host = mm.host /\ s1.abort = mm.abort
      /\ s1.torn = mm.torn /\ s1.aliased = mm.aliased
      /\ s1.flexible_usage = mm.flexible_usage /\ s1.pool_budget = mm.pool_budget
  BY <1>4, <1>6, <1>7 DEF State
<1> HIDE DEF s1, ends
<1>9. /\ mm' \in State /\ mm'.phys = f /\ mm'.vma = mm.vma /\ mm'.vcut = mm.vcut
      /\ mm'.acut = mm.acut /\ mm'.host = mm.host /\ mm'.abort = FALSE
      /\ mm'.torn = mm.torn /\ mm'.aliased = mm.aliased
      /\ mm'.flexible_usage = mm.flexible_usage /\ mm'.pool_budget = mm.pool_budget
      /\ mm'.pcut = (C \cup (ends \cap Physical)) \ {p \in ends \cap Physical : PhysMerge(s1, p)}
  BY <1>2, <1>4, <1>8, PhysCarvedIs
<1>10. mm'.pcut = (mm.pcut \cup X) \ {p \in ends \cap Physical : PhysMerge(mm', p)}
  <2>1. \A p : PhysMerge(s1, p) <=> PhysMerge(mm', p)
    BY <1>8, <1>9, MergeSame
  <2> QED
    BY <1>9, <2>1 DEF C
<1>11. BudgetInv(mm')
  <2>1. Dma(mm', Flexible, {"Flexible"}) = Dma(mm, Flexible, {"Flexible"})
    <3>1. \A p \in Flexible : p \in Physical \ Q
      BY <1>3, Ranges
    <3> QED
      BY <1>6, <1>9, <3>1 DEF Dma
  <2>2. Dma(mm', Direct, {"Pooled"}) = Dma(mm, Direct, {"Pooled"})
    <3> SUFFICES ASSUME NEW p \in Direct PROVE f[p].dma = "Pooled" <=> mm.phys[p].dma = "Pooled"
      BY <1>9 DEF Dma
    <3>1. p \in Physical
      BY Ranges
    <3> QED
      BY <1>3, <1>6, <3>1
  <2> QED
    BY <1>4, <1>9, <2>1, <2>2 DEF BudgetInv
<1>12. \A p \in Physical : p # 0 /\ p \notin mm.pcut \cup X => (p \in Q <=> p - 1 \in Q)
  BY <1>5, Ranges
<1>13. ASSUME NEW p \in Q, p - 1 \in Q PROVE f[p] = f[p - 1]
  <2>1. p \in Physical /\ p - 1 \in Physical
    BY <1>3, <1>13, Ranges
  <2>2. f[p].dma = f[p - 1].dma /\ f[p].mtype = f[p - 1].mtype /\ f[p] \in PhysPage /\ f[p - 1] \in PhysPage
    BY <1>6, <1>13, <2>1
  <2> QED
    BY <2>2, SamePhys
<1>14. \A x \in X : x \in mm.pcut \/ x \in Q \/ x - 1 \in Q
  BY <1>3, <1>5 DEF ends
<1>15. \A v \in Virtual : Backed(mm, v) => mm.vma[v].phys \notin Q
  <2> SUFFICES ASSUME NEW v \in Virtual, Backed(mm, v), mm.vma[v].phys \in Q PROVE FALSE
    OBVIOUS
  <2>1. PICK x \in Physical : x = mm.vma[v].phys /\ mm.phys[x].dma = "Free"
    BY <1>3, Ranges
  <2> QED
    BY <1>4, <2>1, NotUsed
<1>16. PhysStep(mm, mm', Q, X, ends)
  BY <1>3, <1>4, <1>6, <1>9, <1>10, <1>11, <1>12, <1>13, <1>14, <1>15 DEF PhysStep
<1> QED
  BY <1>4, <1>9, <1>16, PhysOnly

\* PoolExpand keeps the invariant.
LEMMA PoolExpandKeeps ==
  ASSUME Good(mm), PoolExpand
  PROVE  Good(mm') /\ mm'.flexible_usage <= mm.flexible_usage
<1>0. PICK start \in Direct, n \in Sizes : \E found \in FindFree(start, n) :
        mm' = [mm EXCEPT !.phys = Painted(mm, Pages(found.at, n), "Pooled", 3),
                         !.pcut = @ \cup ({found.at, found.at + n} \cap Physical),
                         !.pool_budget = @ + n]
  BY DEF PoolExpand
<1>1. PICK found \in FindFree(start, n) :
        mm' = [mm EXCEPT !.phys = Painted(mm, Pages(found.at, n), "Pooled", 3),
                         !.pcut = @ \cup ({found.at, found.at + n} \cap Physical),
                         !.pool_budget = @ + n]
  BY <1>0
<1> DEFINE q == found.at
           Q == Pages(q, n)
           f == Painted(mm, Q, "Pooled", 3)
           X == {q, q + n} \cap Physical
           C == mm.pcut \cup X
           u1 == mm.pool_budget + n
<1>2. mm' = [mm EXCEPT !.phys = f, !.pcut = C, !.pool_budget = u1]
  BY <1>1
<1>3. q \in Direct /\ Q \subseteq Direct /\ \A x \in Q : mm.phys[x].dma = "Free"
  BY FindFreeIs
<1>4. /\ mm \in State /\ BudgetInv(mm) /\ mm.abort = FALSE /\ mm.pcut \subseteq Physical
      /\ UseInv(mm) /\ KindInv(mm) /\ (mm.torn => mm.aliased) /\ mm.flexible_usage \in Int
  BY Fields DEF Good, MapInv
<1> HIDE DEF q
<1>5. /\ q \in Int /\ n \in Nat \ {0} /\ \A x : x \in Q <=> x \in Int /\ q <= x /\ x < q + n
      /\ IsFiniteSet(Q) /\ Cardinality(Q) = n
  BY <1>3, PagesIs, PagesCount, Ranges
<1> HIDE DEF Q
<1>6. /\ f \in [Physical -> PhysPage]
      /\ \A p \in Physical \ Q : f[p] = mm.phys[p]
      /\ \A p \in Q : f[p].dma = "Pooled" /\ f[p].mtype = 3
  <2>1. Q \in SUBSET Physical /\ "Pooled" \in DmaTypes /\ 3 \in MemoryTypes \cup {0, 3}
    BY <1>3, Ranges, DmaTypesAre
  <2> QED
    BY <1>4, <2>1, PaintedTypes
<1>7. C \in SUBSET Physical /\ u1 \in Int
  BY <1>4, <1>5, Fields
<1> HIDE DEF f, C, u1
<1>8. /\ mm' \in State /\ mm'.phys = f /\ mm'.pcut = C /\ mm'.vma = mm.vma /\ mm'.vcut = mm.vcut
      /\ mm'.acut = mm.acut /\ mm'.host = mm.host /\ mm'.abort = mm.abort
      /\ mm'.torn = mm.torn /\ mm'.aliased = mm.aliased
      /\ mm'.flexible_usage = mm.flexible_usage /\ mm'.pool_budget = u1
  BY <1>2, <1>4, <1>6, <1>7 DEF State
<1>9. mm'.pcut = (mm.pcut \cup X) \ {p \in {} \cap Physical : PhysMerge(mm', p)}
  BY <1>8 DEF C
<1>10. BudgetInv(mm')
  <2> DEFINE pool == Dma(mm, Direct, {"Pooled"})
  <2>1. Dma(mm', Flexible, {"Flexible"}) = Dma(mm, Flexible, {"Flexible"})
    <3>1. \A p \in Flexible : p \in Physical \ Q
      BY <1>3, Ranges
    <3> QED
      BY <1>6, <1>8, <3>1 DEF Dma
  <2>2. Dma(mm', Direct, {"Pooled"}) = pool \cup Q /\ pool \cap Q = {}
    <3>1. \A p \in Direct : p \in Physical
      BY Ranges
    <3> QED
      BY <1>3, <1>6, <1>8, <3>1 DEF Dma
  <2>3. IsFiniteSet(pool)
    BY DmaFinite
  <2>4. Cardinality(pool \cup Q) = Cardinality(pool) + n
    BY <1>5, <2>2, <2>3, Counted
  <2> HIDE DEF pool
  <2> QED
    BY <1>4, <1>8, <2>1, <2>2, <2>4 DEF BudgetInv, pool, u1
<1>11. \A p \in Physical : p # 0 /\ p \notin mm.pcut \cup X => (p \in Q <=> p - 1 \in Q)
  BY <1>5, Ranges
<1>12. ASSUME NEW p \in Q, p - 1 \in Q PROVE f[p] = f[p - 1]
  <2>1. p \in Physical /\ p - 1 \in Physical
    BY <1>3, <1>12, Ranges
  <2>2. f[p].dma = f[p - 1].dma /\ f[p].mtype = f[p - 1].mtype /\ f[p] \in PhysPage /\ f[p - 1] \in PhysPage
    BY <1>6, <1>12, <2>1
  <2> QED
    BY <2>2, SamePhys
<1>13. \A x \in X : x \in mm.pcut \/ x \in Q \/ x - 1 \in Q
  BY <1>5
<1>14. \A v \in Virtual : Backed(mm, v) => mm.vma[v].phys \notin Q
  <2> SUFFICES ASSUME NEW v \in Virtual, Backed(mm, v), mm.vma[v].phys \in Q PROVE FALSE
    OBVIOUS
  <2>1. PICK x \in Physical : x = mm.vma[v].phys /\ mm.phys[x].dma = "Free"
    BY <1>3, Ranges
  <2> QED
    BY <1>4, <2>1, NotUsed
<1>15. PhysStep(mm, mm', Q, X, {})
  BY <1>3, <1>4, <1>6, <1>8, <1>9, <1>10, <1>11, <1>12, <1>13, <1>14 DEF PhysStep
<1> QED
  BY <1>4, <1>8, <1>15, PhysOnly

\* Free removes every direct mapping of the range.
LEMMA RemoveListIs ==
  ASSUME Good(mm), NEW p \in Direct, NEW n \in Sizes
  PROVE  /\ RemoveList(p, n) \in SUBSET Virtual
         /\ \A v \in Virtual : mm.vma[v].type = "Direct" /\ mm.vma[v].phys \in Pages(p, n) => v \in RemoveList(p, n)
<1> DEFINE Begin(v) == Max({c \in mm.acut : c <= v})
           OfArea(b) == {v \in Typed(mm, Virtual, {"Direct"}) : Begin(v) = b}
           base(b) == mm.vma[b].phys
           skip(b) == Max({base(b), p}) - base(b)
<1>1. RemoveList(p, n) = UNION {OfArea(b) \cap Pages(b + skip(b), n) :
                                  b \in {c \in mm.acut : \E v \in OfArea(c) : mm.vma[v].phys \in Pages(p, n)}}
  BY DEF RemoveList
<1>2. RemoveList(p, n) \in SUBSET Virtual
  BY <1>1 DEF Typed
<1>3. mm \in State /\ KindInv(mm) /\ AcutInv(mm) /\ mm.acut \subseteq Virtual
  BY Fields DEF Good, MapInv, CutInv
<1>4. ASSUME NEW v \in Virtual, mm.vma[v].type = "Direct", mm.vma[v].phys \in Pages(p, n)
      PROVE  v \in RemoveList(p, n)
  <2> DEFINE T == {c \in mm.acut : c <= v}
             b == Begin(v)
  <2>1. v \in Nat /\ Backed(mm, v) /\ p \in Nat /\ n \in Nat \ {0}
    BY <1>4, Ranges, PagesIs DEF Backed
  <2>2. T \subseteq 0 .. v
    <3> SUFFICES ASSUME NEW c \in mm.acut, c <= v PROVE c \in 0 .. v
      OBVIOUS
    <3>1. c \in Nat
      BY <1>3, Ranges
    <3> QED
      BY <2>1, <3>1
  <2>3. T # {}
    <3> SUFFICES ASSUME T = {} PROVE FALSE
      OBVIOUS
    <3>1. \A x \in mm.acut : ~(0 < x /\ x <= v)
      OBVIOUS
    <3>2. 0 \in Nat /\ 0 <= v /\ 0 \in 0 .. v /\ 0 \notin mm.acut
      BY <2>1
    <3>3. 0 \in Virtual /\ mm.vma[0].type = mm.vma[v].type
      BY <1>3, <2>1, <3>1, <3>2, AreaRun
    <3>4. Backed(mm, 0)
      BY <2>1, <3>3 DEF Backed
    <3>5. 0 - 1 \in Virtual
      BY <1>3, <3>2, <3>3, <3>4 DEF AcutInv
    <3> QED
      BY <3>5, Ranges
  <2>4. b \in T /\ \A y \in T : y <= b
    <3> HIDE DEF T
    <3>1. Max(T) \in T /\ \A y \in T : y <= Max(T)
      BY <2>1, <2>2, <2>3, MaxIs
    <3> QED
      BY <3>1 DEF T
  <2>5. b \in mm.acut /\ b <= v /\ b \in Nat
    BY <2>1, <2>2, <2>4
  <2>6. v \in OfArea(b)
    BY <1>4 DEF Typed
  <2> HIDE DEF b
  <2>7. \A x \in mm.acut : ~(b < x /\ x <= v)
    <3> SUFFICES ASSUME NEW x \in mm.acut, b < x, x <= v PROVE FALSE
      OBVIOUS
    <3>1. x \in Nat /\ x <= b
      BY <1>3, <2>4, Ranges
    <3> QED
      BY <2>5, <3>1
  <2>8. b \in Virtual /\ mm.vma[v].phys = mm.vma[b].phys + (v - b) /\ mm.vma[b].type = "Direct"
    <3>1. b \in b .. v
      BY <2>1, <2>5
    <3>2. \A y \in b .. v : /\ y \in Virtual /\ mm.vma[y].type = mm.vma[v].type
                            /\ mm.vma[v].phys = mm.vma[y].phys + (v - y)
      BY <1>3, <2>1, <2>5, <2>7, AreaRun
    <3> QED
      BY <1>4, <3>1, <3>2
  <2>9. PICK x \in Nat : x = mm.vma[b].phys /\ x \in Direct
    BY <1>3, <2>8, Ranges DEF KindInv
  <2>10. PICK k \in Nat : k = skip(b) /\ p <= x + k /\ (k = 0 \/ x + k = p)
    <3> DEFINE m == Max({x, p})
    <3>1. m \in {x, p} /\ \A y \in {x, p} : y <= m
      <4>1. {x, p} \subseteq 0 .. x + p /\ {x, p} # {} /\ x + p \in Nat
        BY <2>1
      <4> QED
        BY <4>1, MaxIs
    <3>2. skip(b) = m - x
      BY <2>9
    <3> HIDE DEF m, skip
    <3>3. m \in Nat /\ (m = x \/ m = p) /\ x <= m /\ p <= m
      BY <2>1, <3>1
    <3>4. m - x \in Nat /\ p <= x + (m - x) /\ (m - x = 0 \/ x + (m - x) = p)
      BY <2>1, <3>3
    <3> QED
      BY <3>2, <3>4
  <2> HIDE DEF skip, OfArea
  <2>11. p <= x + (v - b) /\ x + (v - b) < p + n
    BY <1>4, <2>1, <2>8, <2>9, PagesIs
  <2>12. b + k <= v /\ v < (b + k) + n
    BY <2>1, <2>5, <2>10, <2>11
  <2>13. v \in Pages(b + skip(b), n)
    BY <2>1, <2>5, <2>10, <2>12, PagesIs
  <2> QED
    BY <1>1, <1>4, <2>5, <2>6, <2>13
<1> QED
  BY <1>2, <1>4

\* The pages that come first from a page on, where none of them is passed over.
LEMMA FirstPages ==
  ASSUME NEW p \in Direct, NEW n \in Sizes, NEW U, U \subseteq Direct, Pages(p, n) \subseteq U
  PROVE  First({q \in U : q >= p}, n) = Pages(p, n)
<1> DEFINE T == {q \in U : q >= p}
           B(x) == {q \in T : q < x}
<1>1. /\ p \in Int /\ n \in Nat \ {0} /\ \A x \in T : x \in Int /\ x >= p
      /\ \A x : x \in Pages(p, n) <=> x \in Int /\ p <= x /\ x < p + n
      /\ Pages(p, n) \subseteq T /\ IsFiniteSet(Pages(p, n)) /\ Cardinality(Pages(p, n)) = n
  BY Ranges, PagesIs, PagesCount
<1>2. \A x : IsFiniteSet(B(x)) /\ Cardinality(B(x)) \in Nat
  <2>1. IsFiniteSet(Direct) /\ \A x : B(x) \in SUBSET Direct
    BY DmaFinite
  <2> QED
    BY <2>1, FS_Subset, FS_CardinalityType
<1> HIDE DEF T
<1>3. ASSUME NEW x \in Pages(p, n) PROVE Cardinality(B(x)) < n
  <2>1. x \in Int /\ p <= x /\ x < p + n /\ x - 1 \in Int
    BY <1>1
  <2>2. IsFiniteSet(p .. x - 1) /\ Cardinality(p .. x - 1) = IF p > x - 1 THEN 0 ELSE (x - 1) - p + 1
    BY <1>1, <2>1, FS_Interval
  <2>3. B(x) \in SUBSET (p .. x - 1)
    BY <1>1, <2>1
  <2>4. Cardinality(B(x)) <= Cardinality(p .. x - 1)
    BY <2>2, <2>3, FS_Subset
  <2>5. Cardinality(p .. x - 1) = x - p
    BY <1>1, <2>1, <2>2
  <2>6. x - p < n
    BY <1>1, <2>1
  <2>7. Cardinality(B(x)) \in Nat
    BY <1>2
  <2> HIDE DEF B
  <2> QED
    BY <1>1, <2>1, <2>4, <2>5, <2>6, <2>7
<1>4. ASSUME NEW x \in T, x \notin Pages(p, n) PROVE ~(Cardinality(B(x)) < n)
  <2>1. x \in Int /\ x >= p + n
    BY <1>1, <1>4
  <2>2. Pages(p, n) \in SUBSET B(x)
    BY <1>1, <2>1
  <2>3. n <= Cardinality(B(x))
    BY <1>1, <1>2, <2>2, FS_Subset
  <2> QED
    BY <1>1, <1>2, <2>3
<1>5. First(T, n) = {x \in T : Cardinality(B(x)) < n}
  BY DEF First
<1> HIDE DEF B
<1> QED
  BY <1>1, <1>3, <1>4, <1>5 DEF T

\* Free keeps the invariant.  Where the removal of the mappings cuts dmem_map inside an area
\* of free_list, both sides are allocated memory of one type and merge again.
LEMMA FreeKeeps ==
  ASSUME Careful, Good(mm), Free
  PROVE  Good(mm') /\ mm'.flexible_usage <= mm.flexible_usage
<1>1. PICK p \in Direct, n \in Sizes :
        LET used == {q \in Direct : mm.phys[q].dma # "Free"}
            released == First({q \in used : q >= p}, n)
            s == UnmapMemoryImpl(mm, RemoveList(p, n))
            torn == (released \ Starts(released, mm.pcut)) \cap s.pcut # {}
            s1 == [s EXCEPT !.phys = Painted(s, released, "Free", 0), !.torn = @ \/ torn]
        IN  /\ Careful => Pages(p, n) \subseteq Dma(mm, Direct, {"Allocated", "Mapped"})
            /\ mm' = Outcome(PhysCarved(s1, Ends(released, mm.pcut)))
  BY DEF Free
<1> DEFINE used == {q \in Direct : mm.phys[q].dma # "Free"}
           s == UnmapMemoryImpl(mm, RemoveList(p, n))
           Q == First({q \in used : q >= p}, n)
           torn == (Q \ Starts(Q, mm.pcut)) \cap s.pcut # {}
           f == Painted(s, Q, "Free", 0)
           b1 == s.torn \/ torn
           s1 == [s EXCEPT !.phys = f, !.torn = b1]
           E == Ends(Q, mm.pcut)
           r == PhysCarved(s1, E)
<1>2. mm' = Outcome(r)
  BY <1>1
<1>02. r = PhysCarved(s1, E)
  OBVIOUS
<1> HIDE DEF r
<1>3. s = UnmapMemoryImpl(mm, RemoveList(p, n))
  OBVIOUS
<1>03. Q = Pages(p, n) /\ \A x \in Q : x \in Direct /\ mm.phys[x].dma \in {"Allocated", "Mapped"}
  <2>1. \A x \in Pages(p, n) : x \in Direct /\ mm.phys[x].dma \in {"Allocated", "Mapped"}
    BY <1>1 DEF Dma
  <2>2. used \subseteq Direct /\ Pages(p, n) \subseteq used
    BY <2>1
  <2> HIDE DEF used
  <2>3. Q = Pages(p, n)
    BY <2>2, FirstPages
  <2> QED
    BY <2>1, <2>3
<1> HIDE DEF Q
<1>4. /\ RemoveList(p, n) \in SUBSET Virtual
      /\ \A v \in Virtual : mm.vma[v].type = "Direct" /\ mm.vma[v].phys \in Q => v \in RemoveList(p, n)
  BY <1>03, RemoveListIs
<1> HIDE DEF s
<1>5. /\ Good(s) /\ s.aliased = mm.aliased /\ s.flexible_usage <= mm.flexible_usage
      /\ \A v \in Gone(mm, RemoveList(p, n)) : s.vma[v] = FreePage
      /\ \A v \in Virtual \ Gone(mm, RemoveList(p, n)) : s.vma[v] = mm.vma[v]
      /\ \A x \in Physical : mm.phys[x].dma = "Allocated" => s.phys[x] = mm.phys[x]
      /\ \A x \in Physical : mm.phys[x].dma \in {"Mapped", "Allocated"} => s.phys[x].mtype = mm.phys[x].mtype
      /\ \A v \in RemoveList(p, n) : mm.vma[v].type = "Direct" => s.phys[mm.vma[v].phys].dma = "Allocated"
      /\ \A x \in s.pcut : x \in mm.pcut \/ ~PhysMerge(s, x)
  BY <1>3, <1>4, UnmapGood
<1>6. /\ s \in State /\ BudgetInv(s) /\ s.abort = FALSE /\ s.pcut \subseteq Physical
      /\ s.torn \in BOOLEAN /\ (s.torn => s.aliased)
  BY <1>5, Fields DEF Good, MapInv
<1>7. mm \in State /\ UseInv(mm) /\ KindInv(mm) /\ PcutInv(mm)
  BY DEF Good, MapInv, CutInv
<1>8. /\ Q \subseteq Direct /\ Q \subseteq Physical /\ Q \subseteq Int
      /\ \A x \in Q : mm.phys[x].dma \in {"Allocated", "Mapped"}
  BY <1>03, Ranges
<1>07. ASSUME NEW v \in Virtual, Backed(mm, v), mm.vma[v].phys \in Q PROVE mm.vma[v].type = "Direct"
  <2> SUFFICES ASSUME mm.vma[v].type # "Direct" PROVE FALSE
    OBVIOUS
  <2>1. Sole(mm, v) /\ mm.vma[v].type \in {"Flexible", "Pooled"}
    BY <1>07 DEF Sole, Backed
  <2>2. mm.phys[mm.vma[v].phys].dma = UseOf[mm.vma[v].type]
    BY <1>7, <2>1 DEF UseInv
  <2>3. UseOf[mm.vma[v].type] \in {"Flexible", "Committed"}
    BY <2>1 DEF UseOf
  <2> QED
    BY <1>07, <1>8, <2>2, <2>3
<1>9. ASSUME NEW x \in Q PROVE s.phys[x].dma = "Allocated" /\ s.phys[x].mtype = mm.phys[x].mtype
  <2>1. CASE mm.phys[x].dma = "Allocated"
    BY <1>5, <1>8, <2>1
  <2>2. CASE mm.phys[x].dma = "Mapped"
    <3>1. PICK v \in Virtual : Backed(mm, v) /\ mm.vma[v].phys = x
      BY <1>7, <1>8, <2>2 DEF UseInv
    <3>2. mm.vma[v].type = "Direct"
      BY <1>07, <1>8, <3>1
    <3> QED
      BY <1>4, <1>5, <1>8, <3>1, <3>2
  <2> QED
    BY <1>8, <2>1, <2>2
<1> HIDE DEF Q
<1>10. ~torn
  <2> SUFFICES ASSUME NEW x \in Q, x \notin Starts(Q, mm.pcut), x \in s.pcut PROVE FALSE
    OBVIOUS
  <2>1. x - 1 \in Q /\ x \notin mm.pcut /\ x \in Physical /\ x - 1 \in Physical
    BY <1>8 DEF Starts
  <2>2. mm.phys[x] = mm.phys[x - 1] /\ x \notin {0, NumDirect}
    BY <1>7, <2>1 DEF PcutInv
  <2>3. s.phys[x].dma = s.phys[x - 1].dma /\ s.phys[x].mtype = s.phys[x - 1].mtype
    BY <1>9, <2>1, <2>2
  <2>4. s.phys[x] = s.phys[x - 1]
    BY <1>6, <2>1, <2>3, PageFields, SamePhys
  <2>5. PhysMerge(s, x)
    BY <2>2, <2>4 DEF PhysMerge
  <2> QED
    BY <1>5, <2>1, <2>5
<1>11. b1 = s.torn
  BY <1>6, <1>10
<1>12. /\ f \in [Physical -> PhysPage]
       /\ \A x \in Physical \ Q : f[x] = s.phys[x]
       /\ \A x \in Q : f[x].dma = "Free" /\ f[x].mtype = 0
  <2>1. Q \in SUBSET Physical /\ "Free" \in DmaTypes /\ 0 \in MemoryTypes \cup {0, 3}
    BY <1>8, DmaTypesAre
  <2> HIDE DEF torn
  <2> QED
    BY <1>6, <2>1, PaintedTypes
<1> HIDE DEF f, b1, torn, E
<1>13. /\ s1 \in State /\ s1.phys = f /\ s1.vma = s.vma /\ s1.vcut = s.vcut /\ s1.pcut = s.pcut
       /\ s1.acut = s.acut /\ s1.host = s.host
       /\ s1.flexible_usage = s.flexible_usage /\ s1.pool_budget = s.pool_budget
  BY <1>6, <1>11, <1>12 DEF State
<1>14. s1.abort = FALSE /\ s1.torn = s.torn /\ s1.aliased = s.aliased
  BY <1>6, <1>11 DEF State
<1> HIDE DEF s1
<1>15. /\ r \in State /\ r.phys = f /\ r.vma = s.vma /\ r.vcut = s.vcut
       /\ r.acut = s.acut /\ r.host = s.host /\ r.abort = FALSE
       /\ r.torn = s.torn /\ r.aliased = s.aliased
       /\ r.flexible_usage = s.flexible_usage /\ r.pool_budget = s.pool_budget
       /\ r.pcut = (s.pcut \cup (E \cap Physical)) \ {x \in E \cap Physical : PhysMerge(s1, x)}
  BY <1>02, <1>13, <1>14, PhysCarvedIs
<1>16. r.pcut = (s.pcut \cup (E \cap Physical)) \ {x \in E \cap Physical : PhysMerge(r, x)}
  <2>1. \A x : PhysMerge(s1, x) <=> PhysMerge(r, x)
    BY <1>13, <1>15, MergeSame
  <2> QED
    BY <1>15, <2>1
<1>17. BudgetInv(r)
  <2>1. Dma(r, Flexible, {"Flexible"}) = Dma(s, Flexible, {"Flexible"})
    <3>1. \A x \in Flexible : x \in Physical \ Q
      BY <1>8, Ranges
    <3> QED
      BY <1>12, <1>15, <3>1 DEF Dma
  <2>2. Dma(r, Direct, {"Pooled"}) = Dma(s, Direct, {"Pooled"})
    <3> SUFFICES ASSUME NEW x \in Direct PROVE f[x].dma = "Pooled" <=> s.phys[x].dma = "Pooled"
      BY <1>15 DEF Dma
    <3>1. x \in Physical
      BY Ranges
    <3> QED
      BY <1>9, <1>12, <3>1
  <2> QED
    BY <1>6, <1>15, <2>1, <2>2 DEF BudgetInv
<1>18. /\ \A x \in Int : x \notin E => (x \in Q <=> x - 1 \in Q)
       /\ \A x \in E : x \in Q \/ x - 1 \in Q
  <2>1. Q \subseteq Int
    BY <1>8
  <2>2. /\ \A x \in Int : x \notin Ends(Q, mm.pcut) =>
             (x \in Q <=> x - 1 \in Q) /\ (x \in Q => x \notin mm.pcut)
        /\ \A x \in Ends(Q, mm.pcut) : x \in Int /\ (x \in Q \/ x - 1 \in Q)
    <3>1. PICK S, c : S = Q /\ c = mm.pcut
      OBVIOUS
    <3>2. S \subseteq Int
      BY <2>1, <3>1
    <3>3. /\ \A x \in Int : x \notin Ends(S, c) => (x \in S <=> x - 1 \in S) /\ (x \in S => x \notin c)
          /\ \A x \in Ends(S, c) : x \in Int /\ (x \in S \/ x - 1 \in S)
      BY <3>2, EndsIs
    <3> QED
      BY <3>1, <3>3
  <2> QED
    BY <2>2 DEF E
<1>19. \A x \in Physical : x # 0 /\ x \notin s.pcut \cup (E \cap Physical) => (x \in Q <=> x - 1 \in Q)
  BY <1>18, Ranges
<1>20. ASSUME NEW x \in Q, x - 1 \in Q PROVE f[x] = f[x - 1]
  <2>1. x \in Physical /\ x - 1 \in Physical
    BY <1>8, <1>20
  <2>2. f[x].dma = f[x - 1].dma /\ f[x].mtype = f[x - 1].mtype /\ f[x] \in PhysPage /\ f[x - 1] \in PhysPage
    BY <1>12, <1>20, <2>1
  <2> QED
    BY <2>2, SamePhys
<1>21. \A v \in Virtual : Backed(s, v) => s.vma[v].phys \notin Q
  <2> SUFFICES ASSUME NEW v \in Virtual, Backed(s, v), s.vma[v].phys \in Q PROVE FALSE
    OBVIOUS
  <2>1. v \notin Gone(mm, RemoveList(p, n)) /\ s.vma[v] = mm.vma[v]
    BY <1>5, FreePageIs DEF Backed
  <2>2. mm.vma[v].type = "Direct"
    BY <1>07, <2>1 DEF Backed
  <2>3. v \in RemoveList(p, n)
    BY <1>4, <2>1, <2>2
  <2> QED
    BY <2>1, <2>2, <2>3 DEF Gone
<1>22. PhysStep(s, r, Q, E \cap Physical, E)
  BY <1>6, <1>8, <1>12, <1>15, <1>16, <1>17, <1>18, <1>19, <1>20, <1>21 DEF PhysStep
<1>23. Good(r) /\ (r.torn => mm.aliased) /\ r.flexible_usage <= mm.flexible_usage
  BY <1>5, <1>6, <1>15, <1>22, PhysOnly
<1> QED
  BY <1>2, <1>23, OutcomeGood

\* PoolDecommit keeps the invariant.
LEMMA PoolDecommitKeeps ==
  ASSUME Careful, Good(mm), PoolDecommit
  PROVE  Good(mm') /\ mm'.flexible_usage <= mm.flexible_usage
<1>1. PICK a \in Virtual, n \in Sizes :
        /\ Pages(a, n) \subseteq Virtual
        /\ Pages(a, n) \subseteq Typed(mm, Pages(a, n), {"Pooled", "PoolReserved"})
        /\ mm' = Outcome(VmaCarved(Decommitted(mm, Pages(a, n), Typed(mm, Pages(a, n), {"Pooled"})),
                                   Ends(Pages(a, n), mm.vcut)))
  BY DEF PoolDecommit
<1> DEFINE W == Pages(a, n)
           S == Typed(mm, W, {"Pooled"})
           Q == {mm.vma[v].phys : v \in S}
           s0 == GivenBack(mm, S)
           u1 == s0.pool_budget + Cardinality(S)
           new == Page("PoolReserved", "NoAccess", None, 0)
           V1 == Over([v \in W |-> new], s0.vma)
           H1 == Over([v \in W |-> None], s0.host)
           b1 == s0.torn \/ PhysTorn(mm, S)
           s1 == [s0 EXCEPT !.pool_budget = u1, !.vma = V1, !.host = H1, !.torn = b1]
           N == PhysEnds(mm, S)
           E == Ends(W, mm.vcut)
           r == VmaCarved(s1, E)
<1>2. mm' = Outcome(r)
  BY <1>1 DEF Decommitted
<1>02. r = VmaCarved(s1, E) /\ s0 = GivenBack(mm, S)
  OBVIOUS
<1> HIDE DEF r, s0
<1>3. mm \in State /\ KindInv(mm) /\ HostInv(mm) /\ UseInv(mm) /\ BudgetInv(mm) /\ mm.abort = FALSE
      /\ VcutInv(mm) /\ PcutInv(mm) /\ AcutInv(mm) /\ (mm.torn => mm.aliased) /\ mm.torn \in BOOLEAN
      /\ mm.flexible_usage \in Int
  BY Fields DEF Good, MapInv, CutInv
<1>4. /\ W \in SUBSET Virtual /\ S \in SUBSET W /\ S \in SUBSET Virtual
      /\ \A v \in W : Backed(mm, v) <=> v \in S
      /\ \A v \in S : Backed(mm, v) /\ mm.vma[v].type = "Pooled" /\ Sole(mm, v)
      /\ Typed(mm, S, {"Pooled"}) = S /\ Typed(mm, S, {"Direct"}) = {} /\ Typed(mm, S, {"Flexible"}) = {}
  BY <1>1 DEF Typed, Backed, Sole
<1> HIDE DEF W, S
<1>5. Q \subseteq Direct /\ \A p \in Q : p \in Physical /\ mm.phys[p].dma = "Committed"
  <2> SUFFICES ASSUME NEW v \in S
               PROVE  mm.vma[v].phys \in Direct /\ mm.phys[mm.vma[v].phys].dma = "Committed"
    BY Ranges
  <2>1. mm.vma[v].phys \in Direct
    BY <1>3, <1>4 DEF KindInv
  <2>2. mm.phys[mm.vma[v].phys].dma = UseOf["Pooled"]
    BY <1>3, <1>4 DEF UseInv
  <2> QED
    BY <2>1, <2>2 DEF UseOf
<1>6. Q = {mm.vma[v].phys : v \in S}
  OBVIOUS
<1>7. IsFiniteSet(S) /\ IsFiniteSet(Q) /\ Cardinality(Q) = Cardinality(S) /\ Cardinality(S) \in Nat
  BY <1>3, <1>4, BackingCount, FS_CardinalityType
<1> HIDE DEF Q
<1>8. /\ \A p \in Int : p \notin N => (p \in Q <=> p - 1 \in Q)
      /\ ~mm.aliased => \A v \in Virtual \ S : Backed(mm, v) /\ Backed(mm, v - 1) /\ v - 1 \in Virtual \ S
           /\ mm.vma[v].phys = mm.vma[v - 1].phys + 1 => mm.vma[v].phys \notin N
      /\ ~mm.aliased => ~PhysTorn(mm, S)
  BY <1>3, <1>4, <1>6, PhysEndsIs
<1>9. Behind(mm, S, "Direct") = {} /\ Behind(mm, S, "Flexible") = {} /\ Behind(mm, S, "Pooled") = Q
  BY <1>4, <1>6 DEF Behind
<1>10. /\ s0 \in State /\ s0.vma = mm.vma /\ s0.vcut = mm.vcut /\ s0.acut = mm.acut /\ s0.host = mm.host
       /\ s0.flexible_usage = mm.flexible_usage /\ s0.pool_budget = mm.pool_budget
       /\ s0.abort = FALSE /\ s0.torn = mm.torn /\ s0.aliased = mm.aliased
       /\ \A p \in Q : s0.phys[p].dma = "Pooled" /\ s0.phys[p].mtype = mm.phys[p].mtype
       /\ \A p \in Physical \ Q : s0.phys[p] = mm.phys[p]
       /\ s0.pcut = (mm.pcut \cup (N \cap Physical)) \ {p \in N \cap Physical : PhysMerge(s0, p)}
  <2>1. PICK D, F, C : D = Behind(mm, S, "Direct") /\ F = Behind(mm, S, "Flexible") /\ C = Behind(mm, S, "Pooled")
    OBVIOUS
  <2>2. D = {} /\ F = {} /\ C = Q
    BY <1>9, <2>1
  <2> HIDE DEF N
  <2>3. /\ s0 \in State /\ s0.vma = mm.vma /\ s0.vcut = mm.vcut /\ s0.acut = mm.acut /\ s0.host = mm.host
        /\ s0.flexible_usage = mm.flexible_usage /\ s0.pool_budget = mm.pool_budget
        /\ s0.abort = mm.abort /\ s0.torn = mm.torn /\ s0.aliased = mm.aliased
        /\ \A p \in C : s0.phys[p].dma = "Pooled" /\ s0.phys[p].mtype = mm.phys[p].mtype
        /\ \A p \in Physical \ (D \cup F \cup C) : s0.phys[p] = mm.phys[p]
        /\ s0.pcut = (mm.pcut \cup (PhysEnds(mm, S) \cap Physical))
                       \ {p \in PhysEnds(mm, S) \cap Physical : PhysMerge(s0, p)}
    BY <1>02, <1>3, <1>4, <2>1, GivenBackIs
  <2> QED
    BY <1>3, <2>2, <2>3 DEF N
<1>11. new \in VmaPage /\ new.type = "PoolReserved" /\ new.phys = None
  BY DEF Page, VmaPage
<1> HIDE DEF new
<1>12. /\ V1 \in [Virtual -> VmaPage] /\ \A v \in W : V1[v] = new
       /\ \A v \in Virtual \ W : V1[v] = mm.vma[v]
  <2>1. mm.vma \in [Virtual -> VmaPage]
    BY <1>3, Fields
  <2> QED
    BY <1>4, <1>10, <1>11, <2>1 DEF Over
<1>13. /\ H1 \in [Virtual -> Physical \cup {None}] /\ \A v \in W : H1[v] = None
       /\ \A v \in Virtual \ W : H1[v] = mm.host[v]
  <2>1. mm.host \in [Virtual -> Physical \cup {None}]
    BY <1>3, Fields
  <2> QED
    BY <1>4, <1>10, <2>1 DEF Over
<1>14. u1 \in Int /\ u1 = mm.pool_budget + Cardinality(S)
  BY <1>3, <1>7, <1>10, Fields
<1>15. b1 \in BOOLEAN /\ (b1 => mm.aliased)
  BY <1>3, <1>8, <1>10 DEF PhysTorn
<1> DEFINE f == s0.phys
<1>16. f \in [Physical -> PhysPage]
  BY <1>10, Fields
<1> HIDE DEF u1, V1, H1, b1, N, E
<1>17. /\ s1 \in State /\ s1.phys = f /\ s1.vma = V1 /\ s1.vcut = mm.vcut /\ s1.pcut = s0.pcut
       /\ s1.acut = mm.acut /\ s1.host = H1 /\ s1.abort = FALSE /\ s1.torn = b1 /\ s1.aliased = mm.aliased
       /\ s1.flexible_usage = mm.flexible_usage /\ s1.pool_budget = u1
  BY <1>10, <1>12, <1>13, <1>14, <1>15 DEF State
<1> HIDE DEF s1, f
<1>18. /\ r \in State /\ r.phys = f /\ r.vma = V1 /\ r.host = H1 /\ r.abort = FALSE
       /\ r.torn = b1 /\ r.aliased = mm.aliased
       /\ r.flexible_usage = mm.flexible_usage /\ r.pool_budget = u1 /\ r.pcut = s0.pcut
       /\ r.vcut = (mm.vcut \cup (E \cap Virtual)) \ {v \in E \cap Virtual : VmaMerge(s1, v)}
       /\ r.acut = {v \in mm.acut \cup (E \cap Virtual) : Backed(s1, v)}
  BY <1>02, <1>17, VmaCarvedIs
<1>19. /\ \A p : PhysMerge(s0, p) <=> PhysMerge(r, p)
       /\ \A v : (VmaMerge(s1, v) <=> VmaMerge(r, v)) /\ (Backed(s1, v) <=> Backed(r, v))
  BY <1>17, <1>18, MergeSame DEF f
<1>20. /\ r.pcut = (mm.pcut \cup (N \cap Physical)) \ {p \in N \cap Physical : PhysMerge(r, p)}
       /\ r.vcut = (mm.vcut \cup (E \cap Virtual)) \ {v \in E \cap Virtual : VmaMerge(r, v)}
       /\ r.acut = {v \in mm.acut \cup (E \cap Virtual) : Backed(r, v)}
  BY <1>10, <1>18, <1>19
<1>010. /\ \A p \in Physical \ Q : f[p] = mm.phys[p]
        /\ \A p \in Q : f[p].dma = "Pooled" /\ f[p].mtype = mm.phys[p].mtype
  BY <1>10 DEF f
<1>21. \A v \in W : r.vma[v].type = "PoolReserved" /\ r.vma[v].phys = None /\ ~Backed(r, v)
  BY <1>11, <1>12, <1>18 DEF Backed
<1>22. \A v \in Virtual \ W : r.vma[v] = mm.vma[v] /\ (Backed(r, v) <=> Backed(mm, v))
  BY <1>12, <1>18 DEF Backed
<1>23. KindInv(r)
  <2>1. \A v \in Virtual :
          /\ r.vma[v].type = "Free" => r.vma[v] = FreePage
          /\ ~Backed(r, v) => r.vma[v].phys = None
          /\ r.vma[v].type \in {"Direct", "Pooled"} => r.vma[v].phys \in Direct
          /\ r.vma[v].type = "Flexible" => r.vma[v].phys \in Flexible /\ r.vma[v].mtype = 0
    <3> TAKE v \in Virtual
    <3>1. CASE v \in W
      BY <1>21, <3>1
    <3>2. CASE v \notin W
      BY <1>3, <1>22, <3>2 DEF KindInv
    <3> QED
      BY <3>1, <3>2
  <2>2. \A p \in Direct : p \in Physical
    BY Ranges
  <2>3. \A p \in Flexible : p \in Physical /\ p \notin Q
    BY <1>5, Ranges
  <2>4. \A p \in Direct : f[p].dma # "Flexible"
    BY <1>3, <1>010, <1>16, <2>2 DEF KindInv
  <2>5. \A p \in Flexible : f[p].dma \in {"Free", "Flexible"} /\ f[p].mtype = 0
    BY <1>3, <1>010, <1>16, <2>3 DEF KindInv
  <2> QED
    BY <1>18, <2>1, <2>4, <2>5 DEF KindInv
<1>24. HostInv(r)
  <2> SUFFICES ASSUME NEW v \in Virtual
               PROVE  r.host[v] = IF Backed(r, v) THEN r.vma[v].phys ELSE None
    BY DEF HostInv
  <2>1. CASE v \in W
    BY <1>13, <1>18, <1>21, <2>1
  <2>2. CASE v \notin W
    BY <1>3, <1>13, <1>18, <1>22, <2>2 DEF HostInv
  <2> QED
    BY <2>1, <2>2
<1>25. UseInv(r)
  <2>1. ASSUME NEW v \in Virtual, Backed(mm, v) PROVE v \in W <=> mm.vma[v].phys \in Q
    <3>1. v \in W => mm.vma[v].phys \in Q
      BY <1>4, <1>6, <2>1
    <3>2. ASSUME mm.vma[v].phys \in Q PROVE v \in W
      <4>1. PICK u \in S : mm.vma[u].phys = mm.vma[v].phys
        BY <1>6, <3>2
      <4>2. u \in Virtual /\ Sole(mm, u) /\ u \in W
        BY <1>4
      <4>3. mm.vma[v].type # "Direct"
        BY <1>3, <1>5, <3>2 DEF UseInv
      <4>4. Sole(mm, v)
        BY <2>1, <4>3 DEF Sole
      <4> QED
        BY <1>3, <4>1, <4>2, <4>4 DEF UseInv
    <3> QED
      BY <3>1, <3>2
  <2>2. Q \subseteq Physical /\ \A p \in Q : r.phys[p].dma \notin {"Mapped", "Committed", "Flexible"}
    BY <1>5, <1>010, <1>16, <1>18
  <2>3. \A p \in Physical \ Q : r.phys[p] = mm.phys[p]
    BY <1>010, <1>16, <1>18
  <2>4. UseStep(mm, r, W, Q)
    BY <1>4, <1>18, <1>21, <1>22, <2>1, <2>2, <2>3, SoleIs DEF UseStep
  <2> QED
    BY <1>3, <1>18, <2>4, UseKept
<1>26. BudgetInv(r)
  <2> DEFINE pool == Dma(mm, Direct, {"Pooled"})
  <2>1. Dma(r, Flexible, {"Flexible"}) = Dma(mm, Flexible, {"Flexible"})
    <3>1. \A p \in Flexible : p \in Physical \ Q
      BY <1>5, Ranges
    <3> QED
      BY <1>010, <1>16, <1>18, <3>1 DEF Dma
  <2>2. Dma(r, Direct, {"Pooled"}) = pool \cup Q /\ pool \cap Q = {}
    <3>1. \A p \in Direct : p \in Physical
      BY Ranges
    <3> QED
      BY <1>5, <1>010, <1>16, <1>18, <3>1 DEF Dma
  <2>3. IsFiniteSet(pool)
    BY DmaFinite
  <2>4. Cardinality(pool \cup Q) = Cardinality(pool) + Cardinality(S)
    BY <1>7, <2>2, <2>3, Counted
  <2> HIDE DEF pool
  <2> QED
    BY <1>3, <1>14, <1>18, <2>1, <2>2, <2>4 DEF BudgetInv, pool
<1>27. W \subseteq Int /\ Virtual \subseteq Int /\ Physical \subseteq Int
  BY <1>4, Ranges
<1>28. \A x \in Int : x \notin E => (x \in W <=> x - 1 \in W) /\ (x \in W => x \notin mm.vcut)
  <2>1. PICK T, c : T = W /\ c = mm.vcut
    OBVIOUS
  <2>2. T \subseteq Int
    BY <1>27, <2>1
  <2>3. \A x \in Int : x \notin Ends(T, c) => (x \in T <=> x - 1 \in T) /\ (x \in T => x \notin c)
    BY <2>2, EndsIs
  <2> QED
    BY <2>1, <2>3 DEF E
<1>29. VcutInv(r)
  <2>1. VcutStep(mm, r, W, E)
    BY <1>4, <1>20, <1>21, <1>22, <1>27, <1>28 DEF VcutStep
  <2> QED
    BY <1>3, <1>18, <1>23, <2>1, VcutKept
<1>30. PcutInv(r)
  <2>1. ASSUME NEW p \in Q, p - 1 \in Q, mm.phys[p] = mm.phys[p - 1] PROVE f[p] = f[p - 1]
    <3>1. p \in Physical /\ p - 1 \in Physical
      BY <1>5, <2>1
    <3>2. f[p].dma = f[p - 1].dma /\ f[p].mtype = f[p - 1].mtype /\ f[p] \in PhysPage /\ f[p - 1] \in PhysPage
      BY <1>010, <1>16, <2>1, <3>1
    <3> QED
      BY <3>2, SamePhys
  <2>2. \A p \in Physical : p # 0 /\ p \notin mm.pcut \cup (N \cap Physical) => (p \in Q <=> p - 1 \in Q)
    BY <1>8, <1>27 DEF N
  <2>3. PcutStep(mm, r, Q, N \cap Physical, N)
    BY <1>5, <1>010, <1>16, <1>18, <1>20, <2>1, <2>2 DEF PcutStep
  <2> QED
    BY <1>3, <1>18, <2>3, PcutKept
<1>31. AcutInv(r)
  <2>1. \A v \in Virtual : v \notin W /\ v - 1 \in W => v \in E
    BY <1>27, <1>28
  <2>2. ~r.aliased => \A v \in Virtual \ W : Backed(mm, v) /\ Backed(mm, v - 1) /\ v - 1 \in Virtual \ W
       /\ mm.vma[v].phys = mm.vma[v - 1].phys + 1 /\ mm.vma[v].phys \in r.pcut => mm.vma[v].phys \in mm.pcut
    BY <1>4, <1>8, <1>18, <1>20 DEF N
  <2>3. AcutStep(mm, r, W, mm.acut, E)
    BY <1>4, <1>18, <1>20, <1>21, <1>22, <2>1, <2>2 DEF AcutStep
  <2> QED
    BY <1>3, <1>18, <2>3, AcutKept
<1>32. Good(r) /\ (r.torn => mm.aliased)
  BY <1>15, <1>18, <1>23, <1>24, <1>25, <1>26, <1>29, <1>30, <1>31 DEF Good, MapInv, CutInv
<1> QED
  BY <1>2, <1>3, <1>18, <1>32, OutcomeGood

\* Protect keeps the invariant.
LEMMA ProtectKeeps ==
  ASSUME Good(mm), Protect
  PROVE  Good(mm') /\ mm'.flexible_usage <= mm.flexible_usage
<1>1. PICK a \in Virtual, n \in Sizes, prot \in {"NoAccess", "ReadWrite"} :
        /\ Pages(a, n) \subseteq Virtual
        /\ LET pages == Pages(a, n) \ Typed(mm, Pages(a, n), {"Free", "PoolReserved"})
           IN  mm' = VmaCarved([mm EXCEPT !.vma = Over([v \in pages |->
                                                          [@[v] EXCEPT !.prot = prot]], @)],
                               Ends(pages, mm.vcut))
  BY DEF Protect
<1> DEFINE S == Pages(a, n) \ Typed(mm, Pages(a, n), {"Free", "PoolReserved"})
           g == [v \in S |-> [mm.vma[v] EXCEPT !.prot = prot]]
           V1 == Over(g, mm.vma)
           s1 == [mm EXCEPT !.vma = V1]
           E == Ends(S, mm.vcut)
<1>2. mm' = VmaCarved(s1, E)
  BY <1>1
<1>3. mm \in State /\ KindInv(mm) /\ HostInv(mm) /\ UseInv(mm) /\ BudgetInv(mm) /\ mm.abort = FALSE
      /\ VcutInv(mm) /\ PcutInv(mm) /\ AcutInv(mm) /\ (mm.torn => mm.aliased)
      /\ mm.flexible_usage \in Int
  BY Fields DEF Good, MapInv, CutInv
<1>4. S \in SUBSET Virtual /\ \A v \in S : mm.vma[v].type # "Free"
  BY <1>1 DEF Typed
<1> HIDE DEF S
<1>5. \A v \in S : /\ g[v] \in VmaPage /\ g[v].type = mm.vma[v].type /\ g[v].phys = mm.vma[v].phys
                   /\ g[v].mtype = mm.vma[v].mtype
  <2>1. \A v \in S : mm.vma[v] \in VmaPage
    BY <1>3, <1>4, PageFields
  <2> QED
    BY <2>1 DEF VmaPage
<1>6. DOMAIN g = S
  OBVIOUS
<1> HIDE DEF g
<1>7. /\ V1 \in [Virtual -> VmaPage] /\ \A v \in S : V1[v] = g[v]
      /\ \A v \in Virtual \ S : V1[v] = mm.vma[v]
  BY <1>3, <1>4, <1>5, <1>6, OverVma
<1> HIDE DEF V1, E
<1>8. /\ s1 \in State /\ s1.vma = V1 /\ s1.phys = mm.phys /\ s1.vcut = mm.vcut /\ s1.pcut = mm.pcut
      /\ s1.acut = mm.acut /\ s1.host = mm.host /\ s1.abort = FALSE
      /\ s1.torn = mm.torn /\ s1.aliased = mm.aliased
      /\ s1.flexible_usage = mm.flexible_usage /\ s1.pool_budget = mm.pool_budget
  BY <1>3, <1>7 DEF State
<1> HIDE DEF s1
<1>9. /\ mm' \in State /\ mm'.phys = mm.phys /\ mm'.vma = V1 /\ mm'.host = mm.host /\ mm'.abort = FALSE
      /\ mm'.flexible_usage = mm.flexible_usage /\ mm'.pool_budget = mm.pool_budget
      /\ mm'.pcut = mm.pcut /\ mm'.torn = mm.torn /\ mm'.aliased = mm.aliased
      /\ mm'.vcut = (mm.vcut \cup (E \cap Virtual)) \ {v \in E \cap Virtual : VmaMerge(s1, v)}
      /\ mm'.acut = {v \in mm.acut \cup (E \cap Virtual) : Backed(s1, v)}
  BY <1>2, <1>8, VmaCarvedIs
<1>10. \A v : (VmaMerge(s1, v) <=> VmaMerge(mm', v)) /\ (Backed(s1, v) <=> Backed(mm', v))
  BY <1>8, <1>9, MergeSame
<1>11. /\ mm'.vcut = (mm.vcut \cup (E \cap Virtual)) \ {v \in E \cap Virtual : VmaMerge(mm', v)}
       /\ mm'.acut = {v \in mm.acut \cup (E \cap Virtual) : Backed(mm', v)}
  BY <1>9, <1>10
<1>12. \A v \in Virtual : /\ mm'.vma[v].type = mm.vma[v].type /\ mm'.vma[v].phys = mm.vma[v].phys
                          /\ mm'.vma[v].mtype = mm.vma[v].mtype
                          /\ (mm.vma[v].type = "Free" => mm'.vma[v] = mm.vma[v])
  BY <1>4, <1>5, <1>7, <1>9
<1>13. \A v \in Virtual : Backed(mm', v) <=> Backed(mm, v)
  BY <1>12 DEF Backed
<1>14. KindInv(mm')
  BY <1>3, <1>9, <1>12, <1>13 DEF KindInv
<1>15. HostInv(mm')
  BY <1>3, <1>9, <1>12, <1>13 DEF HostInv
<1>16. UseInv(mm')
  <2>1. UseStep(mm, mm', {}, {})
    BY <1>9, <1>12 DEF UseStep
  <2> QED
    BY <1>3, <1>9, <2>1, UseKept
<1>17. BudgetInv(mm')
  BY <1>3, <1>9 DEF BudgetInv, Dma
<1>18. VcutInv(mm')
  <2>1. VcutStep(mm, mm', {}, E)
    BY <1>11, <1>12 DEF VcutStep
  <2> QED
    BY <1>3, <1>9, <1>14, <2>1, VcutKept
<1>19. PcutInv(mm')
  BY <1>3, <1>9 DEF PcutInv
<1>20. AcutInv(mm')
  <2>1. AcutStep(mm, mm', {}, mm.acut, E)
    BY <1>9, <1>11, <1>12 DEF AcutStep
  <2> QED
    BY <1>3, <1>9, <2>1, AcutKept
<1> QED
  BY <1>3, <1>9, <1>14, <1>15, <1>16, <1>17, <1>18, <1>19, <1>20 DEF Good, MapInv, CutInv

\* SetDirectMemoryType keeps the invariant.
LEMMA SetDirectMemoryTypeKeeps ==
  ASSUME Good(mm), SetDirectMemoryType
  PROVE  Good(mm') /\ mm'.flexible_usage <= mm.flexible_usage
<1>1. PICK a \in Virtual, n \in Sizes, mtype \in MemoryTypes :
        /\ Pages(a, n) \subseteq Virtual
        /\ LET pages == Typed(mm, Pages(a, n), {"Direct", "Pooled"})
               phys == {mm.vma[v].phys : v \in pages}
               torn == \E v \in pages \ Starts(pages, mm.acut) :
                         mm.vma[v].phys \in mm.pcut \cup PhysEnds(mm, Before(mm, pages, v))
           IN  mm' = Outcome(VmaCarved(
                   [mm EXCEPT
                      !.vma = Over([v \in pages |-> [@[v] EXCEPT !.mtype = mtype]], @),
                      !.phys = Over([p \in phys |-> [@[p] EXCEPT !.mtype = mtype]], @),
                      !.pcut = @ \cup (PhysEnds(mm, pages) \cap Physical),
                      !.torn = @ \/ torn],
                   Ends(pages, mm.vcut)))
  BY DEF SetDirectMemoryType
<1> DEFINE S == Typed(mm, Pages(a, n), {"Direct", "Pooled"})
           Q == {mm.vma[v].phys : v \in S}
           g == [v \in S |-> [mm.vma[v] EXCEPT !.mtype = mtype]]
           h == [p \in Q |-> [mm.phys[p] EXCEPT !.mtype = mtype]]
           V1 == Over(g, mm.vma)
           f == Over(h, mm.phys)
           N == PhysEnds(mm, S)
           X == N \cap Physical
           C == mm.pcut \cup X
           torn == \E v \in S \ Starts(S, mm.acut) :
                     mm.vma[v].phys \in mm.pcut \cup PhysEnds(mm, Before(mm, S, v))
           b1 == mm.torn \/ torn
           s1 == [mm EXCEPT !.vma = V1, !.phys = f, !.pcut = C, !.torn = b1]
           E == Ends(S, mm.vcut)
           r == VmaCarved(s1, E)
<1>2. mm' = Outcome(r)
  BY <1>1
<1>02. r = VmaCarved(s1, E)
  OBVIOUS
<1> HIDE DEF r
<1>3. mm \in State /\ KindInv(mm) /\ HostInv(mm) /\ UseInv(mm) /\ BudgetInv(mm) /\ mm.abort = FALSE
      /\ VcutInv(mm) /\ PcutInv(mm) /\ AcutInv(mm) /\ (mm.torn => mm.aliased) /\ mm.torn \in BOOLEAN
      /\ mm.flexible_usage \in Int
  BY Fields DEF Good, MapInv, CutInv
<1>4. /\ S \in SUBSET Virtual
      /\ \A v \in S : Backed(mm, v) /\ mm.vma[v].type \in {"Direct", "Pooled"}
  BY <1>1 DEF Typed, Backed
<1> HIDE DEF S
<1>5. Q \subseteq Direct /\ \A p \in Q : p \in Physical
  BY <1>3, <1>4, Ranges DEF KindInv
<1>6. Q = {mm.vma[v].phys : v \in S}
  OBVIOUS
<1>7. DOMAIN g = S /\ DOMAIN h = Q
  OBVIOUS
<1> HIDE DEF Q
<1>8. /\ \A p \in Int : p \notin N => (p \in Q <=> p - 1 \in Q)
      /\ ~mm.aliased => \A v \in Virtual \ S : Backed(mm, v) /\ Backed(mm, v - 1) /\ v - 1 \in Virtual \ S
           /\ mm.vma[v].phys = mm.vma[v - 1].phys + 1 => mm.vma[v].phys \notin N
  BY <1>3, <1>4, <1>6, PhysEndsIs
<1>9. b1 \in BOOLEAN /\ (b1 => mm.aliased)
  <2> SUFFICES ASSUME torn, ~mm.aliased PROVE FALSE
    BY <1>3
  <2>1. PICK v \in S \ Starts(S, mm.acut) : mm.vma[v].phys \in mm.pcut \cup PhysEnds(mm, Before(mm, S, v))
    OBVIOUS
  <2>2. /\ Before(mm, S, v) \in SUBSET S
        /\ v \notin Before(mm, S, v) /\ v - 1 \notin Before(mm, S, v)
    BY <1>4, <2>1, BeforeIs
  <2>3. mm.vma[v].phys \notin PhysEnds(mm, Before(mm, S, v))
    BY <1>3, <1>4, <2>1, <2>2, PhysEndsInside
  <2>4. v - 1 \in S /\ v \notin mm.acut /\ v \in Virtual /\ Backed(mm, v)
    BY <1>4, <2>1 DEF Starts
  <2>5. mm.vma[v].phys \notin mm.pcut
    BY <1>3, <2>4 DEF AcutInv
  <2> QED
    BY <2>1, <2>3, <2>5
<1>10. \A v \in S : /\ g[v] \in VmaPage /\ g[v].type = mm.vma[v].type /\ g[v].phys = mm.vma[v].phys
                    /\ g[v].mtype = mtype
  <2>1. \A v \in S : mm.vma[v] \in VmaPage
    BY <1>3, <1>4, PageFields
  <2> QED
    BY <2>1 DEF VmaPage
<1>11. \A p \in Q : h[p] \in PhysPage /\ h[p].dma = mm.phys[p].dma /\ h[p].mtype = mtype
  <2>1. \A p \in Q : mm.phys[p] \in PhysPage
    BY <1>3, <1>5, PageFields
  <2> QED
    BY <2>1 DEF PhysPage
<1> HIDE DEF g, h
<1>12. /\ V1 \in [Virtual -> VmaPage] /\ \A v \in S : V1[v] = g[v]
       /\ \A v \in Virtual \ S : V1[v] = mm.vma[v]
  BY <1>3, <1>4, <1>7, <1>10, OverVma
<1>13. /\ f \in [Physical -> PhysPage] /\ \A p \in Q : f[p] = h[p]
       /\ \A p \in Physical \ Q : f[p] = mm.phys[p]
  <2>1. mm.phys \in [Physical -> PhysPage]
    BY <1>3, Fields
  <2> QED
    BY <1>5, <1>7, <1>11, <2>1 DEF Over
<1>14. C \in SUBSET Physical
  BY <1>3, Fields
<1> HIDE DEF V1, f, C, b1, torn, E
<1>15. /\ s1 \in State /\ s1.vma = V1 /\ s1.phys = f /\ s1.vcut = mm.vcut /\ s1.pcut = C
       /\ s1.acut = mm.acut /\ s1.host = mm.host
       /\ s1.flexible_usage = mm.flexible_usage /\ s1.pool_budget = mm.pool_budget
  BY <1>3, <1>9, <1>12, <1>13, <1>14 DEF State
<1>16. s1.abort = FALSE /\ s1.torn = b1 /\ s1.aliased = mm.aliased
  BY <1>3, <1>9 DEF State
<1> HIDE DEF s1
<1>17. /\ r \in State /\ r.phys = f /\ r.vma = V1 /\ r.host = mm.host /\ r.abort = FALSE
       /\ r.flexible_usage = mm.flexible_usage /\ r.pool_budget = mm.pool_budget
       /\ r.pcut = C /\ r.torn = b1 /\ r.aliased = mm.aliased
       /\ r.vcut = (mm.vcut \cup (E \cap Virtual)) \ {v \in E \cap Virtual : VmaMerge(s1, v)}
       /\ r.acut = {v \in mm.acut \cup (E \cap Virtual) : Backed(s1, v)}
  BY <1>02, <1>15, <1>16, VmaCarvedIs
<1>18. \A v : (VmaMerge(s1, v) <=> VmaMerge(r, v)) /\ (Backed(s1, v) <=> Backed(r, v))
  BY <1>15, <1>17, MergeSame
<1>19. /\ r.vcut = (mm.vcut \cup (E \cap Virtual)) \ {v \in E \cap Virtual : VmaMerge(r, v)}
       /\ r.acut = {v \in mm.acut \cup (E \cap Virtual) : Backed(r, v)}
  BY <1>17, <1>18
<1>20. \A v \in Virtual : r.vma[v].type = mm.vma[v].type /\ r.vma[v].phys = mm.vma[v].phys
  BY <1>4, <1>10, <1>12, <1>17
<1>21. /\ \A v \in Virtual \ S : r.vma[v] = mm.vma[v]
       /\ \A v \in S : r.vma[v].mtype = mtype
  BY <1>10, <1>12, <1>17
<1>22. /\ \A p \in Physical : r.phys[p].dma = mm.phys[p].dma
       /\ \A p \in Physical \ Q : r.phys[p] = mm.phys[p]
       /\ \A p \in Q : r.phys[p].mtype = mtype
  BY <1>5, <1>11, <1>13, <1>17
<1>23. \A v \in Virtual : Backed(r, v) <=> Backed(mm, v)
  BY <1>20 DEF Backed
<1>24. KindInv(r)
  <2>1. \A v \in Virtual :
          /\ r.vma[v].type = "Free" => r.vma[v] = FreePage
          /\ ~Backed(r, v) => r.vma[v].phys = None
          /\ r.vma[v].type \in {"Direct", "Pooled"} => r.vma[v].phys \in Direct
          /\ r.vma[v].type = "Flexible" => r.vma[v].phys \in Flexible /\ r.vma[v].mtype = 0
    BY <1>3, <1>4, <1>20, <1>21, <1>23 DEF KindInv
  <2>2. \A p \in Flexible : p \in Physical /\ p \notin Q
    BY <1>5, Ranges
  <2>3. \A p \in Direct : p \in Physical
    BY Ranges
  <2>4. \A p \in Direct : r.phys[p].dma # "Flexible"
    BY <1>3, <1>22, <2>3 DEF KindInv
  <2>5. \A p \in Flexible : r.phys[p].dma \in {"Free", "Flexible"} /\ r.phys[p].mtype = 0
    BY <1>3, <1>22, <2>2 DEF KindInv
  <2> QED
    BY <2>1, <2>4, <2>5 DEF KindInv
<1>25. HostInv(r)
  BY <1>3, <1>17, <1>20, <1>23 DEF HostInv
<1>26. UseInv(r)
  <2>1. ASSUME NEW v \in Virtual \ S, Backed(mm, v), mm.vma[v].phys \in Q
        PROVE  mm.vma[v].type = "Direct" /\ mm.aliased
    <3>1. PICK u \in S : mm.vma[u].phys = mm.vma[v].phys
      BY <1>6, <2>1
    <3>2. u \in Virtual /\ Backed(mm, u) /\ u # v
      BY <1>4
    <3>3. ~(Sole(mm, u) /\ Sole(mm, v))
      BY <1>3, <3>1, <3>2 DEF UseInv
    <3>4. CASE Sole(mm, v)
      <4>1. mm.vma[u].type = "Direct" /\ mm.aliased
        BY <1>3, <3>2, <3>3, <3>4, SoleIs
      <4>2. mm.phys[mm.vma[v].phys].dma \in {"Mapped", "Allocated"}
        BY <1>3, <3>1, <3>2, <4>1 DEF UseInv
      <4>3. mm.vma[v].type \in {"Flexible", "Pooled"} /\ mm.phys[mm.vma[v].phys].dma = UseOf[mm.vma[v].type]
        BY <1>3, <3>4, <4>1, SoleIs DEF UseInv
      <4>4. UseOf[mm.vma[v].type] \in {"Flexible", "Committed"}
        BY <4>3 DEF UseOf
      <4> QED
        BY <4>2, <4>3, <4>4
    <3> QED
      BY <1>3, <2>1, <3>4, SoleIs
  <2>2. ASSUME NEW v \in Virtual, r.vma[v].type = "Direct"
        PROVE  r.phys[r.vma[v].phys].dma \in {"Mapped", "Allocated"}
    <3>1. mm.vma[v].type = "Direct" /\ r.vma[v].phys = mm.vma[v].phys
      BY <1>20, <2>2
    <3>2. mm.phys[mm.vma[v].phys].dma \in {"Mapped", "Allocated"} /\ mm.vma[v].phys \in Physical
      BY <1>3, <3>1, Ranges DEF UseInv, KindInv
    <3> QED
      BY <1>22, <3>1, <3>2
  <2>3. ASSUME NEW v \in S
        PROVE  /\ r.vma[v].phys \in Q /\ mm.vma[v].phys \in Q
               /\ Sole(r, v) => Sole(mm, v) /\ r.phys[r.vma[v].phys].dma = UseOf[r.vma[v].type]
               /\ r.phys[r.vma[v].phys].mtype = r.vma[v].mtype
    <3>1. v \in Virtual /\ Backed(mm, v) /\ r.vma[v].phys = mm.vma[v].phys
          /\ mm.vma[v].phys \in Q /\ r.vma[v].type = mm.vma[v].type
      BY <1>4, <1>6, <1>20
    <3>2. Sole(r, v) => Sole(mm, v)
      BY <1>17, <3>1 DEF Sole
    <3>3. Sole(mm, v) => mm.phys[mm.vma[v].phys].dma = UseOf[mm.vma[v].type]
      BY <1>3, <3>1 DEF UseInv
    <3> QED
      BY <1>5, <1>21, <1>22, <3>1, <3>2, <3>3
  <2>4. \A u, v \in S : Sole(r, u) /\ Sole(r, v) /\ r.vma[u].phys = r.vma[v].phys => u = v
    BY <1>3, <1>4, <1>20, <2>3 DEF UseInv
  <2>5. \A p \in Q : \E v \in S : Backed(r, v) /\ r.vma[v].phys = p
    BY <1>4, <1>6, <1>20, <1>23
  <2>6. \A v \in Virtual \ S : /\ r.vma[v].type = mm.vma[v].type /\ r.vma[v].phys = mm.vma[v].phys
                               /\ r.vma[v].mtype = mm.vma[v].mtype
    BY <1>21
  <2>7. UseStep(mm, r, S, Q)
    <3>1. \A v \in Virtual \ S : Backed(mm, v) /\ mm.vma[v].phys \in Q =>
            /\ mm.vma[v].type = "Direct" /\ r.aliased
            /\ r.phys[mm.vma[v].phys].dma \in {"Mapped", "Allocated"}
      BY <1>17, <2>1, <2>2, <2>6
    <3> QED
      BY <1>4, <1>5, <1>17, <1>22, <2>2, <2>3, <2>4, <2>5, <2>6, <3>1 DEF UseStep
  <2> QED
    BY <1>3, <1>17, <2>7, UseKept
<1>27. BudgetInv(r)
  <2>1. Direct \subseteq Physical /\ Flexible \subseteq Physical
    BY Ranges
  <2>2. /\ Dma(r, Flexible, {"Flexible"}) = Dma(mm, Flexible, {"Flexible"})
        /\ Dma(r, Direct, {"Pooled"}) = Dma(mm, Direct, {"Pooled"})
    BY <1>22, <2>1 DEF Dma
  <2> QED
    BY <1>3, <1>17, <2>2 DEF BudgetInv
<1>28. S \subseteq Int /\ Virtual \subseteq Int /\ Physical \subseteq Int
  BY <1>4, Ranges
<1>29. \A x \in Int : x \notin E => (x \in S <=> x - 1 \in S) /\ (x \in S => x \notin mm.vcut)
  <2>1. PICK T, c : T = S /\ c = mm.vcut
    OBVIOUS
  <2>2. T \subseteq Int
    BY <1>28, <2>1
  <2>3. \A x \in Int : x \notin Ends(T, c) => (x \in T <=> x - 1 \in T) /\ (x \in T => x \notin c)
    BY <2>2, EndsIs
  <2> QED
    BY <2>1, <2>3 DEF E
<1>30. VcutInv(r)
  <2>1. VcutStep(mm, r, {}, E)
    BY <1>19, <1>20 DEF VcutStep
  <2> QED
    BY <1>3, <1>17, <1>24, <2>1, VcutKept
<1>31. PcutInv(r)
  <2>1. ASSUME NEW p \in Q, p - 1 \in Q, mm.phys[p] = mm.phys[p - 1] PROVE f[p] = f[p - 1]
    <3>1. f[p].dma = f[p - 1].dma /\ f[p].mtype = f[p - 1].mtype /\ f[p] \in PhysPage /\ f[p - 1] \in PhysPage
      BY <1>5, <1>11, <1>13, <2>1
    <3> QED
      BY <3>1, SamePhys
  <2>2. \A p \in Physical : p # 0 /\ p \notin mm.pcut \cup X => (p \in Q <=> p - 1 \in Q)
    BY <1>8, <1>28
  <2>3. r.pcut = (mm.pcut \cup X) \ {p \in {} \cap Physical : PhysMerge(r, p)}
    BY <1>17 DEF C
  <2> HIDE DEF X
  <2>4. PcutStep(mm, r, Q, X, {})
    BY <1>5, <1>17, <1>22, <2>1, <2>2, <2>3 DEF PcutStep
  <2> QED
    BY <1>3, <1>17, <2>4, PcutKept
<1>32. AcutInv(r)
  <2>1. \A v \in Virtual : v \notin S /\ v - 1 \in S => v \in E
    BY <1>28, <1>29
  <2>2. ~r.aliased => \A v \in Virtual \ S : Backed(mm, v) /\ Backed(mm, v - 1) /\ v - 1 \in Virtual \ S
       /\ mm.vma[v].phys = mm.vma[v - 1].phys + 1 /\ mm.vma[v].phys \in r.pcut => mm.vma[v].phys \in mm.pcut
    BY <1>8, <1>17 DEF C
  <2>3. ASSUME NEW v \in S, Backed(r, v), v \notin r.acut
        PROVE  /\ v - 1 \in Virtual /\ r.vma[v - 1].type = r.vma[v].type
               /\ r.vma[v].phys = r.vma[v - 1].phys + 1 /\ r.vma[v].mtype = r.vma[v - 1].mtype
               /\ ~r.aliased => r.vma[v].phys \notin r.pcut
    <3>1. v \in Virtual /\ v \in Int /\ v \notin mm.acut /\ v \notin E /\ Backed(mm, v)
      BY <1>4, <1>19, <1>28, <2>3
    <3>2. v - 1 \in S /\ v - 1 \in Virtual
      BY <1>4, <1>29, <3>1
    <3>3. /\ mm.vma[v - 1].type = mm.vma[v].type
          /\ mm.vma[v].phys = mm.vma[v - 1].phys + 1
          /\ ~mm.aliased => mm.vma[v].phys \notin mm.pcut
      BY <1>3, <3>1 DEF AcutInv
    <3>4. ~mm.aliased => mm.vma[v].phys \notin N
      <4>1. v \notin Starts(S, mm.acut) /\ S \in SUBSET S /\ (v \in S <=> v - 1 \in S)
        BY <2>3, <3>1, <3>2 DEF Starts
      <4> QED
        BY <1>3, <1>4, <4>1, PhysEndsInside
    <3> QED
      BY <1>17, <1>20, <1>21, <3>1, <3>2, <3>3, <3>4 DEF C
  <2>4. \A v \in Virtual \ S : /\ r.vma[v].type = mm.vma[v].type /\ r.vma[v].phys = mm.vma[v].phys
                               /\ r.vma[v].mtype = mm.vma[v].mtype
    BY <1>21
  <2>5. AcutStep(mm, r, S, mm.acut, E)
    BY <1>4, <1>17, <1>19, <2>1, <2>2, <2>3, <2>4 DEF AcutStep
  <2> QED
    BY <1>3, <1>17, <2>5, AcutKept
<1>33. Good(r) /\ (r.torn => mm.aliased)
  BY <1>9, <1>17, <1>24, <1>25, <1>26, <1>27, <1>30, <1>31, <1>32 DEF Good, MapInv, CutInv
<1> QED
  BY <1>2, <1>3, <1>17, <1>33, OutcomeGood

-----------------------------------------------------------------------------
(* The theorems                                                            *)

\* The check of MapMemory keeps the invariant: it has just been made.
LEMMA CheckFlexibleKeeps ==
  ASSUME IInv, NEW t \in Mappers, CheckFlexible(t)
  PROVE  IInv'
<1>1. PICK n \in Sizes : /\ mm.flexible_usage + n <= NumFlexible
                         /\ calls' = [calls EXCEPT ![t] = Call("checked", n, FALSE)] /\ mm' = mm
  BY DEF CheckFlexible
<1> DEFINE R == [at : {"idle", "checked", "aborted"}, size : 0 .. MaxSize, stale : BOOLEAN]
           c == Call("checked", n, FALSE)
<1>2. c \in R /\ c.at = "checked" /\ c.size = n /\ c.stale = FALSE
  <2>1. n \in 0 .. MaxSize
    BY DEF Sizes
  <2> QED
    BY <2>1 DEF Call
<1>3. calls \in [Mappers -> R]
  BY DEF IInv, CallInv
<1>4. calls' \in [Mappers -> R] /\ calls'[t] = c /\ \A u \in Mappers \ {t} : calls'[u] = calls[u]
  BY <1>1, <1>2, <1>3
<1> HIDE DEF c
<1>5. ASSUME NEW u \in Mappers
      PROVE  /\ calls'[u].at = "checked" => calls'[u].size \in Sizes
             /\ calls'[u].at = "checked" /\ ~calls'[u].stale =>
                  mm'.flexible_usage + calls'[u].size <= NumFlexible
             /\ calls'[u].at = "aborted" => calls'[u].stale
  <2>1. CASE u = t
    BY <1>1, <1>2, <1>4, <2>1
  <2>2. CASE u # t
    BY <1>1, <1>4, <2>2 DEF IInv, CallInv
  <2> QED
    BY <2>1, <2>2
<1>6. Good(mm')
  BY <1>1 DEF IInv
<1> QED
  BY <1>4, <1>5, <1>6 DEF IInv, CallInv

\* A call that is refused keeps the invariant.
LEMMA MapRefusedKeeps ==
  ASSUME IInv, NEW t \in Mappers, MapRefused(t)
  PROVE  IInv'
<1>1. calls' = [calls EXCEPT ![t] = Idle] /\ mm' = mm
  BY DEF MapRefused
<1> DEFINE R == [at : {"idle", "checked", "aborted"}, size : 0 .. MaxSize, stale : BOOLEAN]
<1>2. Idle \in R /\ Idle.at = "idle"
  <2>1. 0 \in 0 .. MaxSize
    BY Ranges
  <2> QED
    BY <2>1 DEF Idle, Call
<1>3. calls \in [Mappers -> R]
  BY DEF IInv, CallInv
<1>4. calls' \in [Mappers -> R] /\ calls'[t] = Idle /\ \A u \in Mappers \ {t} : calls'[u] = calls[u]
  BY <1>1, <1>2, <1>3
<1>5. ASSUME NEW u \in Mappers
      PROVE  /\ calls'[u].at = "checked" => calls'[u].size \in Sizes
             /\ calls'[u].at = "checked" /\ ~calls'[u].stale =>
                  mm'.flexible_usage + calls'[u].size <= NumFlexible
             /\ calls'[u].at = "aborted" => calls'[u].stale
  <2>1. CASE u = t
    BY <1>2, <1>4, <2>1
  <2>2. CASE u # t
    BY <1>1, <1>4, <2>2 DEF IInv, CallInv
  <2> QED
    BY <2>1, <2>2
<1>6. Good(mm')
  BY <1>1 DEF IInv
<1> QED
  BY <1>4, <1>5, <1>6 DEF IInv, CallInv

\* Every step keeps the invariant.
LEMMA NextGood ==
  ASSUME Careful, IInv, [Next]_vars
  PROVE  IInv'
<1>1. Good(mm) /\ CallInv
  BY DEF IInv
<1>2. ASSUME Good(mm'), mm'.flexible_usage <= mm.flexible_usage, UNCHANGED calls
      PROVE  IInv'
  BY <1>1, <1>2, CallsKept DEF IInv
<1>3. CASE UNCHANGED vars
  BY <1>1, <1>3 DEF vars, IInv, CallInv
<1>4. CASE UnmapMemory
  BY <1>1, <1>2, <1>4, UnmapMemoryKeeps DEF UnmapMemory
<1>5. CASE MapReserved
  BY <1>1, <1>2, <1>5, MapReservedKeeps DEF MapReserved
<1>6. CASE MapDirect
  BY <1>1, <1>2, <1>6, MapDirectKeeps DEF MapDirect
<1>7. CASE \E t \in Mappers : CheckFlexible(t) \/ MapFlexible(t) \/ MapRefused(t)
  BY <1>7, CheckFlexibleKeeps, MapFlexibleKeeps, MapRefusedKeeps
<1>8. CASE Allocate
  BY <1>1, <1>2, <1>8, AllocateKeeps DEF Allocate
<1>9. CASE PoolExpand
  BY <1>1, <1>2, <1>9, PoolExpandKeeps DEF PoolExpand
<1>10. CASE Free
  BY <1>1, <1>2, <1>10, FreeKeeps DEF Free
<1>11. CASE PoolCommit
  BY <1>1, <1>2, <1>11, PoolCommitKeeps DEF PoolCommit
<1>12. CASE PoolDecommit
  BY <1>1, <1>2, <1>12, PoolDecommitKeeps DEF PoolDecommit
<1>13. CASE Protect
  BY <1>1, <1>2, <1>13, ProtectKeeps DEF Protect
<1>14. CASE SetDirectMemoryType
  BY <1>1, <1>2, <1>14, SetDirectMemoryTypeKeeps DEF SetDirectMemoryType
<1> QED
  BY <1>3, <1>4, <1>5, <1>6, <1>7, <1>8, <1>9, <1>10, <1>11, <1>12, <1>13, <1>14 DEF Next

\* The inductive invariant of the memory manager, for a careful guest: the maps agree with
\* each other, with the host and with the counters, up to direct memory that was mapped
\* twice, and the areas are cut where they have to be; what a call of MapMemory has checked
\* is there for it until another maps flexible memory.
THEOREM InductiveInvariant ==
  ASSUME Careful
  PROVE  Spec => []IInv
<1>1. Init => IInv
  <2> SUFFICES ASSUME Init PROVE IInv
    OBVIOUS
  <2>1. mm = Start /\ calls = [t \in Mappers |-> Idle]
    BY DEF Init
  <2>2. Good(mm)
    <3>1. FALSE \in BOOLEAN /\ (FALSE => FALSE)
      OBVIOUS
    <3> QED
      BY <2>1, <3>1, StartGood
  <2>3. Idle \in [at : {"idle", "checked", "aborted"}, size : 0 .. MaxSize, stale : BOOLEAN]
        /\ Idle.at = "idle"
    <3>1. 0 \in 0 .. MaxSize
      BY Ranges
    <3> QED
      BY <3>1 DEF Idle, Call
  <2> QED
    BY <2>1, <2>2, <2>3 DEF IInv, CallInv
<1>2. IInv /\ [Next]_vars => IInv'
  BY NextGood
<1> QED
  BY <1>1, <1>2, PTL DEF Spec

\* The maps have their types and flexible_usage and pool_budget stay between 0 and the
\* amount of memory there is, whatever a careful guest maps, commits and gives back.
THEOREM TypeCorrect ==
  ASSUME Careful
  PROVE  Spec => []TypeOK
<1>1. IInv => TypeOK
  <2> SUFFICES ASSUME Good(mm), CallInv PROVE TypeOK
    BY DEF IInv
  <2>1. mm \in State /\ BudgetInv(mm) /\ 0 \in mm.vcut /\ {0, NumDirect} \subseteq mm.pcut
    BY DEF Good, MapInv, CutInv, VcutInv, PcutInv
  <2>2. mm.flexible_usage \in 0 .. NumFlexible /\ mm.pool_budget \in 0 .. NumDirect
    BY <2>1, DmaFinite DEF BudgetInv
  <2>3. mm \in [vma : [Virtual -> VmaPage], vcut : SUBSET Virtual, acut : SUBSET Virtual,
                phys : [Physical -> PhysPage], pcut : SUBSET Physical,
                host : [Virtual -> Physical \cup {None}],
                flexible_usage : 0 .. NumFlexible, pool_budget : 0 .. NumDirect,
                abort : BOOLEAN, torn : BOOLEAN, aliased : BOOLEAN]
    BY <2>1, <2>2 DEF State
  <2> QED
    BY <2>1, <2>3 DEF TypeOK, CallInv
<1> QED
  BY <1>1, InductiveInvariant, PTL

\* The ASSERTs of MemoryManager, for a careful guest: CreateArea finds its range free and in
\* one VMA and PoolCommit the memory that the budget lets pass; CarvePhysArea finds the
\* piece of a phys_area inside one area of the physical map, whatever was split and merged
\* before, unless direct memory was mapped twice; MapMemory finds the memory it has checked
\* for, unless another thread has mapped flexible memory since.
THEOREM AssertsHold ==
  ASSUME Careful
  PROVE  Spec => []NoAbort
<1>1. IInv => NoAbort
  BY DEF IInv, Good, CallInv, NoAbort
<1> QED
  BY <1>1, InductiveInvariant, PTL

\* The host has exactly the mappings that the VMAs describe after every call of a careful
\* guest, also of memory that is mapped twice.
THEOREM HostIsExact ==
  ASSUME Careful
  PROVE  Spec => []HostAgrees
<1>1. IInv => HostAgrees
  BY DEF IInv, Good, MapInv, HostInv, HostAgrees
<1> QED
  BY <1>1, InductiveInvariant, PTL

\* The physical maps say what the VMAs of a careful guest use: every page of a VMA is backed
\* by one in use, of its kind and memory type, and one in use backs exactly one; of direct
\* memory that was mapped twice, that it is Mapped or Allocated while it is mapped, and
\* mapped while it is Mapped.
THEOREM PhysIsExact ==
  ASSUME Careful
  PROVE  Spec => []PhysExact
<1>1. IInv => PhysExact
  <2> SUFFICES ASSUME UseInv(mm), mm \in State PROVE PhysExact
    BY DEF IInv, Good, MapInv
  <2>1. ASSUME NEW v \in Virtual, Backed(mm, v)
        PROVE  \/ mm.phys[mm.vma[v].phys].dma = UseOf[mm.vma[v].type]
                  /\ mm.phys[mm.vma[v].phys].mtype = mm.vma[v].mtype
               \/ mm.aliased /\ mm.vma[v].type = "Direct"
                  /\ mm.phys[mm.vma[v].phys].dma \in {"Mapped", "Allocated"}
    <3>1. CASE Sole(mm, v)
      BY <3>1 DEF UseInv
    <3>2. CASE ~Sole(mm, v)
      BY <2>1, <3>2, SoleIs DEF UseInv
    <3> QED
      BY <3>1, <3>2
  <2>2. ASSUME NEW p \in Physical, mm.phys[p].dma \in {"Mapped", "Committed", "Flexible"}
        PROVE  LET users == {v \in Virtual : Backed(mm, v) /\ mm.vma[v].phys = p}
               IN  /\ users # {}
                   /\ (mm.aliased /\ mm.phys[p].dma = "Mapped") \/ Cardinality(users) = 1
    <3> DEFINE users == {v \in Virtual : Backed(mm, v) /\ mm.vma[v].phys = p}
    <3>1. PICK v \in Virtual : Backed(mm, v) /\ mm.vma[v].phys = p
      BY <2>2 DEF UseInv
    <3>2. ASSUME ~(mm.aliased /\ mm.phys[p].dma = "Mapped") PROVE Cardinality(users) = 1
      <4>1. ASSUME NEW u \in users PROVE Sole(mm, u)
        <5> SUFFICES ASSUME ~Sole(mm, u) PROVE FALSE
          OBVIOUS
        <5>1. mm.vma[u].type = "Direct" /\ mm.aliased
          BY <4>1, SoleIs
        <5>2. mm.phys[p].dma \in {"Mapped", "Allocated"}
          BY <4>1, <5>1 DEF UseInv
        <5> QED
          BY <2>2, <3>2, <5>1, <5>2
      <4>2. users = {v}
        <5>1. v \in users
          BY <3>1
        <5>2. \A u \in users : u = v
          BY <4>1, <5>1 DEF UseInv
        <5> QED
          BY <5>1, <5>2
      <4> QED
        BY <4>2, FS_Singleton
    <3> QED
      BY <3>1, <3>2
  <2> QED
    BY <2>1, <2>2 DEF PhysExact
<1> QED
  BY <1>1, InductiveInvariant, PTL

\* flexible_usage and pool_budget count exactly the flexible pages in use and the pooled
\* pages that are not committed, for a careful guest.
THEOREM BudgetsAreExact ==
  ASSUME Careful
  PROVE  Spec => []BudgetsExact
<1>1. IInv => BudgetsExact
  BY DEF IInv, Good, MapInv, BudgetInv, BudgetsExact
<1> QED
  BY <1>1, InductiveInvariant, PTL

=============================================================================
