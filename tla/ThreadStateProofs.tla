------------------------- MODULE ThreadStateProofs -------------------------
(***************************************************************************)
(* Proofs about ThreadState, for any hosts, slots and bounds: every        *)
(* Pthread has one owner, the reference counts are exact, a join protects  *)
(* its thread, and no Pthread is freed under a host thread that uses it.   *)
(***************************************************************************)
EXTENDS ThreadState, FiniteSetTheorems, TLAPS

\* From its start until tid is TidTerminated a host thread runs on its Pthread.
Running(h) == pc[h] \notin {"off", "exit_native", "unreachable"}

\* In ExitThread, after the state became PthreadState::Dead.
Exiting(h) ==
    \/ pc[h] = "exit_term"
    \/ pc[h] \in {"collect_list", "collect_thread", "collect_unlock"} /\ arg[h] = cur[h]

\* pthread_create, from Alloc to NativeThread::Create.
Creating(h) == pc[h] \in {"create_link", "create_native"}

\* The calls that hold a reference.
RefPCs == {"ref_held", "collect_list", "collect_thread"}

\* The calls that hold thread_list_lock from one step to the next.
ListPCs == {"find_join", "find_detach", "find_ref", "collect_thread"}

\* thread_list_lock is held by the call that is inside it.
ListLockInv == \A h \in Hosts : list_lock = h <=> pc[h] \in ListPCs

\* The thread a call works on is linked, but before Link and after the removal in
\* TryCollect.
ArgInv ==
    \A h \in Hosts :
        /\ pc[h] \in ListPCs \cup RefPCs \cup {"join_wait", "create_native"} =>
             arg[h] \in threads
        /\ pc[h] \in {"create_link", "collect_unlock"} => arg[h] \in Slots
        /\ pc[h] \in {"off", "run", "create_free", "create_alloc", "exit_term", "exit_native",
                      "unreachable"} => arg[h] = None

\* The lists of ThreadState, the work lists and the new threads share no Pthread.
ListsApart ==
    /\ threads \cap gc_list = {} /\ threads \cap free_threads = {}
    /\ threads \cap heap = {} /\ gc_list \cap free_threads = {}
    /\ gc_list \cap heap = {} /\ free_threads \cap heap = {}
Listed == threads \cup gc_list \cup free_threads \cup heap
WorkApart ==
    \A h \in Hosts :
        /\ work_list[h] \cap Listed = {}
        /\ pc[h] # "create_free" => work_list[h] = {}
        /\ \A g \in Hosts : g # h => work_list[g] \cap work_list[h] = {}
NewApart ==
    \A h \in Hosts : pc[h] = "create_link" =>
        /\ arg[h] \notin Listed
        /\ \A g \in Hosts : arg[h] \notin work_list[g]
Covered ==
    \A p \in Slots :
        \/ p \in Listed
        \/ \E h \in Hosts : p \in work_list[h]
        \/ \E h \in Hosts : pc[h] = "create_link" /\ arg[h] = p

\* A new thread is live, and nobody runs on it or creates it too.
NewInv ==
    \A h \in Hosts : Creating(h) =>
        /\ arg[h] \notin dead /\ tid[arg[h]] = "live"
        /\ pc[h] = "create_link" => refcount[arg[h]] = 1
        /\ \A g \in Hosts : Running(g) => cur[g] # arg[h]
        /\ \A g \in Hosts : Creating(g) /\ arg[g] = arg[h] => g = h

\* A running host thread has a Pthread of its own, which is linked until it is dead and
\* not collected until it is terminated.
CurInv ==
    \A h \in Hosts :
        /\ pc[h] = "off" => cur[h] = None
        /\ pc[h] = "exit_native" => cur[h] \in Slots
        /\ Running(h) => cur[h] \in threads \cup gc_list /\ tid[cur[h]] = "live"
        /\ Running(h) /\ ~Exiting(h) => cur[h] \in threads \ dead
CurOnce ==
    \A g, h \in Hosts : Running(g) /\ Running(h) /\ cur[g] = cur[h] => g = h

\* total_threads counts the slots that are not in the heap.
TotalInv ==
    /\ IsFiniteSet(Slots \ heap)
    /\ total_threads = Cardinality(Slots \ heap)

RefFinite == \A p \in Slots : IsFiniteSet(Referrers(p))

OwnerInv == ListsApart /\ WorkApart /\ NewApart /\ Covered
RefInv == RefFinite /\ RefCountExact
IInv ==
    /\ TypeOK
    /\ ListLockInv
    /\ ArgInv
    /\ OwnerInv
    /\ NewInv
    /\ CurInv
    /\ CurOnce
    /\ TotalInv
    /\ RefInv
    /\ JoinProtects
    /\ NoUseAfterFree
-----------------------------------------------------------------------------
(* Every step keeps the invariant                                         *)

\* The references to a Pthread can be counted.
LEMMA RefType ==
  ASSUME RefFinite, NEW p \in Slots
  PROVE  Cardinality(Referrers(p)) \in Nat
BY FS_CardinalityType DEF RefFinite

\* TryCollect keeps the counts exact: refs are the references without the caller's own,
\* and if it goes on it has one again.
LEMMA TryCollectRefs ==
  ASSUME TypeOK, RefFinite, RefCountExact,
         NEW h \in Hosts, NEW p \in Slots, p \in threads, NEW refs \in Nat,
         \A g \in Hosts \ {h} : pc'[g] = pc[g] /\ arg'[g] = arg[g],
         \/ /\ refs = 0 /\ p \in dead'
            /\ pc'[h] = "collect_list" /\ arg'[h] = p
            /\ refcount' = [refcount EXCEPT ![p] = 1]
         \/ /\ pc'[h] \notin RefPCs
            /\ refcount' = [refcount EXCEPT ![p] = refs],
         pc[h] \in RefPCs => arg[h] = p,
         refs = Cardinality(Referrers(p) \ {h}) + (IF p \in dead' THEN 0 ELSE 1),
         threads' = threads,
         \A q \in threads \ {p} : q \in dead' <=> q \in dead
  PROVE  RefFinite' /\ RefCountExact'
<1>1. ASSUME NEW q \in Slots, q # p
      PROVE  Referrers(q)' = Referrers(q)
  BY <1>1 DEF Referrers, RefPCs
<1>2. /\ IsFiniteSet(Referrers(p) \ {h}) /\ h \notin Referrers(p) \ {h}
      /\ Cardinality(Referrers(p) \ {h}) \in Nat
  BY FS_Subset, FS_CardinalityType DEF RefFinite
<1>3. CASE /\ refs = 0 /\ p \in dead'
           /\ pc'[h] = "collect_list" /\ arg'[h] = p
           /\ refcount' = [refcount EXCEPT ![p] = 1]
  <2>1. Referrers(p)' = (Referrers(p) \ {h}) \cup {h}
    BY <1>3 DEF Referrers
  <2>2. IsFiniteSet(Referrers(p)') /\ Cardinality(Referrers(p)') = 1
    <3>1. Cardinality(Referrers(p) \ {h}) = 0
      BY <1>2, <1>3
    <3>2. /\ IsFiniteSet((Referrers(p) \ {h}) \cup {h})
          /\ Cardinality((Referrers(p) \ {h}) \cup {h}) = 1
      <4>1. \A R : IsFiniteSet(R) /\ h \notin R /\ Cardinality(R) = 0 =>
                      IsFiniteSet(R \cup {h}) /\ Cardinality(R \cup {h}) = 1
        BY FS_AddElement
      <4> QED
        BY <1>2, <3>1, <4>1, Zenon
    <3> QED
      BY <2>1, <3>2
  <2>3. refcount'[p] = 1
    BY <1>3 DEF TypeOK
  <2> QED
    BY <1>1, <1>3, <2>2, <2>3 DEF RefFinite, RefCountExact, TypeOK
<1>4. CASE pc'[h] \notin RefPCs /\ refcount' = [refcount EXCEPT ![p] = refs]
  <2>1. Referrers(p)' = Referrers(p) \ {h}
    BY <1>4 DEF Referrers, RefPCs
  <2>2. refcount'[p] = refs
    BY <1>4 DEF TypeOK
  <2> QED
    BY <1>1, <1>2, <1>4, <2>1, <2>2 DEF RefFinite, RefCountExact, TypeOK
<1> QED
  BY <1>3, <1>4

\* Collect takes the terminated threads out of gc_list, none of which a host thread
\* runs on.
LEMMA CreateCollectKeeps ==
  ASSUME IInv, NEW h \in Hosts, CreateCollect(h)
  PROVE  IInv'
<1> USE HostAssumption, SlotAssumption DEF IInv, OwnerInv, RefInv
<1>1. TypeOK'
  BY DEF TypeOK, CreateCollect, Goto, slotVars, PCs
<1>2. ListLockInv'
  BY DEF TypeOK, ListLockInv, ListPCs, CreateCollect, Goto, slotVars
<1>3. ArgInv'
  BY DEF TypeOK, ListLockInv, ArgInv, ListPCs, RefPCs, CreateCollect, Goto, slotVars
<1>4. ListsApart'
  BY DEF TypeOK, ListsApart, CreateCollect, Goto, slotVars
<1>5. WorkApart'
  BY DEF TypeOK, ListsApart, WorkApart, Listed, CreateCollect, Goto, slotVars
<1>6. NewApart'
  BY DEF TypeOK, ArgInv, ListsApart, WorkApart, NewApart, Listed, ListPCs, RefPCs,
       CreateCollect, Goto, slotVars
<1>7. Covered'
  BY DEF TypeOK, Covered, Listed, WorkApart, CreateCollect, Goto, slotVars
<1>8. NewInv'
  BY DEF TypeOK, NewInv, Creating, Running, CreateCollect, Goto, slotVars
<1>9. CurInv'
  BY DEF TypeOK, CurInv, Running, Exiting, CreateCollect, Goto, slotVars
<1>10. CurOnce'
  BY DEF TypeOK, CurOnce, Running, CreateCollect, Goto, slotVars
<1>11. TotalInv'
  BY DEF TotalInv, CreateCollect, Goto, slotVars
<1>12. JoinProtects'
  BY DEF TypeOK, JoinProtects, CreateCollect, Goto, slotVars
<1>13. NoUseAfterFree'
  BY DEF TypeOK, NoUseAfterFree, CreateCollect, Goto, slotVars
<1>14. \A q \in Slots : Referrers(q)' = Referrers(q)
  BY DEF TypeOK, ArgInv, Referrers, RefPCs, CreateCollect, Goto, slotVars
<1>15. RefFinite' /\ RefCountExact'
  BY <1>14 DEF RefFinite, RefCountExact, TypeOK, CreateCollect, Goto, slotVars
<1> QED
  BY <1>1, <1>2, <1>3, <1>4, <1>5, <1>6, <1>7,
     <1>8, <1>9, <1>10, <1>11, <1>12, <1>13, <1>15

\* Free puts a thread of the work list back, and nobody uses it but where the code gave
\* up.
LEMMA FreeKeeps ==
  ASSUME IInv, NEW h \in Hosts, NEW p \in Slots, Free(h, p)
  PROVE  IInv'
<1> USE HostAssumption, SlotAssumption DEF IInv, OwnerInv, RefInv
<1>11. TotalInv'
  <2>1. p \in Slots \ heap
    BY DEF TypeOK, WorkApart, Listed, Free
  <2>2. IsFiniteSet((Slots \ heap) \ {p})
        /\ Cardinality((Slots \ heap) \ {p}) = total_threads - 1
    BY <2>1, FS_RemoveElement DEF TotalInv
  <2>3. CASE heap' = heap /\ total_threads' = total_threads
    BY <2>3 DEF TotalInv
  <2>4. CASE heap' = heap \cup {p} /\ total_threads' = total_threads - 1
    <3>1. Slots \ heap' = (Slots \ heap) \ {p}
      BY <2>4
    <3> QED
      BY <2>2, <2>4, <3>1 DEF TotalInv
  <2> QED
    BY <2>3, <2>4 DEF Free
<1>1. TypeOK'
  <2>1. total_threads' \in Nat
    BY <1>11, FS_CardinalityType DEF TotalInv
  <2> QED
    BY <2>1 DEF TypeOK, Free, slotVars, PCs
<1>2. ListLockInv'
  BY DEF TypeOK, ListLockInv, ListPCs, Free, slotVars
<1>3. ArgInv'
  BY DEF TypeOK, ListLockInv, ArgInv, ListPCs, RefPCs, Free, slotVars
<1>4. ListsApart'
  BY DEF TypeOK, ListsApart, WorkApart, Listed, Free, slotVars
<1>5. WorkApart'
  BY DEF TypeOK, ListsApart, WorkApart, Listed, Free, slotVars
<1>6. NewApart'
  BY DEF TypeOK, ArgInv, ListsApart, WorkApart, NewApart, Listed, ListPCs, RefPCs,
       Free, slotVars
<1>7. Covered'
  BY DEF TypeOK, Covered, Listed, Free, slotVars
<1>8. NewInv'
  BY DEF TypeOK, NewInv, Creating, Running, Free, slotVars
<1>9. CurInv'
  BY DEF TypeOK, CurInv, Running, Exiting, Free, slotVars
<1>10. CurOnce'
  BY DEF TypeOK, CurOnce, Running, Free, slotVars
<1>12. JoinProtects'
  BY DEF TypeOK, JoinProtects, Free, slotVars
<1>13. NoUseAfterFree'
  <2>1. SUFFICES ASSUME NEW g \in Hosts, p \in {cur[g], arg[g]}
                 PROVE  \/ pc[g] \in {"exit_native", "unreachable"}
                        \/ pc[g] = "collect_unlock" /\ arg[g] # cur[g]
    BY DEF TypeOK, NoUseAfterFree, Free
  <2>2. p \in Slots /\ p \notin Listed /\ p \in work_list[h]
    BY DEF TypeOK, WorkApart, Free
  <2>3. CASE cur[g] = p
    BY <2>2, <2>3 DEF CurInv, Running, Listed
  <2>4. CASE arg[g] = p /\ cur[g] # p
    <3>1. pc[g] # "create_link"
      BY <2>2, <2>4 DEF NewApart
    <3>2. arg[g] \notin threads /\ arg[g] # None
      BY <2>2, <2>4 DEF Listed
    <3>3. pc[g] \in PCs
      BY DEF TypeOK
    <3>4. pc[g] \notin ListPCs \cup RefPCs \cup {"join_wait", "create_native"}
      BY <3>2 DEF ArgInv
    <3>5. pc[g] \notin {"off", "run", "create_free", "create_alloc", "exit_term"}
      BY <3>2 DEF ArgInv
    <3> QED
      BY <2>4, <3>1, <3>3, <3>4, <3>5 DEF PCs, ListPCs, RefPCs
  <2> QED
    BY <2>1, <2>3, <2>4
<1>14. \A q \in Slots : Referrers(q)' = Referrers(q)
  BY DEF TypeOK, ArgInv, Referrers, RefPCs, Free, slotVars
<1>15. RefFinite' /\ RefCountExact'
  BY <1>14 DEF RefFinite, RefCountExact, TypeOK, Free, slotVars
<1> QED
  BY <1>1, <1>2, <1>3, <1>4, <1>5, <1>6, <1>7,
     <1>8, <1>9, <1>10, <1>11, <1>12, <1>13, <1>15

\* Alloc takes a spare thread or one of the heap, which no other host thread knows.
LEMMA AllocKeeps ==
  ASSUME IInv, NEW h \in Hosts, NEW p \in Slots, NEW d \in BOOLEAN, Alloc(h, p, d)
  PROVE  IInv'
<1> USE HostAssumption, SlotAssumption DEF IInv, OwnerInv, RefInv, AtAlloc
<1>1. TypeOK'
  BY DEF TypeOK, Alloc, Goto, PCs
<1>2. ListLockInv'
  BY DEF TypeOK, ListLockInv, ListPCs, Alloc, Goto
<1>3. ArgInv'
  BY DEF TypeOK, ListLockInv, ArgInv, ListPCs, RefPCs, Alloc, Goto
<1>4. ListsApart'
  BY DEF TypeOK, ListsApart, Alloc, Goto
<1>5. WorkApart'
  BY DEF TypeOK, ListsApart, WorkApart, Listed, Alloc, Goto
<1>6. NewApart'
  BY DEF TypeOK, ArgInv, ListsApart, WorkApart, NewApart, Listed, ListPCs, RefPCs,
       Alloc, Goto
<1>7. Covered'
  BY DEF TypeOK, Covered, Listed, Alloc, Goto
<1>8. NewInv'
  BY DEF TypeOK, NewInv, Creating, Running, ArgInv, CurInv, ListsApart, NewApart,
       Listed, ListPCs, RefPCs, PCs, Alloc, Goto
<1>9. CurInv'
  BY DEF TypeOK, CurInv, Running, Exiting, Alloc, Goto
<1>10. CurOnce'
  BY DEF TypeOK, CurOnce, Running, Alloc, Goto
<1>11. TotalInv'
  <2>1. CASE p \in free_threads
    BY <2>1 DEF TotalInv, ListsApart, Alloc
  <2>2. CASE p \notin free_threads
    <3>1. p \notin Slots \ heap /\ total_threads' = total_threads + 1
      BY <2>2 DEF Alloc
    <3>2. Slots \ heap' = (Slots \ heap) \cup {p}
      BY DEF Alloc
    <3> QED
      BY <3>1, <3>2, FS_AddElement DEF TotalInv
  <2> QED
    BY <2>1, <2>2
<1>12. JoinProtects'
  BY DEF TypeOK, JoinProtects, ListsApart, Alloc, Goto
<1>13. NoUseAfterFree'
  BY DEF TypeOK, NoUseAfterFree, Alloc, Goto
<1>14. \A q \in Slots : Referrers(q)' = Referrers(q)
  BY DEF TypeOK, ArgInv, Referrers, RefPCs, Alloc, Goto
<1>15. RefFinite' /\ RefCountExact'
  BY <1>14 DEF RefFinite, RefCountExact, TypeOK, ListsApart, Alloc
<1> QED
  BY <1>1, <1>2, <1>3, <1>4, <1>5, <1>6, <1>7,
     <1>8, <1>9, <1>10, <1>11, <1>12, <1>13, <1>15

\* Alloc has looked at total_threads.
LEMMA AllocTestKeeps ==
  ASSUME IInv, NEW h \in Hosts, AllocTest(h)
  PROVE  IInv'
<1> USE HostAssumption, SlotAssumption DEF IInv, OwnerInv, RefInv, AtAlloc
<1>1. TypeOK'
  BY DEF TypeOK, AllocTest, Goto, listVars, slotVars, PCs
<1>2. ListLockInv'
  BY DEF TypeOK, ListLockInv, ListPCs, AllocTest, Goto, listVars, slotVars
<1>3. ArgInv'
  BY DEF TypeOK, ListLockInv, ArgInv, ListPCs, RefPCs, AllocTest, Goto,
       listVars, slotVars
<1>4. ListsApart'
  BY DEF TypeOK, ListsApart, AllocTest, Goto, listVars, slotVars
<1>5. WorkApart'
  BY DEF TypeOK, ListsApart, WorkApart, Listed, AllocTest, Goto, listVars,
       slotVars
<1>6. NewApart'
  BY DEF TypeOK, ArgInv, ListsApart, WorkApart, NewApart, Listed, ListPCs, RefPCs,
       AllocTest, Goto, listVars, slotVars
<1>7. Covered'
  BY DEF TypeOK, Covered, Listed, AllocTest, Goto, listVars, slotVars
<1>8. NewInv'
  BY DEF TypeOK, NewInv, Creating, Running, AllocTest, Goto, listVars,
       slotVars
<1>9. CurInv'
  BY DEF TypeOK, CurInv, Running, Exiting, AllocTest, Goto, listVars,
       slotVars
<1>10. CurOnce'
  BY DEF TypeOK, CurOnce, Running, AllocTest, Goto, listVars, slotVars
<1>11. TotalInv'
  BY DEF TotalInv, AllocTest, Goto, listVars, slotVars
<1>12. JoinProtects'
  BY DEF TypeOK, JoinProtects, AllocTest, Goto, listVars, slotVars
<1>13. NoUseAfterFree'
  BY DEF TypeOK, NoUseAfterFree, AllocTest, Goto, listVars, slotVars
<1>14. \A q \in Slots : Referrers(q)' = Referrers(q)
  BY DEF TypeOK, ArgInv, Referrers, RefPCs, AllocTest, Goto, listVars,
       slotVars
<1>15. RefFinite' /\ RefCountExact'
  BY <1>14 DEF RefFinite, RefCountExact, TypeOK, AllocTest, Goto, listVars,
       slotVars
<1> QED
  BY <1>1, <1>2, <1>3, <1>4, <1>5, <1>6, <1>7,
     <1>8, <1>9, <1>10, <1>11, <1>12, <1>13, <1>15

\* EAGAIN.
LEMMA AllocFailsKeeps ==
  ASSUME IInv, NEW h \in Hosts, AllocFails(h)
  PROVE  IInv'
<1> USE HostAssumption, SlotAssumption DEF IInv, OwnerInv, RefInv
<1>1. TypeOK'
  BY DEF TypeOK, AllocFails, Return, Goto, listVars, slotVars, PCs
<1>2. ListLockInv'
  BY DEF TypeOK, ListLockInv, ListPCs, AllocFails, Return, Goto, listVars, slotVars
<1>3. ArgInv'
  BY DEF TypeOK, ListLockInv, ArgInv, ListPCs, RefPCs, AllocFails, Return, Goto,
       listVars, slotVars
<1>4. ListsApart'
  BY DEF TypeOK, ListsApart, AllocFails, Return, Goto, listVars, slotVars
<1>5. WorkApart'
  BY DEF TypeOK, ListsApart, WorkApart, Listed, AllocFails, Return, Goto, listVars,
       slotVars
<1>6. NewApart'
  BY DEF TypeOK, ArgInv, ListsApart, WorkApart, NewApart, Listed, ListPCs, RefPCs,
       AllocFails, Return, Goto, listVars, slotVars
<1>7. Covered'
  BY DEF TypeOK, Covered, Listed, AllocFails, Return, Goto, listVars, slotVars
<1>8. NewInv'
  BY DEF TypeOK, NewInv, Creating, Running, AllocFails, Return, Goto, listVars,
       slotVars
<1>9. CurInv'
  BY DEF TypeOK, CurInv, Running, Exiting, AllocFails, Return, Goto, listVars,
       slotVars
<1>10. CurOnce'
  BY DEF TypeOK, CurOnce, Running, AllocFails, Return, Goto, listVars, slotVars
<1>11. TotalInv'
  BY DEF TotalInv, AllocFails, Return, Goto, listVars, slotVars
<1>12. JoinProtects'
  BY DEF TypeOK, JoinProtects, AllocFails, Return, Goto, listVars, slotVars
<1>13. NoUseAfterFree'
  BY DEF TypeOK, NoUseAfterFree, AllocFails, Return, Goto, listVars, slotVars
<1>14. \A q \in Slots : Referrers(q)' = Referrers(q)
  BY DEF TypeOK, ArgInv, Referrers, RefPCs, AllocFails, Return, Goto, listVars,
       slotVars
<1>15. RefFinite' /\ RefCountExact'
  BY <1>14 DEF RefFinite, RefCountExact, TypeOK, AllocFails, Return, Goto, listVars,
       slotVars
<1> QED
  BY <1>1, <1>2, <1>3, <1>4, <1>5, <1>6, <1>7,
     <1>8, <1>9, <1>10, <1>11, <1>12, <1>13, <1>15

\* Link makes the new thread findable.
LEMMA LinkKeeps ==
  ASSUME IInv, NEW h \in Hosts, Link(h)
  PROVE  IInv'
<1> USE HostAssumption, SlotAssumption DEF IInv, OwnerInv, RefInv
<1>1. TypeOK'
  BY DEF TypeOK, ArgInv, Link, Goto, slotVars, PCs
<1>2. ListLockInv'
  BY DEF TypeOK, ListLockInv, ListPCs, Link, Goto, slotVars
<1>3. ArgInv'
  BY DEF TypeOK, ListLockInv, ArgInv, ListPCs, RefPCs, Link, Goto, slotVars
<1>4. ListsApart'
  BY DEF TypeOK, ListsApart, NewApart, Listed, ArgInv, Link, Goto, slotVars
<1>5. WorkApart'
  BY DEF TypeOK, ListsApart, WorkApart, Listed, NewApart, Link, Goto, slotVars
<1>6. NewApart'
  BY DEF TypeOK, ArgInv, ListsApart, WorkApart, NewApart, Listed, ListPCs, RefPCs,
       NewInv, Creating, Link, Goto, slotVars
<1>7. Covered'
  BY DEF TypeOK, Covered, Listed, Link, Goto, slotVars
<1>8. NewInv'
  BY DEF TypeOK, NewInv, Creating, Running, Link, Goto, slotVars
<1>9. CurInv'
  BY DEF TypeOK, CurInv, Running, Exiting, Link, Goto, slotVars
<1>10. CurOnce'
  BY DEF TypeOK, CurOnce, Running, Link, Goto, slotVars
<1>11. TotalInv'
  BY DEF TotalInv, Link, Goto, slotVars
<1>12. JoinProtects'
  BY DEF TypeOK, JoinProtects, Link, Goto, slotVars
<1>13. NoUseAfterFree'
  BY DEF TypeOK, NoUseAfterFree, Link, Goto, slotVars
<1>14. \A q \in Slots : Referrers(q)' = Referrers(q)
  BY DEF TypeOK, ArgInv, Referrers, RefPCs, Link, Goto, slotVars
<1>15. RefFinite' /\ RefCountExact'
  <2>1. Referrers(arg[h]) = {} /\ arg[h] \in Slots
    BY DEF Referrers, ArgInv, NewApart, Listed, RefPCs, Link
  <2>2. refcount[arg[h]] = 1 /\ arg[h] \notin dead
    BY DEF NewInv, Creating, Link
  <2>3. refcount[arg[h]] = Cardinality(Referrers(arg[h]))
                             + (IF arg[h] \in dead THEN 0 ELSE 1)
    BY <2>1, <2>2, FS_EmptySet
  <2> QED
    <3>1. UNCHANGED <<refcount, dead>> /\ threads' = threads \cup {arg[h]}
      BY DEF Link, slotVars
    <3>2. RefFinite'
      BY <1>14 DEF RefFinite
    <3>3. ASSUME NEW q \in threads'
          PROVE  refcount'[q] = Cardinality(Referrers(q)') + (IF q \in dead' THEN 0 ELSE 1)
      <4>1. q \in Slots /\ Referrers(q)' = Referrers(q)
        BY <1>14, <2>1, <3>1, <3>3 DEF TypeOK
      <4> QED
        BY <2>3, <3>1, <3>3, <4>1 DEF RefCountExact
    <3> QED
      BY <3>2, <3>3 DEF RefCountExact
<1> QED
  BY <1>1, <1>2, <1>3, <1>4, <1>5, <1>6, <1>7,
     <1>8, <1>9, <1>10, <1>11, <1>12, <1>13, <1>15

\* The new host thread runs on the new Pthread.
LEMMA CreateNativeKeeps ==
  ASSUME IInv, NEW h \in Hosts, NEW g \in Hosts, CreateNative(h, g)
  PROVE  IInv'
<1> USE HostAssumption, SlotAssumption DEF IInv, OwnerInv, RefInv
<1>1. TypeOK'
  BY DEF TypeOK, ArgInv, CreateNative, listVars, PCs
<1>2. ListLockInv'
  BY DEF TypeOK, ListLockInv, ListPCs, CreateNative, listVars
<1>3. ArgInv'
  BY DEF TypeOK, ListLockInv, ArgInv, ListPCs, RefPCs, CreateNative, listVars
<1>4. ListsApart'
  BY DEF TypeOK, ListsApart, CreateNative, listVars
<1>5. WorkApart'
  BY DEF TypeOK, ListsApart, WorkApart, Listed, CreateNative, listVars
<1>6. NewApart'
  BY DEF TypeOK, ArgInv, ListsApart, WorkApart, NewApart, Listed, ListPCs, RefPCs,
       CreateNative, listVars
<1>7. Covered'
  BY DEF TypeOK, Covered, Listed, CreateNative, listVars
<1>8. NewInv'
  BY DEF TypeOK, NewInv, Creating, Running, CreateNative, listVars
<1>9. CurInv'
  BY DEF TypeOK, CurInv, Running, Exiting, ArgInv, NewInv, Creating, ListPCs, RefPCs,
       CreateNative, listVars
<1>10. CurOnce'
  BY DEF TypeOK, CurOnce, Running, NewInv, Creating, CreateNative, listVars
<1>11. TotalInv'
  BY DEF TotalInv, CreateNative, listVars
<1>12. JoinProtects'
  BY DEF TypeOK, JoinProtects, CreateNative, listVars
<1>13. NoUseAfterFree'
  BY DEF TypeOK, NoUseAfterFree, CreateNative, listVars
<1>14. \A q \in Slots : Referrers(q)' = Referrers(q)
  BY DEF TypeOK, ArgInv, Referrers, RefPCs, CreateNative, listVars
<1>15. RefFinite' /\ RefCountExact'
  BY <1>14 DEF RefFinite, RefCountExact, TypeOK, CreateNative, listVars
<1> QED
  BY <1>1, <1>2, <1>3, <1>4, <1>5, <1>6, <1>7,
     <1>8, <1>9, <1>10, <1>11, <1>12, <1>13, <1>15

\* TryCollect takes thread_list_lock.
LEMMA CollectListKeeps ==
  ASSUME IInv, NEW h \in Hosts, CollectList(h)
  PROVE  IInv'
<1> USE HostAssumption, SlotAssumption DEF IInv, OwnerInv, RefInv
<1>1. TypeOK'
  BY DEF TypeOK, CollectList, Goto, listVars, slotVars, PCs
<1>2. ListLockInv'
  BY DEF TypeOK, ListLockInv, ListPCs, CollectList, Goto, listVars, slotVars
<1>3. ArgInv'
  BY DEF TypeOK, ListLockInv, ArgInv, ListPCs, RefPCs, CollectList, Goto, listVars,
       slotVars
<1>4. ListsApart'
  BY DEF TypeOK, ListsApart, CollectList, Goto, listVars, slotVars
<1>5. WorkApart'
  BY DEF TypeOK, ListsApart, WorkApart, Listed, CollectList, Goto, listVars, slotVars
<1>6. NewApart'
  BY DEF TypeOK, ArgInv, ListsApart, WorkApart, NewApart, Listed, ListPCs, RefPCs,
       CollectList, Goto, listVars, slotVars
<1>7. Covered'
  BY DEF TypeOK, Covered, Listed, CollectList, Goto, listVars, slotVars
<1>8. NewInv'
  BY DEF TypeOK, NewInv, Creating, Running, CollectList, Goto, listVars, slotVars
<1>9. CurInv'
  BY DEF TypeOK, CurInv, Running, Exiting, CollectList, Goto, listVars, slotVars
<1>10. CurOnce'
  BY DEF TypeOK, CurOnce, Running, CollectList, Goto, listVars, slotVars
<1>11. TotalInv'
  BY DEF TotalInv, CollectList, Goto, listVars, slotVars
<1>12. JoinProtects'
  BY DEF TypeOK, JoinProtects, CollectList, Goto, listVars, slotVars
<1>13. NoUseAfterFree'
  BY DEF TypeOK, NoUseAfterFree, CollectList, Goto, listVars, slotVars
<1>14. \A q \in Slots : Referrers(q)' = Referrers(q)
  BY DEF TypeOK, ArgInv, Referrers, RefPCs, CollectList, Goto, listVars, slotVars
<1>15. RefFinite' /\ RefCountExact'
  BY <1>14 DEF RefFinite, RefCountExact, TypeOK, CollectList, Goto, listVars, slotVars
<1> QED
  BY <1>1, <1>2, <1>3, <1>4, <1>5, <1>6, <1>7,
     <1>8, <1>9, <1>10, <1>11, <1>12, <1>13, <1>15

\* TryCollect gives back its reference and unlinks the thread if it was the last.
LEMMA CollectThreadKeeps ==
  ASSUME IInv, NEW h \in Hosts, CollectThread(h)
  PROVE  IInv'
<1> USE HostAssumption, SlotAssumption DEF IInv, OwnerInv, RefInv
<1>0. /\ arg[h] \in threads /\ h \in Referrers(arg[h])
      /\ refcount[arg[h]] - 1 \in Nat
      /\ IsFiniteSet(Referrers(arg[h]) \ {h})
      /\ Cardinality(Referrers(arg[h]) \ {h}) = Cardinality(Referrers(arg[h])) - 1
      /\ arg[h] \in dead /\ refcount[arg[h]] = 1 => Referrers(arg[h]) = {h}
  <2>1. arg[h] \in threads /\ arg[h] \in Slots /\ h \in Referrers(arg[h])
    BY DEF ArgInv, Referrers, RefPCs, ListPCs, CollectThread, TypeOK
  <2>2. /\ IsFiniteSet(Referrers(arg[h]) \ {h})
        /\ Cardinality(Referrers(arg[h]) \ {h}) = Cardinality(Referrers(arg[h])) - 1
        /\ Cardinality(Referrers(arg[h]) \ {h}) \in Nat
        /\ Cardinality(Referrers(arg[h])) \in Nat
    BY <2>1, FS_RemoveElement, FS_CardinalityType DEF RefFinite
  <2>3. refcount[arg[h]] - 1 \in Nat
    BY <2>1, <2>2 DEF RefCountExact
  <2>4. ASSUME arg[h] \in dead, refcount[arg[h]] = 1
        PROVE  Referrers(arg[h]) = {h}
    <3>1. Cardinality(Referrers(arg[h]) \ {h}) = 0
      BY <2>1, <2>2, <2>4 DEF RefCountExact
    <3>2. Referrers(arg[h]) \ {h} = {}
      BY <2>2, <3>1, FS_EmptySet
    <3> QED
      BY <2>1, <3>2
  <2> QED
    BY <2>1, <2>2, <2>3, <2>4
<1>1. TypeOK'
  BY <1>0 DEF TypeOK, CollectThread, Goto, PCs
<1>2. ListLockInv'
  BY DEF TypeOK, ListLockInv, ListPCs, CollectThread, Goto
<1>3. ArgInv'
  <2>1. CASE threads' = threads
    BY <2>1 DEF TypeOK, ArgInv, ListPCs, RefPCs, CollectThread, Goto
  <2>2. CASE threads' # threads
    <3>1. refcount[arg[h]] = 1 /\ arg[h] \in dead /\ arg[h] \in detached
          /\ threads' = threads \ {arg[h]}
      BY <2>2 DEF CollectThread
    <3>2. ASSUME NEW g \in Hosts, g # h, arg[g] = arg[h]
          PROVE  pc[g] \notin ListPCs \cup RefPCs \cup {"join_wait", "create_native"}
      <4>1. pc[g] \notin ListPCs
        BY <3>2 DEF ListLockInv, ListPCs, CollectThread
      <4>2. pc[g] \notin RefPCs
        BY <1>0, <3>1, <3>2 DEF Referrers, RefPCs
      <4>3. pc[g] # "join_wait"
        BY <3>1, <3>2 DEF JoinProtects
      <4>4. pc[g] # "create_native"
        BY <3>1, <3>2 DEF NewInv, Creating
      <4> QED
        BY <4>1, <4>2, <4>3, <4>4
    <3> QED
      BY <3>1, <3>2 DEF TypeOK, ArgInv, ListPCs, RefPCs, CollectThread, Goto
  <2> QED
    BY <2>1, <2>2
<1>4. ListsApart'
  BY DEF TypeOK, ListsApart, ArgInv, RefPCs, ListPCs, CollectThread, Goto
<1>5. WorkApart'
  BY DEF TypeOK, ListsApart, WorkApart, Listed, ArgInv, RefPCs, ListPCs,
       CollectThread, Goto
<1>6. NewApart'
  BY DEF TypeOK, ArgInv, ListsApart, WorkApart, NewApart, Listed, ListPCs, RefPCs,
       CollectThread, Goto
<1>7. Covered'
  BY DEF TypeOK, Covered, Listed, CollectThread, Goto
<1>8. NewInv'
  BY DEF TypeOK, NewInv, Creating, Running, ArgInv, NewApart, Listed, ListPCs, RefPCs,
       CollectThread, Goto
<1>9. CurInv'
  BY DEF TypeOK, CurInv, Running, Exiting, CollectThread, Goto
<1>10. CurOnce'
  BY DEF TypeOK, CurOnce, Running, CollectThread, Goto
<1>11. TotalInv'
  BY DEF TotalInv, CollectThread, Goto
<1>12. JoinProtects'
  BY DEF TypeOK, JoinProtects, CollectThread, Goto
<1>13. NoUseAfterFree'
  BY DEF TypeOK, NoUseAfterFree, CollectThread, Goto
<1>14. /\ arg' = arg
       /\ Referrers(arg[h])' = Referrers(arg[h]) \ {h}
       /\ \A q \in Slots \ {arg[h]} : Referrers(q)' = Referrers(q)
  BY DEF TypeOK, Referrers, RefPCs, CollectThread, Goto
<1>15. RefFinite' /\ RefCountExact'
  <2>1. RefFinite'
    BY <1>0, <1>14 DEF RefFinite
  <2>2. ASSUME NEW q \in threads'
        PROVE  refcount'[q] = Cardinality(Referrers(q)') + (IF q \in dead' THEN 0 ELSE 1)
    <3>1. q \in threads /\ q \in Slots /\ dead' = dead
      BY <2>2 DEF CollectThread, TypeOK
    <3>2. CASE q = arg[h]
      <4>1. refcount'[q] = refcount[q] - 1
        BY <3>1, <3>2 DEF CollectThread, TypeOK
      <4> QED
        BY <1>0, <1>14, <3>1, <3>2, <4>1, RefType DEF RefCountExact
    <3>3. CASE q # arg[h]
      <4>1. refcount'[q] = refcount[q]
        BY <3>1, <3>3 DEF CollectThread, TypeOK
      <4> QED
        BY <1>14, <3>1, <3>3, <4>1 DEF RefCountExact
    <3> QED
      BY <3>2, <3>3
  <2> QED
    BY <2>1, <2>2 DEF RefCountExact
<1> QED
  BY <1>1, <1>2, <1>3, <1>4, <1>5, <1>6, <1>7,
     <1>8, <1>9, <1>10, <1>11, <1>12, <1>13, <1>15

\* The end of TryCollect.
LEMMA CollectUnlockKeeps ==
  ASSUME IInv, NEW h \in Hosts, CollectUnlock(h)
  PROVE  IInv'
<1> USE HostAssumption, SlotAssumption DEF IInv, OwnerInv, RefInv
<1>1. TypeOK'
  BY DEF TypeOK, CollectUnlock, Goto, listVars, PCs
<1>2. ListLockInv'
  BY DEF TypeOK, ListLockInv, ListPCs, CollectUnlock, Goto, listVars
<1>3. ArgInv'
  BY DEF TypeOK, ListLockInv, ArgInv, ListPCs, RefPCs, CollectUnlock, Goto, listVars
<1>4. ListsApart'
  BY DEF TypeOK, ListsApart, CollectUnlock, Goto, listVars
<1>5. WorkApart'
  BY DEF TypeOK, ListsApart, WorkApart, Listed, CollectUnlock, Goto, listVars
<1>6. NewApart'
  BY DEF TypeOK, ArgInv, ListsApart, WorkApart, NewApart, Listed, ListPCs, RefPCs,
       CollectUnlock, Goto, listVars
<1>7. Covered'
  BY DEF TypeOK, Covered, Listed, CollectUnlock, Goto, listVars
<1>8. NewInv'
  BY DEF TypeOK, NewInv, Creating, Running, CollectUnlock, Goto, listVars
<1>9. CurInv'
  BY DEF TypeOK, CurInv, Running, Exiting, CollectUnlock, Goto, listVars
<1>10. CurOnce'
  BY DEF TypeOK, CurOnce, Running, CollectUnlock, Goto, listVars
<1>11. TotalInv'
  BY DEF TotalInv, CollectUnlock, Goto, listVars
<1>12. JoinProtects'
  BY DEF TypeOK, JoinProtects, CollectUnlock, Goto, listVars
<1>13. NoUseAfterFree'
  BY DEF TypeOK, NoUseAfterFree, CollectUnlock, Goto, listVars
<1>14. \A q \in Slots : Referrers(q)' = Referrers(q)
  BY DEF TypeOK, ArgInv, Referrers, RefPCs, CollectUnlock, Goto, listVars
<1>15. RefFinite' /\ RefCountExact'
  BY <1>14 DEF RefFinite, RefCountExact, TypeOK, CollectUnlock, Goto, listVars
<1> QED
  BY <1>1, <1>2, <1>3, <1>4, <1>5, <1>6, <1>7,
     <1>8, <1>9, <1>10, <1>11, <1>12, <1>13, <1>15

\* tid becomes TidTerminated.
LEMMA ExitTermKeeps ==
  ASSUME IInv, NEW h \in Hosts, ExitTerm(h)
  PROVE  IInv'
<1> USE HostAssumption, SlotAssumption DEF IInv, OwnerInv, RefInv
<1>1. TypeOK'
  BY DEF TypeOK, ExitTerm, Goto, listVars, PCs
<1>2. ListLockInv'
  BY DEF TypeOK, ListLockInv, ListPCs, ExitTerm, Goto, listVars
<1>3. ArgInv'
  BY DEF TypeOK, ListLockInv, ArgInv, ListPCs, RefPCs, ExitTerm, Goto, listVars
<1>4. ListsApart'
  BY DEF TypeOK, ListsApart, ExitTerm, Goto, listVars
<1>5. WorkApart'
  BY DEF TypeOK, ListsApart, WorkApart, Listed, ExitTerm, Goto, listVars
<1>6. NewApart'
  BY DEF TypeOK, ArgInv, ListsApart, WorkApart, NewApart, Listed, ListPCs, RefPCs,
       ExitTerm, Goto, listVars
<1>7. Covered'
  BY DEF TypeOK, Covered, Listed, ExitTerm, Goto, listVars
<1>8. NewInv'
  BY DEF TypeOK, NewInv, Creating, Running, ExitTerm, Goto, listVars
<1>9. CurInv'
  BY DEF TypeOK, CurInv, Running, Exiting, CurOnce, ExitTerm, Goto, listVars
<1>10. CurOnce'
  BY DEF TypeOK, CurOnce, Running, ExitTerm, Goto, listVars
<1>11. TotalInv'
  BY DEF TotalInv, ExitTerm, Goto, listVars
<1>12. JoinProtects'
  BY DEF TypeOK, JoinProtects, ExitTerm, Goto, listVars
<1>13. NoUseAfterFree'
  BY DEF TypeOK, NoUseAfterFree, ExitTerm, Goto, listVars
<1>14. \A q \in Slots : Referrers(q)' = Referrers(q)
  BY DEF TypeOK, ArgInv, Referrers, RefPCs, ExitTerm, Goto, listVars
<1>15. RefFinite' /\ RefCountExact'
  BY <1>14 DEF RefFinite, RefCountExact, TypeOK, ExitTerm, Goto, listVars
<1> QED
  BY <1>1, <1>2, <1>3, <1>4, <1>5, <1>6, <1>7,
     <1>8, <1>9, <1>10, <1>11, <1>12, <1>13, <1>15

\* NativeThread::Exit.
LEMMA ExitNativeKeeps ==
  ASSUME IInv, NEW h \in Hosts, ExitNative(h)
  PROVE  IInv'
<1> USE HostAssumption, SlotAssumption DEF IInv, OwnerInv, RefInv
<1>1. TypeOK'
  BY DEF TypeOK, ExitNative, Goto, listVars, slotVars, PCs
<1>2. ListLockInv'
  BY DEF TypeOK, ListLockInv, ListPCs, ExitNative, Goto, listVars, slotVars
<1>3. ArgInv'
  BY DEF TypeOK, ListLockInv, ArgInv, ListPCs, RefPCs, ExitNative, Goto, listVars,
       slotVars
<1>4. ListsApart'
  BY DEF TypeOK, ListsApart, ExitNative, Goto, listVars, slotVars
<1>5. WorkApart'
  BY DEF TypeOK, ListsApart, WorkApart, Listed, ExitNative, Goto, listVars, slotVars
<1>6. NewApart'
  BY DEF TypeOK, ArgInv, ListsApart, WorkApart, NewApart, Listed, ListPCs, RefPCs,
       ExitNative, Goto, listVars, slotVars
<1>7. Covered'
  BY DEF TypeOK, Covered, Listed, ExitNative, Goto, listVars, slotVars
<1>8. NewInv'
  BY DEF TypeOK, NewInv, Creating, Running, ExitNative, Goto, listVars, slotVars
<1>9. CurInv'
  BY DEF TypeOK, CurInv, Running, Exiting, ExitNative, Goto, listVars, slotVars
<1>10. CurOnce'
  BY DEF TypeOK, CurOnce, Running, ExitNative, Goto, listVars, slotVars
<1>11. TotalInv'
  BY DEF TotalInv, ExitNative, Goto, listVars, slotVars
<1>12. JoinProtects'
  BY DEF TypeOK, JoinProtects, ExitNative, Goto, listVars, slotVars
<1>13. NoUseAfterFree'
  BY DEF TypeOK, NoUseAfterFree, ExitNative, Goto, listVars, slotVars
<1>14. \A q \in Slots : Referrers(q)' = Referrers(q)
  BY DEF TypeOK, ArgInv, Referrers, RefPCs, ExitNative, Goto, listVars, slotVars
<1>15. RefFinite' /\ RefCountExact'
  BY <1>14 DEF RefFinite, RefCountExact, TypeOK, ExitNative, Goto, listVars, slotVars
<1> QED
  BY <1>1, <1>2, <1>3, <1>4, <1>5, <1>6, <1>7,
     <1>8, <1>9, <1>10, <1>11, <1>12, <1>13, <1>15

\* FindThread takes thread_list_lock and waits for the lock of the thread.
LEMMA FindKeeps ==
  ASSUME IInv, NEW h \in Hosts, NEW p \in Slots, NEW c \in {"find_join", "find_detach", "find_ref"}, Find(h, p, c)
  PROVE  IInv'
<1> USE HostAssumption, SlotAssumption DEF IInv, OwnerInv, RefInv
<1>1. TypeOK'
  BY DEF TypeOK, Find, Goto, listVars, slotVars, PCs
<1>2. ListLockInv'
  BY DEF TypeOK, ListLockInv, ListPCs, Find, Goto, listVars, slotVars
<1>3. ArgInv'
  BY DEF TypeOK, ListLockInv, ArgInv, ListPCs, RefPCs, Find, Goto, listVars, slotVars
<1>4. ListsApart'
  BY DEF TypeOK, ListsApart, Find, Goto, listVars, slotVars
<1>5. WorkApart'
  BY DEF TypeOK, ListsApart, WorkApart, Listed, Find, Goto, listVars, slotVars
<1>6. NewApart'
  BY DEF TypeOK, ArgInv, ListsApart, WorkApart, NewApart, Listed, ListPCs, RefPCs,
       Find, Goto, listVars, slotVars
<1>7. Covered'
  BY DEF TypeOK, Covered, Listed, Find, Goto, listVars, slotVars
<1>8. NewInv'
  BY DEF TypeOK, NewInv, Creating, Running, Find, Goto, listVars, slotVars
<1>9. CurInv'
  BY DEF TypeOK, CurInv, Running, Exiting, Find, Goto, listVars, slotVars
<1>10. CurOnce'
  BY DEF TypeOK, CurOnce, Running, Find, Goto, listVars, slotVars
<1>11. TotalInv'
  BY DEF TotalInv, Find, Goto, listVars, slotVars
<1>12. JoinProtects'
  BY DEF TypeOK, JoinProtects, Find, Goto, listVars, slotVars
<1>13. NoUseAfterFree'
  BY DEF TypeOK, NoUseAfterFree, Find, Goto, listVars, slotVars
<1>14. \A q \in Slots : Referrers(q)' = Referrers(q)
  BY DEF TypeOK, ArgInv, Referrers, RefPCs, Find, Goto, listVars, slotVars
<1>15. RefFinite' /\ RefCountExact'
  BY <1>14 DEF RefFinite, RefCountExact, TypeOK, Find, Goto, listVars, slotVars
<1> QED
  BY <1>1, <1>2, <1>3, <1>4, <1>5, <1>6, <1>7,
     <1>8, <1>9, <1>10, <1>11, <1>12, <1>13, <1>15

\* JoinThread registers the joiner.
LEMMA FindJoinKeeps ==
  ASSUME IInv, NEW h \in Hosts, FindJoin(h)
  PROVE  IInv'
<1> USE HostAssumption, SlotAssumption DEF IInv, OwnerInv, RefInv
<1>1. TypeOK'
  BY DEF TypeOK, FindJoin, Return, Goto, listVars, PCs
<1>2. ListLockInv'
  BY DEF TypeOK, ListLockInv, ListPCs, FindJoin, Return, Goto, listVars
<1>3. ArgInv'
  BY DEF TypeOK, ListLockInv, ArgInv, ListPCs, RefPCs, FindJoin, Return, Goto,
       listVars
<1>4. ListsApart'
  BY DEF TypeOK, ListsApart, FindJoin, Return, Goto, listVars
<1>5. WorkApart'
  BY DEF TypeOK, ListsApart, WorkApart, Listed, FindJoin, Return, Goto, listVars
<1>6. NewApart'
  BY DEF TypeOK, ArgInv, ListsApart, WorkApart, NewApart, Listed, ListPCs, RefPCs,
       FindJoin, Return, Goto, listVars
<1>7. Covered'
  BY DEF TypeOK, Covered, Listed, FindJoin, Return, Goto, listVars
<1>8. NewInv'
  BY DEF TypeOK, NewInv, Creating, Running, FindJoin, Return, Goto, listVars
<1>9. CurInv'
  BY DEF TypeOK, CurInv, Running, Exiting, FindJoin, Return, Goto, listVars
<1>10. CurOnce'
  BY DEF TypeOK, CurOnce, Running, FindJoin, Return, Goto, listVars
<1>11. TotalInv'
  BY DEF TotalInv, FindJoin, Return, Goto, listVars
<1>12. JoinProtects'
  BY DEF TypeOK, JoinProtects, ArgInv, ListPCs, CurInv, Running, FindJoin, Return,
       Goto, listVars
<1>13. NoUseAfterFree'
  BY DEF TypeOK, NoUseAfterFree, FindJoin, Return, Goto, listVars
<1>14. \A q \in Slots : Referrers(q)' = Referrers(q)
  BY DEF TypeOK, ArgInv, Referrers, RefPCs, FindJoin, Return, Goto, listVars
<1>15. RefFinite' /\ RefCountExact'
  BY <1>14 DEF RefFinite, RefCountExact, TypeOK, FindJoin, Return, Goto, listVars
<1> QED
  BY <1>1, <1>2, <1>3, <1>4, <1>5, <1>6, <1>7,
     <1>8, <1>9, <1>10, <1>11, <1>12, <1>13, <1>15

\* RefAdd.
LEMMA FindRefKeeps ==
  ASSUME IInv, NEW h \in Hosts, FindRef(h)
  PROVE  IInv'
<1> USE HostAssumption, SlotAssumption DEF IInv, OwnerInv, RefInv
<1>1. TypeOK'
  BY DEF TypeOK, FindRef, Return, Goto, listVars, PCs
<1>2. ListLockInv'
  BY DEF TypeOK, ListLockInv, ListPCs, FindRef, Return, Goto, listVars
<1>3. ArgInv'
  BY DEF TypeOK, ListLockInv, ArgInv, ListPCs, RefPCs, FindRef, Return, Goto, listVars
<1>4. ListsApart'
  BY DEF TypeOK, ListsApart, FindRef, Return, Goto, listVars
<1>5. WorkApart'
  BY DEF TypeOK, ListsApart, WorkApart, Listed, FindRef, Return, Goto, listVars
<1>6. NewApart'
  BY DEF TypeOK, ArgInv, ListsApart, WorkApart, NewApart, Listed, ListPCs, RefPCs,
       FindRef, Return, Goto, listVars
<1>7. Covered'
  BY DEF TypeOK, Covered, Listed, FindRef, Return, Goto, listVars
<1>8. NewInv'
  BY DEF TypeOK, NewInv, Creating, Running, ArgInv, NewApart, Listed, ListPCs, RefPCs,
       FindRef, Return, Goto, listVars
<1>9. CurInv'
  BY DEF TypeOK, CurInv, Running, Exiting, FindRef, Return, Goto, listVars
<1>10. CurOnce'
  BY DEF TypeOK, CurOnce, Running, FindRef, Return, Goto, listVars
<1>11. TotalInv'
  BY DEF TotalInv, FindRef, Return, Goto, listVars
<1>12. JoinProtects'
  BY DEF TypeOK, JoinProtects, FindRef, Return, Goto, listVars
<1>13. NoUseAfterFree'
  BY DEF TypeOK, NoUseAfterFree, FindRef, Return, Goto, listVars
<1>14. \/ refcount' = refcount /\ \A q \in Slots : Referrers(q)' = Referrers(q)
       \/ /\ refcount' = [refcount EXCEPT ![arg[h]] = @ + 1] /\ arg' = arg
          /\ h \notin Referrers(arg[h])
          /\ Referrers(arg[h])' = Referrers(arg[h]) \cup {h}
          /\ \A q \in Slots \ {arg[h]} : Referrers(q)' = Referrers(q)
  BY DEF TypeOK, ArgInv, ListPCs, Referrers, RefPCs, FindRef, Return, Goto
<1>15. RefFinite' /\ RefCountExact'
  <2>1. CASE refcount' = refcount /\ \A q \in Slots : Referrers(q)' = Referrers(q)
    BY <2>1 DEF RefFinite, RefCountExact, TypeOK, FindRef, listVars
  <2>2. CASE /\ refcount' = [refcount EXCEPT ![arg[h]] = @ + 1] /\ arg' = arg
             /\ h \notin Referrers(arg[h])
             /\ Referrers(arg[h])' = Referrers(arg[h]) \cup {h}
             /\ \A q \in Slots \ {arg[h]} : Referrers(q)' = Referrers(q)
    <3>1. arg[h] \in threads /\ arg[h] \in Slots
      BY DEF TypeOK, ArgInv, ListPCs, FindRef
    <3>2. /\ IsFiniteSet(Referrers(arg[h]) \cup {h})
          /\ Cardinality(Referrers(arg[h]) \cup {h}) = Cardinality(Referrers(arg[h])) + 1
          /\ Cardinality(Referrers(arg[h])) \in Nat
      BY <2>2, <3>1, FS_AddElement, FS_CardinalityType DEF RefFinite
    <3>3. RefFinite'
      BY <2>2, <3>1, <3>2 DEF RefFinite
    <3>4. ASSUME NEW q \in threads'
          PROVE  refcount'[q] = Cardinality(Referrers(q)') + (IF q \in dead' THEN 0 ELSE 1)
      <4>1. q \in threads /\ q \in Slots /\ dead' = dead
        BY <3>4 DEF FindRef, TypeOK, listVars
      <4>2. CASE q = arg[h]
        <5>1. refcount'[q] = refcount[q] + 1
          BY <2>2, <4>1, <4>2 DEF TypeOK
        <5>2. Cardinality(Referrers(q)') = Cardinality(Referrers(q)) + 1
              /\ Cardinality(Referrers(q)) \in Nat
          BY <2>2, <3>2, <4>2
        <5>3. refcount[q] = Cardinality(Referrers(q)) + (IF q \in dead THEN 0 ELSE 1)
          BY <4>1 DEF RefCountExact
        <5> QED
          BY <4>1, <5>1, <5>2, <5>3
      <4>3. CASE q # arg[h]
        <5>1. refcount'[q] = refcount[q]
          BY <2>2, <4>1, <4>3 DEF TypeOK
        <5> QED
          BY <2>2, <4>1, <4>3, <5>1 DEF RefCountExact
      <4> QED
        BY <4>2, <4>3
    <3> QED
      BY <3>3, <3>4 DEF RefCountExact
  <2> QED
    BY <1>14, <2>1, <2>2
<1> QED
  BY <1>1, <1>2, <1>3, <1>4, <1>5, <1>6, <1>7,
     <1>8, <1>9, <1>10, <1>11, <1>12, <1>13, <1>15

\* ExitThread gives back the reference of the running thread.
LEMMA ExitKeeps ==
  ASSUME IInv, NEW h \in Hosts, Exit(h)
  PROVE  IInv'
<1> USE HostAssumption, SlotAssumption DEF IInv, OwnerInv, RefInv
<1>0. /\ cur[h] \in threads /\ cur[h] \in Slots
      /\ refcount[cur[h]] - 1 \in Nat
      /\ refcount[cur[h]] - 1 = Cardinality(Referrers(cur[h]) \ {h})
                  + (IF TRUE THEN 0 ELSE 1)
      /\ pc[h] \in RefPCs => arg[h] = cur[h]
  <2>1. cur[h] \in threads /\ cur[h] \in Slots /\ cur[h] \notin dead
    BY DEF TypeOK, CurInv, Running, Exiting, Exit
  <2>2. pc[h] \notin RefPCs /\ Referrers(cur[h]) \ {h} = Referrers(cur[h])
    BY DEF Referrers, RefPCs, Exit
  <2>3. Cardinality(Referrers(cur[h])) \in Nat
    BY <2>1, RefType
  <2>4. refcount[cur[h]] = Cardinality(Referrers(cur[h])) + 1
    BY <2>1 DEF RefCountExact
  <2> QED
    BY <2>1, <2>2, <2>3, <2>4
<1>1. TypeOK'
  BY <1>0 DEF TypeOK, Exit, TryCollect, Goto, listVars, PCs
<1>2. ListLockInv'
  BY DEF TypeOK, ListLockInv, ListPCs, Exit, TryCollect, Goto, listVars
<1>3. ArgInv'
  BY DEF TypeOK, ListLockInv, ArgInv, ListPCs, RefPCs, CurInv, Running, Exiting, Exit,
       TryCollect, Goto, listVars
<1>4. ListsApart'
  BY DEF TypeOK, ListsApart, Exit, TryCollect, Goto, listVars
<1>5. WorkApart'
  BY DEF TypeOK, ListsApart, WorkApart, Listed, Exit, TryCollect, Goto, listVars
<1>6. NewApart'
  BY DEF TypeOK, ArgInv, ListsApart, WorkApart, NewApart, Listed, ListPCs, RefPCs,
       Exit, TryCollect, Goto, listVars
<1>7. Covered'
  BY DEF TypeOK, Covered, Listed, Exit, TryCollect, Goto, listVars
<1>8. NewInv'
  BY DEF TypeOK, NewInv, Creating, Running, Exit, TryCollect, Goto, listVars
<1>9. CurInv'
  BY DEF TypeOK, CurInv, Running, Exiting, CurOnce, Exit, TryCollect, Goto, listVars
<1>10. CurOnce'
  BY DEF TypeOK, CurOnce, Running, Exit, TryCollect, Goto, listVars
<1>11. TotalInv'
  BY DEF TotalInv, Exit, TryCollect, Goto, listVars
<1>12. JoinProtects'
  BY DEF TypeOK, JoinProtects, Exit, TryCollect, Goto, listVars
<1>13. NoUseAfterFree'
  BY DEF TypeOK, NoUseAfterFree, Exit, TryCollect, Goto, listVars
<1>15. RefFinite' /\ RefCountExact'
  <2>1. /\ \A g \in Hosts \ {h} : pc'[g] = pc[g] /\ arg'[g] = arg[g]
        /\ \/ /\ refcount[cur[h]] - 1 = 0 /\ cur[h] \in dead'
              /\ pc'[h] = "collect_list" /\ arg'[h] = cur[h]
              /\ refcount' = [refcount EXCEPT ![cur[h]] = 1]
           \/ /\ pc'[h] \notin RefPCs
              /\ refcount' = [refcount EXCEPT ![cur[h]] = refcount[cur[h]] - 1]
    BY DEF Exit, TryCollect, Goto, RefPCs, TypeOK
  <2>2. /\ threads' = threads /\ (cur[h] \in dead' <=> TRUE)
        /\ \A q \in threads \ {cur[h]} : q \in dead' <=> q \in dead
    BY DEF Exit, listVars
  <2> QED
    BY <1>0, <2>1, <2>2, TryCollectRefs
<1> QED
  BY <1>1, <1>2, <1>3, <1>4, <1>5, <1>6, <1>7,
     <1>8, <1>9, <1>10, <1>11, <1>12, <1>13, <1>15

\* The joiner detaches the terminated thread.
LEMMA JoinDoneKeeps ==
  ASSUME IInv, NEW h \in Hosts, JoinDone(h)
  PROVE  IInv'
<1> USE HostAssumption, SlotAssumption DEF IInv, OwnerInv, RefInv
<1>0. /\ arg[h] \in threads /\ arg[h] \in Slots
      /\ refcount[arg[h]] \in Nat
      /\ refcount[arg[h]] = Cardinality(Referrers(arg[h]) \ {h})
                  + (IF arg[h] \in dead THEN 0 ELSE 1)
      /\ pc[h] \in RefPCs => arg[h] = arg[h]
  <2>1. arg[h] \in threads /\ arg[h] \in Slots
    BY DEF TypeOK, JoinProtects, JoinDone
  <2>2. pc[h] \notin RefPCs /\ Referrers(arg[h]) \ {h} = Referrers(arg[h])
    BY DEF Referrers, RefPCs, JoinDone
  <2> QED
    BY <2>1, <2>2 DEF TypeOK, RefCountExact
<1>1. TypeOK'
  BY <1>0 DEF TypeOK, JoinDone, TryCollect, Goto, listVars, PCs
<1>2. ListLockInv'
  BY DEF TypeOK, ListLockInv, ListPCs, JoinDone, TryCollect, Goto, listVars
<1>3. ArgInv'
  BY DEF TypeOK, ListLockInv, ArgInv, ListPCs, RefPCs, JoinDone, TryCollect, Goto,
       listVars
<1>4. ListsApart'
  BY DEF TypeOK, ListsApart, JoinDone, TryCollect, Goto, listVars
<1>5. WorkApart'
  BY DEF TypeOK, ListsApart, WorkApart, Listed, JoinDone, TryCollect, Goto, listVars
<1>6. NewApart'
  BY DEF TypeOK, ArgInv, ListsApart, WorkApart, NewApart, Listed, ListPCs, RefPCs,
       JoinDone, TryCollect, Goto, listVars
<1>7. Covered'
  BY DEF TypeOK, Covered, Listed, JoinDone, TryCollect, Goto, listVars
<1>8. NewInv'
  BY DEF TypeOK, NewInv, Creating, Running, JoinDone, TryCollect, Goto, listVars
<1>9. CurInv'
  BY DEF TypeOK, CurInv, Running, Exiting, JoinDone, TryCollect, Goto, listVars
<1>10. CurOnce'
  BY DEF TypeOK, CurOnce, Running, JoinDone, TryCollect, Goto, listVars
<1>11. TotalInv'
  BY DEF TotalInv, JoinDone, TryCollect, Goto, listVars
<1>12. JoinProtects'
  BY DEF TypeOK, JoinProtects, CurOnce, CurInv, Running, JoinDone, TryCollect, Goto,
       listVars
<1>13. NoUseAfterFree'
  BY DEF TypeOK, NoUseAfterFree, JoinDone, TryCollect, Goto, listVars
<1>15. RefFinite' /\ RefCountExact'
  <2>1. /\ \A g \in Hosts \ {h} : pc'[g] = pc[g] /\ arg'[g] = arg[g]
        /\ \/ /\ refcount[arg[h]] = 0 /\ arg[h] \in dead'
              /\ pc'[h] = "collect_list" /\ arg'[h] = arg[h]
              /\ refcount' = [refcount EXCEPT ![arg[h]] = 1]
           \/ /\ pc'[h] \notin RefPCs
              /\ refcount' = [refcount EXCEPT ![arg[h]] = refcount[arg[h]]]
    BY DEF JoinDone, TryCollect, Goto, RefPCs, TypeOK
  <2>2. /\ threads' = threads /\ (arg[h] \in dead' <=> arg[h] \in dead)
        /\ \A q \in threads \ {arg[h]} : q \in dead' <=> q \in dead
    BY DEF JoinDone, listVars
  <2> QED
    BY <1>0, <2>1, <2>2, TryCollectRefs
<1> QED
  BY <1>1, <1>2, <1>3, <1>4, <1>5, <1>6, <1>7,
     <1>8, <1>9, <1>10, <1>11, <1>12, <1>13, <1>15

\* DetachThread.
LEMMA FindDetachKeeps ==
  ASSUME IInv, NEW h \in Hosts, FindDetach(h)
  PROVE  IInv'
<1> USE HostAssumption, SlotAssumption DEF IInv, OwnerInv, RefInv
<1>0. /\ arg[h] \in threads /\ arg[h] \in Slots
      /\ refcount[arg[h]] \in Nat
      /\ refcount[arg[h]] = Cardinality(Referrers(arg[h]) \ {h})
                  + (IF arg[h] \in dead THEN 0 ELSE 1)
      /\ pc[h] \in RefPCs => arg[h] = arg[h]
  <2>1. arg[h] \in threads /\ arg[h] \in Slots
    BY DEF TypeOK, ArgInv, ListPCs, FindDetach
  <2>2. pc[h] \notin RefPCs /\ Referrers(arg[h]) \ {h} = Referrers(arg[h])
    BY DEF Referrers, RefPCs, FindDetach
  <2> QED
    BY <2>1, <2>2 DEF TypeOK, RefCountExact
<1>1. TypeOK'
  BY <1>0 DEF TypeOK, FindDetach, TryCollect, Return, Goto, listVars, PCs
<1>2. ListLockInv'
  BY DEF TypeOK, ListLockInv, ListPCs, FindDetach, TryCollect, Return, Goto, listVars
<1>3. ArgInv'
  BY DEF TypeOK, ListLockInv, ArgInv, ListPCs, RefPCs, FindDetach, TryCollect, Return,
       Goto, listVars
<1>4. ListsApart'
  BY DEF TypeOK, ListsApart, FindDetach, TryCollect, Return, Goto, listVars
<1>5. WorkApart'
  BY DEF TypeOK, ListsApart, WorkApart, Listed, FindDetach, TryCollect, Return, Goto,
       listVars
<1>6. NewApart'
  BY DEF TypeOK, ArgInv, ListsApart, WorkApart, NewApart, Listed, ListPCs, RefPCs,
       FindDetach, TryCollect, Return, Goto, listVars
<1>7. Covered'
  BY DEF TypeOK, Covered, Listed, FindDetach, TryCollect, Return, Goto, listVars
<1>8. NewInv'
  BY DEF TypeOK, NewInv, Creating, Running, ArgInv, NewApart, Listed, ListPCs, RefPCs,
       FindDetach, TryCollect, Return, Goto, listVars
<1>9. CurInv'
  BY DEF TypeOK, CurInv, Running, Exiting, FindDetach, TryCollect, Return, Goto,
       listVars
<1>10. CurOnce'
  BY DEF TypeOK, CurOnce, Running, FindDetach, TryCollect, Return, Goto, listVars
<1>11. TotalInv'
  BY DEF TotalInv, FindDetach, TryCollect, Return, Goto, listVars
<1>12. JoinProtects'
  BY DEF TypeOK, JoinProtects, CurInv, Running, FindDetach, TryCollect, Return, Goto,
       listVars
<1>13. NoUseAfterFree'
  BY DEF TypeOK, NoUseAfterFree, FindDetach, TryCollect, Return, Goto, listVars
<1>15. RefFinite' /\ RefCountExact'
  <2>1. CASE TryCollect(h, arg[h], refcount[arg[h]], arg[h] \in dead, TRUE)
    <3>2. /\ \A g \in Hosts \ {h} : pc'[g] = pc[g] /\ arg'[g] = arg[g]
          /\ \/ /\ refcount[arg[h]] = 0 /\ arg[h] \in dead'
                /\ pc'[h] = "collect_list" /\ arg'[h] = arg[h]
                /\ refcount' = [refcount EXCEPT ![arg[h]] = 1]
             \/ /\ pc'[h] \notin RefPCs
                /\ refcount' = [refcount EXCEPT ![arg[h]] = refcount[arg[h]]]
      BY <2>1 DEF FindDetach, TryCollect, Goto, RefPCs, TypeOK
    <3>1. /\ threads' = threads /\ (arg[h] \in dead' <=> arg[h] \in dead)
          /\ \A q \in threads \ {arg[h]} : q \in dead' <=> q \in dead
      BY DEF FindDetach, listVars
    <3> QED
      BY <1>0, <3>1, <3>2, TryCollectRefs
  <2>2. CASE Return(h) /\ UNCHANGED refcount
    <3>1. \A q \in Slots : Referrers(q)' = Referrers(q)
      BY <2>2 DEF TypeOK, Referrers, FindDetach, Return, Goto
    <3> QED
      BY <2>2, <3>1 DEF RefFinite, RefCountExact, TypeOK, FindDetach, listVars
  <2> QED
    BY <2>1, <2>2 DEF FindDetach
<1> QED
  BY <1>1, <1>2, <1>3, <1>4, <1>5, <1>6, <1>7,
     <1>8, <1>9, <1>10, <1>11, <1>12, <1>13, <1>15

\* RefDelete.
LEMMA RefDeleteKeeps ==
  ASSUME IInv, NEW h \in Hosts, RefDelete(h)
  PROVE  IInv'
<1> USE HostAssumption, SlotAssumption DEF IInv, OwnerInv, RefInv
<1>0. /\ arg[h] \in threads /\ arg[h] \in Slots
      /\ refcount[arg[h]] - 1 \in Nat
      /\ refcount[arg[h]] - 1 = Cardinality(Referrers(arg[h]) \ {h})
                  + (IF arg[h] \in dead THEN 0 ELSE 1)
      /\ pc[h] \in RefPCs => arg[h] = arg[h]
  <2>1. arg[h] \in threads /\ arg[h] \in Slots /\ h \in Referrers(arg[h])
    BY DEF TypeOK, ArgInv, RefPCs, Referrers, RefDelete
  <2>2. /\ Cardinality(Referrers(arg[h]) \ {h}) = Cardinality(Referrers(arg[h])) - 1
        /\ Cardinality(Referrers(arg[h]) \ {h}) \in Nat
    BY <2>1, FS_RemoveElement, FS_CardinalityType DEF RefFinite
  <2> QED
    BY <2>1, <2>2, RefType DEF RefCountExact
<1>1. TypeOK'
  BY <1>0 DEF TypeOK, RefDelete, TryCollect, Goto, listVars, PCs
<1>2. ListLockInv'
  BY DEF TypeOK, ListLockInv, ListPCs, RefDelete, TryCollect, Goto, listVars
<1>3. ArgInv'
  BY DEF TypeOK, ListLockInv, ArgInv, ListPCs, RefPCs, RefDelete, TryCollect, Goto,
       listVars
<1>4. ListsApart'
  BY DEF TypeOK, ListsApart, RefDelete, TryCollect, Goto, listVars
<1>5. WorkApart'
  BY DEF TypeOK, ListsApart, WorkApart, Listed, RefDelete, TryCollect, Goto, listVars
<1>6. NewApart'
  BY DEF TypeOK, ArgInv, ListsApart, WorkApart, NewApart, Listed, ListPCs, RefPCs,
       RefDelete, TryCollect, Goto, listVars
<1>7. Covered'
  BY DEF TypeOK, Covered, Listed, RefDelete, TryCollect, Goto, listVars
<1>8. NewInv'
  BY DEF TypeOK, NewInv, Creating, Running, ArgInv, NewApart, Listed, ListPCs, RefPCs,
       RefDelete, TryCollect, Goto, listVars
<1>9. CurInv'
  BY DEF TypeOK, CurInv, Running, Exiting, RefDelete, TryCollect, Goto, listVars
<1>10. CurOnce'
  BY DEF TypeOK, CurOnce, Running, RefDelete, TryCollect, Goto, listVars
<1>11. TotalInv'
  BY DEF TotalInv, RefDelete, TryCollect, Goto, listVars
<1>12. JoinProtects'
  BY DEF TypeOK, JoinProtects, RefDelete, TryCollect, Goto, listVars
<1>13. NoUseAfterFree'
  BY DEF TypeOK, NoUseAfterFree, RefDelete, TryCollect, Goto, listVars
<1>15. RefFinite' /\ RefCountExact'
  <2>1. /\ \A g \in Hosts \ {h} : pc'[g] = pc[g] /\ arg'[g] = arg[g]
        /\ \/ /\ refcount[arg[h]] - 1 = 0 /\ arg[h] \in dead'
              /\ pc'[h] = "collect_list" /\ arg'[h] = arg[h]
              /\ refcount' = [refcount EXCEPT ![arg[h]] = 1]
           \/ /\ pc'[h] \notin RefPCs
              /\ refcount' = [refcount EXCEPT ![arg[h]] = refcount[arg[h]] - 1]
    BY DEF RefDelete, TryCollect, Goto, RefPCs, TypeOK
  <2>2. /\ threads' = threads /\ (arg[h] \in dead' <=> arg[h] \in dead)
        /\ \A q \in threads \ {arg[h]} : q \in dead' <=> q \in dead
    BY DEF RefDelete, listVars
  <2> QED
    BY <1>0, <2>1, <2>2, TryCollectRefs
<1> QED
  BY <1>1, <1>2, <1>3, <1>4, <1>5, <1>6, <1>7,
     <1>8, <1>9, <1>10, <1>11, <1>12, <1>13, <1>15

\* The invariant holds when only the main thread runs.
LEMMA InitIInv == Init => IInv
<1> SUFFICES ASSUME Init PROVE IInv
  OBVIOUS
<1> USE HostAssumption, SlotAssumption DEF Init
<1>1. TypeOK
  BY DEF TypeOK, PCs
<1>2. ListLockInv /\ ArgInv
  BY DEF ListLockInv, ArgInv, ListPCs, RefPCs
<1>3. OwnerInv
  BY DEF OwnerInv, ListsApart, WorkApart, NewApart, Covered, Listed
<1>4. NewInv /\ CurInv /\ CurOnce
  BY DEF NewInv, CurInv, CurOnce, Creating, Running, Exiting
<1>5. TotalInv
  <2>1. Slots \ heap = {MainSlot}
    OBVIOUS
  <2>2. IsFiniteSet({MainSlot}) /\ Cardinality({MainSlot}) = 1 /\ total_threads = 1
    BY FS_Singleton
  <2> HIDE DEF Init
  <2> QED
    BY <2>1, <2>2 DEF TotalInv
<1>6. RefInv
  <2>1. \A p \in Slots : Referrers(p) = {}
    BY DEF Referrers
  <2> QED
    <3>1. RefFinite
      BY <2>1, FS_EmptySet DEF RefFinite
    <3>2. \A p \in threads : Cardinality(Referrers(p)) = 0
      BY <2>1, FS_EmptySet
    <3>3. RefCountExact
      BY <3>2 DEF RefCountExact
    <3> QED
      BY <3>1, <3>3 DEF RefInv
<1>7. JoinProtects /\ NoUseAfterFree
  BY DEF JoinProtects, NoUseAfterFree
<1> QED
  BY <1>1, <1>2, <1>3, <1>4, <1>5, <1>6, <1>7 DEF IInv

\* Nothing happens.
LEMMA StutterKeeps == IInv /\ UNCHANGED vars => IInv'
<1> SUFFICES ASSUME IInv, UNCHANGED vars PROVE IInv'
  OBVIOUS
<1> USE DEF IInv, vars
<1>1. TypeOK' /\ ListLockInv' /\ ArgInv'
  BY DEF TypeOK, ListLockInv, ArgInv
<1>2. OwnerInv'
  BY DEF OwnerInv, ListsApart, WorkApart, NewApart, Covered, Listed
<1>3. NewInv' /\ CurInv' /\ CurOnce'
  BY DEF NewInv, CurInv, CurOnce, Creating, Running, Exiting
<1>4. TotalInv' /\ JoinProtects' /\ NoUseAfterFree'
  BY DEF TotalInv, JoinProtects, NoUseAfterFree
<1>5. RefInv'
  BY DEF RefInv, RefFinite, RefCountExact, Referrers
<1> QED
  BY <1>1, <1>2, <1>3, <1>4, <1>5

\* Every step of the specification keeps the invariant.
LEMMA NextKeeps == IInv /\ [Next]_vars => IInv'
<1> SUFFICES ASSUME IInv, [Next]_vars PROVE IInv'
  OBVIOUS
<1>1. ASSUME NEW h \in Hosts, GuestCall(h) PROVE IInv'
  BY <1>1, CreateCollectKeeps, AllocTestKeeps, AllocKeeps, ExitKeeps, FindKeeps DEF GuestCall
<1>2. ASSUME NEW h \in Hosts, Step(h) PROVE IInv'
  BY <1>2, FreeKeeps, AllocTestKeeps, AllocKeeps, AllocFailsKeeps, LinkKeeps, CreateNativeKeeps,
     CollectListKeeps, CollectThreadKeeps, CollectUnlockKeeps, ExitTermKeeps,
     ExitNativeKeeps, FindJoinKeeps, JoinDoneKeeps, FindDetachKeeps, FindRefKeeps,
     RefDeleteKeeps DEF Step
<1> QED
  BY <1>1, <1>2, StutterKeeps DEF Next

\* The inductive invariant holds always.
THEOREM InductiveInvariant == Spec => []IInv
  BY InitIInv, NextKeeps, PTL DEF Spec

-----------------------------------------------------------------------------
(* Safety of the life cycle                                                *)

\* The variables keep their types; total_threads and the reference counts never fall
\* below 0.
THEOREM TypeCorrect == Spec => []TypeOK
<1>1. IInv => TypeOK
  BY DEF IInv
<1> QED
  BY <1>1, InductiveInvariant, PTL

\* The lists of ThreadState, the work lists of the collectors and the new threads divide
\* the Pthreads among them: Collect, Free and Alloc hand out none twice and lose none.
THEOREM OneOwner == Spec => []OwnedOnce
<1>1. ASSUME IInv, NEW p \in Slots
      PROVE  LET lists == {i \in 1..4 : p \in <<threads, gc_list, free_threads, heap>>[i]}
                 collectors == {h \in Hosts : p \in work_list[h]}
                 creators == {h \in Hosts : pc[h] = "create_link" /\ arg[h] = p}
             IN  Cardinality(lists) + Cardinality(collectors) + Cardinality(creators) = 1
  <2> DEFINE L == <<threads, gc_list, free_threads, heap>>
             lists == {i \in 1..4 : p \in L[i]}
             collectors == {h \in Hosts : p \in work_list[h]}
             creators == {h \in Hosts : pc[h] = "create_link" /\ arg[h] = p}
  <2> SUFFICES Cardinality(lists) + Cardinality(collectors) + Cardinality(creators) = 1
    OBVIOUS
  <2> USE <1>1 DEF IInv, OwnerInv
  <2>1. Cardinality({}) = 0
    BY FS_EmptySet
  <2>2. CASE p \in Listed
    <3>1. collectors = {} /\ creators = {}
      BY <2>2 DEF WorkApart, NewApart
    <3>2. PICK i \in 1..4 : lists = {i}
      <4>1. /\ (1 \in lists) <=> (p \in threads)
            /\ (2 \in lists) <=> (p \in gc_list)
            /\ (3 \in lists) <=> (p \in free_threads)
            /\ (4 \in lists) <=> (p \in heap)
        OBVIOUS
      <4>2. lists \subseteq {1, 2, 3, 4}
        OBVIOUS
      <4> HIDE DEF lists, L
      <4>3. CASE p \in threads
        <5>1. lists = {1}
          BY <4>1, <4>2, <4>3 DEF ListsApart
        <5> QED
          BY <5>1
      <4>4. CASE p \in gc_list
        <5>1. lists = {2}
          BY <4>1, <4>2, <4>4 DEF ListsApart
        <5> QED
          BY <5>1
      <4>5. CASE p \in free_threads
        <5>1. lists = {3}
          BY <4>1, <4>2, <4>5 DEF ListsApart
        <5> QED
          BY <5>1
      <4>6. CASE p \in heap
        <5>1. lists = {4}
          BY <4>1, <4>2, <4>6 DEF ListsApart
        <5> QED
          BY <5>1
      <4> QED
        BY <2>2, <4>3, <4>4, <4>5, <4>6 DEF Listed
    <3>3. Cardinality(lists) = 1
      BY <3>2, FS_Singleton
    <3> HIDE DEF lists, collectors, creators
    <3> QED
      BY <2>1, <3>1, <3>3
  <2>3. CASE p \notin Listed
    <3>1. lists = {}
      BY <2>3 DEF Listed
    <3>2. CASE \E h \in Hosts : p \in work_list[h]
      <4>1. PICK h \in Hosts : p \in work_list[h]
        BY <3>2
      <4>2. collectors = {h} /\ creators = {}
        BY <4>1 DEF WorkApart, NewApart
      <4>3. Cardinality({h}) = 1
        BY FS_Singleton
      <4> HIDE DEF lists, collectors, creators
      <4> QED
        BY <2>1, <3>1, <4>2, <4>3
    <3>3. CASE ~ \E h \in Hosts : p \in work_list[h]
      <4>1. PICK h \in Hosts : pc[h] = "create_link" /\ arg[h] = p
        BY <2>3, <3>3 DEF Covered
      <4>2. creators = {h} /\ collectors = {}
        BY <3>3, <4>1 DEF NewInv, Creating
      <4>3. Cardinality({h}) = 1
        BY FS_Singleton
      <4> HIDE DEF lists, collectors, creators
      <4> QED
        BY <2>1, <3>1, <4>2, <4>3
    <3> QED
      BY <3>2, <3>3
  <2> QED
    BY <2>2, <2>3
<1>2. IInv => OwnedOnce
  BY <1>1 DEF OwnedOnce
<1> QED
  BY <1>2, InductiveInvariant, PTL

\* TryCollect decides by a count that is the number of references there are.
THEOREM ReferencesCounted == Spec => []RefCountExact
<1>1. IInv => RefCountExact
  BY DEF IInv, RefInv
<1> QED
  BY <1>1, InductiveInvariant, PTL

\* Until the joiner has seen it terminate, a joined thread is neither detached nor
\* collected.
THEOREM JoinSafe == Spec => []JoinProtects
<1>1. IInv => JoinProtects
  BY DEF IInv
<1> QED
  BY <1>1, InductiveInvariant, PTL

\* Collect and Free take no Pthread away from a host thread that runs on it, joins it or
\* has a reference to it.
THEOREM NotFreedInUse == Spec => []NoUseAfterFree
<1>1. IInv => NoUseAfterFree
  BY DEF IInv
<1> QED
  BY <1>1, InductiveInvariant, PTL

=============================================================================
