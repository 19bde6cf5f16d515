-------------------------- MODULE CowPrivateProofs --------------------------
(* What a process can write is mapped once, by it, and its image is the      *)
(* pages below its size: for any number of pages, processes and processors,  *)
(* when no program shrinks its image to nothing (growproc then frees the     *)
(* pages and keeps the size). Sharing pages is then invisible to programs:   *)
(* Cow implements PrivateVm, when also none stores to the page exec closed.  *)
EXTENDS CowProofs

(* Every page below lo is mapped, none from hi on.                           *)
Filled(d, lo, hi) ==
    \A v \in VA : (v < lo => pt[d][v].pa # NoPage) /\ (v >= hi => pt[d][v].pa = NoPage)

(* Page g is mapped nowhere; at address v of directories d and c only.       *)
Unmapped(g) == \A e \in Pages, w \in VA : pt[e][w].pa # g
Sole(g, d, c, v) ==
    \A e \in Pages, w \in VA : pt[e][w].pa = g => w = v /\ (e = d \/ e = c)

-----------------------------------------------------------------------------
(* The inductive invariant. *)

(* An absent page has no permissions, a writable page one mapping.           *)
PteSound == \A d \in Pages, v \in VA : pt[d][v].w \/ pt[d][v].u => pt[d][v].pa # NoPage
Private  == \A d \in Pages, v \in VA : pt[d][v].w => Sole(pt[d][v].pa, d, d, v)

(* The image of a process, also while sbrk changes it.                       *)
OwnImage(p) ==
    state[p] = "RUNNABLE" =>
        CASE loc[p].op = "grow" ->
                /\ loc[p].base = sz[p] /\ loc[p].base <= loc[p].i /\ loc[p].i <= loc[p].lim
                /\ IF pc[p] = "dealloc" THEN Filled(pgdir[p], loc[p].base, loc[p].lim)
                   ELSE Filled(pgdir[p], loc[p].i, loc[p].i)
          [] loc[p].op = "shrink" ->
                /\ loc[p].lim = sz[p] /\ loc[p].base < loc[p].lim /\ loc[p].base # 0
                /\ Filled(pgdir[p], loc[p].base, loc[p].lim)
          [] OTHER -> Filled(pgdir[p], sz[p], sz[p])

(* The image fork, exec or userinit builds, as far as it has come.           *)
NewImage(p) ==
    /\ loc[p].op = "fork" =>
        /\ loc[p].i <= sz[p]
        /\ pc[p] \in {"kpt", "copy"} => Filled(loc[p].pd, loc[p].i, loc[p].i)
        /\ pc[p] = "incr" => loc[p].i < sz[p] /\ Filled(loc[p].pd, loc[p].i + 1, loc[p].i + 1)
        /\ pc[p] = "commit" => Filled(loc[p].pd, sz[p], sz[p])
    /\ loc[p].op \in {"init", "exec"} =>
        /\ loc[p].i <= loc[p].lim /\ (loc[p].op = "init" => loc[p].lim = 1)
        /\ pc[p] \in {"kpt", "alloc", "map"} => Filled(loc[p].pd, loc[p].i, loc[p].i)
    /\ pc[p] \in {"kstack", "pgdir"} => loc[p].i = 0

(* A page in hand is not mapped yet, and one process has it.                 *)
Freshes ==
    \A p \in Procs : loc[p].pg # NoPage =>
        Unmapped(loc[p].pg) /\ \A q \in Procs : loc[q].pg = loc[p].pg => q = p

(* The handler that found one reference makes a page writable that is its own. *)
OwnDue(p) ==
    pc[p] = "own" /\ loc[p].refc = 1 =>
        LET g == pt[pgdir[p]][loc[p].va].pa IN
        g # NoPage /\ Sole(g, pgdir[p], pgdir[p], loc[p].va)

(* A cached translation is what the page table has, of a page that is mapped *)
(* there and in the child a fork is building, except where lcr3 is due.      *)
Cached(p, v) ==
    tlb[p][v] # NoPage =>
        /\ state[p] = "RUNNABLE" /\ v < sz[p] /\ pc[p] # "commit"
        /\ \/ loc[p].op = "shrink" /\ v >= loc[p].base
           \/ pc[p] = "decr" /\ v = loc[p].va
           \/ /\ pt[pgdir[p]][v].pa = tlb[p][v]
              /\ Sole(tlb[p][v], pgdir[p], loc[p].pd, v)
TlbOK(p) == \A v \in VA : Cached(p, v)

ProcOK(p) == OwnImage(p) /\ NewImage(p) /\ OwnDue(p) /\ TlbOK(p)
PrivInv == PteSound /\ Private /\ Freshes /\ \A p \in Procs : ProcOK(p)

-----------------------------------------------------------------------------
(* What a step leaves alone. *)

SameProc(q) ==
    /\ pc'[q] = pc[q] /\ loc'[q] = loc[q] /\ state'[q] = state[q]
    /\ sz'[q] = sz[q] /\ pgdir'[q] = pgdir[q] /\ tlb'[q] = tlb[q]

(* The entries a step changes are in directories of p, and it puts there no  *)
(* page, one that is mapped nowhere, or one that p has mapped.               *)
Entry(p, a) ==
    \/ a = NoPage
    \/ Unmapped(a)
    \/ \E f \in Pages, x \in VA : f = pgdir[p] /\ pt[f][x].pa = a
Within(p) ==
    \A e \in Pages, w \in VA :
        \/ pt'[e][w].pa = pt[e][w].pa
        \/ e \in {pgdir[p], loc[p].pd} /\ Entry(p, pt'[e][w].pa)

LEMMA SameWithin ==
    ASSUME NEW p, PtSame
    PROVE  Within(p)
BY DEF PtSame, Within

(* What only q has mapped, another process cannot map.                       *)
LEMMA SoleKept ==
    ASSUME OneOwner, NEW p \in Procs, NEW q \in Procs, q # p, Within(p), pgdir[q] \in Pages,
           NEW v \in VA, NEW g, pt[pgdir[q]][v].pa = g, g # NoPage,
           NEW c, c \in {pgdir[q], loc[q].pd}, Sole(g, pgdir[q], c, v),
           NEW e \in Pages, NEW w \in VA, pt'[e][w].pa = g
    PROVE  w = v /\ (e = pgdir[q] \/ e = c)
<1>1. CASE pt'[e][w].pa = pt[e][w].pa
  BY <1>1 DEF Sole
<1>2. CASE Entry(p, g)
  <2>1. ~Unmapped(g)
    BY DEF Unmapped
  <2>2. PICK f \in Pages, x \in VA : f = pgdir[p] /\ pt[f][x].pa = g
    BY <1>2, <2>1 DEF Entry
  <2>3. f \in {pgdir[q], loc[q].pd}
    BY <2>2 DEF Sole
  <2> QED BY <2>2, <2>3 DEF OneOwner
<1> QED BY <1>1, <1>2 DEF Within

LEMMA NewOf ==
    ASSUME TypeInv, NEW q \in Procs,
           \/ loc[q].op = "fork" /\ pc[q] \in {"kpt", "copy", "incr", "commit"}
           \/ loc[q].op \in {"init", "exec"} /\ pc[q] \in {"kpt", "alloc", "map"}
    PROVE  loc[q].pd \in Pages
<1>1. LocalsOK(pc[q], loc[q])
  BY LocalsOf
<1> QED BY <1>1 DEF LocalsOK

LEMMA Bystander ==
    ASSUME TypeInv, OneOwner, NEW p \in Procs, NEW q \in Procs, q # p,
           ProcOK(q), SameProc(q), Within(p)
    PROVE  ProcOK(q)'
<1>1. \A d \in Pages : d \in {pgdir[q], loc[q].pd} =>
          \A v \in VA : pt'[d][v].pa = pt[d][v].pa
  BY OwnDirs DEF Within
<1>2. state[q] = "RUNNABLE" => pgdir[q] \in Pages
  BY DEF TypeInv, Control, SlotOK
<1>3. OwnImage(q)'
  BY <1>1, <1>2 DEF ProcOK, OwnImage, Filled, SameProc
<1>4. NewImage(q)'
  BY <1>1, NewOf DEF ProcOK, NewImage, Filled, SameProc
<1>5. OwnDue(q)'
  <2> SUFFICES ASSUME pc[q] = "own", loc[q].refc = 1
               PROVE  /\ pt'[pgdir[q]][loc[q].va].pa # NoPage
                      /\ Sole(pt[pgdir[q]][loc[q].va].pa, pgdir[q], pgdir[q], loc[q].va)'
    BY DEF OwnDue, SameProc
  <2>1. pgdir[q] \in Pages /\ loc[q].va \in VA
    BY FaultOf
  <2> DEFINE g == pt[pgdir[q]][loc[q].va].pa
  <2>2. g # NoPage /\ Sole(g, pgdir[q], pgdir[q], loc[q].va)
    BY DEF ProcOK, OwnDue
  <2>3. pt'[pgdir[q]][loc[q].va].pa = g
    BY <1>1, <2>1
  <2>4. ASSUME NEW e \in Pages, NEW w \in VA, pt'[e][w].pa = g
        PROVE  w = loc[q].va /\ e = pgdir[q]
    <3>1. pt[pgdir[q]][loc[q].va].pa = g /\ pgdir[q] \in {pgdir[q], loc[q].pd}
      OBVIOUS
    <3> HIDE DEF g
    <3> QED BY <2>1, <2>2, <2>4, <3>1, SoleKept
  <2> HIDE DEF g
  <2>5. Sole(pt[pgdir[q]][loc[q].va].pa, pgdir[q], pgdir[q], loc[q].va)'
    BY <2>3, <2>4 DEF Sole, SameProc
  <2> QED BY <2>2, <2>3, <2>5
<1>6. TlbOK(q)'
  <2> SUFFICES ASSUME NEW v \in VA
               PROVE  Cached(q, v)'
    BY DEF TlbOK
  <2>1. Cached(q, v)
    BY DEF ProcOK, TlbOK
  <2>2. CASE tlb[q][v] = NoPage
    BY <2>2 DEF Cached, SameProc
  <2>3. CASE tlb[q][v] # NoPage
    <3>1. pgdir[q] \in Pages
      BY <1>2, <2>1, <2>3 DEF Cached
    <3>2. CASE pt[pgdir[q]][v].pa = tlb[q][v] /\ Sole(tlb[q][v], pgdir[q], loc[q].pd, v)
      <4>1. pt'[pgdir[q]][v].pa = tlb[q][v]
        BY <1>1, <3>1, <3>2
      <4>2. \A e \in Pages, w \in VA :
                pt'[e][w].pa = tlb[q][v] => w = v /\ (e = pgdir[q] \/ e = loc[q].pd)
        BY <2>3, <3>1, <3>2, SoleKept
      <4> QED BY <2>1, <2>3, <4>1, <4>2 DEF Cached, Sole, SameProc
    <3> QED BY <2>1, <2>3, <3>2 DEF Cached, SameProc
  <2> QED BY <2>2, <2>3
<1> QED BY <1>3, <1>4, <1>5, <1>6 DEF ProcOK

OthersSame(p) == \A q \in Procs : q # p => SameProc(q)

LEMMA Acts ==
    ASSUME TypeInv, CountInv, PrivInv, NEW p \in Procs, OthersSame(p), Within(p),
           PteSound', Private', Freshes', ProcOK(p)'
    PROVE  PrivInv'
<1>1. ASSUME NEW q \in Procs
      PROVE  ProcOK(q)'
  <2>1. CASE q = p
    BY <2>1
  <2>2. CASE q # p
    BY <2>2, Bystander DEF OthersSame, PrivInv, CountInv
  <2> QED BY <2>1, <2>2
<1> QED BY <1>1 DEF PrivInv

-----------------------------------------------------------------------------
(* How the page tables change. *)

(* No entry gets another page or a permission it had not.                    *)
PtFades ==
    \A e \in Pages, w \in VA :
        /\ pt'[e][w].pa = pt[e][w].pa
        /\ pt'[e][w].w => pt[e][w].w
        /\ pt'[e][w].u => pt[e][w].u

LEMMA PtKept == UNCHANGED pt => PtFades
BY DEF PtFades

LEMMA FadesKeep ==
    ASSUME PrivInv, PtFades
    PROVE  PtSame /\ PteSound' /\ Private'
<1>1. PtSame /\ PteSound'
  BY DEF PtFades, PtSame, PteSound, PrivInv
<1>2. Private'
  BY DEF PtFades, Private, PrivInv, Sole
<1> QED BY <1>1, <1>2

(* One entry is cleared, or gets a page that is mapped nowhere.              *)
PtSets(d, v, x) ==
    \A e \in Pages, w \in VA : pt'[e][w] = IF e = d /\ w = v THEN x ELSE pt[e][w]

LEMMA SetsOf ==
    ASSUME TypeInv, NEW d \in Pages, NEW v \in VA, NEW x, pt' = [pt EXCEPT ![d][v] = x]
    PROVE  PtSets(d, v, x)
BY DEF PtSets, TypeInv, TypeOK, TablesType

LEMMA ClearKeeps ==
    ASSUME PrivInv, NEW d \in Pages, NEW v \in VA, PtSets(d, v, NoPte)
    PROVE  PteSound' /\ Private'
<1>1. NoPte.pa = NoPage /\ ~NoPte.w /\ ~NoPte.u
  BY DEF NoPte
<1> HIDE DEF NoPte
<1>2. PteSound'
  BY <1>1 DEF PtSets, PteSound, PrivInv
<1>3. Private'
  <2> SUFFICES ASSUME NEW e \in Pages, NEW w \in VA, pt'[e][w].w,
                      NEW f \in Pages, NEW u \in VA, pt'[f][u].pa = pt'[e][w].pa
               PROVE  u = w /\ f = e
    BY DEF Private, Sole
  <2>1. pt'[e][w] = pt[e][w] /\ pt[e][w].w
    BY <1>1 DEF PtSets
  <2>2. pt[e][w].pa # NoPage
    BY <2>1 DEF PrivInv, PteSound
  <2>3. pt'[f][u] = pt[f][u]
    BY <1>1, <2>1, <2>2 DEF PtSets
  <2> QED BY <2>1, <2>3 DEF PrivInv, Private, Sole
<1> QED BY <1>2, <1>3

LEMMA GetsKeeps ==
    ASSUME PrivInv, NEW d \in Pages, NEW v \in VA, NEW g \in Pages, Unmapped(g),
           PtSets(d, v, Pte(g, TRUE, TRUE))
    PROVE  PteSound' /\ Private'
<1> DEFINE x == Pte(g, TRUE, TRUE)
<1>1. x.pa = g /\ g # NoPage
  BY CowAssumption DEF Pte
<1> HIDE DEF x
<1>2. PteSound'
  <2>1. \A c \in Pages, y \in VA : pt'[c][y] = IF c = d /\ y = v THEN x ELSE pt[c][y]
    BY DEF PtSets, x
  <2> QED BY <1>1, <2>1 DEF PteSound, PrivInv
<1>3. Private'
  <2> SUFFICES ASSUME NEW e \in Pages, NEW w \in VA, pt'[e][w].w,
                      NEW f \in Pages, NEW u \in VA, pt'[f][u].pa = pt'[e][w].pa
               PROVE  u = w /\ f = e
    BY DEF Private, Sole
  <2>1. \A c \in Pages, y \in VA : pt'[c][y] = IF c = d /\ y = v THEN x ELSE pt[c][y]
    BY DEF PtSets, x
  <2>2. CASE e = d /\ w = v
    BY <1>1, <2>1, <2>2 DEF Unmapped
  <2>3. CASE ~(e = d /\ w = v)
    <3>1. pt'[e][w] = pt[e][w] /\ pt[e][w].pa # g
      BY <2>1, <2>3 DEF Unmapped
    <3>2. pt'[f][u] = pt[f][u]
      BY <1>1, <2>1, <3>1
    <3> QED BY <3>1, <3>2 DEF PrivInv, Private, Sole
  <2> QED BY <2>2, <2>3
<1> QED BY <1>2, <1>3

(* A page in hand stays unmapped until its process maps it.                  *)
FreshEntries(p) ==
    \A e \in Pages, w \in VA :
        LET a == pt'[e][w].pa IN
        \/ a = NoPage
        \/ \E f \in Pages, x \in VA : pt[f][x].pa = a
        \/ a = loc[p].pg /\ loc'[p].pg = NoPage

LEMMA FreshKept ==
    ASSUME PrivInv, NEW p \in Procs, FreshEntries(p),
           \A q \in Procs : loc'[q].pg \in {NoPage, loc[q].pg}
    PROVE  Freshes'
<1> SUFFICES ASSUME NEW q \in Procs, loc'[q].pg # NoPage
             PROVE  /\ \A e \in Pages, w \in VA : pt'[e][w].pa # loc'[q].pg
                    /\ \A r \in Procs : loc'[r].pg = loc'[q].pg => r = q
  BY DEF Freshes, Unmapped
<1>1. /\ loc'[q].pg = loc[q].pg /\ Unmapped(loc[q].pg)
      /\ \A r \in Procs : loc[r].pg = loc[q].pg => r = q
  BY DEF PrivInv, Freshes
<1>2. \A r \in Procs : loc'[r].pg = loc'[q].pg => r = q
  BY <1>1
<1>3. ASSUME NEW e \in Pages, NEW w \in VA, pt'[e][w].pa = loc'[q].pg
      PROVE  FALSE
  <2>1. \A f \in Pages, x \in VA : pt[f][x].pa # loc'[q].pg
    BY <1>1 DEF Unmapped
  <2>2. loc'[q].pg = loc[p].pg /\ loc'[p].pg = NoPage
    BY <1>3, <2>1 DEF FreshEntries
  <2> QED BY <1>1, <2>2
<1> QED BY <1>2, <1>3

LEMMA FreshSame ==
    ASSUME PrivInv, PtSame, NEW p \in Procs,
           \A q \in Procs : loc'[q].pg \in {NoPage, loc[q].pg}
    PROVE  Freshes'
<1>1. FreshEntries(p)
  BY DEF FreshEntries, PtSame
<1> QED BY <1>1, FreshKept

LEMMA UnusedPage ==
    ASSUME NEW g \in Pages, ~InUse(g)
    PROVE  Unmapped(g) /\ \A q \in Procs : loc[q].pg # g
BY DEF InUse, InTables, InHands, Unmapped

LEMMA FreshTaken ==
    ASSUME PrivInv, PtSame, NEW p \in Procs, NEW g \in Pages, ~InUse(g), loc'[p].pg = g,
           \A q \in Procs : q # p => loc'[q].pg = loc[q].pg
    PROVE  Freshes'
<1>1. Unmapped(g) /\ \A q \in Procs : loc[q].pg # g
  BY UnusedPage
<1> SUFFICES ASSUME NEW q \in Procs, loc'[q].pg # NoPage
             PROVE  /\ \A e \in Pages, w \in VA : pt'[e][w].pa # loc'[q].pg
                    /\ \A r \in Procs : loc'[r].pg = loc'[q].pg => r = q
  BY DEF Freshes, Unmapped
<1>2. CASE q = p
  BY <1>1, <1>2 DEF PtSame, Unmapped
<1>3. CASE q # p
  BY <1>1, <1>3 DEF PtSame, Unmapped, PrivInv, Freshes
<1> QED BY <1>2, <1>3

-----------------------------------------------------------------------------
(* The process that acts. *)

LEMMA MovesSame ==
    ASSUME TypeInv, NEW p \in Procs, NEW l, NEW r, GotoWith(p, l, r),
           UNCHANGED <<state, pgdir>>, UNCHANGED tlb \/ Lcr3(p),
           UNCHANGED sz \/ \E n : sz' = [sz EXCEPT ![p] = n]
    PROVE  OthersSame(p) /\ pc'[p] = l /\ loc'[p] = r
<1>1. \A q \in Procs : q # p => tlb'[q] = tlb[q]
  BY DEF Lcr3, TypeInv, TypeOK, LocalType
<1>2. \A q \in Procs : q # p => sz'[q] = sz[q]
  BY DEF TypeInv, TypeOK, PtableType
<1>3. /\ pc'[p] = l /\ loc'[p] = r
      /\ \A q \in Procs : q # p => pc'[q] = pc[q] /\ loc'[q] = loc[q]
  BY DEF GotoWith, TypeInv, TypeOK, LocalType
<1> QED BY <1>1, <1>2, <1>3 DEF OthersSame, SameProc

LEMMA FlushedTlb ==
    ASSUME TypeInv, NEW p \in Procs, Lcr3(p)
    PROVE  TlbOK(p)'
<1>1. tlb'[p] = [v \in VA |-> NoPage]
  BY DEF Lcr3, TypeInv, TypeOK, LocalType
<1> QED BY <1>1 DEF TlbOK, Cached

(* Translations survive a step that maps no other page in p's directories.   *)
LEMMA KeptTlb ==
    ASSUME TypeInv, PrivInv, NEW p \in Procs, PtSame,
           tlb'[p] = tlb[p], state'[p] = state[p], sz'[p] = sz[p], pgdir'[p] = pgdir[p],
           pc'[p] # "commit", pc[p] # "decr", loc[p].op # "shrink",
           \/ loc'[p].pd = loc[p].pd
           \/ loc[p].pd = NoPage
           \/ \A v \in VA : pt[loc[p].pd][v].pa = NoPage
    PROVE  TlbOK(p)'
<1> SUFFICES ASSUME NEW v \in VA, tlb'[p][v] # NoPage
             PROVE  /\ state'[p] = "RUNNABLE" /\ v < sz'[p]
                    /\ pt'[pgdir'[p]][v].pa = tlb'[p][v]
                    /\ Sole(tlb[p][v], pgdir[p], loc[p].pd, v)'
  BY DEF TlbOK, Cached
<1>1. /\ state[p] = "RUNNABLE" /\ v < sz[p]
      /\ pt[pgdir[p]][v].pa = tlb[p][v]
      /\ Sole(tlb[p][v], pgdir[p], loc[p].pd, v)
  BY DEF PrivInv, ProcOK, TlbOK, Cached
<1>2. pgdir[p] \in Pages /\ tlb[p][v] # NoPage
  BY <1>1 DEF TypeInv, Control, SlotOK
<1>3. pt'[pgdir'[p]][v].pa = tlb'[p][v]
  BY <1>1, <1>2 DEF PtSame
<1>4. ASSUME NEW e \in Pages, NEW w \in VA, pt'[e][w].pa = tlb'[p][v]
      PROVE  w = v /\ (e = pgdir[p] \/ e = loc'[p].pd)
  <2>1. pt[e][w].pa = tlb[p][v]
    BY <1>4 DEF PtSame
  <2>2. w = v /\ (e = pgdir[p] \/ e = loc[p].pd)
    BY <1>1, <2>1 DEF Sole
  <2> QED BY <1>2, <2>1, <2>2, CowAssumption
<1>5. Sole(tlb[p][v], pgdir[p], loc[p].pd, v)'
  BY <1>4 DEF Sole
<1> QED BY <1>1, <1>3, <1>5

(* The image stays as it is when sbrk is not under way.                      *)
LEMMA PlainImage ==
    ASSUME TypeInv, PrivInv, NEW p \in Procs, PtSame,
           state'[p] = state[p], sz'[p] = sz[p], pgdir'[p] = pgdir[p],
           loc[p].op \notin {"grow", "shrink"}, loc'[p].op \notin {"grow", "shrink"}
    PROVE  OwnImage(p)'
<1>1. state[p] = "RUNNABLE" => pgdir[p] \in Pages
  BY DEF TypeInv, Control, SlotOK
<1>2. state[p] = "RUNNABLE" => Filled(pgdir[p], sz[p], sz[p])
  BY DEF PrivInv, ProcOK, OwnImage
<1> QED BY <1>1, <1>2 DEF OwnImage, Filled, PtSame

LEMMA NoNewImage ==
    ASSUME NEW p \in Procs, loc'[p].op \notin {"fork", "init", "exec"},
           pc'[p] \notin {"kstack", "pgdir"}
    PROVE  NewImage(p)'
BY DEF NewImage

(* A step of p that changes no mapping, and its translations at most to none. *)
LEMMA Calm ==
    ASSUME TypeInv, CountInv, PrivInv, NEW p \in Procs, NEW l, NEW r, GotoWith(p, l, r),
           UNCHANGED <<state, pgdir>>, UNCHANGED sz \/ \E n : sz' = [sz EXCEPT ![p] = n], PtFades,
           \/ Lcr3(p)
           \/ /\ UNCHANGED <<tlb, sz>> /\ l # "commit" /\ pc[p] # "decr" /\ loc[p].op # "shrink"
              /\ \/ r.pd = loc[p].pd \/ loc[p].pd = NoPage
                 \/ \A v \in VA : pt[loc[p].pd][v].pa = NoPage,
           r.pg \in {NoPage, loc[p].pg}, l # "own", OwnImage(p)', NewImage(p)'
    PROVE  PrivInv'
<1>1. OthersSame(p) /\ pc'[p] = l /\ loc'[p] = r
  BY MovesSame
<1>2. PtSame /\ PteSound' /\ Private'
  BY FadesKeep
<1>3. Within(p)
  BY <1>2, SameWithin
<1>4. Freshes'
  BY <1>1, <1>2, FreshSame DEF OthersSame, SameProc
<1>5. OwnDue(p)'
  BY <1>1 DEF OwnDue
<1>6. TlbOK(p)'
  <2>1. CASE Lcr3(p)
    BY <2>1, FlushedTlb
  <2>2. CASE UNCHANGED <<tlb, sz>> /\ l # "commit" /\ pc[p] # "decr" /\ loc[p].op # "shrink"
              /\ (r.pd = loc[p].pd \/ loc[p].pd = NoPage
                  \/ \A v \in VA : pt[loc[p].pd][v].pa = NoPage)
    BY <1>1, <1>2, <2>2, KeptTlb
  <2> QED BY <2>1, <2>2
<1> QED BY <1>1, <1>2, <1>3, <1>4, <1>5, <1>6, Acts DEF ProcOK

(* Nothing the invariant speaks of changes, as when the kernel panics.       *)
LEMMA Halts ==
    ASSUME PrivInv, UNCHANGED <<pt, state, sz, pgdir, tlb, pc, loc>>
    PROVE  PrivInv'
<1>1. PteSound' /\ Private'
  BY DEF PrivInv, PteSound, Private, Sole
<1>2. Freshes'
  BY DEF PrivInv, Freshes, Unmapped
<1>3. ASSUME NEW p \in Procs
      PROVE  ProcOK(p)'
  <2>1. OwnImage(p)'
    BY DEF PrivInv, ProcOK, OwnImage, Filled
  <2>2. NewImage(p)'
    BY DEF PrivInv, ProcOK, NewImage, Filled
  <2>3. OwnDue(p)'
    BY DEF PrivInv, ProcOK, OwnDue, Sole
  <2>4. TlbOK(p)'
    BY DEF PrivInv, ProcOK, TlbOK, Cached, Sole
  <2> QED BY <2>1, <2>2, <2>3, <2>4 DEF ProcOK
<1> QED BY <1>1, <1>2, <1>3 DEF PrivInv


LEMMA UnusedDir ==
    ASSUME CountInv, NEW g \in Pages, ~InUse(g)
    PROVE  \A v \in VA : pt[g][v].pa = NoPage
<1>1. ~DirHeld(g)
  BY DEF InUse, InSlots, InHands, DirHeld
<1> QED BY <1>1 DEF CountInv, Clear

-----------------------------------------------------------------------------
(* Steps that change no mapping. *)

LEMMA OwnOf ==
    ASSUME TypeInv, PrivInv, NEW p \in Procs
    PROVE  /\ pc[p] \in Pcs /\ loc[p] \in Locs /\ sz[p] \in 0 .. MaxSz
           /\ loc[p].base \in 0 .. MaxSz /\ loc[p].i \in 0 .. MaxSz /\ loc[p].lim \in 0 .. MaxSz
           /\ MaxSz \in Nat /\ LocalsOK(pc[p], loc[p])
           /\ OwnImage(p) /\ NewImage(p) /\ OwnDue(p) /\ TlbOK(p)
<1>1. pc[p] \in Pcs /\ loc[p] \in Locs /\ sz[p] \in 0 .. MaxSz /\ LocalsOK(pc[p], loc[p])
  BY LocalsOf
<1> QED BY <1>1, CowAssumption DEF Locs, PrivInv, ProcOK

LEMMA ExecPriv ==
    ASSUME TypeInv, CountInv, PrivInv, NEW p \in Procs, Exec(p)
    PROVE  PrivInv'
<1> DEFINE r == [NoLoc EXCEPT !.op = "exec", !.lim = TextSz + 2]
<1>1. /\ pc[p] = "user" /\ GotoWith(p, "pgdir", r)
      /\ UNCHANGED <<pt, tlb, state, sz, pgdir>>
  BY DEF Exec, At, tables, ptable
<1>2. r.op = "exec" /\ r.lim = TextSz + 2 /\ r.i = 0 /\ r.pd = NoPage /\ r.pg = NoPage
  BY DEF NoLoc
<1> HIDE DEF r
<1>3. loc[p].op = "none" /\ loc[p].pd = NoPage
  BY <1>1, UserOf
<1>4. OthersSame(p) /\ pc'[p] = "pgdir" /\ loc'[p] = r
  BY <1>1, MovesSame
<1>5. PtFades /\ PtSame
  BY <1>1, PtKept DEF PtSame
<1>6. OwnImage(p)'
  BY <1>1, <1>2, <1>3, <1>4, <1>5, PlainImage
<1>7. NewImage(p)'
  BY <1>2, <1>4, CowAssumption DEF NewImage
<1> QED BY <1>1, <1>2, <1>3, <1>5, <1>6, <1>7, Calm

LEMMA GrowPriv ==
    ASSUME TypeInv, CountInv, PrivInv, NEW p \in Procs, Grow(p)
    PROVE  PrivInv'
<1>1. pc[p] = "user" /\ UNCHANGED <<pt, tlb, state, sz, pgdir>>
  BY DEF Grow, At, tables, ptable
<1>2. PICK n \in (sz[p] + 1) .. MaxSz :
        GotoWith(p, "alloc", [NoLoc EXCEPT !.op = "grow", !.base = sz[p], !.i = sz[p], !.lim = n])
  BY DEF Grow
<1> DEFINE r == [NoLoc EXCEPT !.op = "grow", !.base = sz[p], !.i = sz[p], !.lim = n]
<1>3. /\ r.op = "grow" /\ r.base = sz[p] /\ r.i = sz[p] /\ r.lim = n
      /\ r.pd = NoPage /\ r.pg = NoPage /\ GotoWith(p, "alloc", r)
  BY <1>2 DEF NoLoc
<1> HIDE DEF r
<1>4. loc[p].op = "none" /\ loc[p].pd = NoPage /\ pgdir[p] \in Pages /\ state[p] = "RUNNABLE"
  BY <1>1, UserOf
<1>5. OthersSame(p) /\ pc'[p] = "alloc" /\ loc'[p] = r
  BY <1>1, <1>3, MovesSame
<1>6. OwnImage(p)'
  <2>1. Filled(pgdir[p], sz[p], sz[p]) /\ sz[p] \in Nat
    BY <1>4, OwnOf DEF OwnImage
  <2> QED BY <1>1, <1>3, <1>5, <2>1 DEF OwnImage, Filled
<1>7. NewImage(p)'
  BY <1>3, <1>5, NoNewImage
<1> QED BY <1>1, <1>3, <1>4, <1>6, <1>7, PtKept, Calm

LEMMA ShrinkPriv ==
    ASSUME TypeInv, CountInv, PrivInv, NEW p \in Procs, Shrink(p), "shrinkall" \notin Calls
    PROVE  PrivInv'
<1>1. pc[p] = "user" /\ UNCHANGED <<pt, tlb, state, sz, pgdir>>
  BY DEF Shrink, At, tables, ptable
<1>2. PICK n \in 0 .. sz[p] - 1 :
        /\ n # 0
        /\ GotoWith(p, "dealloc", [NoLoc EXCEPT !.op = "shrink", !.base = n, !.lim = sz[p]])
  BY DEF Shrink
<1> DEFINE r == [NoLoc EXCEPT !.op = "shrink", !.base = n, !.lim = sz[p]]
<1>3. /\ r.op = "shrink" /\ r.base = n /\ r.lim = sz[p]
      /\ r.pd = NoPage /\ r.pg = NoPage /\ GotoWith(p, "dealloc", r)
  BY <1>2 DEF NoLoc
<1> HIDE DEF r
<1>4. loc[p].op = "none" /\ loc[p].pd = NoPage /\ pgdir[p] \in Pages /\ state[p] = "RUNNABLE"
  BY <1>1, UserOf
<1>5. OthersSame(p) /\ pc'[p] = "dealloc" /\ loc'[p] = r
  BY <1>1, <1>3, MovesSame
<1>6. OwnImage(p)'
  <2>1. Filled(pgdir[p], sz[p], sz[p]) /\ sz[p] \in Nat
    BY <1>4, OwnOf DEF OwnImage
  <2>2. \A v \in VA : (v < n => v < sz[p]) /\ v \in Int
    BY <2>1 DEF VA
  <2> QED BY <1>1, <1>2, <1>3, <1>5, <2>1, <2>2 DEF OwnImage, Filled
<1>7. NewImage(p)'
  BY <1>3, <1>5, NoNewImage
<1> QED BY <1>1, <1>3, <1>4, <1>6, <1>7, PtKept, Calm

LEMMA ReturnIs == \A p : Return(p) <=> GotoWith(p, "user", NoLoc)
BY DEF Return

LEMMA NoLocIs == NoLoc.op = "none" /\ NoLoc.pd = NoPage /\ NoLoc.pg = NoPage /\ NoLoc.i = 0
BY DEF NoLoc

(* A system call returns.                                                    *)
LEMMA Comes ==
    ASSUME TypeInv, CountInv, PrivInv, NEW p \in Procs, Return(p),
           UNCHANGED <<state, pgdir>>, UNCHANGED sz \/ \E n : sz' = [sz EXCEPT ![p] = n], PtFades,
           \/ Lcr3(p)
           \/ /\ UNCHANGED <<tlb, sz>> /\ pc[p] # "decr" /\ loc[p].op # "shrink"
              /\ loc[p].pd = NoPage \/ \A v \in VA : pt[loc[p].pd][v].pa = NoPage,
           state[p] = "RUNNABLE" => Filled(pgdir[p], sz[p], sz[p])'
    PROVE  PrivInv'
<1>1. GotoWith(p, "user", NoLoc)
  BY ReturnIs
<1>2. OthersSame(p) /\ pc'[p] = "user" /\ loc'[p] = NoLoc
  BY <1>1, MovesSame
<1>3. OwnImage(p)' /\ NewImage(p)'
  BY <1>2, NoLocIs DEF OwnImage, NewImage
<1> QED BY <1>1, <1>3, NoLocIs, Calm

LEMMA GrowDonePriv ==
    ASSUME TypeInv, CountInv, PrivInv, NEW p \in Procs, GrowDone(p)
    PROVE  PrivInv'
<1>1. /\ pc[p] = "alloc" /\ loc[p].i >= loc[p].lim /\ loc[p].op = "grow"
      /\ Lcr3(p) /\ Return(p) /\ UNCHANGED <<pt, state, pgdir>>
      /\ sz' = [sz EXCEPT ![p] = loc[p].lim]
  BY DEF GrowDone, Allocated, At, tables
<1>2. sz'[p] = loc[p].lim
  BY <1>1 DEF TypeInv, TypeOK, PtableType
<1>3. state[p] = "RUNNABLE" => Filled(pgdir[p], sz[p], sz[p])'
  <2>1. state[p] = "RUNNABLE" => loc[p].i = loc[p].lim /\ Filled(pgdir[p], loc[p].i, loc[p].i)
    BY <1>1, OwnOf DEF OwnImage
  <2> QED BY <1>1, <1>2, <2>1 DEF Filled
<1> QED BY <1>1, <1>3, PtKept, Comes

LEMMA ShrunkImage ==
    ASSUME NEW d \in Pages, NEW a \in 0 .. MaxSz, NEW b \in 0 .. MaxSz,
           Filled(d, a, b), Mapped(d, a, b) = {}
    PROVE  Filled(d, a, a)
<1>1. MaxSz \in Nat
  BY CowAssumption
<1>2. ASSUME NEW v \in VA, v >= a
      PROVE  pt[d][v].pa = NoPage
  <2>1. ~(a <= v /\ v < b /\ pt[d][v].pa # NoPage)
    BY DEF Mapped
  <2> QED BY <1>1, <1>2, <2>1 DEF Filled, VA
<1> QED BY <1>2 DEF Filled

LEMMA ShrinkDonePriv ==
    ASSUME TypeInv, CountInv, PrivInv, NEW p \in Procs, ShrinkDone(p)
    PROVE  PrivInv'
<1>1. /\ pc[p] = "dealloc" /\ loc[p].op = "shrink" /\ Return(p)
      /\ Mapped(Dir(p), loc[p].base, loc[p].lim) = {}
      /\ UNCHANGED <<pt, state, pgdir>>
  BY DEF ShrinkDone, Deallocated, At, tables
<1>2. state[p] = "RUNNABLE" /\ pgdir[p] \in Pages /\ loc[p].pd = NoPage /\ Dir(p) = pgdir[p]
  BY <1>1, RunnableOf, NoDirOf DEF Dir
<1>3. loc[p].base # 0 /\ Filled(pgdir[p], loc[p].base, loc[p].lim)
  BY <1>1, <1>2, OwnOf DEF OwnImage
<1>4. sz' = [sz EXCEPT ![p] = loc[p].base] /\ Lcr3(p)
  BY <1>3 DEF ShrinkDone
<1>5. sz'[p] = loc[p].base
  BY <1>4 DEF TypeInv, TypeOK, PtableType
<1>6. Filled(pgdir[p], loc[p].base, loc[p].base)
  BY <1>1, <1>2, <1>3, OwnOf, ShrunkImage
<1>7. Filled(pgdir[p], sz[p], sz[p])'
  BY <1>1, <1>5, <1>6 DEF Filled
<1> QED BY <1>1, <1>4, <1>7, PtKept, Comes

LEMMA ExecBadPriv ==
    ASSUME TypeInv, CountInv, PrivInv, NEW p \in Procs, ExecBad(p)
    PROVE  PrivInv'
<1>1. /\ pc[p] = "alloc" /\ loc[p].op = "exec" /\ Goto(p, "freevm")
      /\ UNCHANGED <<pt, tlb, state, sz, pgdir>>
  BY DEF ExecBad, At, tables, ptable
<1>2. GotoWith(p, "freevm", loc[p])
  BY <1>1, GotoIsGotoWith DEF TypeInv, TypeOK
<1>3. OthersSame(p) /\ pc'[p] = "freevm" /\ loc'[p] = loc[p]
  BY <1>1, <1>2, MovesSame
<1>4. OwnImage(p)'
  BY <1>1, <1>3, PlainImage DEF PtSame
<1>5. NewImage(p)'
  BY <1>1, <1>3, OwnOf DEF NewImage
<1> QED BY <1>1, <1>2, <1>4, <1>5, PtKept, Calm

LEMMA AllocFailedPriv ==
    ASSUME TypeInv, CountInv, PrivInv, NEW p \in Procs, AllocFailed(p)
    PROVE  PrivInv'
<1>1. /\ pc[p] = "dealloc" /\ loc[p].op \in {"grow", "exec"}
      /\ Mapped(Dir(p), loc[p].base, loc[p].lim) = {}
      /\ UNCHANGED <<pt, tlb, state, sz, pgdir>>
  BY DEF AllocFailed, Deallocated, At, tables, ptable
<1>2. CASE loc[p].op = "grow"
  <2>1. Return(p)
    BY <1>2 DEF AllocFailed
  <2>2. state[p] = "RUNNABLE" /\ pgdir[p] \in Pages /\ loc[p].pd = NoPage /\ Dir(p) = pgdir[p]
    BY <1>1, <1>2, RunnableOf, NoDirOf DEF Dir
  <2>3. loc[p].base = sz[p] /\ Filled(pgdir[p], loc[p].base, loc[p].lim)
    BY <1>1, <1>2, <2>2, OwnOf DEF OwnImage
  <2>4. Filled(pgdir[p], sz[p], sz[p])
    BY <1>1, <2>2, <2>3, OwnOf, ShrunkImage
  <2>5. Filled(pgdir[p], sz[p], sz[p])'
    BY <1>1, <2>4 DEF Filled
  <2> QED BY <1>1, <1>2, <2>1, <2>2, <2>5, PtKept, Comes
<1>3. CASE loc[p].op = "exec"
  <2> DEFINE r == [loc[p] EXCEPT !.pg = NoPage]
  <2>1. GotoWith(p, "freevm", r)
    BY <1>3 DEF AllocFailed
  <2>2. r.pg = NoPage /\ r.i = loc[p].i /\ r.op = "exec" /\ r.pd = loc[p].pd /\ r.lim = loc[p].lim
    BY <1>3, OwnOf DEF Locs
  <2> HIDE DEF r
  <2>3. OthersSame(p) /\ pc'[p] = "freevm" /\ loc'[p] = r
    BY <1>1, <2>1, MovesSame
  <2>4. OwnImage(p)'
    BY <1>1, <1>3, <2>2, <2>3, PlainImage DEF PtSame
  <2>5. NewImage(p)'
    BY <1>3, <2>2, <2>3, OwnOf DEF NewImage
  <2> QED BY <1>1, <1>3, <2>1, <2>2, <2>4, <2>5, PtKept, Calm
<1> QED BY <1>1, <1>2, <1>3

LEMMA SetupDirPriv ==
    ASSUME TypeInv, CountInv, PrivInv, NEW p \in Procs, SetupDir(p)
    PROVE  PrivInv'
<1>1. pc[p] = "pgdir" /\ UNCHANGED <<tlb, state, sz, pgdir>>
  BY DEF SetupDir, At, ptable
<1>2. loc[p].op \in {"init", "fork", "exec"} /\ loc[p].i = 0 /\ loc[p].pd = NoPage
  <2>1. loc[p].pd = NoPage
    BY <1>1, NoDirOf
  <2> QED BY <1>1, <2>1, OwnOf DEF LocalsOK, OpAt, NewImage, Locs, Ops
<1>3. ASSUME NEW g \in Pages, Kalloc(g), GotoWith(p, AfterKvm(p, 0), [loc[p] EXCEPT !.pd = g]),
             pt' = [pt EXCEPT ![g] = [v \in VA |-> NoPte]],
             utab' = [utab EXCEPT ![g] = NoPage], ktab' = [ktab EXCEPT ![g] = {}]
      PROVE  PrivInv'
  <2> DEFINE r == [loc[p] EXCEPT !.pd = g]
             l == AfterKvm(p, 0)
  <2>1. /\ r.pd = g /\ r.pg = loc[p].pg /\ r.i = 0 /\ r.op = loc[p].op /\ r.lim = loc[p].lim
        /\ GotoWith(p, l, r)
    BY <1>2, <1>3, OwnOf DEF Locs
  <2>2. l \in {"kpt", "copy", "alloc"} /\ (l = "copy" => loc[p].op = "fork")
    BY DEF AfterKvm
  <2> HIDE DEF r, l
  <2>3. OthersSame(p) /\ pc'[p] = l /\ loc'[p] = r
    BY <1>1, <2>1, MovesSame
  <2>4. ~InUse(g)
    BY <1>3, KallocCounts
  <2>5. PtSame
    BY <1>3, <2>4, FreshDir
  <2>6. PtFades
    <3>1. ~NoPte.w /\ ~NoPte.u
      BY DEF NoPte
    <3>2. pt \in [Pages -> [VA -> Ptes]]
      BY DEF TypeInv, TypeOK, TablesType
    <3> HIDE DEF NoPte
    <3>3. \A e \in Pages, w \in VA : pt'[e][w] = IF e = g THEN NoPte ELSE pt[e][w]
      BY <1>3, <3>2
    <3> QED BY <2>5, <3>1, <3>3 DEF PtFades, PtSame
  <2>7. OwnImage(p)'
    BY <1>1, <1>2, <2>1, <2>3, <2>5, PlainImage
  <2>8. Filled(g, 0, 0)'
    <3>1. \A v \in VA : v \in Int /\ 0 <= v
      BY DEF VA
    <3>2. \A v \in VA : pt[g][v].pa = NoPage
      BY <2>4, UnusedDir
    <3> QED BY <2>5, <3>1, <3>2 DEF Filled, PtSame
  <2>9. NewImage(p)'
    BY <1>1, <1>2, <2>1, <2>2, <2>3, <2>8, OwnOf DEF NewImage
  <2> QED BY <1>1, <1>2, <2>1, <2>2, <2>6, <2>7, <2>9, Calm
<1>4. ASSUME AfterNoTable(p), UNCHANGED tables
      PROVE  PrivInv'
  <2>1. UNCHANGED pt
    BY <1>4 DEF tables
  <2>2. CASE loc[p].op = "fork" /\ Goto(p, "undo")
    <3>1. GotoWith(p, "undo", loc[p])
      BY <2>2, GotoIsGotoWith DEF TypeInv, TypeOK
    <3>2. OthersSame(p) /\ pc'[p] = "undo" /\ loc'[p] = loc[p]
      BY <1>1, <3>1, MovesSame
    <3>3. OwnImage(p)'
      BY <1>1, <2>1, <2>2, <3>2, PlainImage DEF PtSame
    <3>4. NewImage(p)'
      BY <1>1, <2>2, <3>2, OwnOf DEF NewImage
    <3> QED BY <1>1, <1>2, <2>1, <3>1, <3>3, <3>4, PtKept, Calm
  <2>3. CASE loc[p].op = "exec" /\ Return(p)
    <3>1. state[p] = "RUNNABLE" => Filled(pgdir[p], sz[p], sz[p])'
      <4>1. state[p] = "RUNNABLE" => Filled(pgdir[p], sz[p], sz[p])
        BY <2>3, OwnOf DEF OwnImage
      <4> QED BY <1>1, <2>1, <4>1 DEF Filled
    <3> QED BY <1>1, <1>2, <2>1, <2>3, <3>1, PtKept, Comes
  <2>4. CASE Panic("userinit")
    BY <1>1, <2>1, <2>4, Halts DEF Panic
  <2> QED BY <1>4, <2>2, <2>3, <2>4 DEF AfterNoTable
<1> QED BY <1>3, <1>4 DEF SetupDir

LEMMA SetupKptPriv ==
    ASSUME TypeInv, CountInv, PrivInv, NEW p \in Procs, SetupKpt(p)
    PROVE  PrivInv'
<1>1. pc[p] = "kpt" /\ UNCHANGED <<pt, tlb, state, sz, pgdir>>
  BY DEF SetupKpt, At, ptable
<1>2. loc[p].op \in {"init", "fork", "exec"} /\ Filled(loc[p].pd, loc[p].i, loc[p].i)
  <2>1. loc[p].op \in {"init", "fork", "exec"}
    BY <1>1, OwnOf DEF LocalsOK, OpAt, Locs, Ops
  <2> QED BY <1>1, <2>1, OwnOf DEF NewImage
<1>3. ASSUME NEW l, Goto(p, l), l \in {"kpt", "copy", "alloc", "freevm"},
             l = "copy" => loc[p].op = "fork"
      PROVE  PrivInv'
  <2>1. GotoWith(p, l, loc[p])
    BY <1>3, GotoIsGotoWith DEF TypeInv, TypeOK
  <2>2. OthersSame(p) /\ pc'[p] = l /\ loc'[p] = loc[p]
    BY <1>1, <2>1, MovesSame
  <2>3. OwnImage(p)'
    BY <1>1, <1>2, <2>2, PlainImage DEF PtSame
  <2>4. Filled(loc[p].pd, loc[p].i, loc[p].i)'
    BY <1>1, <1>2, <2>2 DEF Filled
  <2>5. NewImage(p)'
    <3>1. /\ loc[p].op = "fork" => loc[p].i <= sz[p]
          /\ loc[p].op \in {"init", "exec"} => loc[p].i <= loc[p].lim
          /\ loc[p].op = "init" => loc[p].lim = 1
      BY OwnOf DEF NewImage
    <3>2. sz'[p] = sz[p]
      BY <1>1
    <3> QED BY <1>3, <2>2, <2>4, <3>1, <3>2 DEF NewImage
  <2> QED BY <1>1, <1>2, <1>3, <2>1, <2>3, <2>5, PtKept, Calm
<1>4. CASE Panic("userinit")
  BY <1>1, <1>4, Halts DEF Panic
<1>5. \A n : /\ AfterKvm(p, n) \in {"kpt", "copy", "alloc"}
             /\ AfterKvm(p, n) = "copy" => loc[p].op = "fork"
  BY DEF AfterKvm
<1>6. \/ Goto(p, AfterKvm(p, Cardinality(ktab[loc[p].pd]) + 1))
      \/ Panic("userinit")
      \/ Goto(p, "freevm")
  BY DEF SetupKpt
<1> QED BY <1>3, <1>4, <1>5, <1>6

(* allocuvm gives up.                                                        *)
LEMMA GivesUp ==
    ASSUME TypeInv, CountInv, PrivInv, NEW p \in Procs, pc[p] \in {"alloc", "map"},
           loc[p].op \in {"exec", "grow"}, Goto(p, "dealloc"), loc[p].i <= loc[p].lim,
           UNCHANGED <<pt, tlb, state, sz, pgdir>>
    PROVE  PrivInv'
<1>1. GotoWith(p, "dealloc", loc[p])
  BY GotoIsGotoWith DEF TypeInv, TypeOK
<1>2. OthersSame(p) /\ pc'[p] = "dealloc" /\ loc'[p] = loc[p]
  BY <1>1, MovesSame
<1>3. OwnImage(p)'
  <2>1. CASE loc[p].op = "exec"
    BY <1>2, <2>1, PlainImage DEF PtSame
  <2>2. CASE loc[p].op = "grow"
    <3>1. state[p] = "RUNNABLE" =>
            /\ loc[p].base = sz[p] /\ loc[p].base <= loc[p].i /\ loc[p].i <= loc[p].lim
            /\ Filled(pgdir[p], loc[p].i, loc[p].i)
      BY <2>2, OwnOf DEF OwnImage
    <3>2. \A v \in VA : v \in Int
      BY CowAssumption DEF VA
    <3>3. state[p] = "RUNNABLE" => Filled(pgdir[p], loc[p].base, loc[p].lim)
      BY <3>1, <3>2, OwnOf DEF Filled
    <3>4. state[p] = "RUNNABLE" => Filled(pgdir[p], loc[p].base, loc[p].lim)'
      BY <1>2, <3>3 DEF Filled
    <3> QED BY <1>2, <2>2, <3>1, <3>4 DEF OwnImage
  <2> QED BY <2>1, <2>2
<1>4. NewImage(p)'
  BY <1>2 DEF NewImage
<1> QED BY <1>1, <1>3, <1>4, PtKept, Calm

LEMMA CopyIncrPriv ==
    ASSUME TypeInv, CountInv, PrivInv, NEW p \in Procs, CopyIncr(p)
    PROVE  PrivInv'
<1> DEFINE r == [loc[p] EXCEPT !.i = @ + 1]
<1>1. /\ pc[p] = "incr" /\ GotoWith(p, "copy", r)
      /\ UNCHANGED <<pt, tlb, state, sz, pgdir>>
  BY DEF CopyIncr, At, tables, ptable
<1>2. /\ r.i = loc[p].i + 1 /\ r.op = loc[p].op /\ r.pd = loc[p].pd /\ r.pg = loc[p].pg
  BY OwnOf DEF Locs
<1> HIDE DEF r
<1>3. loc[p].op = "fork"
  BY <1>1, OwnOf DEF LocalsOK, OpAt, Locs, Ops
<1>4. OthersSame(p) /\ pc'[p] = "copy" /\ loc'[p] = r
  BY <1>1, MovesSame
<1>5. OwnImage(p)'
  BY <1>1, <1>2, <1>3, <1>4, PlainImage DEF PtSame
<1>6. NewImage(p)'
  <2>1. loc[p].i < sz[p] /\ Filled(loc[p].pd, loc[p].i + 1, loc[p].i + 1)
    BY <1>1, <1>3, OwnOf DEF NewImage
  <2>2. loc[p].i + 1 <= sz[p]
    BY <2>1, OwnOf
  <2>3. sz'[p] = sz[p] /\ Filled(loc[p].pd, loc[p].i, loc[p].i)'
    BY <1>1, <1>2, <1>4, <2>1 DEF Filled
  <2> QED BY <1>2, <1>3, <1>4, <2>2, <2>3 DEF NewImage
<1> QED BY <1>1, <1>2, <1>3, <1>5, <1>6, PtKept, Calm

LEMMA CopyDonePriv ==
    ASSUME TypeInv, CountInv, PrivInv, NEW p \in Procs, CopyDone(p)
    PROVE  PrivInv'
<1>1. /\ pc[p] = "copy" /\ loc[p].i >= sz[p] /\ Lcr3(p) /\ Goto(p, "commit")
      /\ UNCHANGED <<pt, state, sz, pgdir>>
  BY DEF CopyDone, At, tables, ptable
<1>2. loc[p].op = "fork"
  BY <1>1, OwnOf DEF LocalsOK, OpAt, Locs, Ops
<1>3. GotoWith(p, "commit", loc[p])
  BY <1>1, GotoIsGotoWith DEF TypeInv, TypeOK
<1>4. OthersSame(p) /\ pc'[p] = "commit" /\ loc'[p] = loc[p]
  BY <1>1, <1>3, MovesSame
<1>5. OwnImage(p)'
  BY <1>1, <1>2, <1>4, PlainImage DEF PtSame
<1>6. NewImage(p)'
  <2>1. loc[p].i <= sz[p] /\ Filled(loc[p].pd, loc[p].i, loc[p].i)
    BY <1>1, <1>2, OwnOf DEF NewImage
  <2>2. loc[p].i = sz[p]
    BY <1>1, <2>1, OwnOf
  <2>3. sz'[p] = sz[p] /\ Filled(loc[p].pd, sz[p], sz[p])'
    BY <1>1, <1>4, <2>1, <2>2 DEF Filled
  <2> QED BY <1>2, <1>4, <2>1, <2>3 DEF NewImage
<1> QED BY <1>1, <1>3, <1>5, <1>6, PtKept, Calm

LEMMA ExecCommitPriv ==
    ASSUME TypeInv, CountInv, PrivInv, NEW p \in Procs, ExecCommit(p)
    PROVE  PrivInv'
<1> DEFINE d == loc[p].pd
           r == [NoLoc EXCEPT !.op = "exec", !.pd = pgdir[p]]
<1>1. /\ pc[p] = "alloc" /\ loc[p].op = "exec" /\ loc[p].i >= loc[p].lim
      /\ pt' = [pt EXCEPT ![d][TextSz].u = FALSE]
      /\ pgdir' = [pgdir EXCEPT ![p] = d] /\ sz' = [sz EXCEPT ![p] = loc[p].lim]
      /\ Lcr3(p) /\ GotoWith(p, "freevm", r) /\ UNCHANGED state
  BY DEF ExecCommit, Allocated, At
<1>2. r.op = "exec" /\ r.i = 0 /\ r.lim = 0 /\ r.pg = NoPage
  BY DEF NoLoc
<1>3. /\ pc'[p] = "freevm" /\ loc'[p] = r
      /\ \A q \in Procs : q # p => pc'[q] = pc[q] /\ loc'[q] = loc[q]
  BY <1>1 DEF GotoWith, TypeInv, TypeOK, LocalType
<1> HIDE DEF r
<1>4. /\ pgdir'[p] = d /\ sz'[p] = loc[p].lim
      /\ \A q \in Procs : q # p => pgdir'[q] = pgdir[q] /\ sz'[q] = sz[q]
  BY <1>1 DEF TypeInv, TypeOK, PtableType
<1>5. \A q \in Procs : q # p => tlb'[q] = tlb[q]
  BY <1>1 DEF Lcr3, TypeInv, TypeOK, LocalType
<1>6. OthersSame(p)
  BY <1>1, <1>3, <1>4, <1>5 DEF OthersSame, SameProc
<1>7. d \in Pages /\ TextSz \in VA
  BY <1>1, NewOf, CowAssumption DEF VA
<1>8. PtFades
  <2>1. pt \in [Pages -> [VA -> Ptes]]
    BY DEF TypeInv, TypeOK, TablesType
  <2>2. pt[d][TextSz] \in Ptes
    BY <1>7, PteOf
  <2> DEFINE x == [pt[d][TextSz] EXCEPT !.u = FALSE]
  <2>3. x.pa = pt[d][TextSz].pa /\ x.w = pt[d][TextSz].w /\ x.u = FALSE
    BY <2>2 DEF Ptes
  <2>4. \A e \in Pages, w \in VA :
            pt'[e][w] = IF e = d /\ w = TextSz THEN x ELSE pt[e][w]
    BY <1>1, <1>7, <2>1
  <2> HIDE DEF x, d
  <2> QED BY <2>3, <2>4 DEF PtFades
<1>9. PtSame /\ PteSound' /\ Private'
  BY <1>8, FadesKeep
<1>10. Within(p)
  BY <1>9, SameWithin
<1>11. Freshes'
  BY <1>2, <1>3, <1>9, FreshSame
<1>12. OwnImage(p)'
  <2>1. loc[p].i = loc[p].lim /\ Filled(d, loc[p].lim, loc[p].lim)
    BY <1>1, OwnOf DEF NewImage
  <2>2. \A v \in VA : pt'[d][v].pa = pt[d][v].pa
    BY <1>7, <1>9 DEF PtSame
  <2> HIDE DEF d
  <2> QED BY <1>2, <1>3, <1>4, <2>1, <2>2 DEF OwnImage, Filled
<1>13. NewImage(p)' /\ OwnDue(p)'
  BY <1>2, <1>3 DEF NewImage, OwnDue
<1> QED BY <1>1, <1>6, <1>9, <1>10, <1>11, <1>12, <1>13, FlushedTlb, Acts DEF ProcOK

LEMMA FreeTablePriv ==
    ASSUME TypeInv, CountInv, PrivInv, NEW p \in Procs, FreeTable(p)
    PROVE  PrivInv'
<1>1. UNCHANGED <<pt, state, sz, pgdir, tlb, pc, loc>>
  BY DEF FreeTable, ptable
<1> QED BY <1>1, Halts

LEMMA CowDecrPriv ==
    ASSUME TypeInv, CountInv, PrivInv, NEW p \in Procs, CowDecr(p)
    PROVE  PrivInv'
<1>1. pc[p] = "decr" /\ Lcr3(p) /\ Return(p) /\ UNCHANGED <<pt, state, sz, pgdir>>
  BY DEF CowDecr, At, tables, ptable
<1>2. loc[p].op = "fault"
  BY <1>1, FaultOf
<1>3. state[p] = "RUNNABLE" => Filled(pgdir[p], sz[p], sz[p])'
  <2>1. state[p] = "RUNNABLE" => Filled(pgdir[p], sz[p], sz[p])
    BY <1>2, OwnOf DEF OwnImage
  <2> QED BY <1>1, <2>1 DEF Filled
<1> QED BY <1>1, <1>3, PtKept, Comes

(* A process that takes a page.                                              *)
LEMMA Takes ==
    ASSUME TypeInv, CountInv, PrivInv, NEW p \in Procs, NEW g \in Pages, Kalloc(g), NEW l,
           GotoWith(p, l, [loc[p] EXCEPT !.pg = g]), UNCHANGED <<pt, tlb, state, sz, pgdir>>,
           l \notin {"commit", "own", "dealloc", "kstack", "pgdir", "kpt", "copy", "incr"},
           pc[p] \notin {"decr", "dealloc"}, loc[p].op # "shrink",
           l \in {"alloc", "map"} => pc[p] = "alloc"
    PROVE  PrivInv'
<1> DEFINE r == [loc[p] EXCEPT !.pg = g]
<1>1. /\ r.pg = g /\ r.i = loc[p].i /\ r.op = loc[p].op /\ r.pd = loc[p].pd
      /\ r.lim = loc[p].lim /\ r.base = loc[p].base
  BY OwnOf DEF Locs
<1>2. GotoWith(p, l, r)
  OBVIOUS
<1> HIDE DEF r
<1>3. OthersSame(p) /\ pc'[p] = l /\ loc'[p] = r
  BY <1>2, MovesSame
<1>4. PtSame /\ PteSound' /\ Private'
  BY PtKept, FadesKeep
<1>5. Within(p)
  BY <1>4, SameWithin
<1>6. ~InUse(g)
  BY KallocCounts
<1>7. Freshes'
  BY <1>1, <1>3, <1>4, <1>6, FreshTaken DEF OthersSame, SameProc
<1>8. TlbOK(p)'
  BY <1>1, <1>3, <1>4, KeptTlb
<1>9. OwnDue(p)'
  BY <1>3 DEF OwnDue
<1>10. OwnImage(p)'
  BY <1>1, <1>3, OwnOf DEF OwnImage, Filled
<1>11. NewImage(p)'
  <2>1. sz'[p] = sz[p] /\ loc[p].op = "fork" => loc[p].i <= sz'[p]
    BY OwnOf DEF NewImage
  <2>2. /\ loc[p].op \in {"init", "exec"} => loc[p].i <= loc[p].lim
        /\ loc[p].op = "init" => loc[p].lim = 1
    BY OwnOf DEF NewImage
  <2>3. loc[p].op \in {"init", "exec"} /\ l \in {"alloc", "map"} => Filled(loc[p].pd, loc[p].i, loc[p].i)'
    <3>1. loc[p].op \in {"init", "exec"} /\ l \in {"alloc", "map"} =>
              Filled(loc[p].pd, loc[p].i, loc[p].i)
      BY OwnOf DEF NewImage
    <3> QED BY <1>1, <1>2, <1>3, <3>1 DEF Filled
  <2> QED BY <1>1, <1>3, <2>1, <2>2, <2>3 DEF NewImage
<1> QED BY <1>3, <1>4, <1>5, <1>7, <1>8, <1>9, <1>10, <1>11, Acts DEF ProcOK

LEMMA CowAllocPriv ==
    ASSUME TypeInv, CountInv, PrivInv, NEW p \in Procs, CowAlloc(p)
    PROVE  PrivInv'
<1>1. pc[p] = "dup" /\ UNCHANGED <<pt, tlb, state, sz, pgdir>>
  BY DEF CowAlloc, At, tables, ptable
<1>2. loc[p].op = "fault"
  BY <1>1, FaultOf
<1>3. ASSUME NEW g \in Pages, Kalloc(g), GotoWith(p, "move", [loc[p] EXCEPT !.pg = g])
      PROVE  PrivInv'
  BY <1>1, <1>2, <1>3, Takes
<1>4. CASE Panic("out of memory")
  BY <1>1, <1>4, Halts DEF Panic
<1> QED BY <1>3, <1>4 DEF CowAlloc

LEMMA AllocPagePriv ==
    ASSUME TypeInv, CountInv, PrivInv, NEW p \in Procs, AllocPage(p)
    PROVE  PrivInv'
<1>1. pc[p] = "alloc" /\ loc[p].i < loc[p].lim /\ UNCHANGED <<pt, tlb, state, sz, pgdir>>
  BY DEF AllocPage, At, tables, ptable
<1>2. loc[p].op \in {"init", "exec", "grow"}
  BY <1>1, OwnOf DEF LocalsOK, OpAt, Locs, Ops
<1>3. ASSUME NEW g \in Pages, Kalloc(g), GotoWith(p, "map", [loc[p] EXCEPT !.pg = g])
      PROVE  PrivInv'
  BY <1>1, <1>2, <1>3, Takes
<1>4. CASE Panic("userinit")
  BY <1>1, <1>4, Halts DEF Panic
<1>5. CASE Goto(p, "dealloc") /\ loc[p].op # "init"
  <2>1. loc[p].i <= loc[p].lim
    BY <1>1, OwnOf
  <2> QED BY <1>1, <1>2, <1>5, <2>1, GivesUp
<1> QED BY <1>3, <1>4, <1>5 DEF AllocPage

-----------------------------------------------------------------------------
(* User accesses. *)

LEMMA StorePriv ==
    ASSUME TypeInv, CountInv, PrivInv, NEW p \in Procs, Store(p)
    PROVE  PrivInv'
<1>1. pc[p] = "user" /\ UNCHANGED <<pt, state, sz, pgdir, pc, loc>>
  BY DEF Store, At, tables, ptable
<1>2. /\ loc[p].op = "none" /\ loc[p].pd = NoPage
      /\ pgdir[p] \in Pages /\ state[p] = "RUNNABLE"
  BY <1>1, UserOf
<1>3. CASE UNCHANGED tlb
  BY <1>1, <1>3, Halts
<1>4. ASSUME NEW v \in VA, pt[pgdir[p]][v].w,
             tlb' = [tlb EXCEPT ![p][v] = pt[pgdir[p]][v].pa]
      PROVE  PrivInv'
  <2> DEFINE g == pt[pgdir[p]][v].pa
  <2>1. g # NoPage /\ Sole(g, pgdir[p], pgdir[p], v)
    BY <1>2, <1>4 DEF PrivInv, PteSound, Private
  <2>2. v < sz[p]
    <3>1. Filled(pgdir[p], sz[p], sz[p])
      BY <1>2, OwnOf DEF OwnImage
    <3>2. v \in Int /\ sz[p] \in Int
      BY OwnOf DEF VA
    <3> QED BY <2>1, <3>1, <3>2 DEF Filled
  <2>3. /\ tlb'[p] = [tlb[p] EXCEPT ![v] = g] /\ tlb[p] \in [VA -> Pages \union {NoPage}]
        /\ \A q \in Procs : q # p => tlb'[q] = tlb[q]
    BY <1>4 DEF TypeInv, TypeOK, LocalType
  <2>4. OthersSame(p) /\ PtSame
    BY <1>1, <2>3 DEF OthersSame, SameProc, PtSame
  <2>5. PteSound' /\ Private' /\ Within(p) /\ Freshes'
    BY <1>1, <2>4, SameWithin, PtKept, FadesKeep, FreshSame
  <2>6. OwnImage(p)' /\ NewImage(p)'
    <3>1. OwnImage(p)'
      BY <1>1, OwnOf DEF OwnImage, Filled
    <3>2. NewImage(p)'
      BY <1>1, OwnOf DEF NewImage, Filled
    <3> QED BY <3>1, <3>2
  <2>7. OwnDue(p)'
    BY <1>1 DEF OwnDue
  <2>8. TlbOK(p)'
    <3> SUFFICES ASSUME NEW w \in VA
                 PROVE  Cached(p, w)'
      BY DEF TlbOK
    <3>1. CASE w = v
      <4>1. tlb'[p][w] = g
        BY <2>3, <3>1
      <4>2. \A e \in Pages, u \in VA : pt'[e][u].pa = g => u = v /\ e = pgdir[p]
        BY <1>1, <2>1 DEF Sole
      <4>3. Sole(tlb[p][w], pgdir[p], loc[p].pd, w)'
        BY <1>1, <3>1, <4>1, <4>2 DEF Sole
      <4> QED BY <1>1, <1>2, <2>2, <3>1, <4>1, <4>3 DEF Cached
    <3>2. CASE w # v
      <4>1. tlb'[p][w] = tlb[p][w] /\ Cached(p, w)
        BY <2>3, <3>2, OwnOf DEF TlbOK
      <4> QED BY <1>1, <4>1 DEF Cached, Sole
    <3> QED BY <3>1, <3>2
  <2> QED BY <2>4, <2>5, <2>6, <2>7, <2>8, Acts DEF ProcOK
<1> QED BY <1>3, <1>4 DEF Store

(* A page with one counted reference, found in a process's page table, is    *)
(* mapped there only: what copyuvm has mapped and not counted yet is mapped  *)
(* in its parent too, and never by the process that faults.                  *)
LEMMA LastUse ==
    ASSUME TypeInv, CountInv, NEW p \in Procs, pc[p] # "incr", NEW v \in VA,
           NEW g \in Pages, pgdir[p] \in Pages, pt[pgdir[p]][v].pa = g, pgrefc[g] = 1
    PROVE  Sole(g, pgdir[p], pgdir[p], v)
<1> DEFINE U == {q \in Procs : pc[q] = "incr" /\ pt[pgdir[q]][loc[q].i].pa = g}
           M == Mappings(g)
           f == [q \in U |-> <<loc[q].pd, loc[q].i>>]
           m == <<pgdir[p], v>>
<1> SUFFICES ASSUME NEW e \in Pages, NEW w \in VA, pt[e][w].pa = g, <<e, w>> # m
             PROVE  FALSE
  BY DEF Sole
<1>1. IsFiniteSet(U) /\ IsFiniteSet(M) /\ Cardinality(U) \in Nat /\ Cardinality(M) \in Nat
  BY Finite, VAFinite, FS_Subset, FS_CardinalityType DEF Mappings
<1>2. Uncounted(g) = Cardinality(U) /\ MapN(g) = Cardinality(M)
  BY DEF Uncounted, MapN
<1>3. \A q \in U : /\ q \in Procs /\ q # p
                   /\ loc[q].pd \in Pages /\ pgdir[q] \in Pages /\ loc[q].i \in VA
                   /\ pt[loc[q].pd][loc[q].i].pa = g /\ pt[pgdir[q]][loc[q].i].pa = g
  BY DEF CountInv, Hands, HandOK, CopyDue
<1>4. m \in M /\ <<e, w>> \in M
  BY DEF Mappings
<1>5. \A q, o \in U : /\ pgdir[p] # loc[q].pd /\ pgdir[o] # loc[q].pd /\ pgdir[q] # pgdir[p]
                      /\ loc[q].pd = loc[o].pd => q = o
  BY <1>3 DEF CountInv, OneOwner
<1>6. \A q \in U : f[q] = <<loc[q].pd, loc[q].i>> /\ f[q] \in M
  BY <1>3 DEF Mappings
<1>7. \E n \in M : n # m /\ \A q \in U : f[q] # n
  <2>1. CASE \A q \in U : f[q] # <<e, w>>
    BY <1>4, <2>1
  <2>2. ASSUME NEW o \in U, f[o] = <<e, w>>
        PROVE  \E n \in M : n # m /\ \A q \in U : f[q] # n
    <3> DEFINE n == <<pgdir[o], loc[o].i>>
    <3>1. n \in M
      BY <1>3 DEF Mappings
    <3>2. n # m /\ \A q \in U : f[q] # n
      <4> HIDE DEF f, U
      <4> QED BY <1>5, <1>6, <2>2
    <3> QED BY <3>1, <3>2
  <2> QED BY <2>1, <2>2
<1>8. PICK n \in M : n # m /\ \A q \in U : f[q] # n
  BY <1>7
<1> DEFINE R == (M \ {m}) \ {n}
<1>9. f \in Injection(U, R)
  <2>1. \A q \in U : f[q] \in R
    <3> HIDE DEF f, U, M
    <3> QED BY <1>5, <1>6, <1>8
  <2>2. f \in [U -> R]
    <3> HIDE DEF U, R
    <3> QED BY <2>1
  <2>3. \A q, o \in U : f[q] = f[o] => q = o
    <3> HIDE DEF f, U, M
    <3> QED BY <1>5, <1>6
  <2> HIDE DEF f, U, R
  <2> QED BY <2>2, <2>3 DEF Injection, IsInjective
<1> HIDE DEF U, M, f, m
<1>10. IsFiniteSet(M \ {m}) /\ Cardinality(M \ {m}) = Cardinality(M) - 1
  BY <1>1, <1>4, FS_RemoveElement
<1>11. IsFiniteSet(R) /\ Cardinality(R) = Cardinality(M) - 1 - 1
  <2>1. n \in M \ {m}
    BY <1>8
  <2>2. PICK T : T = M \ {m}
    OBVIOUS
  <2>3. IsFiniteSet(T \ {n}) /\ Cardinality(T \ {n}) = Cardinality(T) - 1
    BY <1>10, <2>1, <2>2, FS_RemoveElement
  <2> QED BY <1>10, <2>2, <2>3
<1> HIDE DEF R
<1>12. Cardinality(U) <= Cardinality(R)
  BY <1>1, <1>9, <1>11, FS_Injection
<1>13. pgrefc[g] + Uncounted(g) = Uses(g)
  BY DEF CountInv, Counts
<1>14. Uses(g) >= MapN(g)
  BY UsesParts, PartsNat DEF TabN, SlotN, HandN
<1>15. Uses(g) \in Nat /\ MapN(g) \in Nat
  BY UsesParts, PartsNat DEF TabN, SlotN, HandN
<1> QED BY <1>1, <1>2, <1>11, <1>12, <1>13, <1>14, <1>15

(* A page fault: what the handler finds.                                     *)
LEMMA FaultPriv ==
    ASSUME TypeInv, CountInv, PrivInv, NEW p \in Procs, Fault(p)
    PROVE  PrivInv'
<1>1. pc[p] = "user" /\ UNCHANGED <<pt, tlb, state, sz, pgdir>>
  BY DEF Fault, At, tables, ptable
<1>2. /\ loc[p].op = "none" /\ loc[p].pd = NoPage
      /\ pgdir[p] \in Pages /\ state[p] = "RUNNABLE"
  BY <1>1, UserOf
<1>3. CASE Panic("page not present")
  BY <1>1, <1>3, Halts DEF Panic
<1>4. ASSUME NEW v \in VA, pt[pgdir[p]][v].pa # NoPage, NEW l, l \in {"own", "dup"},
             GotoWith(p, l, [NoLoc EXCEPT !.op = "fault", !.va = v, !.pa = pt[pgdir[p]][v].pa,
                                          !.refc = pgrefc[pt[pgdir[p]][v].pa]])
      PROVE  PrivInv'
  <2> DEFINE g == pt[pgdir[p]][v].pa
             r == [NoLoc EXCEPT !.op = "fault", !.va = v, !.pa = g, !.refc = pgrefc[g]]
  <2>1. /\ r.op = "fault" /\ r.va = v /\ r.refc = pgrefc[g] /\ r.pd = NoPage /\ r.pg = NoPage
        /\ GotoWith(p, l, r)
    BY <1>4 DEF NoLoc
  <2> HIDE DEF r
  <2>2. OthersSame(p) /\ pc'[p] = l /\ loc'[p] = r
    BY <1>1, <2>1, MovesSame
  <2>3. g \in Pages
    BY <1>2, <1>4, PteOf DEF Ptes
  <2>4. PtSame /\ PteSound' /\ Private' /\ Within(p)
    BY <1>1, PtKept, FadesKeep, SameWithin
  <2>5. Freshes'
    BY <2>1, <2>2, <2>4, FreshSame DEF OthersSame, SameProc
  <2>6. OwnImage(p)' /\ NewImage(p)'
    <3>1. OwnImage(p)'
      BY <1>1, <1>2, <2>1, <2>2, <2>4, PlainImage
    <3>2. NewImage(p)'
      BY <1>4, <2>1, <2>2, NoNewImage
    <3> QED BY <3>1, <3>2
  <2>7. TlbOK(p)'
    BY <1>1, <1>2, <1>4, <2>1, <2>2, <2>4, KeptTlb
  <2>8. OwnDue(p)'
    <3> SUFFICES ASSUME pgrefc[g] = 1
                 PROVE  OwnDue(p)'
      BY <2>1, <2>2 DEF OwnDue
    <3>1. Sole(g, pgdir[p], pgdir[p], v)
      BY <1>1, <1>2, <2>3, LastUse
    <3>2. pt'[pgdir'[p]][loc'[p].va].pa = g
      BY <1>1, <2>1, <2>2
    <3>3. Sole(pt[pgdir[p]][loc[p].va].pa, pgdir[p], pgdir[p], loc[p].va)'
      <4>1. \A e \in Pages, w \in VA : pt'[e][w].pa = g => w = v /\ e = pgdir[p]
        BY <1>1, <3>1 DEF Sole
      <4> HIDE DEF g
      <4> QED BY <1>1, <2>1, <2>2, <3>2, <4>1 DEF Sole
    <3> QED BY <1>4, <3>2, <3>3 DEF OwnDue
  <2> QED BY <2>2, <2>4, <2>5, <2>6, <2>7, <2>8, Acts DEF ProcOK
<1>5. PICK v \in VA :
        \/ Panic("page not present")
        \/ /\ pt[pgdir[p]][v].pa # NoPage
           /\ GotoWith(p, IF pgrefc[pt[pgdir[p]][v].pa] > 1 THEN "dup" ELSE "own",
                [NoLoc EXCEPT !.op = "fault", !.va = v, !.pa = pt[pgdir[p]][v].pa,
                              !.refc = pgrefc[pt[pgdir[p]][v].pa]])
  BY DEF Fault
<1> QED BY <1>3, <1>4, <1>5

-----------------------------------------------------------------------------
(* Steps that change the page tables. *)

LEMMA CowOwnPriv ==
    ASSUME TypeInv, CountInv, PrivInv, NEW p \in Procs, CowOwn(p)
    PROVE  PrivInv'
<1>1. pc[p] = "own" /\ Lcr3(p) /\ Return(p) /\ UNCHANGED <<state, sz, pgdir>>
  BY DEF CowOwn, At, ptable
<1>2. loc[p].op = "fault" /\ pgdir[p] \in Pages /\ loc[p].va \in VA /\ loc[p].pd = NoPage
  BY <1>1, FaultOf
<1>3. GotoWith(p, "user", NoLoc)
  BY <1>1, ReturnIs
<1>4. OthersSame(p) /\ pc'[p] = "user" /\ loc'[p] = NoLoc
  BY <1>1, <1>3, MovesSame
<1>5. PtSame /\ PteSound' /\ Private'
  <2>1. CASE UNCHANGED pt
    BY <2>1, PtKept, FadesKeep
  <2>2. CASE loc[p].refc = 1 /\ pt' = [pt EXCEPT ![pgdir[p]][loc[p].va].w = TRUE]
    <3> DEFINE d == pgdir[p]
               v == loc[p].va
               x == [pt[d][v] EXCEPT !.w = TRUE]
    <3>1. pt[d][v].pa # NoPage /\ Sole(pt[d][v].pa, d, d, v)
      BY <1>1, <2>2, OwnOf DEF OwnDue
    <3>2. x.pa = pt[d][v].pa /\ x.w = TRUE /\ x.u = pt[d][v].u
      BY <1>2, PteOf DEF Ptes
    <3>3. \A e \in Pages, w \in VA : pt'[e][w] = IF e = d /\ w = v THEN x ELSE pt[e][w]
      BY <1>2, <2>2 DEF TypeInv, TypeOK, TablesType
    <3>4. PtSame
      <4> HIDE DEF x, d, v
      <4> QED BY <3>2, <3>3 DEF PtSame
    <3>5. PteSound'
      <4> HIDE DEF x, d, v
      <4> QED BY <3>1, <3>2, <3>3 DEF PteSound, PrivInv
    <3>6. Private'
      <4> SUFFICES ASSUME NEW e \in Pages, NEW w \in VA, pt'[e][w].w,
                          NEW f \in Pages, NEW u \in VA, pt'[f][u].pa = pt'[e][w].pa
                   PROVE  u = w /\ f = e
        BY DEF Private, Sole
      <4> HIDE DEF x, d, v
      <4>1. pt[f][u].pa = pt[e][w].pa
        BY <3>4 DEF PtSame
      <4>2. CASE e = d /\ w = v
        BY <3>1, <4>1, <4>2 DEF Sole
      <4>3. CASE ~(e = d /\ w = v)
        BY <3>3, <4>1, <4>3 DEF PrivInv, Private, Sole
      <4> QED BY <4>2, <4>3
    <3> QED BY <3>4, <3>5, <3>6
  <2> QED BY <2>1, <2>2 DEF CowOwn
<1>6. Within(p) /\ Freshes'
  BY <1>4, <1>5, NoLocIs, SameWithin, FreshSame DEF OthersSame, SameProc
<1>7. OwnImage(p)'
  BY <1>1, <1>2, <1>4, <1>5, NoLocIs, PlainImage
<1>8. NewImage(p)' /\ OwnDue(p)'
  BY <1>4, NoLocIs, NoNewImage DEF OwnDue
<1> QED BY <1>1, <1>4, <1>5, <1>6, <1>7, <1>8, FlushedTlb, Acts DEF ProcOK

(* The handler's new copy takes the place of the page that was shared.       *)
LEMMA CowMovePriv ==
    ASSUME TypeInv, CountInv, PrivInv, NEW p \in Procs, CowMove(p)
    PROVE  PrivInv'
<1> DEFINE d == pgdir[p]
           v == loc[p].va
           g == loc[p].pg
           r == [loc[p] EXCEPT !.pg = NoPage]
<1>1. /\ pc[p] = "move" /\ pt' = [pt EXCEPT ![d][v] = Pte(g, TRUE, TRUE)]
      /\ GotoWith(p, "decr", r) /\ UNCHANGED <<tlb, state, sz, pgdir>>
  BY DEF CowMove, At, ptable
<1>2. /\ loc[p].op = "fault" /\ d \in Pages /\ v \in VA /\ loc[p].pd = NoPage /\ g \in Pages
      /\ pt[d][v].pa = loc[p].pa /\ loc[p].pa \in Pages
  BY <1>1, FaultOf, OwnOf DEF LocalsOK, CountInv, Hands, HandOK, FaultDue
<1>3. /\ r.op = "fault" /\ r.va = v /\ r.pg = NoPage /\ r.pd = NoPage
  BY <1>2, OwnOf DEF Locs
<1> HIDE DEF r
<1>4. OthersSame(p) /\ pc'[p] = "decr" /\ loc'[p] = r
  BY <1>1, MovesSame
<1>5. Unmapped(g)
  BY <1>2, CowAssumption DEF PrivInv, Freshes
<1>6. PtSets(d, v, Pte(g, TRUE, TRUE))
  BY <1>1, <1>2, SetsOf
<1>7. PteSound' /\ Private'
  BY <1>2, <1>5, <1>6, GetsKeeps
<1>8. PtMoves(d, v, g)
  <2> HIDE DEF d, v, g
  <2> QED BY <1>6 DEF PtSets, PtMoves, Pte
<1>9. Within(p)
  BY <1>2, <1>5, <1>8 DEF Within, Entry, PtMoves
<1>10. Freshes'
  <2>1. FreshEntries(p)
    BY <1>3, <1>4, <1>8 DEF FreshEntries, PtMoves
  <2> QED BY <1>3, <1>4, <2>1, FreshKept DEF OthersSame, SameProc
<1>11. OwnImage(p)'
  <2>1. state[p] = "RUNNABLE" => Filled(d, sz[p], sz[p])
    BY <1>2, OwnOf DEF OwnImage
  <2>2. \A w \in VA : pt'[d][w].pa = NoPage <=> pt[d][w].pa = NoPage
    BY <1>2, <1>8, CowAssumption DEF PtMoves
  <2> QED BY <1>1, <1>3, <1>4, <2>1, <2>2 DEF OwnImage, Filled
<1>12. NewImage(p)' /\ OwnDue(p)'
  BY <1>3, <1>4, NoNewImage DEF OwnDue
<1>13. TlbOK(p)'
  <2> SUFFICES ASSUME NEW w \in VA
               PROVE  Cached(p, w)'
    BY DEF TlbOK
  <2>1. Cached(p, w)
    BY OwnOf DEF TlbOK
  <2>2. CASE w = v
    BY <1>1, <1>3, <1>4, <2>1, <2>2 DEF Cached
  <2>3. CASE w # v /\ tlb[p][w] # NoPage
    <3>1. /\ state[p] = "RUNNABLE" /\ w < sz[p]
          /\ pt[d][w].pa = tlb[p][w] /\ Sole(tlb[p][w], d, NoPage, w)
      BY <1>1, <1>2, <2>1, <2>3 DEF Cached
    <3>2. tlb[p][w] # g /\ pt'[d][w].pa = tlb[p][w]
      BY <1>2, <1>5, <1>8, <2>3, <3>1 DEF PtMoves, Unmapped
    <3>3. \A e \in Pages, u \in VA : pt'[e][u].pa = tlb[p][w] => u = w /\ (e = d \/ e = NoPage)
      BY <1>8, <3>1, <3>2 DEF PtMoves, Sole
    <3>4. Sole(tlb[p][w], pgdir[p], loc[p].pd, w)'
      BY <1>1, <1>3, <1>4, <3>3 DEF Sole
    <3> QED BY <1>1, <1>4, <3>1, <3>2, <3>4 DEF Cached
  <2>4. CASE tlb[p][w] = NoPage
    BY <1>1, <2>4 DEF Cached
  <2> QED BY <2>2, <2>3, <2>4
<1> QED BY <1>4, <1>7, <1>9, <1>10, <1>11, <1>12, <1>13, Acts DEF ProcOK

(* Translations survive a mapping of a page they do not have.                *)
LEMMA MapTlb ==
    ASSUME TypeInv, PrivInv, NEW p \in Procs, NEW d \in Pages, NEW v \in VA, NEW a,
           PtMoves(d, v, a), pt[d][v].pa = NoPage, Unmapped(a),
           tlb'[p] = tlb[p], state'[p] = state[p], sz'[p] = sz[p], pgdir'[p] = pgdir[p],
           pc'[p] # "commit", pc[p] # "decr", loc[p].op # "shrink", loc'[p].pd = loc[p].pd
    PROVE  TlbOK(p)'
<1> SUFFICES ASSUME NEW w \in VA, tlb'[p][w] # NoPage
             PROVE  /\ state'[p] = "RUNNABLE" /\ w < sz'[p]
                    /\ pt'[pgdir'[p]][w].pa = tlb'[p][w]
                    /\ Sole(tlb[p][w], pgdir[p], loc[p].pd, w)'
  BY DEF TlbOK, Cached
<1>1. /\ state[p] = "RUNNABLE" /\ w < sz[p]
      /\ pt[pgdir[p]][w].pa = tlb[p][w]
      /\ Sole(tlb[p][w], pgdir[p], loc[p].pd, w)
  BY DEF PrivInv, ProcOK, TlbOK, Cached
<1>2. pgdir[p] \in Pages /\ tlb[p][w] # NoPage
  BY <1>1 DEF TypeInv, Control, SlotOK
<1>3. tlb[p][w] # a /\ ~(d = pgdir[p] /\ w = v)
  BY <1>1, <1>2 DEF Unmapped
<1>4. pt'[pgdir'[p]][w].pa = tlb'[p][w]
  BY <1>1, <1>2, <1>3 DEF PtMoves
<1>5. \A e \in Pages, u \in VA :
          pt'[e][u].pa = tlb[p][w] => u = w /\ (e = pgdir[p] \/ e = loc[p].pd)
  BY <1>1, <1>3 DEF PtMoves, Sole
<1>6. Sole(tlb[p][w], pgdir[p], loc[p].pd, w)'
  BY <1>5 DEF Sole
<1> QED BY <1>1, <1>4, <1>6

LEMMA FilledMore ==
    ASSUME NEW d \in Pages, NEW n \in 0 .. MaxSz, Filled(d, n, n), NEW v \in VA, v = n,
           NEW a, a # NoPage, PtMoves(d, v, a)
    PROVE  \A w \in VA : /\ w < n + 1 => pt'[d][w].pa # NoPage
                         /\ w >= n + 1 => pt'[d][w].pa = NoPage
<1> SUFFICES ASSUME NEW w \in VA
             PROVE  /\ w < n + 1 => pt'[d][w].pa # NoPage
                    /\ w >= n + 1 => pt'[d][w].pa = NoPage
  OBVIOUS
<1>1. w \in Int /\ n \in Int
  BY CowAssumption DEF VA
<1>2. pt'[d][w].pa = IF w = v THEN a ELSE pt[d][w].pa
  BY DEF PtMoves
<1>3. (w < n => pt[d][w].pa # NoPage) /\ (w >= n => pt[d][w].pa = NoPage)
  BY DEF Filled
<1> QED BY <1>1, <1>2, <1>3

(* mappages of a page in hand.                                               *)
LEMMA MapsPriv ==
    ASSUME TypeInv, CountInv, PrivInv, NEW p \in Procs, pc[p] = "map",
           NEW d, d = Dir(p), NEW v, v = loc[p].i, NEW g, g = loc[p].pg, pt[d][v].pa = NoPage,
           PtSets(d, v, Pte(g, TRUE, TRUE)), NEW r, GotoWith(p, "alloc", r),
           r.i = v + 1, r.pg = NoPage, r.op = loc[p].op, r.pd = loc[p].pd,
           r.lim = loc[p].lim, r.base = loc[p].base,
           UNCHANGED <<tlb, state, sz, pgdir>>
    PROVE  PrivInv'
<1>1. /\ d \in Pages /\ g \in Pages /\ v < loc[p].lim
      /\ loc[p].op \in {"init", "exec", "grow"}
  <2>1. LocalsOK(pc[p], loc[p]) /\ loc[p].op \in Ops
    BY OwnOf DEF Locs
  <2>2. d \in Pages
    BY DirOf
  <2> QED BY <2>1, <2>2 DEF LocalsOK, OpAt, Ops
<1>2. v \in VA /\ v + 1 <= loc[p].lim /\ v \in 0 .. MaxSz
  BY <1>1, OwnOf DEF VA
<1>3. OthersSame(p) /\ pc'[p] = "alloc" /\ loc'[p] = r
  BY MovesSame
<1>4. Unmapped(g)
  BY <1>1, CowAssumption DEF PrivInv, Freshes
<1>5. PteSound' /\ Private'
  BY <1>1, <1>2, <1>4, GetsKeeps
<1>6. PtMoves(d, v, g)
  BY DEF PtSets, PtMoves, Pte
<1>7. d \in {pgdir[p], loc[p].pd}
  BY DEF Dir
<1>8. Within(p)
  <2> SUFFICES ASSUME NEW e \in Pages, NEW w \in VA, pt'[e][w].pa # pt[e][w].pa
               PROVE  e \in {pgdir[p], loc[p].pd} /\ Entry(p, pt'[e][w].pa)
    BY DEF Within
  <2>1. e = d /\ pt'[e][w].pa = g
    BY <1>6 DEF PtMoves
  <2> QED BY <1>4, <1>7, <2>1 DEF Entry
<1>9. Freshes'
  <2>1. FreshEntries(p)
    <3> SUFFICES ASSUME NEW e \in Pages, NEW w \in VA, pt'[e][w].pa # pt[e][w].pa
                 PROVE  pt'[e][w].pa = loc[p].pg /\ loc'[p].pg = NoPage
      BY DEF FreshEntries
    <3>1. pt'[e][w].pa = g
      BY <1>6 DEF PtMoves
    <3> QED BY <1>3, <3>1
  <2> QED BY <1>3, <2>1, FreshKept DEF OthersSame, SameProc
<1>10. TlbOK(p)'
  BY <1>1, <1>2, <1>3, <1>4, <1>6, MapTlb
<1>11. OwnDue(p)'
  BY <1>3 DEF OwnDue
<1>12. /\ Filled(d, v, v) => \A w \in VA : /\ w < v + 1 => pt'[d][w].pa # NoPage
                                           /\ w >= v + 1 => pt'[d][w].pa = NoPage
       /\ \A e \in Pages : e # d => \A w \in VA : pt'[e][w].pa = pt[e][w].pa
  <2>1. g # NoPage
    BY <1>1, CowAssumption
  <2>2. ASSUME Filled(d, v, v)
        PROVE  \A w \in VA : /\ w < v + 1 => pt'[d][w].pa # NoPage
                             /\ w >= v + 1 => pt'[d][w].pa = NoPage
    BY <1>1, <1>2, <1>6, <2>1, <2>2, FilledMore
  <2>3. \A e \in Pages : e # d => \A w \in VA : pt'[e][w].pa = pt[e][w].pa
    BY <1>6 DEF PtMoves
  <2> QED BY <2>2, <2>3
<1>13. CASE loc[p].op = "grow"
  <2>1. state[p] = "RUNNABLE" /\ pgdir[p] \in Pages /\ loc[p].pd = NoPage /\ d = pgdir[p]
    BY <1>13, RunnableOf, NoDirOf DEF Dir
  <2>2. loc[p].base = sz[p] /\ loc[p].base <= v /\ Filled(d, v, v)
    BY <1>13, <2>1, OwnOf DEF OwnImage
  <2>3. loc[p].base <= v + 1
    BY <2>2, OwnOf
  <2>4. OwnImage(p)'
    <3>1. \A w \in VA : /\ w < r.i => pt'[pgdir'[p]][w].pa # NoPage
                        /\ w >= r.i => pt'[pgdir'[p]][w].pa = NoPage
      BY <1>12, <2>1, <2>2
    <3> QED BY <1>2, <1>3, <1>13, <2>2, <2>3, <3>1 DEF OwnImage, Filled
  <2>5. NewImage(p)'
    BY <1>3, <1>13, NoNewImage
  <2> QED BY <1>3, <1>5, <1>8, <1>9, <1>10, <1>11, <2>4, <2>5, Acts DEF ProcOK
<1>14. CASE loc[p].op \in {"init", "exec"}
  <2>1. loc[p].pd \in Pages /\ d = loc[p].pd
    BY <1>14, NewOf, CowAssumption DEF Dir
  <2>2. Filled(d, v, v) /\ (loc[p].op = "init" => loc[p].lim = 1)
    BY <1>14, <2>1, OwnOf DEF NewImage
  <2>3. OwnImage(p)'
    <3>1. state[p] = "RUNNABLE" => /\ pgdir[p] \in Pages /\ pgdir[p] # d
                                   /\ Filled(pgdir[p], sz[p], sz[p])
      BY <1>14, <2>1, OwnOf DEF OwnImage, CountInv, OneOwner, TypeInv, Control, SlotOK
    <3> QED BY <1>3, <1>12, <1>14, <3>1 DEF OwnImage, Filled
  <2>4. NewImage(p)'
    <3>1. \A w \in VA : /\ w < r.i => pt'[r.pd][w].pa # NoPage
                        /\ w >= r.i => pt'[r.pd][w].pa = NoPage
      BY <1>12, <2>1, <2>2
    <3> QED BY <1>2, <1>3, <1>14, <2>2, <3>1 DEF NewImage, Filled
  <2> QED BY <1>3, <1>5, <1>8, <1>9, <1>10, <1>11, <2>3, <2>4, Acts DEF ProcOK
<1> QED BY <1>1, <1>13, <1>14

LEMMA MapPagePriv ==
    ASSUME TypeInv, CountInv, PrivInv, NEW p \in Procs, MapPage(p)
    PROVE  PrivInv'
<1>1. pc[p] = "map" /\ UNCHANGED <<tlb, state, sz, pgdir>>
  BY DEF MapPage, At, ptable
<1>2. CASE Panic("remap") /\ UNCHANGED tables
  BY <1>1, <1>2, Halts DEF Panic, tables
<1>3. CASE Panic("userinit") /\ UNCHANGED tables
  BY <1>1, <1>3, Halts DEF Panic, tables
<1>4. CASE loc[p].op # "init" /\ Goto(p, "dealloc") /\ UNCHANGED tables
  <2>1. loc[p].op \in {"exec", "grow"} /\ loc[p].i < loc[p].lim
    BY <1>1, <1>4, OwnOf DEF LocalsOK, OpAt, Locs, Ops
  <2>2. loc[p].i <= loc[p].lim /\ UNCHANGED pt
    BY <1>4, <2>1, OwnOf DEF tables
  <2> QED BY <1>1, <1>4, <2>1, <2>2, GivesUp
<1>5. CASE /\ pt[Dir(p)][loc[p].i].pa = NoPage
           /\ pt' = [pt EXCEPT ![Dir(p)][loc[p].i] = Pte(loc[p].pg, TRUE, TRUE)]
           /\ GotoWith(p, "alloc", [loc[p] EXCEPT !.i = @ + 1, !.pg = NoPage])
  <2> DEFINE d == Dir(p)
             r == [loc[p] EXCEPT !.i = @ + 1, !.pg = NoPage]
  <2>1. loc[p].i < loc[p].lim /\ d \in Pages
    BY <1>1, DirOf, OwnOf DEF LocalsOK
  <2>2. loc[p].i \in VA
    BY <2>1, OwnOf DEF VA
  <2>3. PtSets(d, loc[p].i, Pte(loc[p].pg, TRUE, TRUE))
    BY <1>5, <2>1, <2>2, SetsOf
  <2>4. /\ r.i = loc[p].i + 1 /\ r.pg = NoPage /\ r.op = loc[p].op /\ r.pd = loc[p].pd
        /\ r.lim = loc[p].lim /\ r.base = loc[p].base
    BY OwnOf DEF Locs
  <2>5. GotoWith(p, "alloc", r)
    BY <1>5
  <2> HIDE DEF r
  <2> QED BY <1>1, <1>5, <2>3, <2>4, <2>5, MapsPriv
<1> QED BY <1>2, <1>3, <1>4, <1>5 DEF MapPage

(* deallocuvm clears the entry of a page it has given to kfree.              *)
LEMMA DropPriv ==
    ASSUME TypeInv, CountInv, PrivInv, NEW p \in Procs, pc[p] \in {"dealloc", "freevm"},
           NEW d \in Pages, d \in {pgdir[p], loc[p].pd}, NEW v \in VA, PtSets(d, v, NoPte),
           d = pgdir[p] => loc[p].op \in {"grow", "shrink"} /\ v >= loc[p].base,
           UNCHANGED <<tlb, state, sz, pgdir, pc, loc>>
    PROVE  PrivInv'
<1>1. PtMoves(d, v, NoPage)
  BY DEF PtSets, PtMoves, NoPte
<1>2. OthersSame(p) /\ PteSound' /\ Private'
  BY ClearKeeps DEF OthersSame, SameProc
<1>3. Within(p)
  <2> SUFFICES ASSUME NEW e \in Pages, NEW w \in VA, pt'[e][w].pa # pt[e][w].pa
               PROVE  e \in {pgdir[p], loc[p].pd} /\ Entry(p, pt'[e][w].pa)
    BY DEF Within
  <2>1. e = d /\ pt'[e][w].pa = NoPage
    BY <1>1 DEF PtMoves
  <2> QED BY <2>1 DEF Entry
<1>4. Freshes'
  <2>1. FreshEntries(p)
    BY <1>1 DEF FreshEntries, PtMoves
  <2> QED BY <2>1, FreshKept
<1>5. \A e \in Pages, w \in VA : /\ pt[e][w].pa = NoPage => pt'[e][w].pa = NoPage
                                 /\ ~(e = d /\ w = v) => pt'[e][w].pa = pt[e][w].pa
  BY <1>1 DEF PtMoves
<1>6. state[p] = "RUNNABLE" => pgdir[p] \in Pages
  BY DEF TypeInv, Control, SlotOK
<1>7. OwnImage(p)'
  <2>1. CASE d = pgdir[p]
    <3>1. state[p] = "RUNNABLE" => Filled(d, loc[p].base, loc[p].lim)
      <4>1. loc[p].op = "grow" => pc[p] = "dealloc"
        BY OwnOf DEF LocalsOK, OpAt
      <4> QED BY <2>1, <4>1, OwnOf DEF OwnImage
    <3>2. \A w \in VA : w < loc[p].base => w # v
      BY <2>1, OwnOf DEF VA
    <3>3. state[p] = "RUNNABLE" =>
              \A w \in VA : /\ w < loc[p].base => pt'[d][w].pa # NoPage
                            /\ w >= loc[p].lim => pt'[d][w].pa = NoPage
      <4>1. \A w \in VA : pt'[d][w].pa = IF w = v THEN NoPage ELSE pt[d][w].pa
        BY <1>1 DEF PtMoves
      <4> QED BY <3>1, <3>2, <4>1 DEF Filled
    <3>4. loc[p].op = "grow" => pc[p] = "dealloc"
      BY OwnOf DEF LocalsOK, OpAt
    <3> QED BY <2>1, <3>3, <3>4, OwnOf DEF OwnImage, Filled
  <2>2. CASE d # pgdir[p]
    <3>1. \A w \in VA : state[p] = "RUNNABLE" => pt'[pgdir[p]][w].pa = pt[pgdir[p]][w].pa
      BY <1>1, <1>6, <2>2 DEF PtMoves
    <3>2. \A a, b : state[p] = "RUNNABLE" /\ Filled(pgdir[p], a, b) =>
              \A w \in VA : /\ w < a => pt'[pgdir[p]][w].pa # NoPage
                            /\ w >= b => pt'[pgdir[p]][w].pa = NoPage
      BY <3>1 DEF Filled
    <3> QED BY <3>2, OwnOf DEF OwnImage, Filled
  <2> QED BY <2>1, <2>2
<1>8. NewImage(p)'
  BY OwnOf DEF NewImage
<1>9. OwnDue(p)'
  BY DEF OwnDue
<1>10. TlbOK(p)'
  <2> SUFFICES ASSUME NEW w \in VA
               PROVE  Cached(p, w)'
    BY DEF TlbOK
  <2>1. Cached(p, w)
    BY OwnOf DEF TlbOK
  <2>2. CASE tlb[p][w] = NoPage \/ (loc[p].op = "shrink" /\ w >= loc[p].base)
    BY <2>1, <2>2 DEF Cached
  <2>3. CASE tlb[p][w] # NoPage /\ ~(loc[p].op = "shrink" /\ w >= loc[p].base)
    <3>1. /\ state[p] = "RUNNABLE" /\ w < sz[p] /\ pgdir[p] \in Pages
          /\ pt[pgdir[p]][w].pa = tlb[p][w] /\ Sole(tlb[p][w], pgdir[p], loc[p].pd, w)
      BY <1>6, <2>1, <2>3 DEF Cached
    <3>2. ~(pgdir[p] = d /\ w = v)
      <4>1. CASE d = pgdir[p] /\ loc[p].op = "grow"
        <5>1. loc[p].base = sz[p]
          BY <3>1, <4>1, OwnOf DEF OwnImage
        <5> QED BY <3>1, <4>1, <5>1, OwnOf DEF VA
      <4>2. CASE d = pgdir[p] /\ loc[p].op = "shrink"
        BY <2>3, <4>2, OwnOf DEF VA
      <4> QED BY <4>1, <4>2
    <3>3. pt'[pgdir[p]][w].pa = tlb[p][w]
      BY <1>1, <3>1, <3>2 DEF PtMoves
    <3>4. \A e \in Pages, u \in VA :
              pt'[e][u].pa = tlb[p][w] => u = w /\ (e = pgdir[p] \/ e = loc[p].pd)
      BY <1>1, <2>3, <3>1 DEF PtMoves, Sole
    <3>5. Sole(tlb[p][w], pgdir[p], loc[p].pd, w)'
      BY <3>4 DEF Sole
    <3> QED BY <2>1, <3>1, <3>3, <3>5 DEF Cached
  <2> QED BY <2>2, <2>3
<1> QED BY <1>2, <1>3, <1>4, <1>7, <1>8, <1>9, <1>10, Acts DEF ProcOK

LEMMA DeallocPagePriv ==
    ASSUME TypeInv, CountInv, PrivInv, NEW p \in Procs, DeallocPage(p)
    PROVE  PrivInv'
<1>1. pc[p] = "dealloc" /\ UNCHANGED <<tlb, state, sz, pgdir, pc, loc>>
  BY DEF DeallocPage, At, ptable
<1>2. PICK v \in VA : v >= loc[p].base /\ pt' = [pt EXCEPT ![Dir(p)][v] = NoPte]
  BY OwnOf DEF DeallocPage, IsFirst, Mapped, DropPage, VA
<1>3. Dir(p) \in Pages /\ Dir(p) \in {pgdir[p], loc[p].pd}
  BY <1>1, DirOf DEF Dir
<1>4. PtSets(Dir(p), v, NoPte)
  BY <1>2, <1>3, SetsOf
<1>5. Dir(p) = pgdir[p] => loc[p].op \in {"grow", "shrink"}
  <2>1. loc[p].op \in {"grow", "shrink", "exec"}
    BY <1>1, OwnOf DEF LocalsOK, OpAt, Locs, Ops
  <2>2. loc[p].op = "exec" => loc[p].pd \in Pages
    BY <1>1, OwnOf DEF LocalsOK
  <2>3. loc[p].op = "exec" => Dir(p) # pgdir[p]
    BY <2>2, CowAssumption DEF Dir, CountInv, OneOwner
  <2> QED BY <2>1, <2>3
<1> DEFINE d == Dir(p)
<1>6. PtSets(d, v, NoPte) /\ d \in Pages /\ d \in {pgdir[p], loc[p].pd}
      /\ (d = pgdir[p] => loc[p].op \in {"grow", "shrink"})
  BY <1>3, <1>4, <1>5
<1> HIDE DEF d
<1> QED BY <1>1, <1>2, <1>6, DropPriv

LEMMA FreePagePriv ==
    ASSUME TypeInv, CountInv, PrivInv, NEW p \in Procs, FreePage(p)
    PROVE  PrivInv'
<1>1. pc[p] = "freevm" /\ UNCHANGED <<tlb, state, sz, pgdir, pc, loc>>
  BY DEF FreePage, At, ptable
<1>2. PICK v \in VA : pt' = [pt EXCEPT ![loc[p].pd][v] = NoPte]
  BY DEF FreePage, DropPage
<1>3. loc[p].pd \in Pages
  <2>1. loc[p].op \in {"fork", "exec", "wait"}
    BY <1>1, OwnOf DEF LocalsOK, OpAt, Locs, Ops
  <2> QED BY <1>1, <2>1, OwnOf DEF LocalsOK
<1>4. PtSets(loc[p].pd, v, NoPte)
  BY <1>2, <1>3, SetsOf
<1>5. loc[p].pd # pgdir[p]
  BY <1>3 DEF CountInv, OneOwner
<1> QED BY <1>1, <1>3, <1>4, <1>5, DropPriv


(* copyuvm maps a page of the parent in the child and closes both entries.   *)
PtShares(f, d, v, x) ==
    \A e \in Pages, w \in VA :
        pt'[e][w] = IF w = v /\ (e = f \/ e = d) THEN x ELSE pt[e][w]

LEMMA SharesKeeps ==
    ASSUME PrivInv, NEW f \in Pages, NEW d \in Pages, NEW v \in VA, NEW x,
           PtShares(f, d, v, x), x.pa = pt[f][v].pa, x.pa # NoPage, ~x.w
    PROVE  PteSound' /\ Private' /\ PtMoves(d, v, x.pa)
<1>1. PteSound'
  BY DEF PtShares, PteSound, PrivInv
<1>2. Private'
  <2> SUFFICES ASSUME NEW e \in Pages, NEW w \in VA, pt'[e][w].w,
                      NEW c \in Pages, NEW u \in VA, pt'[c][u].pa = pt'[e][w].pa
               PROVE  u = w /\ c = e
    BY DEF Private, Sole
  <2>1. pt'[e][w] = pt[e][w] /\ ~(w = v /\ e = f)
    BY DEF PtShares
  <2>2. Sole(pt[e][w].pa, e, e, w)
    BY <2>1 DEF PrivInv, Private
  <2>3. CASE u = v /\ (c = f \/ c = d)
    <3>1. pt[f][v].pa = pt[e][w].pa
      BY <2>1, <2>3 DEF PtShares
    <3> QED BY <2>1, <2>2, <3>1 DEF Sole
  <2>4. CASE ~(u = v /\ (c = f \/ c = d))
    BY <2>1, <2>2, <2>4 DEF PtShares, Sole
  <2> QED BY <2>3, <2>4
<1>3. PtMoves(d, v, x.pa)
  BY DEF PtShares, PtMoves
<1> QED BY <1>1, <1>2, <1>3

LEMMA SharesPriv ==
    ASSUME TypeInv, CountInv, PrivInv, NEW p \in Procs, pc[p] = "copy", loc[p].i < sz[p],
           NEW x, x.pa = pt[pgdir[p]][loc[p].i].pa, x.pa # NoPage, ~x.w,
           PtShares(pgdir[p], loc[p].pd, loc[p].i, x),
           Goto(p, "incr"), UNCHANGED <<tlb, state, sz, pgdir>>
    PROVE  PrivInv'
<1> DEFINE d == loc[p].pd
           f == pgdir[p]
           i == loc[p].i
<1>1. loc[p].op = "fork" /\ d \in Pages /\ f \in Pages /\ f # d /\ i \in VA
  BY CopyPageOf
<1>2. PteSound' /\ Private' /\ PtMoves(d, i, x.pa)
  BY <1>1, SharesKeeps
<1>3. GotoWith(p, "incr", loc[p])
  BY GotoIsGotoWith DEF TypeInv, TypeOK
<1>4. OthersSame(p) /\ pc'[p] = "incr" /\ loc'[p] = loc[p]
  BY <1>3, MovesSame
<1>5. ASSUME NEW e \in Pages, NEW w \in VA, pt'[e][w].pa # pt[e][w].pa
      PROVE  e = d /\ w = i /\ pt'[e][w].pa = pt[f][i].pa
  BY <1>2, <1>5 DEF PtMoves
<1>6. Within(p)
  <2> SUFFICES ASSUME NEW e \in Pages, NEW w \in VA, pt'[e][w].pa # pt[e][w].pa
               PROVE  e \in {pgdir[p], loc[p].pd} /\ Entry(p, pt'[e][w].pa)
    BY DEF Within
  <2> QED BY <1>1, <1>5 DEF Entry
<1>7. Freshes'
  <2>1. FreshEntries(p)
    <3> SUFFICES ASSUME NEW e \in Pages, NEW w \in VA, pt'[e][w].pa # pt[e][w].pa
                 PROVE  \E c \in Pages, u \in VA : pt[c][u].pa = pt'[e][w].pa
      BY DEF FreshEntries
    <3> QED BY <1>1, <1>5
  <2> QED BY <1>4, <2>1, FreshKept DEF OthersSame, SameProc
<1>8. \A w \in VA : pt'[f][w].pa = pt[f][w].pa
  BY <1>1, <1>5
<1>9. OwnImage(p)'
  <2>1. state[p] = "RUNNABLE" => Filled(f, sz[p], sz[p])
    BY <1>1, OwnOf DEF OwnImage
  <2> QED BY <1>1, <1>4, <1>8, <2>1 DEF OwnImage, Filled
<1>10. NewImage(p)'
  <2>1. Filled(d, i, i) /\ i \in 0 .. MaxSz
    BY <1>1, OwnOf DEF NewImage
  <2>2. \A w \in VA : /\ w < i + 1 => pt'[d][w].pa # NoPage
                      /\ w >= i + 1 => pt'[d][w].pa = NoPage
    BY <1>1, <1>2, <2>1, FilledMore
  <2>3. i <= sz[p]
    BY OwnOf
  <2> QED BY <1>1, <1>4, <2>2, <2>3 DEF NewImage, Filled
<1>11. OwnDue(p)'
  BY <1>4 DEF OwnDue
<1>12. TlbOK(p)'
  <2> SUFFICES ASSUME NEW w \in VA, tlb[p][w] # NoPage
               PROVE  /\ state[p] = "RUNNABLE" /\ w < sz[p]
                      /\ pt'[f][w].pa = tlb[p][w]
                      /\ \A e \in Pages, u \in VA :
                            pt'[e][u].pa = tlb[p][w] => u = w /\ (e = f \/ e = d)
    BY <1>4 DEF TlbOK, Cached, Sole
  <2>1. /\ state[p] = "RUNNABLE" /\ w < sz[p]
        /\ pt[f][w].pa = tlb[p][w] /\ Sole(tlb[p][w], f, d, w)
    BY <1>1, OwnOf DEF TlbOK, Cached
  <2>2. ASSUME NEW e \in Pages, NEW u \in VA, pt'[e][u].pa = tlb[p][w]
        PROVE  u = w /\ (e = f \/ e = d)
    <3>1. CASE pt'[e][u].pa = pt[e][u].pa
      BY <2>1, <2>2, <3>1 DEF Sole
    <3>2. CASE pt'[e][u].pa # pt[e][u].pa
      <4>1. e = d /\ u = i /\ pt[f][i].pa = tlb[p][w]
        BY <1>5, <2>2, <3>2
      <4> QED BY <1>1, <2>1, <4>1 DEF Sole
    <3> QED BY <3>1, <3>2
  <2> QED BY <1>8, <2>1, <2>2
<1> QED BY <1>2, <1>4, <1>6, <1>7, <1>9, <1>10, <1>11, <1>12, Acts DEF ProcOK

LEMMA CopyPagePriv ==
    ASSUME TypeInv, CountInv, PrivInv, NEW p \in Procs, CopyPage(p)
    PROVE  PrivInv'
<1> DEFINE d   == loc[p].pd
           f   == pgdir[p]
           i   == loc[p].i
           ro  == [pt[f][i] EXCEPT !.w = FALSE]
           own == [pt EXCEPT ![f][i] = ro]
<1>1. pc[p] = "copy" /\ i < sz[p] /\ UNCHANGED <<tlb, state, sz, pgdir>>
  BY DEF CopyPage, At, ptable
<1>2. loc[p].op = "fork" /\ d \in Pages /\ f \in Pages /\ f # d /\ i \in VA
  BY <1>1, CopyPageOf
<1>3. ro \in Ptes /\ ro.pa = pt[f][i].pa /\ ~ro.w /\ (ro.u => pt[f][i].u)
  <2>1. pt[f][i] \in Ptes
    BY <1>2, PteOf
  <2> QED BY <2>1 DEF Ptes
<1> HIDE DEF ro
<1>4. /\ own \in [Pages -> [VA -> Ptes]]
      /\ \A e \in Pages, w \in VA : own[e][w] = IF e = f /\ w = i THEN ro ELSE pt[e][w]
  <2>1. pt \in [Pages -> [VA -> Ptes]]
    BY DEF TypeInv, TypeOK, TablesType
  <2> QED BY <1>2, <1>3, <2>1
<1> HIDE DEF own
<1>5. CASE Panic("copyuvm: page not present") /\ UNCHANGED tables
  BY <1>1, <1>5, Halts DEF Panic, tables
<1>6. ASSUME ro.pa # NoPage, pt' = [own EXCEPT ![d][i] = ro], Goto(p, "incr")
      PROVE  PrivInv'
  <2>1. PtShares(f, d, i, ro)
    BY <1>2, <1>4, <1>6 DEF PtShares
  <2> QED BY <1>1, <1>3, <1>6, <2>1, SharesPriv
<1>7. pt' = own => PtFades
  BY <1>3, <1>4 DEF PtFades
<1>8. ASSUME PtFades, Goto(p, "freevm")
      PROVE  PrivInv'
  <2>1. PtFades
    BY <1>8
  <2>2. GotoWith(p, "freevm", loc[p])
    BY <1>8, GotoIsGotoWith DEF TypeInv, TypeOK
  <2>3. OthersSame(p) /\ pc'[p] = "freevm" /\ loc'[p] = loc[p] /\ PtSame
    BY <1>1, <2>1, <2>2, MovesSame DEF PtFades, PtSame
  <2>4. OwnImage(p)'
    BY <1>1, <1>2, <2>3, PlainImage
  <2>5. NewImage(p)'
    BY <1>1, <1>2, <2>3, OwnOf DEF NewImage
  <2>6. /\ pc[p] # "decr" /\ loc[p].op # "shrink"
        /\ UNCHANGED <<state, pgdir>> /\ UNCHANGED <<tlb, sz>> /\ UNCHANGED sz
    BY <1>1, <1>2
  <2> QED BY <2>1, <2>2, <2>4, <2>5, <2>6, Calm
<1>9. \/ Panic("copyuvm: page not present") /\ UNCHANGED tables
      \/ ro.pa # NoPage /\ pt' = [own EXCEPT ![d][i] = ro] /\ Goto(p, "incr")
      \/ pt' = own /\ Goto(p, "freevm")
  BY DEF CopyPage, ro, own
<1> QED BY <1>5, <1>6, <1>7, <1>8, <1>9

-----------------------------------------------------------------------------
(* Processes come and go. *)

(* A step of p that may change the slot n too, and no mapping.               *)
LEMMA Lives ==
    ASSUME TypeInv, CountInv, PrivInv, NEW p \in Procs, NEW n \in Procs, UNCHANGED pt,
           \A q \in Procs : q # p /\ q # n => SameProc(q),
           loc'[p].pg \in {NoPage, loc[p].pg}, loc'[n].pg \in {NoPage, loc[n].pg},
           ProcOK(p)', ProcOK(n)'
    PROVE  PrivInv'
<1>1. PtSame /\ PteSound' /\ Private' /\ Within(p)
  BY PtKept, FadesKeep, SameWithin
<1>2. Freshes'
  BY <1>1, FreshSame DEF SameProc
<1>3. ASSUME NEW q \in Procs
      PROVE  ProcOK(q)'
  <2>1. CASE q = p \/ q = n
    BY <2>1
  <2>2. CASE q # p /\ q # n
    BY <1>1, <2>2, Bystander DEF PrivInv, CountInv
  <2> QED BY <2>1, <2>2
<1> QED BY <1>1, <1>2, <1>3 DEF PrivInv

(* A slot that does not execute caches nothing.                              *)
LEMMA NoTlb ==
    ASSUME PrivInv, NEW q \in Procs, state[q] # "RUNNABLE" \/ pc[q] = "commit"
    PROVE  \A v \in VA : tlb[q][v] = NoPage
BY DEF PrivInv, ProcOK, TlbOK, Cached

LEMMA IdleKept ==
    ASSUME NEW q \in Procs, state'[q] # "RUNNABLE", pc'[q] = "none", loc'[q].op = "none",
           \A v \in VA : tlb'[q][v] = NoPage
    PROVE  ProcOK(q)'
BY DEF ProcOK, OwnImage, NewImage, OwnDue, TlbOK, Cached

(* A process that executes user code, or starts to.                          *)
LEMMA UserKept ==
    ASSUME NEW q \in Procs, NEW d, NEW n, pgdir'[q] = d, sz'[q] = n, UNCHANGED pt,
           pc'[q] = "user", loc'[q] = NoLoc, state'[q] = "RUNNABLE" => Filled(d, n, n),
           TlbOK(q)'
    PROVE  ProcOK(q)'
<1>1. OwnImage(q)'
  BY NoLocIs DEF OwnImage, Filled
<1> QED BY <1>1, NoLocIs DEF ProcOK, NewImage, OwnDue

LEMMA EmptyTlb ==
    ASSUME NEW q \in Procs, \A v \in VA : tlb'[q][v] = NoPage
    PROVE  TlbOK(q)'
BY DEF TlbOK, Cached

LEMMA ForkPriv ==
    ASSUME TypeInv, CountInv, PrivInv, NEW p \in Procs, Fork(p)
    PROVE  PrivInv'
<1>1. pc[p] = "user" /\ UNCHANGED <<pt, tlb, sz, pgdir>>
  BY DEF Fork, At, tables
<1>2. PICK n \in Procs :
        /\ state[n] = "UNUSED" /\ state' = [state EXCEPT ![n] = "EMBRYO"]
        /\ GotoWith(p, "kstack", [NoLoc EXCEPT !.op = "fork", !.np = n])
  BY DEF Fork
<1> DEFINE r == [NoLoc EXCEPT !.op = "fork", !.np = n]
<1>3. r.op = "fork" /\ r.i = 0 /\ r.pd = NoPage /\ r.pg = NoPage /\ GotoWith(p, "kstack", r)
  BY <1>2 DEF NoLoc
<1> HIDE DEF r
<1>4. loc[p].op = "none" /\ loc[p].pd = NoPage /\ state[p] = "RUNNABLE" /\ n # p
  BY <1>1, <1>2, UserOf
<1>5. pc[n] = "none" /\ loc[n].op = "none"
  BY <1>2, UnusedOf
<1>6. /\ pc'[p] = "kstack" /\ loc'[p] = r /\ state'[n] = "EMBRYO"
      /\ \A q \in Procs : q # p => pc'[q] = pc[q] /\ loc'[q] = loc[q]
      /\ \A q \in Procs : q # n => state'[q] = state[q]
  BY <1>2, <1>3 DEF GotoWith, TypeInv, TypeOK, LocalType, PtableType
<1>7. ProcOK(p)'
  <2>1. OwnImage(p)'
    BY <1>1, <1>3, <1>4, <1>6, PlainImage DEF PtSame
  <2>2. NewImage(p)' /\ OwnDue(p)'
    BY <1>1, <1>3, <1>6, OwnOf DEF NewImage, OwnDue
  <2>3. TlbOK(p)'
    BY <1>1, <1>4, <1>6, KeptTlb DEF PtSame
  <2> QED BY <2>1, <2>2, <2>3 DEF ProcOK
<1>8. ProcOK(n)'
  <2>1. \A v \in VA : tlb'[n][v] = NoPage
    BY <1>1, <1>2, NoTlb
  <2> QED BY <1>4, <1>5, <1>6, <2>1, IdleKept
<1>9. \A q \in Procs : q # p /\ q # n => SameProc(q)
  BY <1>1, <1>6 DEF SameProc
<1> QED BY <1>1, <1>3, <1>4, <1>6, <1>7, <1>8, <1>9, Lives

(* A fork that fails, or a wait that has freed its child, gives up the slot. *)
LEMMA GivesSlot ==
    ASSUME TypeInv, CountInv, PrivInv, NEW p \in Procs, loc[p].op \in {"fork", "wait"},
           Return(p), state' = [state EXCEPT ![loc[p].np] = "UNUSED"],
           UNCHANGED <<pt, tlb, sz, pgdir>>, pc[p] # "decr",
           loc[p].pd = NoPage \/ \A v \in VA : pt[loc[p].pd][v].pa = NoPage
    PROVE  PrivInv'
<1>1. PICK n \in Procs : /\ n = loc[p].np /\ n # p
                         /\ pc[n] = "none" /\ loc[n].op = "none" /\ state[n] # "RUNNABLE"
                         /\ state[p] = "RUNNABLE"
  <2> DEFINE n == loc[p].np
  <2>1. n \in Procs /\ n # p /\ state[n] # "RUNNABLE" /\ pc[n] = "none"
    BY ForkOf, WaitOf, IdleOf
  <2>2. pc[p] # "none"
    BY OwnOf DEF LocalsOK, OpAt
  <2> QED BY <2>1, <2>2, IdleOf, RunnableOf
<1>2. /\ pc'[p] = "user" /\ loc'[p] = NoLoc /\ state'[n] = "UNUSED"
      /\ \A q \in Procs : q # p => pc'[q] = pc[q] /\ loc'[q] = loc[q]
      /\ \A q \in Procs : q # n => state'[q] = state[q]
  BY <1>1 DEF Return, GotoWith, TypeInv, TypeOK, LocalType, PtableType
<1>3. ProcOK(n)'
  BY <1>1, <1>2, NoTlb, IdleKept
<1>4. TlbOK(p)'
  BY <1>1, <1>2, NoLocIs, KeptTlb DEF PtSame
<1>5. ProcOK(p)'
  <2>1. Filled(pgdir[p], sz[p], sz[p])
    BY <1>1, OwnOf DEF OwnImage
  <2> QED BY <1>2, <1>4, <2>1, UserKept
<1>6. \A q \in Procs : q # p /\ q # n => SameProc(q)
  BY <1>2 DEF SameProc
<1> QED BY <1>1, <1>2, <1>3, <1>5, <1>6, NoLocIs, Lives

LEMMA AllocKstackPriv ==
    ASSUME TypeInv, CountInv, PrivInv, NEW p \in Procs, AllocKstack(p)
    PROVE  PrivInv'
<1>1. pc[p] = "kstack" /\ UNCHANGED <<pt, tlb, sz, pgdir>>
  BY DEF AllocKstack, At, tables
<1>2. loc[p].op \in {"init", "fork"} /\ loc[p].i = 0 /\ loc[p].pd = NoPage
  BY <1>1, OwnOf, NoDirOf DEF LocalsOK, OpAt, Locs, Ops, NewImage
<1>3. CASE Goto(p, "pgdir") /\ UNCHANGED state
  <2>1. GotoWith(p, "pgdir", loc[p])
    BY <1>3, GotoIsGotoWith DEF TypeInv, TypeOK
  <2>2. OthersSame(p) /\ pc'[p] = "pgdir" /\ loc'[p] = loc[p]
    BY <1>1, <1>3, <2>1, MovesSame
  <2>3. OwnImage(p)'
    BY <1>1, <1>2, <1>3, <2>2, PlainImage DEF PtSame
  <2>4. NewImage(p)'
    <3>1. sz'[p] = sz[p] /\ 0 <= sz[p]
      BY <1>1, OwnOf
    <3> QED BY <1>2, <2>2, <3>1, OwnOf DEF NewImage
  <2> QED BY <1>1, <1>2, <1>3, <2>1, <2>3, <2>4, PtKept, Calm
<1>4. CASE state' = [state EXCEPT ![loc[p].np] = "UNUSED"] /\ loc[p].op = "fork" /\ Return(p)
  BY <1>1, <1>2, <1>4, GivesSlot
<1>5. CASE /\ state' = [state EXCEPT ![loc[p].np] = "UNUSED"] /\ loc[p].op = "init"
           /\ Panic("userinit")
  <2>1. loc[p].np = p /\ state[p] = "EMBRYO"
    BY <1>5, InitOf
  <2>2. /\ state'[p] = "UNUSED" /\ UNCHANGED <<pc, loc>>
        /\ \A q \in Procs : q # p => state'[q] = state[q]
    BY <1>5, <2>1 DEF Panic, TypeInv, TypeOK, PtableType
  <2>3. ProcOK(p)'
    <3>1. OwnImage(p)' /\ OwnDue(p)'
      BY <1>1, <2>2 DEF OwnImage, OwnDue
    <3>2. NewImage(p)'
      BY <1>1, <1>5, <2>2, OwnOf DEF NewImage
    <3>3. TlbOK(p)'
      BY <1>1, <2>1, NoTlb, EmptyTlb
    <3> QED BY <3>1, <3>2, <3>3 DEF ProcOK
  <2>4. \A q \in Procs : q # p /\ q # p => SameProc(q)
    BY <1>1, <2>2 DEF SameProc
  <2> QED BY <1>1, <2>2, <2>3, <2>4, Lives
<1>6. \/ Goto(p, "pgdir") /\ UNCHANGED state
      \/ /\ state' = [state EXCEPT ![loc[p].np] = "UNUSED"]
         /\ \/ loc[p].op = "fork" /\ Return(p)
            \/ loc[p].op # "fork" /\ Panic("userinit")
  BY DEF AllocKstack
<1> QED BY <1>2, <1>3, <1>4, <1>5, <1>6

LEMMA ForkUndoPriv ==
    ASSUME TypeInv, CountInv, PrivInv, NEW p \in Procs, ForkUndo(p)
    PROVE  PrivInv'
<1>1. /\ pc[p] = "undo" /\ Return(p) /\ state' = [state EXCEPT ![loc[p].np] = "UNUSED"]
      /\ UNCHANGED <<pt, tlb, sz, pgdir>>
  BY DEF ForkUndo, At, tables
<1>2. loc[p].op = "fork" /\ loc[p].pd = NoPage
  BY <1>1, OwnOf, NoDirOf DEF LocalsOK, OpAt, Locs, Ops
<1> QED BY <1>1, <1>2, GivesSlot

LEMMA FreeDirPriv ==
    ASSUME TypeInv, CountInv, PrivInv, NEW p \in Procs, FreeDir(p)
    PROVE  PrivInv'
<1>1. /\ pc[p] = "freevm" /\ Mapped(loc[p].pd, 0, MaxSz) = {}
      /\ UNCHANGED <<pt, tlb, sz, pgdir>>
  BY DEF FreeDir, At, tables
<1>2. \A v \in VA : pt[loc[p].pd][v].pa = NoPage
  <2>1. \A v \in VA : 0 <= v /\ v < MaxSz
    BY CowAssumption DEF VA
  <2> QED BY <1>1, <2>1 DEF Mapped
<1>3. CASE loc[p].op = "fork" /\ UNCHANGED state /\ GotoWith(p, "undo", [loc[p] EXCEPT !.pd = NoPage])
  <2> DEFINE r == [loc[p] EXCEPT !.pd = NoPage]
  <2>1. GotoWith(p, "undo", r) /\ r.op = "fork" /\ r.i = loc[p].i /\ r.pg = loc[p].pg
    BY <1>3, OwnOf DEF Locs
  <2> HIDE DEF r
  <2>2. OthersSame(p) /\ pc'[p] = "undo" /\ loc'[p] = r
    BY <1>1, <1>3, <2>1, MovesSame
  <2>3. OwnImage(p)'
    BY <1>1, <1>3, <2>1, <2>2, PlainImage DEF PtSame
  <2>4. NewImage(p)'
    BY <1>1, <1>3, <2>1, <2>2, OwnOf DEF NewImage
  <2>5. pc[p] # "decr" /\ loc[p].op # "shrink" /\ UNCHANGED <<tlb, sz>> /\ UNCHANGED sz
    BY <1>1, <1>3
  <2> QED BY <1>1, <1>2, <1>3, <2>1, <2>3, <2>4, <2>5, PtKept, Calm
<1>4. CASE loc[p].op = "exec" /\ UNCHANGED state /\ Return(p)
  <2>1. state[p] = "RUNNABLE" => Filled(pgdir[p], sz[p], sz[p])'
    <3>1. state[p] = "RUNNABLE" => Filled(pgdir[p], sz[p], sz[p])
      BY <1>4, OwnOf DEF OwnImage
    <3> QED BY <1>1, <3>1 DEF Filled
  <2> QED BY <1>1, <1>2, <1>4, <2>1, PtKept, Comes
<1>5. CASE /\ loc[p].op = "wait" /\ Return(p)
           /\ state' = [state EXCEPT ![loc[p].np] = "UNUSED"]
  BY <1>1, <1>2, <1>5, GivesSlot
<1> QED BY <1>3, <1>4, <1>5 DEF FreeDir

(* The child has the pages copyuvm mapped, and the parent's size.            *)
LEMMA ForkCommitPriv ==
    ASSUME TypeInv, CountInv, PrivInv, NEW p \in Procs, ForkCommit(p)
    PROVE  PrivInv'
<1>1. PICK n : n = loc[p].np
  OBVIOUS
<1>2. PICK d : d = loc[p].pd
  OBVIOUS
<1>3. /\ pc[p] = "commit" /\ loc[p].op = "fork" /\ UNCHANGED pt
      /\ pgdir' = [pgdir EXCEPT ![n] = d] /\ sz' = [sz EXCEPT ![n] = sz[p]]
      /\ state' = [state EXCEPT ![n] = "RUNNABLE"]
      /\ pc' = [pc EXCEPT ![n] = "user", ![p] = "user"]
      /\ loc' = [loc EXCEPT ![n] = NoLoc, ![p] = NoLoc]
      /\ tlb' = [tlb EXCEPT ![n] = [v \in VA |-> NoPage]]
  BY <1>1, <1>2 DEF ForkCommit, At, tables
<1>4. n \in Procs /\ n # p /\ state[p] = "RUNNABLE" /\ Filled(d, sz[p], sz[p])
  BY <1>1, <1>2, <1>3, ForkOf, RunnableOf, OwnOf DEF NewImage
<1>5. /\ pgdir'[n] = d /\ sz'[n] = sz[p] /\ pc'[n] = "user" /\ loc'[n] = NoLoc
      /\ \A v \in VA : tlb'[n][v] = NoPage
      /\ pc'[p] = "user" /\ loc'[p] = NoLoc
      /\ pgdir'[p] = pgdir[p] /\ sz'[p] = sz[p] /\ state'[p] = state[p] /\ tlb'[p] = tlb[p]
  BY <1>3, <1>4 DEF TypeInv, TypeOK, LocalType, PtableType
<1>6. \A q \in Procs : q # p /\ q # n => SameProc(q)
  BY <1>3, <1>4 DEF SameProc, TypeInv, TypeOK, LocalType, PtableType
<1>7. ProcOK(n)'
  <2>1. TlbOK(n)'
    BY <1>4, <1>5, EmptyTlb
  <2> QED BY <1>3, <1>4, <1>5, <2>1, UserKept
<1>8. ProcOK(p)'
  <2>1. TlbOK(p)'
    BY <1>3, <1>5, NoTlb, EmptyTlb
  <2>2. Filled(pgdir[p], sz[p], sz[p])
    BY <1>3, <1>4, OwnOf DEF OwnImage
  <2> QED BY <1>3, <1>5, <2>1, <2>2, UserKept
<1> QED BY <1>3, <1>4, <1>5, <1>6, <1>7, <1>8, NoLocIs, Lives

LEMMA InitDonePriv ==
    ASSUME TypeInv, CountInv, PrivInv, NEW p \in Procs, InitDone(p)
    PROVE  PrivInv'
<1>1. PICK d : d = loc[p].pd
  OBVIOUS
<1>2. /\ pc[p] = "alloc" /\ loc[p].i >= loc[p].lim /\ loc[p].op = "init" /\ UNCHANGED <<pt, tlb>>
      /\ pgdir' = [pgdir EXCEPT ![p] = d] /\ sz' = [sz EXCEPT ![p] = 1]
      /\ state' = [state EXCEPT ![p] = "RUNNABLE"] /\ Return(p)
  BY <1>1 DEF InitDone, Allocated, At, tables
<1>3. /\ pgdir'[p] = d /\ sz'[p] = 1 /\ pc'[p] = "user" /\ loc'[p] = NoLoc
      /\ \A q \in Procs : q # p => SameProc(q)
  BY <1>2 DEF SameProc, Return, GotoWith, TypeInv, TypeOK, LocalType, PtableType
<1>4. Filled(d, 1, 1)
  <2>1. loc[p].i <= loc[p].lim /\ loc[p].lim = 1 /\ Filled(d, loc[p].i, loc[p].i)
    BY <1>1, <1>2, OwnOf DEF NewImage
  <2>2. loc[p].i = 1
    BY <1>2, <2>1, OwnOf
  <2> QED BY <2>1, <2>2
<1>5. TlbOK(p)'
  BY <1>2, InitOf, NoTlb, EmptyTlb
<1>6. ProcOK(p)'
  BY <1>2, <1>3, <1>4, <1>5, UserKept
<1> QED BY <1>2, <1>3, <1>6, NoLocIs, Lives

LEMMA ExitPriv ==
    ASSUME TypeInv, CountInv, PrivInv, NEW p \in Procs, Exit(p)
    PROVE  PrivInv'
<1>1. pc[p] = "user" /\ UNCHANGED <<pt, sz, pgdir>>
  BY DEF Exit, At, tables
<1>2. CASE Panic("init exiting") /\ UNCHANGED <<state, tlb>>
  BY <1>1, <1>2, Halts DEF Panic
<1>3. CASE state' = [state EXCEPT ![p] = "ZOMBIE"] /\ GotoWith(p, "none", NoLoc) /\ Lcr3(p)
  <2>1. /\ pc'[p] = "none" /\ loc'[p] = NoLoc /\ state'[p] = "ZOMBIE"
        /\ \A v \in VA : tlb'[p][v] = NoPage
        /\ \A q \in Procs : q # p => SameProc(q)
    BY <1>1, <1>3
       DEF SameProc, Lcr3, GotoWith, TypeInv, TypeOK, LocalType, PtableType
  <2>2. ProcOK(p)'
    BY <2>1, NoLocIs, IdleKept
  <2> QED BY <1>1, <2>1, <2>2, NoLocIs, Lives
<1> QED BY <1>2, <1>3 DEF Exit

LEMMA WaitPriv ==
    ASSUME TypeInv, CountInv, PrivInv, NEW p \in Procs, Wait(p)
    PROVE  PrivInv'
<1>1. pc[p] = "user" /\ UNCHANGED <<pt, state, tlb>>
  BY DEF Wait, At, tables
<1>2. PICK c \in Procs :
        /\ state[c] = "ZOMBIE"
        /\ GotoWith(p, "freevm", [NoLoc EXCEPT !.op = "wait", !.np = c, !.pd = pgdir[c]])
        /\ pgdir' = [pgdir EXCEPT ![c] = NoPage] /\ sz' = [sz EXCEPT ![c] = 0]
  BY DEF Wait
<1> DEFINE r == [NoLoc EXCEPT !.op = "wait", !.np = c, !.pd = pgdir[c]]
<1>3. r.op = "wait" /\ r.pg = NoPage /\ GotoWith(p, "freevm", r)
  BY <1>2 DEF NoLoc
<1> HIDE DEF r
<1>4. /\ loc[p].op = "none" /\ loc[p].pd = NoPage /\ state[p] = "RUNNABLE" /\ c # p
      /\ pc[c] = "none" /\ loc[c].op = "none"
  BY <1>1, <1>2, UserOf, IdleOf
<1>5. /\ pc'[p] = "freevm" /\ loc'[p] = r
      /\ \A q \in Procs : q # p => pc'[q] = pc[q] /\ loc'[q] = loc[q]
      /\ \A q \in Procs : q # c => pgdir'[q] = pgdir[q] /\ sz'[q] = sz[q]
  BY <1>2, <1>3 DEF GotoWith, TypeInv, TypeOK, LocalType, PtableType
<1>6. ProcOK(p)'
  <2>1. OwnImage(p)'
    BY <1>1, <1>3, <1>4, <1>5, PlainImage DEF PtSame
  <2>2. NewImage(p)' /\ OwnDue(p)'
    BY <1>3, <1>5, NoNewImage DEF OwnDue
  <2>3. TlbOK(p)'
    BY <1>1, <1>4, <1>5, KeptTlb DEF PtSame
  <2> QED BY <2>1, <2>2, <2>3 DEF ProcOK
<1>7. ProcOK(c)'
  <2>1. \A v \in VA : tlb'[c][v] = NoPage
    BY <1>1, <1>2, NoTlb
  <2> QED BY <1>1, <1>2, <1>4, <1>5, <2>1, IdleKept
<1>8. \A q \in Procs : q # p /\ q # c => SameProc(q)
  BY <1>1, <1>5 DEF SameProc
<1> QED BY <1>1, <1>3, <1>4, <1>5, <1>6, <1>7, <1>8, Lives

-----------------------------------------------------------------------------
(* Every step, by the group of system calls it belongs to. *)
LEMMA StepPriv ==
    ASSUME TypeInv, CountInv, PrivInv, "shrinkall" \notin Calls, NEW p \in Procs, Step(p)
    PROVE  PrivInv'
<1>1. CASE ForkStep(p)
  BY <1>1, ForkPriv, AllocKstackPriv, CopyPagePriv, CopyIncrPriv, CopyDonePriv,
     ForkCommitPriv, ForkUndoPriv DEF ForkStep
<1>2. CASE BuildStep(p)
  BY <1>2, SetupDirPriv, SetupKptPriv, AllocPagePriv, MapPagePriv, AllocFailedPriv,
     InitDonePriv DEF BuildStep
<1>3. CASE SbrkStep(p)
  BY <1>3, GrowPriv, GrowDonePriv, ShrinkPriv, DeallocPagePriv, ShrinkDonePriv
     DEF SbrkStep
<1>4. CASE ExecStep(p)
  BY <1>4, ExecPriv, ExecCommitPriv, ExecBadPriv DEF ExecStep
<1>5. CASE FreeStep(p)
  BY <1>5, FreePagePriv, FreeTablePriv, FreeDirPriv DEF FreeStep
<1>6. CASE LifeStep(p)
  BY <1>6, ExitPriv, WaitPriv DEF LifeStep
<1>7. CASE UserStep(p)
  BY <1>7, StorePriv, FaultPriv DEF UserStep
<1>8. CASE CowStep(p)
  BY <1>8, CowOwnPriv, CowAllocPriv, CowMovePriv, CowDecrPriv DEF CowStep
<1> QED BY <1>1, <1>2, <1>3, <1>4, <1>5, <1>6, <1>7, <1>8 DEF Step

LEMMA InitPriv == Init => PrivInv
<1> SUFFICES ASSUME Init
             PROVE  PrivInv
  OBVIOUS
<1>1. /\ pt = [d \in Pages |-> [v \in VA |-> NoPte]]
      /\ state = [p \in Procs |-> IF p = InitProc THEN "EMBRYO" ELSE "UNUSED"]
      /\ tlb = [p \in Procs |-> [v \in VA |-> NoPage]]
      /\ pc = [p \in Procs |-> IF p = InitProc THEN "kstack" ELSE "none"]
      /\ loc = [p \in Procs |-> IF p = InitProc
                  THEN [NoLoc EXCEPT !.op = "init", !.np = p, !.lim = 1] ELSE NoLoc]
  BY DEF Init
<1>2. \A d \in Pages, v \in VA : ~pt[d][v].w /\ ~pt[d][v].u
  BY <1>1 DEF NoPte
<1>3. \A p \in Procs : /\ state[p] # "RUNNABLE" /\ pc[p] \in {"kstack", "none"}
                       /\ loc[p].op \in {"init", "none"} /\ loc[p].pg = NoPage
                       /\ loc[p].i = 0 /\ (loc[p].op = "init" => loc[p].lim = 1)
                       /\ \A v \in VA : tlb[p][v] = NoPage
  BY <1>1 DEF NoLoc
<1>4. PteSound /\ Private /\ Freshes
  BY <1>2, <1>3 DEF PteSound, Private, Freshes
<1>5. ASSUME NEW p \in Procs
      PROVE  ProcOK(p)
  <2>1. OwnImage(p) /\ OwnDue(p) /\ TlbOK(p)
    BY <1>3 DEF OwnImage, OwnDue, TlbOK, Cached
  <2>2. NewImage(p)
    BY <1>3 DEF NewImage
  <2> QED BY <2>1, <2>2 DEF ProcOK
<1> QED BY <1>4, <1>5 DEF PrivInv

LEMMA PrivInvariant ==
    ASSUME "shrinkall" \notin Calls
    PROVE  Spec => [](RunInv /\ CountInv /\ PrivInv)
<1>1. Init => PrivInv
  BY InitPriv
<1>2. RunInv /\ CountInv /\ PrivInv /\ [Next]_vars => PrivInv'
  <2> SUFFICES ASSUME RunInv, CountInv, PrivInv, [Next]_vars
               PROVE  PrivInv'
    OBVIOUS
  <2>1. CASE UNCHANGED vars
    BY <2>1, Halts DEF vars, ptable, tables
  <2>2. ASSUME panic = "none", NEW p \in Procs, Step(p)
        PROVE  PrivInv'
    <3>1. TypeInv
      BY <2>2 DEF RunInv, TypeInv
    <3> QED BY <2>2, <3>1, StepPriv
  <2> QED BY <2>1, <2>2 DEF Next, Halted
<1> QED BY <1>1, <1>2, CountInvariant, PTL DEF Spec

-----------------------------------------------------------------------------
(* When the kernel panics. *)

(* A step that panics says why, and leaves the process where it was.         *)
Stops ==
    /\ \/ panic' \in {"userinit", "out of memory", "init exiting"}
       \/ panic' = "page not present" /\ Stray = "unmapped"
    /\ UNCHANGED <<pc, loc, pgdir>>

(* kfree of a page in use finds a count that is not negative.                *)
LEMMA KfreeQuiet ==
    ASSUME TypeInv, CountInv, NEW g \in Pages, InUse(g), Kfree(g)
    PROVE  UNCHANGED panic
BY KfreeCounts

LEMMA DropQuiet ==
    ASSUME TypeInv, CountInv, NEW d \in Pages, NEW v \in VA, pt[d][v].pa # NoPage,
           NEW p, DropPage(p, d, v)
    PROVE  UNCHANGED panic
<1>1. pt[d][v].pa \in Pages
  BY PteOf DEF Ptes
<1>2. InUse(pt[d][v].pa)
  BY DEF InUse, InTables
<1> QED BY <1>1, <1>2, KfreeQuiet DEF DropPage

LEMMA ForkUndoQuiet ==
    ASSUME TypeInv, CountInv, NEW p \in Procs, ForkUndo(p)
    PROVE  UNCHANGED panic
<1>1. pc[p] = "undo" /\ Kfree(kstack[loc[p].np])
  BY DEF ForkUndo, At
<1>2. loc[p].op = "fork"
  BY <1>1, LocalsOf DEF LocalsOK, OpAt, Locs, Ops
<1>3. loc[p].np \in Procs /\ kstack[loc[p].np] \in Pages
  BY <1>1, <1>2, ForkOf
<1>4. InUse(kstack[loc[p].np])
  BY <1>3 DEF InUse, InSlots
<1> QED BY <1>1, <1>3, <1>4, KfreeQuiet

LEMMA WaitQuiet ==
    ASSUME TypeInv, CountInv, NEW p \in Procs, Wait(p)
    PROVE  UNCHANGED panic
<1>1. PtableFree
  BY DEF Wait
<1>2. PICK c \in Procs : state[c] = "ZOMBIE" /\ Kfree(kstack[c])
  BY DEF Wait
<1>3. kstack[c] \in Pages
  BY <1>1, <1>2, ZombieOf DEF PtableFree, Reaping
<1>4. InUse(kstack[c])
  BY DEF InUse, InSlots
<1> QED BY <1>2, <1>3, <1>4, KfreeQuiet

LEMMA DeallocPageQuiet ==
    ASSUME TypeInv, CountInv, NEW p \in Procs, DeallocPage(p)
    PROVE  UNCHANGED panic
<1>1. PICK v \in VA : pt[Dir(p)][v].pa # NoPage /\ DropPage(p, Dir(p), v)
  BY DEF DeallocPage, IsFirst, Mapped
<1>2. Dir(p) \in Pages
  BY DirOf DEF DeallocPage, At
<1> QED BY <1>1, <1>2, DropQuiet

LEMMA FreePageQuiet ==
    ASSUME TypeInv, CountInv, NEW p \in Procs, FreePage(p)
    PROVE  UNCHANGED panic
<1>1. PICK v \in VA : pt[loc[p].pd][v].pa # NoPage /\ DropPage(p, loc[p].pd, v)
  BY DEF FreePage, IsFirst, Mapped
<1>2. loc[p].pd \in Pages
  BY LocalsOf DEF FreePage, At, LocalsOK, OpAt, Locs, Ops
<1> QED BY <1>1, <1>2, DropQuiet

LEMMA FreeTableQuiet ==
    ASSUME TypeInv, CountInv, NEW p \in Procs, FreeTable(p)
    PROVE  UNCHANGED panic
<1> DEFINE d == loc[p].pd
<1>1. d \in Pages
  BY LocalsOf DEF FreeTable, At, LocalsOK, OpAt, Locs, Ops
<1>2. utab[d] \in Pages \union {NoPage} /\ ktab[d] \subseteq Pages
  BY <1>1 DEF TypeInv, TypeOK, TablesType
<1>3. CASE utab[d] # NoPage /\ Kfree(utab[d])
  <2>1. InUse(utab[d])
    BY <1>1 DEF InUse, InTables
  <2> QED BY <1>2, <1>3, <2>1, KfreeQuiet
<1>4. ASSUME NEW t \in ktab[d], Kfree(t)
      PROVE  UNCHANGED panic
  <2>1. t \in Pages /\ InUse(t)
    BY <1>1, <1>2 DEF InUse, InTables
  <2> QED BY <1>4, <2>1, KfreeQuiet
<1> QED BY <1>3, <1>4 DEF FreeTable

LEMMA FreeDirQuiet ==
    ASSUME TypeInv, CountInv, NEW p \in Procs, FreeDir(p)
    PROVE  UNCHANGED panic
<1>1. loc[p].pd \in Pages /\ Kfree(loc[p].pd)
  BY LocalsOf DEF FreeDir, At, LocalsOK, OpAt, Locs, Ops
<1>2. InUse(loc[p].pd)
  BY DEF InUse, InHands
<1> QED BY <1>1, <1>2, KfreeQuiet

LEMMA AllocFailedQuiet ==
    ASSUME TypeInv, CountInv, NEW p \in Procs, AllocFailed(p)
    PROVE  UNCHANGED panic
<1>1. CASE loc[p].pg # NoPage
  <2>1. loc[p].pg \in Pages /\ Kfree(loc[p].pg)
    BY <1>1, LocalsOf DEF AllocFailed, Locs
  <2>2. InUse(loc[p].pg)
    BY DEF InUse, InHands
  <2> QED BY <2>1, <2>2, KfreeQuiet
<1> QED BY <1>1 DEF AllocFailed

LEMMA FaultStops ==
    ASSUME TypeInv, CountInv, NEW p \in Procs, Fault(p)
    PROVE  UNCHANGED panic \/ Stops
<1>1. pc[p] = "user" /\ UNCHANGED pgdir
  BY DEF Fault, At, ptable
<1>2. PICK v \in VA :
        \/ Stray = "unmapped" /\ Panic("page not present")
        \/ pt[pgdir[p]][v].pa # NoPage /\ GetRefc(pt[pgdir[p]][v].pa)
  BY DEF Fault
<1>3. CASE Stray = "unmapped" /\ Panic("page not present")
  BY <1>1, <1>3 DEF Stops, Panic
<1>4. CASE pt[pgdir[p]][v].pa # NoPage /\ GetRefc(pt[pgdir[p]][v].pa)
  <2>1. pt[pgdir[p]][v].pa \in Pages
    BY <1>1, <1>4, UserOf, PteOf DEF Ptes
  <2>2. pgrefc[pt[pgdir[p]][v].pa] \in Nat
    BY <2>1, CountOf
  <2>3. ~(pgrefc[pt[pgdir[p]][v].pa] < 0)
    BY <2>2
  <2> QED BY <1>4, <2>3 DEF GetRefc
<1> QED BY <1>2, <1>3, <1>4

(* copyuvm finds every page below the parent's size.                         *)
LEMMA CopyPageQuiet ==
    ASSUME TypeInv, CountInv, PrivInv, NEW p \in Procs, CopyPage(p)
    PROVE  UNCHANGED panic
<1> DEFINE a == pt[pgdir[p]][loc[p].i].pa
<1>1. pc[p] = "copy" /\ loc[p].i < sz[p]
  BY DEF CopyPage, At
<1>2. loc[p].op = "fork" /\ pgdir[p] \in Pages /\ loc[p].i \in VA
  BY <1>1, CopyPageOf
<1>3. state[p] = "RUNNABLE" /\ Filled(pgdir[p], sz[p], sz[p])
  BY <1>1, <1>2, RunnableOf, OwnOf DEF OwnImage
<1>4. a # NoPage
  BY <1>1, <1>2, <1>3 DEF Filled
<1>5. [pt[pgdir[p]][loc[p].i] EXCEPT !.w = FALSE].pa = a
  BY <1>2, PteOf DEF Ptes
<1>6. \/ [pt[pgdir[p]][loc[p].i] EXCEPT !.w = FALSE].pa = NoPage
      \/ UNCHANGED panic
  BY DEF CopyPage
<1> QED BY <1>4, <1>5, <1>6

(* mappages finds no page where allocuvm maps the next one.                  *)
LEMMA MapPageStops ==
    ASSUME TypeInv, CountInv, PrivInv, NEW p \in Procs, MapPage(p)
    PROVE  UNCHANGED panic \/ Stops
<1>1. pc[p] = "map" /\ UNCHANGED pgdir
  BY DEF MapPage, At, ptable
<1>2. loc[p].op \in {"init", "exec", "grow"} /\ loc[p].i < loc[p].lim
  BY <1>1, OwnOf DEF LocalsOK, OpAt, Locs, Ops
<1>3. loc[p].i \in VA
  BY <1>2, OwnOf DEF VA
<1>4. Filled(Dir(p), loc[p].i, loc[p].i)
  <2>1. CASE loc[p].op = "grow"
    <3>1. state[p] = "RUNNABLE" /\ loc[p].pd = NoPage
      BY <1>1, <2>1, RunnableOf, NoDirOf
    <3> QED BY <1>1, <2>1, <3>1, OwnOf DEF OwnImage, Dir
  <2>2. CASE loc[p].op \in {"init", "exec"}
    <3>1. loc[p].pd \in Pages
      BY <1>1, <2>2, NewOf
    <3> QED BY <1>1, <2>2, <3>1, OwnOf, CowAssumption DEF NewImage, Dir
  <2> QED BY <1>2, <2>1, <2>2
<1>5. pt[Dir(p)][loc[p].i].pa = NoPage
  BY <1>3, <1>4, OwnOf DEF Filled
<1>6. Panic("userinit") \/ UNCHANGED panic
  BY <1>5 DEF MapPage
<1> QED BY <1>1, <1>6 DEF Panic, Stops

LEMMA StepStops ==
    ASSUME TypeInv, CountInv, PrivInv, NEW p \in Procs, Step(p)
    PROVE  UNCHANGED panic \/ Stops
<1>1. CASE ForkStep(p)
  <2>1. CASE AllocKstack(p)
    BY <2>1 DEF AllocKstack, Panic, Stops
  <2>2. CASE Fork(p) \/ CopyIncr(p) \/ CopyDone(p) \/ ForkCommit(p)
    BY <2>2 DEF Fork, CopyIncr, CopyDone, ForkCommit
  <2> QED BY <1>1, <2>1, <2>2, CopyPageQuiet, ForkUndoQuiet DEF ForkStep
<1>2. CASE BuildStep(p)
  <2>1. CASE SetupDir(p) \/ SetupKpt(p) \/ AllocPage(p)
    BY <2>1 DEF SetupDir, SetupKpt, AllocPage, AfterNoTable, Panic, Stops, ptable
  <2>2. CASE InitDone(p)
    BY <2>2 DEF InitDone
  <2> QED BY <1>2, <2>1, <2>2, MapPageStops, AllocFailedQuiet DEF BuildStep
<1>3. CASE SbrkStep(p)
  BY <1>3, DeallocPageQuiet DEF SbrkStep, Grow, GrowDone, Shrink, ShrinkDone
<1>4. CASE ExecStep(p)
  BY <1>4 DEF ExecStep, Exec, ExecCommit, ExecBad
<1>5. CASE FreeStep(p)
  BY <1>5, FreePageQuiet, FreeTableQuiet, FreeDirQuiet DEF FreeStep
<1>6. CASE LifeStep(p)
  <2>1. CASE Exit(p)
    BY <2>1 DEF Exit, Panic, Stops
  <2> QED BY <1>6, <2>1, WaitQuiet DEF LifeStep
<1>7. CASE UserStep(p)
  BY <1>7, FaultStops DEF UserStep, Store
<1>8. CASE CowStep(p)
  BY <1>8 DEF CowStep, CowOwn, CowAlloc, CowMove, CowDecr, Panic, Stops, ptable
<1> QED BY <1>1, <1>2, <1>3, <1>4, <1>5, <1>6, <1>7, <1>8 DEF Step

(* A process in user mode has an image and no system call under way, when    *)
(* the kernel has panicked too.                                              *)
UserSound == \A p \in Procs : pc[p] = "user" => pgdir[p] \in Pages /\ loc[p] = NoLoc
PanicSound ==
    \/ panic \in {"none", "userinit", "out of memory", "init exiting"}
    \/ panic = "page not present" /\ Stray = "unmapped"

Running == panic = "none"

LEMMA StopInvariant ==
    ASSUME "shrinkall" \notin Calls
    PROVE  Spec => [](RunInv /\ CountInv /\ PrivInv /\ UserSound /\ PanicSound)
<1>1. RunInv /\ Running => UserSound
  BY UserOf DEF RunInv, TypeInv, UserSound, Running
<1>2. Init => UserSound /\ PanicSound
  <2>1. Init => panic = "none"
    BY DEF Init
  <2> QED BY <1>1, <2>1, InitTypeInv DEF RunInv, TypeInv, PanicSound, Running
<1>3. RunInv /\ CountInv /\ PrivInv /\ UserSound /\ PanicSound /\ [Next]_vars
      => PanicSound' /\ (Running' \/ UserSound')
  <2> SUFFICES ASSUME RunInv, CountInv, PrivInv, UserSound, PanicSound, [Next]_vars
               PROVE  PanicSound' /\ (Running' \/ UserSound')
    OBVIOUS
  <2>1. CASE UNCHANGED vars
    BY <2>1 DEF vars, ptable, UserSound, PanicSound, Running
  <2>2. ASSUME panic = "none", NEW p \in Procs, Step(p)
        PROVE  PanicSound' /\ (Running' \/ UserSound')
    <3>1. TypeInv
      BY <2>2 DEF RunInv, TypeInv
    <3>2. CASE Stops
      BY <3>2 DEF Stops, UserSound, PanicSound
    <3>3. CASE UNCHANGED panic
      BY <2>2, <3>3 DEF PanicSound, Running
    <3> QED BY <2>2, <3>1, <3>2, <3>3, StepStops
  <2> QED BY <2>1, <2>2 DEF Next, Halted
<1> QED BY <1>1, <1>2, <1>3, PrivInvariant, PTL DEF Spec

LEMMA SoleMapping ==
    ASSUME NEW d \in Pages, NEW v \in VA, NEW g, pt[d][v].pa = g,
           NEW c, c \notin Pages \ {d}, Sole(g, d, c, v)
    PROVE  Mappings(g) = {<<d, v>>}
<1>1. \A m \in Pages \X VA : pt[m[1]][m[2]].pa = g => m = <<d, v>>
  <2> SUFFICES ASSUME NEW e \in Pages, NEW w \in VA, pt[e][w].pa = g
               PROVE  <<e, w>> = <<d, v>>
    OBVIOUS
  <2> QED BY DEF Sole
<1>2. <<d, v>> \in Pages \X VA /\ pt[<<d, v>>[1]][<<d, v>>[2]].pa = g
  OBVIOUS
<1> QED BY <1>1, <1>2 DEF Mappings

(* vm.c: whatever a process in user mode can write, by its page table or by  *)
(* a translation its processor still caches, is mapped once, by it: with     *)
(* fork closing both entries and flushing, and the handler copying or owning, *)
(* no store of one process is ever seen by another.  Assumed: no program     *)
(* shrinks its image to 0, where growproc frees the pages but keeps the size *)
(* and the translations.                                                     *)
THEOREM PrivateCorrect ==
    ASSUME "shrinkall" \notin Calls
    PROVE  Spec => []WritableIsPrivate
<1>1. PrivInv /\ UserSound => WritableIsPrivate
  <2> SUFFICES ASSUME PrivInv, UserSound, NEW p \in Procs, NEW v \in VA, pc[p] = "user"
               PROVE  /\ pt[pgdir[p]][v].w =>
                            Mappings(pt[pgdir[p]][v].pa) = {<<pgdir[p], v>>}
                      /\ tlb[p][v] # NoPage => Mappings(tlb[p][v]) = {<<pgdir[p], v>>}
    BY DEF WritableIsPrivate
  <2>1. pgdir[p] \in Pages /\ loc[p].op = "none" /\ loc[p].pd \notin Pages
    BY NoLocIs, CowAssumption DEF UserSound
  <2>2. ASSUME pt[pgdir[p]][v].w
        PROVE  Mappings(pt[pgdir[p]][v].pa) = {<<pgdir[p], v>>}
    <3>1. Sole(pt[pgdir[p]][v].pa, pgdir[p], pgdir[p], v)
      BY <2>1, <2>2 DEF PrivInv, Private
    <3> QED BY <2>1, <3>1, SoleMapping
  <2>3. ASSUME tlb[p][v] # NoPage
        PROVE  Mappings(tlb[p][v]) = {<<pgdir[p], v>>}
    <3>1. /\ pt[pgdir[p]][v].pa = tlb[p][v]
          /\ Sole(tlb[p][v], pgdir[p], loc[p].pd, v)
      BY <2>1, <2>3 DEF PrivInv, ProcOK, TlbOK, Cached
    <3> QED BY <2>1, <3>1, SoleMapping
  <2> QED BY <2>2, <2>3
<1> QED BY <1>1, StopInvariant, PTL

(* sys_countvp and sys_countpp agree whenever a user program can call them:  *)
(* every page the page table lets it touch is below its size.                *)
THEOREM CountersCorrect ==
    ASSUME "shrinkall" \notin Calls
    PROVE  Spec => []CountersAgree
<1>1. RunInv /\ PrivInv => CountersAgree
  <2> SUFFICES ASSUME RunInv, PrivInv, panic = "none", NEW p \in Procs, pc[p] = "user"
               PROVE  CountVp(p) = CountPp(p)
    BY DEF CountersAgree
  <2>1. TypeInv
    BY DEF RunInv, TypeInv
  <2>2. pgdir[p] \in Pages /\ loc[p].op = "none" /\ state[p] = "RUNNABLE"
    BY <2>1, UserOf
  <2>3. Filled(pgdir[p], sz[p], sz[p]) /\ sz[p] \in Nat
    BY <2>1, <2>2, OwnOf DEF OwnImage
  <2>4. ASSUME NEW v \in VA, pt[pgdir[p]][v].u
        PROVE  v < sz[p]
    <3>1. pt[pgdir[p]][v].pa # NoPage
      BY <2>2, <2>4 DEF PrivInv, PteSound
    <3>2. v \in Int
      BY DEF VA
    <3> QED BY <2>3, <3>1, <3>2 DEF Filled
  <2>5. {v \in VA : v < sz[p] /\ pt[pgdir[p]][v].u} = {v \in VA : pt[pgdir[p]][v].u}
    BY <2>4
  <2> QED BY <2>5 DEF CountVp, CountPp
<1> QED BY <1>1, StopInvariant, PTL

(* fork finds every page below the parent's size, allocuvm maps no page over *)
(* another, no count is ever negative: as long as user programs stay inside  *)
(* their images, the kernel panics for want of memory only, or because init  *)
(* exits.                                                                    *)
THEOREM PanicCorrect ==
    ASSUME "shrinkall" \notin Calls, Stray # "unmapped"
    PROVE  Spec => []NoInternalPanic
<1>1. PanicSound => NoInternalPanic
  BY DEF PanicSound, NoInternalPanic
<1> QED BY <1>1, StopInvariant, PTL

-----------------------------------------------------------------------------
(* Copy-on-write is invisible. *)
-----------------------------------------------------------------------------
(* The inductive invariant. *)

(* Every mapped page holds a value.                                          *)
Holds == \A d \in Pages, v \in VA : pt[d][v].pa # NoPage => content[pt[d][v].pa] \in Vals

(* The first process starts before there is any other.                       *)
BootFirst ==
    \A q \in Procs : loc[q].op = "init" => q = InitProc /\ \A p \in Procs : state[p] # "RUNNABLE"

(* No image is empty, and exec's new one has the size it asked for.          *)
Sizes(p) ==
    /\ state[p] = "RUNNABLE" => sz[p] > 0
    /\ loc[p].op = "grow" => loc[p].lim > 0
    /\ loc[p].op = "exec" /\ pc[p] \in {"pgdir", "kpt", "alloc", "map"} => loc[p].lim = TextSz + 2

(* A cached translation, and a fault, is for a page the user may touch.      *)
TlbUser(p) ==
    state[p] = "RUNNABLE" =>
        \A v \in VA : tlb[p][v] # NoPage /\ pt[pgdir[p]][v].pa # NoPage => pt[pgdir[p]][v].u
FaultUser(p) == pc[p] \in {"dup", "move"} => pt[pgdir[p]][loc[p].va].u

(* What sbrk adds is zero, and what exec or userinit builds is its own.      *)
HandZero(p) == pc[p] = "map" => content[loc[p].pg] = Zero
GrowNew(p) ==
    loc[p].op = "grow" =>
        \A v \in VA : v >= sz[p] /\ pt[pgdir[p]][v].pa # NoPage =>
            pt[pgdir[p]][v].u /\ content[pt[pgdir[p]][v].pa] = Zero
BuildNew(p) ==
    loc[p].op \in {"init", "exec"} /\ pc[p] \in {"kpt", "alloc", "map"} =>
        \A v \in VA : pt[loc[p].pd][v].pa # NoPage => pt[loc[p].pd][v].u /\ pt[loc[p].pd][v].w

(* The child's page table has the parent's pages, as far as it has come.     *)
Copies(p) ==
    loc[p].op = "fork" /\ pc[p] \in {"kpt", "copy", "incr", "commit"} =>
        \A v \in VA : pt[loc[p].pd][v].pa # NoPage =>
            /\ pt[loc[p].pd][v].pa = pt[pgdir[p]][v].pa
            /\ pt[loc[p].pd][v].u = pt[pgdir[p]][v].u

VmOK(p) ==
    Sizes(p) /\ TlbUser(p) /\ FaultUser(p) /\ HandZero(p) /\ GrowNew(p) /\ BuildNew(p) /\ Copies(p)
VmInv == Holds /\ BootFirst /\ \A p \in Procs : VmOK(p)
Sound == TypeInv /\ CountInv /\ PrivInv /\ VmInv

(* A page whose count is 0 is used nowhere.                                  *)
Unused == \A g \in Pages : pgrefc[g] = 0 => ~InUse(g)

LEMMA CountsUnused == KmemType /\ CountInv => Unused
BY ZeroCount, UsesInUse DEF Unused

LEMMA NextUnused == KmemType' /\ CountInv' => Unused'
BY CountsUnused, PTL

-----------------------------------------------------------------------------
(* What a step leaves alone. *)

(* p writes to page tables of its own only, and to contents of pages that    *)
(* are used by nobody, are in its hands, or are mapped by it alone.          *)
Rows(p) ==
    \A d \in Pages : d \notin {pgdir[p], loc[p].pd} => \A v \in VA : pt'[d][v] = pt[d][v]
MapsAlone(p, g) ==
    /\ ~Unmapped(g)
    /\ \A e \in Pages, w \in VA : pt[e][w].pa = g => e \in {pgdir[p], loc[p].pd}
Touches(p) ==
    \A g \in Pages :
        \/ content'[g] = content[g]
        \/ ~InUse(g) \/ ~InUse(g)' \/ g = loc[p].pg
        \/ MapsAlone(p, g)

LEMMA RowElse ==
    ASSUME Sound, NEW p \in Procs, Rows(p), NEW q \in Procs, q # p,
           NEW d \in Pages, d \in {pgdir[q], loc[q].pd}
    PROVE  \A v \in VA : pt'[d][v] = pt[d][v]
<1>1. d \notin {pgdir[p], loc[p].pd}
  BY OwnDirs DEF Sound, CountInv
<1> QED BY <1>1 DEF Rows

LEMMA PageOf ==
    ASSUME Sound, NEW d \in Pages, NEW v \in VA
    PROVE  pt[d][v] \in Ptes /\ (pt[d][v].pa # NoPage => pt[d][v].pa \in Pages)
BY PteOf DEF Sound, TypeInv, TypeOK, Ptes

LEMMA PageElse ==
    ASSUME Sound, NEW p \in Procs, Rows(p), Touches(p), NEW q \in Procs, q # p,
           NEW d \in Pages, d \in {pgdir[q], loc[q].pd}, NEW v \in VA, pt[d][v].pa # NoPage
    PROVE  content'[pt[d][v].pa] = content[pt[d][v].pa]
<1>1. PICK g \in Pages : g = pt[d][v].pa
  BY PageOf
<1>2. pt'[d][v] = pt[d][v]
  BY RowElse
<1>3. InUse(g) /\ InUse(g)'
  BY <1>1, <1>2 DEF InUse, InTables
<1>4. g # loc[p].pg
  BY <1>1 DEF Sound, PrivInv, Freshes, Unmapped
<1>5. ~MapsAlone(p, g)
  <2>1. d \notin {pgdir[p], loc[p].pd}
    BY OwnDirs DEF Sound, CountInv
  <2> QED BY <1>1, <2>1 DEF MapsAlone
<1> QED BY <1>1, <1>3, <1>4, <1>5 DEF Touches

LEMMA HandElse ==
    ASSUME Sound, NEW p \in Procs, Touches(p), NEW q \in Procs, q # p,
           loc[q].pg \in Pages, loc'[q].pg = loc[q].pg
    PROVE  content'[loc[q].pg] = content[loc[q].pg]
<1>1. PICK g \in Pages : g = loc[q].pg
  OBVIOUS
<1>2. InUse(g) /\ InUse(g)'
  BY <1>1 DEF InUse, InHands
<1>3. Unmapped(g) /\ g # loc[p].pg
  BY <1>1, CowAssumption DEF Sound, PrivInv, Freshes
<1> QED BY <1>1, <1>2, <1>3 DEF Touches, MapsAlone

(* The image of a process is what its page table shows below its size.       *)
Shown(d, v) ==
    /\ pt'[d][v].u = pt[d][v].u
    /\ pt'[d][v].pa = NoPage <=> pt[d][v].pa = NoPage
    /\ pt[d][v].pa # NoPage => content'[pt'[d][v].pa] = content[pt[d][v].pa]

LEMMA SizeOf ==
    ASSUME TypeInv, NEW q \in Procs
    PROVE  Size(q) \in 0 .. MaxSz /\ \A v \in 0 .. Size(q) - 1 : v \in VA
<1>1. sz[q] \in 0 .. MaxSz /\ loc[q].base \in 0 .. MaxSz
  BY LocalsOf DEF Locs
<1> QED BY <1>1, CowAssumption DEF Size, VA

LEMMA ImageKept ==
    ASSUME TypeInv, NEW q \in Procs, state'[q] = state[q], pgdir'[q] = pgdir[q],
           Size(q)' = Size(q),
           state[q] = "RUNNABLE" => \A v \in VA : v < Size(q) => Shown(pgdir[q], v)
    PROVE  Image(q)' = Image(q)
<1>1. CASE state[q] # "RUNNABLE"
  BY <1>1 DEF Image
<1>2. CASE state[q] = "RUNNABLE"
  <2> DEFINE n == Size(q)
             e(v) == pt[pgdir[q]][v]
             f == [v \in 0 .. n - 1 |->
                     [val |-> IF e(v).pa = NoPage THEN Junk ELSE content[e(v).pa], user |-> e(v).u]]
             h == [v \in 0 .. n - 1 |->
                     [val |-> IF pt'[pgdir[q]][v].pa = NoPage THEN Junk
                              ELSE content'[pt'[pgdir[q]][v].pa], user |-> pt'[pgdir[q]][v].u]]
  <2>1. Image(q) = f
    BY <1>2 DEF Image
  <2>2. Image(q)' = h
    BY <1>2 DEF Image
  <2>3. \A v \in 0 .. n - 1 : v \in VA /\ v < n
    BY SizeOf
  <2>4. f = h
    BY <1>2, <2>3 DEF Shown
  <2> QED BY <2>1, <2>2, <2>4
<1> QED BY <1>1, <1>2

LEMMA VmOf ==
    ASSUME Sound, NEW q \in Procs
    PROVE  /\ Sizes(q) /\ TlbUser(q) /\ FaultUser(q) /\ HandZero(q) /\ GrowNew(q) /\ BuildNew(q)
           /\ Copies(q) /\ TypeInv /\ CountInv /\ PrivInv
BY DEF Sound, VmInv, VmOK

(* Another process sees and keeps what it had.                               *)
LEMMA VmBystander ==
    ASSUME Sound, NEW p \in Procs, Rows(p), Touches(p), NEW q \in Procs, q # p, SameProc(q)
    PROVE  VmOK(q)' /\ Image(q)' = Image(q)
<1>1. /\ Sizes(q) /\ TlbUser(q) /\ FaultUser(q) /\ HandZero(q) /\ GrowNew(q) /\ BuildNew(q)
      /\ Copies(q) /\ TypeInv
  BY VmOf
<1>2. \A d \in Pages : d \in {pgdir[q], loc[q].pd} =>
          \A v \in VA : /\ pt'[d][v] = pt[d][v]
                        /\ pt[d][v].pa # NoPage => content'[pt[d][v].pa] = content[pt[d][v].pa]
  BY RowElse, PageElse
<1>3. state[q] = "RUNNABLE" => pgdir[q] \in Pages
  BY <1>1 DEF TypeInv, Control, SlotOK
<1>4. Sizes(q)' /\ TlbUser(q)'
  BY <1>1, <1>2, <1>3 DEF Sizes, TlbUser, SameProc
<1>5. FaultUser(q)'
  <2>1. pc[q] \in {"dup", "move"} => pgdir[q] \in Pages /\ loc[q].va \in VA
    BY <1>1, FaultOf
  <2> QED BY <1>1, <1>2, <2>1 DEF FaultUser, SameProc
<1>6. HandZero(q)'
  <2>1. pc[q] = "map" => loc[q].pg \in Pages
    BY <1>1, LocalsOf DEF LocalsOK
  <2> QED BY <1>1, <2>1, HandElse DEF HandZero, SameProc
<1>7. loc[q].op \in {"grow", "fork"} => state[q] = "RUNNABLE"
  BY <1>1, IdleOf, RunnableOf
<1>8. GrowNew(q)'
  BY <1>1, <1>2, <1>3, <1>7 DEF GrowNew, SameProc
<1>9. BuildNew(q)'
  BY <1>1, <1>2, NewOf DEF BuildNew, SameProc
<1>10. Copies(q)'
  <2> SUFFICES ASSUME loc[q].op = "fork", pc[q] \in {"kpt", "copy", "incr", "commit"},
                      NEW v \in VA, pt'[loc[q].pd][v].pa # NoPage
               PROVE  /\ pt'[loc[q].pd][v].pa = pt'[pgdir[q]][v].pa
                      /\ pt'[loc[q].pd][v].u = pt'[pgdir[q]][v].u
    BY DEF Copies, SameProc
  <2>1. pgdir[q] \in Pages /\ loc[q].pd \in Pages
    BY <1>1, <1>3, <1>7, NewOf
  <2>2. pt'[loc[q].pd][v] = pt[loc[q].pd][v] /\ pt'[pgdir[q]][v] = pt[pgdir[q]][v]
    BY <1>2, <2>1
  <2> QED BY <1>1, <2>2 DEF Copies
<1>11. Image(q)' = Image(q)
  <2>1. Size(q)' = Size(q)
    BY DEF Size, SameProc
  <2>2. state[q] = "RUNNABLE" => \A v \in VA : Shown(pgdir[q], v)
    BY <1>2, <1>3 DEF Shown
  <2> QED BY <1>1, <2>1, <2>2, ImageKept DEF SameProc
<1> QED BY <1>4, <1>5, <1>6, <1>8, <1>9, <1>10, <1>11 DEF VmOK

-----------------------------------------------------------------------------
(* The abstract step. *)

NoImage == [v \in {} |-> Zero]
Images  == [q \in Procs |-> Image(q)]
VmStep  == [VM!Next]_Images

LEMMA SameImages == UNCHANGED Images => VmStep
BY DEF VmStep

LEMMA ImagesOf ==
    ASSUME NEW p \in Procs, \A q \in Procs : q # p => Image(q)' = Image(q)
    PROVE  Images' = [Images EXCEPT ![p] = Image(p)']
BY DEF Images

LEMMA AllSame ==
    ASSUME \A q \in Procs : Image(q)' = Image(q)
    PROVE  VmStep
<1>1. Images' = Images
  BY DEF Images
<1> QED BY <1>1, SameImages

(* A process that is alive has an image, another slot has none.              *)
LEMMA AliveOf ==
    ASSUME Sound, NEW p \in Procs
    PROVE  /\ state[p] # "RUNNABLE" => Image(p) = NoImage
           /\ state[p] = "RUNNABLE" => Image(p) # NoImage /\ Size(p) \in 1 .. MaxSz
<1>1. CASE state[p] # "RUNNABLE"
  BY <1>1 DEF Image, NoImage
<1>2. CASE state[p] = "RUNNABLE"
  <2>1. Sizes(p) /\ OwnImage(p) /\ TypeInv
    BY VmOf, OwnOf
  <2>2. Size(p) \in 1 .. MaxSz
    <3>1. Size(p) \in 0 .. MaxSz /\ MaxSz \in Nat /\ sz[p] \in 0 .. MaxSz
      BY <2>1, SizeOf, CowAssumption, LocalsOf
    <3>2. Size(p) # 0
      BY <1>2, <2>1, <3>1 DEF Size, Sizes, OwnImage
    <3> QED BY <3>1, <3>2
  <2>3. DOMAIN Image(p) = 0 .. Size(p) - 1
    BY <1>2 DEF Image
  <2>4. 0 \in DOMAIN Image(p) /\ DOMAIN NoImage = {}
    BY <2>2, <2>3 DEF NoImage
  <2> QED BY <1>2, <2>2, <2>4
<1> QED BY <1>1, <1>2

LEMMA VmExits ==
    ASSUME NEW p \in Procs, Image(p) # NoImage, Image(p)' = NoImage,
           \A q \in Procs : q # p => Image(q)' = Image(q)
    PROVE  VmStep
<1>1. Images' = [Images EXCEPT ![p] = NoImage] /\ Images[p] # NoImage
  BY ImagesOf DEF Images
<1>2. VM!Exit(p)
  BY <1>1 DEF VM!Exit, VM!Alive, VM!None, Images, NoImage
<1> QED BY <1>2 DEF VmStep, VM!Next

LEMMA VmForks ==
    ASSUME NEW p \in Procs, NEW n \in Procs, Image(p) # NoImage, Image(n) = NoImage,
           Image(n)' = Image(p),
           \A q \in Procs : q # n => Image(q)' = Image(q)
    PROVE  VmStep
<1>1. Images' = [Images EXCEPT ![n] = Images[p]] /\ Images[p] # NoImage /\ Images[n] = NoImage
  <2>1. Images[p] = Image(p) /\ Images[n] = Image(n)
    BY DEF Images
  <2> QED BY <2>1, ImagesOf
<1>2. VM!Fork(p, n)
  BY <1>1 DEF VM!Fork, VM!Alive, VM!None, Images, NoImage
<1> QED BY <1>2 DEF VmStep, VM!Next

LEMMA VmExecs ==
    ASSUME NEW p \in Procs, Image(p) # NoImage, Image(p)' \in VM!Images,
           \A q \in Procs : q # p => Image(q)' = Image(q)
    PROVE  VmStep
<1>1. PICK new \in VM!Images : new = Image(p)'
  OBVIOUS
<1>2. Images' = [Images EXCEPT ![p] = new] /\ Images[p] # NoImage
  BY <1>1, ImagesOf DEF Images
<1>3. VM!Exec(p)
  BY <1>2 DEF VM!Exec, VM!Alive, VM!None, Images, NoImage
<1> QED BY <1>3 DEF VmStep, VM!Next

LEMMA VmBoots ==
    ASSUME NEW p \in Procs, NEW x \in Vals, \A q \in Procs : Image(q) = NoImage,
           Image(p)' = [v \in {0} |-> [val |-> x, user |-> TRUE]],
           \A q \in Procs : q # p => Image(q)' = Image(q)
    PROVE  VmStep
<1>1. /\ Images' = [Images EXCEPT ![p] = [v \in {0} |-> [val |-> x, user |-> TRUE]]]
      /\ \A q \in Procs : Images[q] = NoImage
  BY ImagesOf DEF Images
<1>2. VM!Boot(p)
  BY <1>1 DEF VM!Boot, VM!Alive, VM!None, Images, NoImage
<1> QED BY <1>2 DEF VmStep, VM!Next

LEMMA VmStores ==
    ASSUME NEW p \in Procs, NEW v \in DOMAIN Image(p), NEW x \in Vals, Image(p)[v].user,
           Image(p)' = [Image(p) EXCEPT ![v].val = x],
           \A q \in Procs : q # p => Image(q)' = Image(q)
    PROVE  VmStep
<1>1. /\ Images' = [Images EXCEPT ![p] = [Images[p] EXCEPT ![v].val = x]]
      /\ v \in DOMAIN Images[p] /\ Images[p][v].user
  BY ImagesOf DEF Images
<1>2. Images' = [Images EXCEPT ![p][v].val = x]
  BY <1>1
<1>3. VM!Store(p)
  BY <1>1, <1>2 DEF VM!Store, Images
<1> QED BY <1>3 DEF VmStep, VM!Next

LEMMA VmResizes ==
    ASSUME NEW p \in Procs, NEW n \in 1 .. MaxSz, Image(p) # NoImage,
           Image(p)' = [v \in 0 .. n - 1 |-> IF v \in DOMAIN Image(p) THEN Image(p)[v]
                                             ELSE [val |-> Zero, user |-> TRUE]],
           \A q \in Procs : q # p => Image(q)' = Image(q)
    PROVE  VmStep
<1>1. /\ Images' = [Images EXCEPT ![p] =
                      [v \in 0 .. n - 1 |-> IF v \in DOMAIN Images[p] THEN Images[p][v]
                                            ELSE [val |-> Zero, user |-> TRUE]]]
      /\ Images[p] # NoImage
  BY ImagesOf DEF Images
<1>2. VM!Resize(p)
  BY <1>1 DEF VM!Resize, VM!Alive, VM!None, VM!Fresh, Images, NoImage
<1> QED BY <1>2 DEF VmStep, VM!Next

-----------------------------------------------------------------------------
(* What a step preserves. *)

LEMMA BootKept ==
    ASSUME Sound, \A q \in Procs : loc'[q].op = "init" => loc[q].op = "init",
           \/ \A q \in Procs : state'[q] = "RUNNABLE" => state[q] = "RUNNABLE"
           \/ \E q \in Procs : state[q] = "RUNNABLE"
    PROVE  BootFirst'
BY DEF Sound, VmInv, BootFirst

(* Every entry has no page, one that was mapped, or one with a value.        *)
Fills ==
    \A e \in Pages, w \in VA :
        \/ pt'[e][w].pa = NoPage
        \/ \E f \in Pages, x \in VA : pt[f][x].pa = pt'[e][w].pa
        \/ content'[pt'[e][w].pa] \in Vals
Keeps == \A g \in Pages : content'[g] = content[g] \/ content'[g] \in Vals \/ ~InUse(g)'

LEMMA HoldsKept ==
    ASSUME Sound, Fills, Keeps
    PROVE  Holds'
<1> SUFFICES ASSUME NEW e \in Pages, NEW w \in VA, pt'[e][w].pa # NoPage,
                    content'[pt'[e][w].pa] \notin Vals
             PROVE  FALSE
  BY DEF Holds
<1>1. PICK f \in Pages, x \in VA : pt[f][x].pa = pt'[e][w].pa
  BY DEF Fills
<1>2. PICK g \in Pages : g = pt[f][x].pa
  BY <1>1, PageOf
<1>3. content[g] \in Vals
  BY <1>1, <1>2 DEF Sound, VmInv, Holds
<1>4. InUse(g)'
  BY <1>1, <1>2 DEF InUse, InTables
<1> QED BY <1>1, <1>2, <1>3, <1>4 DEF Keeps

(* p and perhaps a second slot change.                                       *)
LEMMA VmActs ==
    ASSUME Sound, NEW p \in Procs, NEW n \in Procs, Rows(p), Touches(p),
           \A q \in Procs : q # p /\ q # n => SameProc(q),
           Holds', BootFirst', VmOK(p)', VmOK(n)'
    PROVE  VmInv' /\ \A q \in Procs : q # p /\ q # n => Image(q)' = Image(q)
<1>1. ASSUME NEW q \in Procs, q # p, q # n
      PROVE  VmOK(q)' /\ Image(q)' = Image(q)
  BY <1>1, VmBystander
<1> QED BY <1>1 DEF VmInv

(* Every mapping stays, and only pages nobody uses are written to.           *)
PtSeen == \A e \in Pages, w \in VA : pt'[e][w].pa = pt[e][w].pa /\ pt'[e][w].u = pt[e][w].u
Spares == \A g \in Pages : content'[g] = content[g] \/ ~InUse(g) \/ ~InUse(g)'

LEMMA PtIs == UNCHANGED pt => PtSeen /\ \A p : Rows(p)
BY DEF PtSeen, Rows

LEMMA ContentIs == UNCHANGED content => Spares
BY DEF Spares

LEMMA SparesShow ==
    ASSUME Sound, PtSeen, Spares
    PROVE  /\ \A p \in Procs : Touches(p)
           /\ Holds'
           /\ \A d \in Pages, v \in VA : Shown(d, v)
<1>1. \A p \in Procs : Touches(p)
  BY DEF Spares, Touches
<1>2. \A d \in Pages, v \in VA : Shown(d, v)
  <2> SUFFICES ASSUME NEW d \in Pages, NEW v \in VA, pt[d][v].pa # NoPage
               PROVE  content'[pt[d][v].pa] = content[pt[d][v].pa]
    BY DEF PtSeen, Shown
  <2>1. PICK g \in Pages : g = pt[d][v].pa
    BY PageOf
  <2>2. InUse(g)
    BY <2>1 DEF InUse, InTables
  <2>3. InUse(g)'
    BY <2>1 DEF PtSeen, InUse, InTables
  <2> QED BY <2>1, <2>2, <2>3 DEF Spares
<1>3. Holds'
  BY <1>2 DEF PtSeen, Shown, Holds, Sound, VmInv
<1> QED BY <1>1, <1>2, <1>3

(* Where p is: what VmOK says besides its translations.                      *)
PlaceOK(p) ==
    Sizes(p) /\ FaultUser(p) /\ HandZero(p) /\ GrowNew(p) /\ BuildNew(p) /\ Copies(p)

LEMMA TlbKept ==
    ASSUME Sound, NEW p \in Procs, state'[p] = state[p], pgdir'[p] = pgdir[p],
           tlb'[p] = tlb[p], PtSeen
    PROVE  TlbUser(p)'
<1>1. TlbUser(p) /\ (state[p] = "RUNNABLE" => pgdir[p] \in Pages)
  BY VmOf DEF TypeInv, Control, SlotOK
<1> QED BY <1>1 DEF TlbUser, PtSeen

LEMMA TlbNone ==
    ASSUME TypeInv, NEW p \in Procs, Lcr3(p)
    PROVE  TlbUser(p)'
<1>1. tlb'[p] = [v \in VA |-> NoPage]
  BY DEF Lcr3, TypeInv, TypeOK, LocalType
<1> QED BY <1>1 DEF TlbUser

(* A step of p that nobody sees.                                             *)
LEMMA VmCalm ==
    ASSUME Sound, NEW p \in Procs, NEW l, NEW r, GotoWith(p, l, r),
           UNCHANGED <<state, pgdir>>, UNCHANGED sz \/ \E n : sz' = [sz EXCEPT ![p] = n],
           UNCHANGED tlb \/ Lcr3(p),
           Rows(p), PtSeen, Spares, r.op = "init" => loc[p].op = "init",
           Size(p)' = Size(p), PlaceOK(p)'
    PROVE  VmInv' /\ VmStep
<1>1. OthersSame(p) /\ pc'[p] = l /\ loc'[p] = r /\ TypeInv
  BY VmOf, MovesSame
<1>2. Touches(p) /\ Holds' /\ \A d \in Pages, v \in VA : Shown(d, v)
  BY SparesShow
<1>3. BootFirst'
  BY <1>1, BootKept DEF OthersSame, SameProc
<1>4. VmOK(p)'
  <2>1. TlbUser(p)'
    BY <1>1, TlbKept, TlbNone
  <2> QED BY <2>1 DEF VmOK, PlaceOK
<1>5. VmInv' /\ \A q \in Procs : q # p => Image(q)' = Image(q)
  BY <1>1, <1>2, <1>3, <1>4, VmActs DEF OthersSame
<1>6. Image(p)' = Image(p)
  <2>1. state[p] = "RUNNABLE" => pgdir[p] \in Pages
    BY <1>1 DEF TypeInv, Control, SlotOK
  <2> QED BY <1>1, <1>2, <2>1, ImageKept
<1> QED BY <1>5, <1>6, AllSame

(* A panic, and what comes after it.                                         *)
LEMMA VmStands ==
    ASSUME VmInv, UNCHANGED <<pt, content, state, pgdir, sz, tlb, pc, loc>>
    PROVE  VmInv' /\ VmStep
<1>1. Holds' /\ BootFirst'
  BY DEF VmInv, Holds, BootFirst
<1>2. ASSUME NEW p \in Procs
      PROVE  VmOK(p)'
  <2>1. VmOK(p)
    BY DEF VmInv
  <2>2. Sizes(p)' /\ TlbUser(p)' /\ FaultUser(p)' /\ HandZero(p)'
    BY <2>1 DEF VmOK, Sizes, TlbUser, FaultUser, HandZero
  <2>3. GrowNew(p)' /\ BuildNew(p)' /\ Copies(p)'
    BY <2>1 DEF VmOK, GrowNew, BuildNew, Copies
  <2> QED BY <2>2, <2>3 DEF VmOK
<1>3. \A q \in Procs : Image(q)' = Image(q)
  BY DEF Image, Size
<1> QED BY <1>1, <1>2, <1>3, AllSame DEF VmInv

LEMMA VmHalts ==
    ASSUME Sound, UNCHANGED <<pt, content, state, pgdir, sz, tlb, pc, loc>>
    PROVE  VmInv' /\ VmStep
BY VmStands DEF Sound

LEMMA PlacePlain ==
    ASSUME Sound, NEW p \in Procs, loc'[p].op \notin {"grow", "exec", "init", "fork"},
           pc'[p] \notin {"map", "dup", "move"}, state'[p] = "RUNNABLE" => sz'[p] > 0
    PROVE  PlaceOK(p)'
BY DEF PlaceOK, Sizes, FaultUser, HandZero, GrowNew, BuildNew, Copies

-----------------------------------------------------------------------------
(* Steps nobody sees. *)

LEMMA ExecVm ==
    ASSUME Sound, NEW p \in Procs, Exec(p)
    PROVE  VmInv' /\ VmStep
<1> DEFINE r == [NoLoc EXCEPT !.op = "exec", !.lim = TextSz + 2]
<1>1. /\ pc[p] = "user" /\ GotoWith(p, "pgdir", r)
      /\ UNCHANGED <<pt, content, tlb, state, sz, pgdir>>
  BY DEF Exec, At, tables, ptable
<1>2. r.op = "exec" /\ r.lim = TextSz + 2
  BY DEF NoLoc
<1> HIDE DEF r
<1>3. loc[p].op = "none" /\ state[p] = "RUNNABLE" /\ TypeInv /\ Sizes(p)
  BY <1>1, VmOf, UserOf
<1>4. pc'[p] = "pgdir" /\ loc'[p] = r
  BY <1>1, <1>3, MovesSame
<1>5. PlaceOK(p)'
  BY <1>1, <1>2, <1>3, <1>4
     DEF PlaceOK, Sizes, FaultUser, HandZero, GrowNew, BuildNew, Copies
<1>6. Size(p)' = Size(p)
  BY <1>1, <1>2, <1>3, <1>4 DEF Size
<1> QED BY <1>1, <1>2, <1>5, <1>6, PtIs, ContentIs, VmCalm

LEMMA GrowVm ==
    ASSUME Sound, NEW p \in Procs, Grow(p)
    PROVE  VmInv' /\ VmStep
<1>1. pc[p] = "user" /\ UNCHANGED <<pt, content, tlb, state, sz, pgdir>>
  BY DEF Grow, At, tables, ptable
<1>2. PICK n \in (sz[p] + 1) .. MaxSz :
        GotoWith(p, "alloc", [NoLoc EXCEPT !.op = "grow", !.base = sz[p], !.i = sz[p], !.lim = n])
  BY DEF Grow
<1> DEFINE r == [NoLoc EXCEPT !.op = "grow", !.base = sz[p], !.i = sz[p], !.lim = n]
<1>3. r.op = "grow" /\ r.lim = n /\ GotoWith(p, "alloc", r)
  BY <1>2 DEF NoLoc
<1> HIDE DEF r
<1>4. /\ loc[p].op = "none" /\ state[p] = "RUNNABLE" /\ TypeInv /\ PrivInv /\ Sizes(p)
      /\ pgdir[p] \in Pages
  BY <1>1, VmOf, UserOf
<1>5. pc'[p] = "alloc" /\ loc'[p] = r
  BY <1>1, <1>3, <1>4, MovesSame
<1>6. sz[p] \in Nat /\ Filled(pgdir[p], sz[p], sz[p])
  BY <1>4, OwnOf DEF OwnImage
<1>7. PlaceOK(p)'
  <2>1. GrowNew(p)'
    BY <1>1, <1>6 DEF GrowNew, Filled
  <2>2. Sizes(p)'
    BY <1>1, <1>2, <1>3, <1>4, <1>5, <1>6 DEF Sizes
  <2> QED BY <1>3, <1>5, <2>1, <2>2 DEF PlaceOK, FaultUser, HandZero, BuildNew, Copies
<1>8. Size(p)' = Size(p)
  BY <1>1, <1>3, <1>4, <1>5 DEF Size
<1> QED BY <1>1, <1>3, <1>7, <1>8, PtIs, ContentIs, VmCalm

(* The end of a call that leaves the size and the image as they are.         *)
LEMMA VmReturns ==
    ASSUME Sound, NEW p \in Procs, Return(p), UNCHANGED <<state, pgdir, sz>>,
           UNCHANGED tlb \/ Lcr3(p), Rows(p), PtSeen, Spares, loc[p].op # "shrink"
    PROVE  VmInv' /\ VmStep
<1>1. GotoWith(p, "user", NoLoc) /\ NoLoc.op = "none" /\ TypeInv /\ Sizes(p)
  BY VmOf, NoLocIs, ReturnIs
<1>2. pc'[p] = "user" /\ loc'[p] = NoLoc
  BY <1>1, MovesSame
<1>3. PlaceOK(p)'
  BY <1>1, <1>2, PlacePlain DEF Sizes
<1>4. Size(p)' = Size(p)
  BY <1>1, <1>2 DEF Size
<1> QED BY <1>1, <1>3, <1>4, VmCalm

LEMMA CopyIncrVm ==
    ASSUME Sound, NEW p \in Procs, CopyIncr(p)
    PROVE  VmInv' /\ VmStep
<1> DEFINE r == [loc[p] EXCEPT !.i = @ + 1]
<1>1. /\ pc[p] = "incr" /\ GotoWith(p, "copy", r)
      /\ UNCHANGED <<pt, content, tlb, state, sz, pgdir>>
  BY DEF CopyIncr, At, tables, ptable
<1>2. /\ loc[p].op = "fork" /\ TypeInv /\ Sizes(p) /\ Copies(p)
  BY <1>1, VmOf, OwnOf DEF LocalsOK, OpAt, Locs, Ops
<1>3. r.op = "fork" /\ r.pd = loc[p].pd
  BY <1>2, OwnOf, VmOf DEF Locs
<1> HIDE DEF r
<1>4. pc'[p] = "copy" /\ loc'[p] = r
  BY <1>1, <1>2, MovesSame
<1>5. PlaceOK(p)'
  BY <1>1, <1>2, <1>3, <1>4
     DEF PlaceOK, Sizes, FaultUser, HandZero, GrowNew, BuildNew, Copies
<1>6. Size(p)' = Size(p)
  BY <1>1, <1>2, <1>3, <1>4 DEF Size
<1> QED BY <1>1, <1>3, <1>5, <1>6, PtIs, ContentIs, VmCalm

(* A step within a call that leaves the locals as they are.                  *)
LEMMA VmGoes ==
    ASSUME Sound, NEW p \in Procs, NEW l, Goto(p, l), UNCHANGED <<state, pgdir, sz>>,
           UNCHANGED tlb \/ Lcr3(p), Rows(p), PtSeen, Spares, PlaceOK(p)'
    PROVE  VmInv' /\ VmStep
<1>1. GotoWith(p, l, loc[p])
  BY VmOf, GotoIsGotoWith DEF TypeInv, TypeOK
<1>2. loc'[p] = loc[p]
  BY DEF Goto
<1>3. Size(p)' = Size(p)
  BY <1>2 DEF Size
<1> QED BY <1>1, <1>3, VmCalm

LEMMA CopyDoneVm ==
    ASSUME Sound, NEW p \in Procs, CopyDone(p)
    PROVE  VmInv' /\ VmStep
<1>1. /\ pc[p] = "copy" /\ Goto(p, "commit") /\ Lcr3(p)
      /\ UNCHANGED <<pt, content, state, sz, pgdir>>
  BY DEF CopyDone, At, tables, ptable
<1>2. loc[p].op = "fork" /\ TypeInv /\ Sizes(p) /\ Copies(p)
  BY <1>1, VmOf, OwnOf DEF LocalsOK, OpAt, Locs, Ops
<1>3. pc'[p] = "commit" /\ loc'[p] = loc[p]
  BY <1>1, <1>2 DEF Goto, TypeInv, TypeOK, LocalType
<1>4. PlaceOK(p)'
  BY <1>1, <1>2, <1>3
     DEF PlaceOK, Sizes, FaultUser, HandZero, GrowNew, BuildNew, Copies
<1> QED BY <1>1, <1>4, PtIs, ContentIs, VmGoes

(* exec and fork go on to free what they have built.                         *)
LEMMA VmFrees ==
    ASSUME Sound, NEW p \in Procs, NEW l \in {"freevm", "undo", "dealloc"}, Goto(p, l),
           UNCHANGED <<state, pgdir, sz, tlb>>, Rows(p), PtSeen, Spares,
           loc[p].op \in {"fork", "exec", "wait"} \/ (loc[p].op = "grow" /\ UNCHANGED <<pt, content>>)
    PROVE  VmInv' /\ VmStep
<1>1. TypeInv /\ Sizes(p) /\ GrowNew(p)
  BY VmOf
<1>2. pc'[p] = l /\ loc'[p] = loc[p]
  BY <1>1 DEF Goto, TypeInv, TypeOK, LocalType
<1>3. PlaceOK(p)'
  BY <1>1, <1>2 DEF PlaceOK, Sizes, FaultUser, HandZero, GrowNew, BuildNew, Copies
<1> QED BY <1>3, VmGoes

LEMMA ExecBadVm ==
    ASSUME Sound, NEW p \in Procs, ExecBad(p)
    PROVE  VmInv' /\ VmStep
<1>1. /\ loc[p].op = "exec" /\ Goto(p, "freevm")
      /\ UNCHANGED <<pt, content, tlb, state, sz, pgdir>>
  BY DEF ExecBad, tables, ptable
<1> QED BY <1>1, PtIs, ContentIs, VmFrees

LEMMA CowDecrVm ==
    ASSUME Sound, NEW p \in Procs, CowDecr(p)
    PROVE  VmInv' /\ VmStep
<1>1. /\ pc[p] = "decr" /\ Return(p) /\ Lcr3(p)
      /\ UNCHANGED <<pt, content, state, sz, pgdir>>
  BY DEF CowDecr, At, tables, ptable
<1>2. loc[p].op # "shrink"
  BY <1>1, VmOf, FaultOf
<1> QED BY <1>1, <1>2, PtIs, ContentIs, VmReturns

LEMMA CowOwnVm ==
    ASSUME Sound, NEW p \in Procs, CowOwn(p)
    PROVE  VmInv' /\ VmStep
<1>1. /\ pc[p] = "own" /\ Return(p) /\ Lcr3(p)
      /\ UNCHANGED <<content, state, sz, pgdir>>
      /\ pt' = pt \/ pt' = [pt EXCEPT ![pgdir[p]][loc[p].va].w = TRUE]
  BY DEF CowOwn, At, ptable
<1>2. loc[p].op # "shrink" /\ pgdir[p] \in Pages /\ loc[p].va \in VA /\ TypeInv
  BY <1>1, VmOf, FaultOf
<1>3. CASE pt' = pt
  BY <1>1, <1>2, <1>3, PtIs, ContentIs, VmReturns
<1>4. CASE pt' = [pt EXCEPT ![pgdir[p]][loc[p].va].w = TRUE]
  <2>1. \A e \in Pages, w \in VA : pt[e][w] \in Ptes
    BY PageOf
  <2>2. PICK x : x = [pt[pgdir[p]][loc[p].va] EXCEPT !.w = TRUE]
    OBVIOUS
  <2>3. x.pa = pt[pgdir[p]][loc[p].va].pa /\ x.u = pt[pgdir[p]][loc[p].va].u
    BY <1>2, <2>1, <2>2 DEF Ptes
  <2>4. PtSets(pgdir[p], loc[p].va, x)
    <3>1. pt' = [pt EXCEPT ![pgdir[p]][loc[p].va] = x]
      BY <1>4, <2>2
    <3> QED BY <1>2, <3>1, SetsOf
  <2>5. PtSeen /\ Rows(p)
    BY <2>3, <2>4 DEF PtSets, PtSeen, Rows
  <2> QED BY <1>1, <1>2, <2>5, ContentIs, VmReturns
<1> QED BY <1>1, <1>3, <1>4

(* setupkvm: the directory page was in no table, so it maps nothing.         *)
LEMMA NewDir ==
    ASSUME Sound, NEW p \in Procs, NEW g \in Pages, Kalloc(g),
           pt' = [pt EXCEPT ![g] = [v \in VA |-> NoPte]]
    PROVE  PtSeen /\ Rows(p) /\ \A v \in VA : pt'[g][v].pa = NoPage
<1>1. ~InUse(g) /\ TypeInv /\ PrivInv
  BY VmOf, KallocCounts
<1>2. \A v \in VA : pt[g][v].pa = NoPage
  BY <1>1, VmOf, UnusedDir
<1>3. \A v \in VA : pt[g][v] = NoPte
  <2> SUFFICES ASSUME NEW v \in VA
               PROVE  pt[g][v] = NoPte
    OBVIOUS
  <2>1. pt[g][v] \in Ptes
    BY PageOf
  <2>2. ~pt[g][v].w /\ ~pt[g][v].u
    BY <1>1, <1>2 DEF PrivInv, PteSound
  <2> QED BY <1>2, <2>1, <2>2 DEF Ptes, NoPte
<1>4. \A e \in Pages, w \in VA : pt'[e][w] = pt[e][w]
  <2>1. \A e \in Pages, w \in VA : pt'[e][w] = IF e = g THEN NoPte ELSE pt[e][w]
    BY <1>1 DEF TypeInv, TypeOK, TablesType
  <2> QED BY <1>3, <2>1
<1> QED BY <1>2, <1>4 DEF PtSeen, Rows

LEMMA SetupDirVm ==
    ASSUME Sound, NEW p \in Procs, SetupDir(p)
    PROVE  VmInv' /\ VmStep
<1>1. pc[p] = "pgdir" /\ UNCHANGED <<content, tlb, state, sz, pgdir>>
  BY DEF SetupDir, At, ptable
<1>2. /\ loc[p].op \in {"init", "fork", "exec"} /\ loc[p] \in Locs /\ TypeInv /\ Sizes(p)
  BY <1>1, VmOf, OwnOf DEF LocalsOK, OpAt, Locs, Ops
<1>3. ASSUME NEW g \in Pages, Kalloc(g), GotoWith(p, AfterKvm(p, 0), [loc[p] EXCEPT !.pd = g]),
             pt' = [pt EXCEPT ![g] = [v \in VA |-> NoPte]]
      PROVE  VmInv' /\ VmStep
  <2> DEFINE r == [loc[p] EXCEPT !.pd = g]
             l == AfterKvm(p, 0)
  <2>1. r.op = loc[p].op /\ r.pd = g /\ r.lim = loc[p].lim /\ GotoWith(p, l, r)
    BY <1>2, <1>3 DEF Locs
  <2>2. l \in {"kpt", "copy", "alloc"}
    BY DEF AfterKvm
  <2> HIDE DEF r, l
  <2>3. PtSeen /\ Rows(p) /\ \A v \in VA : pt'[g][v].pa = NoPage
    BY <1>3, NewDir
  <2>4. pc'[p] = l /\ loc'[p] = r
    BY <1>1, <1>2, <2>1, MovesSame
  <2>5. Sizes(p)'
    BY <1>1, <1>2, <2>1, <2>2, <2>4 DEF Sizes
  <2>6. PlaceOK(p)'
    BY <1>2, <2>1, <2>2, <2>3, <2>4, <2>5
       DEF PlaceOK, FaultUser, HandZero, GrowNew, BuildNew, Copies
  <2>7. Size(p)' = Size(p)
    BY <1>1, <1>2, <2>1, <2>4 DEF Size
  <2> QED BY <1>1, <2>1, <2>3, <2>6, <2>7, ContentIs, VmCalm
<1>4. ASSUME AfterNoTable(p), UNCHANGED tables
      PROVE  VmInv' /\ VmStep
  <2>1. UNCHANGED pt
    BY <1>4 DEF tables
  <2>2. CASE loc[p].op = "fork" /\ Goto(p, "undo")
    BY <1>1, <2>1, <2>2, PtIs, ContentIs, VmFrees
  <2>3. CASE loc[p].op = "exec" /\ Return(p)
    BY <1>1, <2>1, <2>3, PtIs, ContentIs, VmReturns
  <2>4. CASE Panic("userinit")
    BY <1>1, <2>1, <2>4, VmHalts DEF Panic
  <2> QED BY <1>4, <2>2, <2>3, <2>4 DEF AfterNoTable
<1> QED BY <1>3, <1>4 DEF SetupDir

LEMMA SetupKptVm ==
    ASSUME Sound, NEW p \in Procs, SetupKpt(p)
    PROVE  VmInv' /\ VmStep
<1>1. pc[p] = "kpt" /\ UNCHANGED <<pt, content, tlb, state, sz, pgdir>>
  BY DEF SetupKpt, At, ptable
<1>2. /\ loc[p].op \in {"init", "fork", "exec"} /\ TypeInv
      /\ Sizes(p) /\ BuildNew(p) /\ Copies(p)
  BY <1>1, VmOf, OwnOf DEF LocalsOK, OpAt, Locs, Ops
<1>3. ASSUME NEW l \in {"kpt", "copy", "alloc"}, Goto(p, l)
      PROVE  VmInv' /\ VmStep
  <2>1. pc'[p] = l /\ loc'[p] = loc[p]
    BY <1>2, <1>3 DEF Goto, TypeInv, TypeOK, LocalType
  <2>2. Sizes(p)'
    BY <1>1, <1>2, <1>3, <2>1 DEF Sizes
  <2>3. BuildNew(p)'
    BY <1>1, <1>2, <1>3, <2>1 DEF BuildNew
  <2>4. Copies(p)'
    BY <1>1, <1>2, <1>3, <2>1 DEF Copies
  <2>5. PlaceOK(p)'
    BY <1>2, <1>3, <2>1, <2>2, <2>3, <2>4 DEF PlaceOK, FaultUser, HandZero, GrowNew
  <2> QED BY <1>1, <1>3, <2>5, PtIs, ContentIs, VmGoes
<1>4. CASE Panic("userinit")
  BY <1>1, <1>4, VmHalts DEF Panic
<1>5. CASE Goto(p, "freevm") /\ loc[p].op # "init"
  BY <1>1, <1>2, <1>5, PtIs, ContentIs, VmFrees
<1>6. \A n : AfterKvm(p, n) \in {"kpt", "copy", "alloc"}
  BY DEF AfterKvm
<1>7. \/ Goto(p, AfterKvm(p, Cardinality(ktab[loc[p].pd]) + 1))
      \/ Panic("userinit")
      \/ Goto(p, "freevm") /\ loc[p].op # "init"
  BY DEF SetupKpt
<1> QED BY <1>3, <1>4, <1>5, <1>6, <1>7

LEMMA CowAllocVm ==
    ASSUME Sound, NEW p \in Procs, CowAlloc(p)
    PROVE  VmInv' /\ VmStep
<1>1. pc[p] = "dup" /\ UNCHANGED <<pt, content, tlb, state, sz, pgdir>>
  BY DEF CowAlloc, At, tables, ptable
<1>2. loc[p].op = "fault" /\ loc[p] \in Locs /\ TypeInv /\ Sizes(p) /\ FaultUser(p)
  BY <1>1, VmOf, FaultOf, OwnOf
<1>3. ASSUME NEW g \in Pages, GotoWith(p, "move", [loc[p] EXCEPT !.pg = g])
      PROVE  VmInv' /\ VmStep
  <2> DEFINE r == [loc[p] EXCEPT !.pg = g]
  <2>1. r.op = "fault" /\ r.va = loc[p].va /\ GotoWith(p, "move", r)
    BY <1>2, <1>3 DEF Locs
  <2> HIDE DEF r
  <2>2. pc'[p] = "move" /\ loc'[p] = r
    BY <1>1, <1>2, <2>1, MovesSame
  <2>3. PlaceOK(p)'
    BY <1>1, <1>2, <2>1, <2>2
       DEF PlaceOK, Sizes, FaultUser, HandZero, GrowNew, BuildNew, Copies
  <2>4. Size(p)' = Size(p)
    BY <1>1, <1>2, <2>1, <2>2 DEF Size
  <2> QED BY <1>1, <2>1, <2>3, <2>4, PtIs, ContentIs, VmCalm
<1>4. CASE Panic("out of memory")
  BY <1>1, <1>4, VmHalts DEF Panic
<1> QED BY <1>3, <1>4 DEF CowAlloc

LEMMA AllocPageVm ==
    ASSUME Sound, NEW p \in Procs, AllocPage(p)
    PROVE  VmInv' /\ VmStep
<1>1. pc[p] = "alloc" /\ UNCHANGED <<pt, tlb, state, sz, pgdir>>
  BY DEF AllocPage, At, tables, ptable
<1>2. /\ loc[p].op \in {"init", "exec", "grow"} /\ loc[p] \in Locs /\ TypeInv
      /\ Sizes(p) /\ GrowNew(p) /\ BuildNew(p)
  BY <1>1, VmOf, OwnOf DEF LocalsOK, OpAt, Locs, Ops
<1>3. ASSUME NEW g \in Pages, Kalloc(g), GotoWith(p, "map", [loc[p] EXCEPT !.pg = g]),
             content' = [content EXCEPT ![g] = Zero]
      PROVE  VmInv' /\ VmStep
  <2> DEFINE r == [loc[p] EXCEPT !.pg = g]
  <2>1. /\ r.op = loc[p].op /\ r.pd = loc[p].pd /\ r.pg = g /\ r.lim = loc[p].lim
        /\ r.base = loc[p].base /\ GotoWith(p, "map", r)
    BY <1>2, <1>3 DEF Locs
  <2> HIDE DEF r
  <2>2. pc'[p] = "map" /\ loc'[p] = r
    BY <1>1, <1>2, <2>1, MovesSame
  <2>3. content'[g] = Zero /\ \A h \in Pages : h # g => content'[h] = content[h]
    BY <1>2, <1>3 DEF TypeInv, TypeOK, KmemType
  <2>4. ~InUse(g)
    BY <1>3, VmOf, KallocCounts
  <2>5. Spares
    BY <2>3, <2>4 DEF Spares
  <2>6. \A d \in Pages, v \in VA : Shown(d, v)
    BY <1>1, <2>5, PtIs, SparesShow
  <2>7. GrowNew(p)'
    <3>1. loc[p].op = "grow" => pgdir[p] \in Pages
      BY <1>1, <1>2, RunnableOf
    <3> QED BY <1>1, <1>2, <2>1, <2>2, <2>6, <3>1 DEF GrowNew, Shown
  <2>8. Sizes(p)' /\ BuildNew(p)'
    BY <1>1, <1>2, <2>1, <2>2 DEF Sizes, BuildNew
  <2>9. PlaceOK(p)'
    BY <1>2, <2>1, <2>2, <2>3, <2>7, <2>8 DEF PlaceOK, FaultUser, HandZero, Copies
  <2>10. Size(p)' = Size(p)
    BY <1>1, <1>2, <2>1, <2>2 DEF Size
  <2> QED BY <1>1, <2>1, <2>5, <2>9, <2>10, PtIs, VmCalm
<1>4. CASE Panic("userinit") /\ UNCHANGED content
  BY <1>1, <1>4, VmHalts DEF Panic
<1>5. CASE Goto(p, "dealloc") /\ loc[p].op # "init" /\ UNCHANGED content
  <2>1. loc[p].op \in {"exec", "grow"}
    BY <1>2, <1>5
  <2> QED BY <1>1, <1>5, <2>1, PtIs, ContentIs, VmFrees
<1> QED BY <1>3, <1>4, <1>5 DEF AllocPage

(* A fault on a page the user may touch; a stray one panics.                 *)
LEMMA FaultVm ==
    ASSUME Sound, Stray # "guard", NEW p \in Procs, Fault(p)
    PROVE  VmInv' /\ VmStep
<1>1. pc[p] = "user" /\ UNCHANGED <<pt, content, tlb, state, sz, pgdir>>
  BY DEF Fault, At, tables, ptable
<1>2. loc[p].op = "none" /\ TypeInv /\ Sizes(p)
  BY <1>1, VmOf, UserOf
<1>3. CASE Panic("page not present")
  BY <1>1, <1>3, VmHalts DEF Panic
<1>4. ASSUME NEW v \in VA, pt[pgdir[p]][v].u, NEW l \in {"own", "dup"}, NEW a, NEW c,
             GotoWith(p, l, [NoLoc EXCEPT !.op = "fault", !.va = v, !.pa = a, !.refc = c])
      PROVE  VmInv' /\ VmStep
  <2> DEFINE r == [NoLoc EXCEPT !.op = "fault", !.va = v, !.pa = a, !.refc = c]
  <2>1. r.op = "fault" /\ r.va = v /\ GotoWith(p, l, r)
    BY <1>4 DEF NoLoc
  <2> HIDE DEF r
  <2>2. pc'[p] = l /\ loc'[p] = r
    BY <1>1, <1>2, <2>1, MovesSame
  <2>3. PlaceOK(p)'
    BY <1>1, <1>2, <1>4, <2>1, <2>2
       DEF PlaceOK, Sizes, FaultUser, HandZero, GrowNew, BuildNew, Copies
  <2>4. Size(p)' = Size(p)
    BY <1>1, <1>2, <2>1, <2>2 DEF Size
  <2> QED BY <1>1, <2>1, <2>3, <2>4, PtIs, ContentIs, VmCalm
<1>5. PICK v \in VA :
        \/ Panic("page not present")
        \/ /\ pt[pgdir[p]][v].u
           /\ GotoWith(p, IF pgrefc[pt[pgdir[p]][v].pa] > 1 THEN "dup" ELSE "own",
                [NoLoc EXCEPT !.op = "fault", !.va = v, !.pa = pt[pgdir[p]][v].pa,
                              !.refc = pgrefc[pt[pgdir[p]][v].pa]])
  BY DEF Fault
<1> QED BY <1>3, <1>4, <1>5


-----------------------------------------------------------------------------
(* Steps that free pages. *)

(* Only what nobody uses any more is overwritten.                            *)
Frees == \A g \in Pages : content'[g] = content[g] \/ ~InUse(g)'

LEMMA FreesAre ==
    ASSUME Frees
    PROVE  Spares /\ Keeps /\ \A p : Touches(p)
BY DEF Frees, Spares, Keeps, Touches

LEMMA KfreeFrees ==
    ASSUME TypeInv, Unused', NEW g \in Pages, Kfree(g)
    PROVE  Frees
<1> SUFFICES ASSUME NEW h \in Pages, content'[h] # content[h]
             PROVE  ~InUse(h)'
  BY DEF Frees
<1>1. h = g /\ pgrefc'[g] = 0
  BY DEF Kfree, TypeInv, TypeOK, KmemType
<1> QED BY <1>1 DEF Unused

LEMMA ContentFrees == UNCHANGED content => Frees
BY DEF Frees

(* A mapping that stays shows what it showed.                                *)
LEMMA FreesShow ==
    ASSUME Sound, Frees, NEW d \in Pages, NEW v \in VA, pt'[d][v] = pt[d][v]
    PROVE  Shown(d, v)
<1> SUFFICES ASSUME pt[d][v].pa # NoPage
             PROVE  content'[pt[d][v].pa] = content[pt[d][v].pa]
  BY DEF Shown
<1>1. PICK g \in Pages : g = pt[d][v].pa
  BY PageOf
<1>2. InUse(g)'
  BY <1>1 DEF InUse, InTables
<1> QED BY <1>1, <1>2 DEF Frees

LEMMA FreeTableVm ==
    ASSUME Sound, Unused', NEW p \in Procs, FreeTable(p)
    PROVE  VmInv' /\ VmStep
<1> DEFINE d == loc[p].pd
<1>1. pc[p] = "freevm" /\ UNCHANGED <<pt, state, sz, pgdir, tlb, pc, loc>>
  BY DEF FreeTable, At, ptable
<1>2. TypeInv /\ loc[p].op \in {"fork", "exec", "wait"} /\ d \in Pages
  BY <1>1, VmOf, OwnOf DEF LocalsOK, OpAt, Locs, Ops
<1>3. Frees
  <2>1. utab[d] \in Pages \union {NoPage} /\ ktab[d] \subseteq Pages
    BY <1>2 DEF TypeInv, TypeOK, TablesType
  <2>2. \E g \in Pages : Kfree(g)
    BY <2>1 DEF FreeTable
  <2> QED BY <1>2, <2>2, KfreeFrees
<1>4. Goto(p, "freevm")
  BY <1>1, <1>2 DEF Goto, TypeInv, TypeOK, LocalType
<1> QED BY <1>1, <1>2, <1>3, <1>4, PtIs, FreesAre, VmFrees

(* deallocuvm clears the entry of a page it has given to kfree.              *)
LEMMA VmDrops ==
    ASSUME Sound, NEW p \in Procs, pc[p] \in {"dealloc", "freevm"},
           NEW d \in Pages, d \in {pgdir[p], loc[p].pd}, NEW v \in VA, PtSets(d, v, NoPte),
           d = pgdir[p] => loc[p].op \in {"grow", "shrink"} /\ v >= loc[p].base,
           Frees, UNCHANGED <<tlb, state, sz, pgdir, pc, loc>>
    PROVE  VmInv' /\ VmStep
<1>1. \A e \in Pages, w \in VA : pt'[e][w] = pt[e][w] \/ (e = d /\ w = v /\ pt'[e][w].pa = NoPage)
  BY DEF PtSets, NoPte
<1>2. Rows(p)
  BY <1>1 DEF Rows
<1>3. Touches(p) /\ Keeps
  BY FreesAre
<1>4. Holds'
  <2>1. Fills
    BY <1>1 DEF Fills
  <2> QED BY <1>3, <2>1, HoldsKept
<1>5. BootFirst'
  BY BootKept
<1>6. Sizes(p) /\ TlbUser(p) /\ GrowNew(p) /\ TypeInv /\ PrivInv
  BY VmOf
<1>7. state[p] = "RUNNABLE" => pgdir[p] \in Pages
  BY <1>6 DEF TypeInv, Control, SlotOK
<1>8. VmOK(p)'
  <2>1. TlbUser(p)'
    BY <1>1, <1>6, <1>7 DEF TlbUser
  <2>2. GrowNew(p)'
    <3> SUFFICES ASSUME loc[p].op = "grow", NEW w \in VA, w >= sz[p],
                        pt'[pgdir[p]][w].pa # NoPage
                 PROVE  pt'[pgdir[p]][w].u /\ content'[pt'[pgdir[p]][w].pa] = Zero
      BY DEF GrowNew
    <3>1. pgdir[p] \in Pages
      BY <1>6, RunnableOf
    <3>2. pt'[pgdir[p]][w] = pt[pgdir[p]][w]
      BY <1>1, <3>1
    <3>3. Shown(pgdir[p], w)
      BY <3>1, <3>2, FreesShow
    <3> QED BY <1>6, <3>2, <3>3 DEF GrowNew, Shown
  <2>3. Sizes(p)' /\ FaultUser(p)' /\ HandZero(p)' /\ BuildNew(p)' /\ Copies(p)'
    BY <1>6 DEF Sizes, FaultUser, HandZero, BuildNew, Copies
  <2> QED BY <2>1, <2>2, <2>3 DEF VmOK
<1>9. \A q \in Procs : q # p => SameProc(q)
  BY DEF SameProc
<1>10. VmInv' /\ \A q \in Procs : q # p => Image(q)' = Image(q)
  BY <1>2, <1>3, <1>4, <1>5, <1>8, <1>9, VmActs
<1>11. Image(p)' = Image(p)
  <2>1. Size(p)' = Size(p)
    BY DEF Size
  <2>2. ASSUME state[p] = "RUNNABLE", NEW w \in VA, w < Size(p)
        PROVE  Shown(pgdir[p], w)
    <3>1. ~(pgdir[p] = d /\ w = v)
      <4>1. CASE loc[p].op = "shrink"
        <5>1. Size(p) = loc[p].base
          BY <4>1 DEF Size
        <5> QED BY <1>6, <2>2, <5>1, OwnOf DEF VA
      <4>2. CASE loc[p].op = "grow"
        <5>1. Size(p) = sz[p] /\ loc[p].base = sz[p]
          BY <1>6, <2>2, <4>2, OwnOf DEF Size, OwnImage
        <5> QED BY <1>6, <2>2, <5>1, OwnOf DEF VA
      <4> QED BY <4>1, <4>2
    <3>2. pgdir[p] \in Pages
      BY <1>7, <2>2
    <3>3. pt'[pgdir[p]][w] = pt[pgdir[p]][w]
      BY <1>1, <3>1, <3>2
    <3> QED BY <3>2, <3>3, FreesShow
  <2> QED BY <1>6, <2>1, <2>2, ImageKept
<1> QED BY <1>10, <1>11, AllSame

LEMMA DeallocPageVm ==
    ASSUME Sound, Unused', NEW p \in Procs, DeallocPage(p)
    PROVE  VmInv' /\ VmStep
<1>1. /\ pc[p] = "dealloc" /\ UNCHANGED <<tlb, state, sz, pgdir, pc, loc>>
      /\ TypeInv /\ PrivInv /\ CountInv
  BY VmOf DEF DeallocPage, At, ptable
<1>2. PICK d : d = Dir(p)
  OBVIOUS
<1>3. d \in Pages /\ d \in {pgdir[p], loc[p].pd}
  BY <1>1, <1>2, DirOf DEF Dir
<1>4. PICK v \in VA : /\ v >= loc[p].base /\ pt[d][v].pa # NoPage /\ Kfree(pt[d][v].pa)
                      /\ pt' = [pt EXCEPT ![d][v] = NoPte]
  BY <1>1, <1>2, OwnOf DEF DeallocPage, IsFirst, Mapped, DropPage, VA
<1>5. Frees
  <2>1. pt[d][v].pa \in Pages
    BY <1>3, <1>4, PageOf
  <2> QED BY <1>1, <1>4, <2>1, KfreeFrees
<1>6. PtSets(d, v, NoPte)
  BY <1>1, <1>3, <1>4, SetsOf
<1>7. d = pgdir[p] => loc[p].op \in {"grow", "shrink"}
  <2>1. loc[p].op \in {"grow", "shrink", "exec"}
    BY <1>1, OwnOf DEF LocalsOK, OpAt, Locs, Ops
  <2>2. loc[p].op = "exec" => loc[p].pd \in Pages
    BY <1>1, OwnOf DEF LocalsOK
  <2>3. loc[p].op = "exec" => d # pgdir[p]
    BY <1>1, <1>2, <2>2, CowAssumption DEF Dir, CountInv, OneOwner
  <2> QED BY <2>1, <2>3
<1> QED BY <1>1, <1>3, <1>4, <1>5, <1>6, <1>7, VmDrops

LEMMA FreePageVm ==
    ASSUME Sound, Unused', NEW p \in Procs, FreePage(p)
    PROVE  VmInv' /\ VmStep
<1>1. /\ pc[p] = "freevm" /\ UNCHANGED <<tlb, state, sz, pgdir, pc, loc>>
      /\ TypeInv /\ PrivInv /\ CountInv
  BY VmOf DEF FreePage, At, ptable
<1>2. PICK d : d = loc[p].pd
  OBVIOUS
<1>3. d \in Pages /\ d # pgdir[p]
  <2>1. loc[p].op \in {"fork", "exec", "wait"}
    BY <1>1, OwnOf DEF LocalsOK, OpAt, Locs, Ops
  <2>2. d \in Pages
    BY <1>1, <1>2, <2>1, OwnOf DEF LocalsOK
  <2> QED BY <1>1, <1>2, <2>2 DEF CountInv, OneOwner
<1>4. PICK v \in VA : /\ pt[d][v].pa # NoPage /\ Kfree(pt[d][v].pa)
                      /\ pt' = [pt EXCEPT ![d][v] = NoPte]
  BY <1>2 DEF FreePage, IsFirst, Mapped, DropPage
<1>5. Frees
  <2>1. pt[d][v].pa \in Pages
    BY <1>3, <1>4, PageOf
  <2> QED BY <1>1, <1>4, <2>1, KfreeFrees
<1>6. PtSets(d, v, NoPte)
  BY <1>1, <1>3, <1>4, SetsOf
<1> QED BY <1>1, <1>2, <1>3, <1>5, <1>6, VmDrops

LEMMA AllocFailedVm ==
    ASSUME Sound, Unused', NEW p \in Procs, AllocFailed(p)
    PROVE  VmInv' /\ VmStep
<1>1. /\ loc[p].op \in {"grow", "exec"} /\ UNCHANGED <<pt, tlb, state, sz, pgdir>>
      /\ TypeInv /\ PrivInv /\ Sizes(p) /\ loc[p] \in Locs
  BY VmOf, OwnOf DEF AllocFailed, tables, ptable
<1>2. Frees
  <2>1. CASE loc[p].pg = NoPage
    BY <2>1, ContentFrees DEF AllocFailed
  <2>2. CASE loc[p].pg # NoPage
    <3>1. loc[p].pg \in Pages
      BY <1>1, <2>2 DEF Locs
    <3> QED BY <1>1, <2>2, <3>1, KfreeFrees DEF AllocFailed
  <2> QED BY <2>1, <2>2
<1>3. Spares /\ PtSeen /\ Rows(p)
  BY <1>1, <1>2, PtIs, FreesAre
<1>4. CASE loc[p].op = "grow"
  BY <1>1, <1>3, <1>4, VmReturns DEF AllocFailed
<1>5. CASE loc[p].op = "exec"
  <2> DEFINE r == [loc[p] EXCEPT !.pg = NoPage]
  <2>1. r.op = "exec" /\ GotoWith(p, "freevm", r)
    BY <1>1, <1>5 DEF AllocFailed, Locs
  <2> HIDE DEF r
  <2>2. pc'[p] = "freevm" /\ loc'[p] = r
    BY <1>1, <2>1, MovesSame
  <2>3. PlaceOK(p)'
    BY <1>1, <2>1, <2>2
       DEF PlaceOK, Sizes, FaultUser, HandZero, GrowNew, BuildNew, Copies
  <2>4. Size(p)' = Size(p)
    BY <1>1, <1>5, <2>1, <2>2 DEF Size
  <2> QED BY <1>1, <1>3, <2>1, <2>3, <2>4, VmCalm
<1> QED BY <1>1, <1>4, <1>5

-----------------------------------------------------------------------------
(* Processes come and go. *)

LEMMA VmIdle ==
    ASSUME NEW q \in Procs, state'[q] # "RUNNABLE", pc'[q] = "none", loc'[q].op = "none"
    PROVE  VmOK(q)' /\ Image(q)' = NoImage
<1>1. VmOK(q)'
  BY DEF VmOK, Sizes, TlbUser, FaultUser, HandZero, GrowNew, BuildNew, Copies
<1>2. Image(q)' = NoImage
  BY DEF Image, NoImage
<1> QED BY <1>1, <1>2

LEMMA VmPlain ==
    ASSUME Sound, NEW q \in Procs, loc'[q].op \notin {"grow", "exec", "init", "fork"},
           pc'[q] \notin {"map", "dup", "move"}, state'[q] = "RUNNABLE" => sz'[q] > 0,
           TlbUser(q)'
    PROVE  VmOK(q)'
BY PlacePlain DEF VmOK, PlaceOK

(* The image of a process stays when its size and the page tables do.        *)
LEMMA ImageStays ==
    ASSUME Sound, PtSeen, Spares, NEW q \in Procs, state'[q] = state[q], pgdir'[q] = pgdir[q],
           Size(q)' = Size(q)
    PROVE  Image(q)' = Image(q)
<1>1. TypeInv /\ \A d \in Pages, v \in VA : Shown(d, v)
  BY VmOf, SparesShow
<1>2. state[q] = "RUNNABLE" => pgdir[q] \in Pages
  BY <1>1 DEF TypeInv, Control, SlotOK
<1> QED BY <1>1, <1>2, ImageKept

(* A fork that fails, or a wait that has freed its child, gives up the slot. *)
LEMMA VmGivesSlot ==
    ASSUME Sound, NEW p \in Procs, loc[p].op \in {"fork", "wait"},
           Return(p), state' = [state EXCEPT ![loc[p].np] = "UNUSED"],
           UNCHANGED <<pt, tlb, sz, pgdir>>, Spares
    PROVE  VmInv' /\ VmStep
<1>1. TypeInv /\ PrivInv /\ Sizes(p)
  BY VmOf
<1>2. PICK n \in Procs : /\ n = loc[p].np /\ n # p
                         /\ pc[n] = "none" /\ loc[n].op = "none" /\ state[n] # "RUNNABLE"
                         /\ state[p] = "RUNNABLE"
  <2> DEFINE n == loc[p].np
  <2>1. n \in Procs /\ n # p /\ state[n] # "RUNNABLE" /\ pc[n] = "none"
    BY <1>1, ForkOf, WaitOf, IdleOf
  <2>2. pc[p] # "none"
    BY <1>1, OwnOf DEF LocalsOK, OpAt
  <2> QED BY <1>1, <2>1, <2>2, IdleOf, RunnableOf
<1>3. /\ pc'[p] = "user" /\ loc'[p] = NoLoc /\ state'[n] = "UNUSED"
      /\ \A q \in Procs : q # p => pc'[q] = pc[q] /\ loc'[q] = loc[q]
      /\ \A q \in Procs : q # n => state'[q] = state[q]
  BY <1>1, <1>2 DEF Return, GotoWith, TypeInv, TypeOK, LocalType, PtableType
<1>4. PtSeen /\ Rows(p) /\ Touches(p) /\ Holds'
  BY PtIs, SparesShow
<1>5. BootFirst'
  <2>1. \A q \in Procs : loc'[q].op = "init" => loc[q].op = "init"
    BY <1>3, NoLocIs
  <2>2. \A q \in Procs : state'[q] = "RUNNABLE" => state[q] = "RUNNABLE"
    BY <1>3
  <2> QED BY <2>1, <2>2, BootKept
<1>6. VmOK(n)' /\ Image(n)' = NoImage
  BY <1>2, <1>3, VmIdle
<1>7. VmOK(p)'
  <2>1. TlbUser(p)'
    BY <1>2, <1>3, <1>4, TlbKept
  <2> QED BY <1>1, <1>2, <1>3, <2>1, NoLocIs, VmPlain DEF Sizes
<1>8. \A q \in Procs : q # p /\ q # n => SameProc(q)
  BY <1>3 DEF SameProc
<1>9. VmInv' /\ \A q \in Procs : q # p /\ q # n => Image(q)' = Image(q)
  BY <1>4, <1>5, <1>6, <1>7, <1>8, VmActs
<1>10. Image(n) = NoImage
  BY <1>2, AliveOf
<1>11. Image(p)' = Image(p)
  <2>1. Size(p)' = Size(p)
    BY <1>3, NoLocIs DEF Size
  <2> QED BY <1>2, <1>3, <1>4, <2>1, ImageStays
<1> QED BY <1>6, <1>9, <1>10, <1>11, AllSame

LEMMA ForkUndoVm ==
    ASSUME Sound, Unused', NEW p \in Procs, ForkUndo(p)
    PROVE  VmInv' /\ VmStep
<1>1. /\ pc[p] = "undo" /\ Return(p) /\ state' = [state EXCEPT ![loc[p].np] = "UNUSED"]
      /\ UNCHANGED <<pt, tlb, sz, pgdir>> /\ Kfree(kstack[loc[p].np]) /\ TypeInv
  BY VmOf DEF ForkUndo, At, tables
<1>2. loc[p].op = "fork" /\ kstack[loc[p].np] \in Pages
  <2>1. loc[p].op = "fork"
    BY <1>1, VmOf, OwnOf DEF LocalsOK, OpAt, Locs, Ops
  <2> QED BY <1>1, <2>1, ForkOf
<1>3. Spares
  BY <1>1, <1>2, KfreeFrees, FreesAre
<1> QED BY <1>1, <1>2, <1>3, VmGivesSlot

LEMMA FreeDirVm ==
    ASSUME Sound, Unused', NEW p \in Procs, FreeDir(p)
    PROVE  VmInv' /\ VmStep
<1>1. pc[p] = "freevm" /\ Kfree(loc[p].pd) /\ UNCHANGED <<pt, tlb, sz, pgdir>>
  BY DEF FreeDir, At, tables
<1>2. TypeInv /\ PrivInv /\ loc[p] \in Locs /\ loc[p].op \in {"fork", "exec", "wait"} /\ loc[p].pd \in Pages
  BY <1>1, VmOf, OwnOf DEF LocalsOK, OpAt, Locs, Ops
<1>3. Spares /\ PtSeen /\ Rows(p)
  BY <1>1, <1>2, KfreeFrees, FreesAre, PtIs
<1>4. CASE loc[p].op = "fork" /\ UNCHANGED state /\ GotoWith(p, "undo", [loc[p] EXCEPT !.pd = NoPage])
  <2> DEFINE r == [loc[p] EXCEPT !.pd = NoPage]
  <2>1. GotoWith(p, "undo", r) /\ r.op = "fork"
    BY <1>2, <1>4 DEF Locs
  <2> HIDE DEF r
  <2>2. pc'[p] = "undo" /\ loc'[p] = r
    BY <1>1, <1>2, <1>4, <2>1, MovesSame
  <2>3. PlaceOK(p)'
    <3>1. Sizes(p)
      BY VmOf
    <3> QED BY <1>1, <1>4, <2>1, <2>2, <3>1
       DEF PlaceOK, Sizes, FaultUser, HandZero, GrowNew, BuildNew, Copies
  <2>4. Size(p)' = Size(p)
    BY <1>1, <1>4, <2>1, <2>2 DEF Size
  <2> QED BY <1>1, <1>3, <1>4, <2>1, <2>3, <2>4, VmCalm
<1>5. CASE loc[p].op = "exec" /\ UNCHANGED state /\ Return(p)
  BY <1>1, <1>3, <1>5, VmReturns
<1>6. CASE /\ loc[p].op = "wait" /\ Return(p)
           /\ state' = [state EXCEPT ![loc[p].np] = "UNUSED"]
  BY <1>1, <1>3, <1>6, VmGivesSlot
<1> QED BY <1>4, <1>5, <1>6 DEF FreeDir

LEMMA WaitVm ==
    ASSUME Sound, Unused', NEW p \in Procs, Wait(p)
    PROVE  VmInv' /\ VmStep
<1>1. pc[p] = "user" /\ PtableFree /\ UNCHANGED <<pt, state, tlb>>
  BY DEF Wait, At, tables
<1>2. PICK c \in Procs :
        /\ state[c] = "ZOMBIE" /\ Kfree(kstack[c])
        /\ GotoWith(p, "freevm", [NoLoc EXCEPT !.op = "wait", !.np = c, !.pd = pgdir[c]])
        /\ pgdir' = [pgdir EXCEPT ![c] = NoPage] /\ sz' = [sz EXCEPT ![c] = 0]
  BY DEF Wait
<1> DEFINE r == [NoLoc EXCEPT !.op = "wait", !.np = c, !.pd = pgdir[c]]
<1>3. r.op = "wait" /\ GotoWith(p, "freevm", r)
  BY <1>2 DEF NoLoc
<1> HIDE DEF r
<1>4. /\ loc[p].op = "none" /\ state[p] = "RUNNABLE" /\ c # p /\ TypeInv /\ Sizes(p)
      /\ pc[c] = "none" /\ loc[c].op = "none" /\ kstack[c] \in Pages
  <2>1. TypeInv /\ Sizes(p)
    BY VmOf
  <2>2. kstack[c] \in Pages
    BY <1>1, <1>2, <2>1, ZombieOf DEF PtableFree, Reaping
  <2> QED BY <1>1, <1>2, <2>1, <2>2, UserOf, IdleOf
<1>5. /\ pc'[p] = "freevm" /\ loc'[p] = r
      /\ \A q \in Procs : q # p => pc'[q] = pc[q] /\ loc'[q] = loc[q]
      /\ \A q \in Procs : q # c => pgdir'[q] = pgdir[q] /\ sz'[q] = sz[q]
  BY <1>2, <1>3, <1>4 DEF GotoWith, TypeInv, TypeOK, LocalType, PtableType
<1>6. Spares /\ PtSeen /\ Rows(p) /\ Touches(p) /\ Holds'
  <2>1. Spares /\ PtSeen /\ Rows(p)
    BY <1>1, <1>2, <1>4, KfreeFrees, FreesAre, PtIs
  <2> QED BY <2>1, SparesShow
<1>7. BootFirst'
  BY <1>1, <1>3, <1>5, BootKept
<1>8. VmOK(p)'
  <2>1. TlbUser(p)'
    BY <1>1, <1>4, <1>5, <1>6, TlbKept
  <2> QED BY <1>1, <1>3, <1>4, <1>5, <2>1, VmPlain DEF Sizes
<1>9. VmOK(c)' /\ Image(c)' = NoImage
  BY <1>1, <1>2, <1>4, <1>5, VmIdle
<1>10. \A q \in Procs : q # p /\ q # c => SameProc(q)
  BY <1>1, <1>5 DEF SameProc
<1>11. VmInv' /\ \A q \in Procs : q # p /\ q # c => Image(q)' = Image(q)
  BY <1>6, <1>7, <1>8, <1>9, <1>10, VmActs
<1>12. Image(c) = NoImage
  BY <1>2, AliveOf
<1>13. Image(p)' = Image(p)
  <2>1. Size(p)' = Size(p)
    BY <1>3, <1>4, <1>5 DEF Size
  <2> QED BY <1>1, <1>4, <1>5, <1>6, <2>1, ImageStays
<1> QED BY <1>9, <1>11, <1>12, <1>13, AllSame

LEMMA ForkVm ==
    ASSUME Sound, NEW p \in Procs, Fork(p)
    PROVE  VmInv' /\ VmStep
<1>1. pc[p] = "user" /\ UNCHANGED <<pt, content, tlb, sz, pgdir>>
  BY DEF Fork, At, tables
<1>2. PICK n \in Procs :
        /\ state[n] = "UNUSED" /\ state' = [state EXCEPT ![n] = "EMBRYO"]
        /\ GotoWith(p, "kstack", [NoLoc EXCEPT !.op = "fork", !.np = n])
  BY DEF Fork
<1> DEFINE r == [NoLoc EXCEPT !.op = "fork", !.np = n]
<1>3. r.op = "fork" /\ GotoWith(p, "kstack", r)
  BY <1>2 DEF NoLoc
<1> HIDE DEF r
<1>4. loc[p].op = "none" /\ state[p] = "RUNNABLE" /\ n # p /\ TypeInv /\ Sizes(p)
  BY <1>1, <1>2, VmOf, UserOf
<1>5. pc[n] = "none" /\ loc[n].op = "none"
  BY <1>2, <1>4, UnusedOf
<1>6. /\ pc'[p] = "kstack" /\ loc'[p] = r /\ state'[n] = "EMBRYO"
      /\ \A q \in Procs : q # p => pc'[q] = pc[q] /\ loc'[q] = loc[q]
      /\ \A q \in Procs : q # n => state'[q] = state[q]
  BY <1>2, <1>3, <1>4 DEF GotoWith, TypeInv, TypeOK, LocalType, PtableType
<1>7. Spares /\ PtSeen /\ Rows(p) /\ Touches(p) /\ Holds'
  BY <1>1, PtIs, ContentIs, SparesShow
<1>8. BootFirst'
  BY <1>3, <1>4, <1>6, BootKept
<1>9. VmOK(p)'
  <2>1. TlbUser(p)'
    BY <1>1, <1>4, <1>6, <1>7, TlbKept
  <2>2. PlaceOK(p)'
    BY <1>1, <1>3, <1>4, <1>6
       DEF PlaceOK, Sizes, FaultUser, HandZero, GrowNew, BuildNew, Copies
  <2> QED BY <2>1, <2>2 DEF VmOK, PlaceOK
<1>10. VmOK(n)' /\ Image(n)' = NoImage
  BY <1>4, <1>5, <1>6, VmIdle
<1>11. \A q \in Procs : q # p /\ q # n => SameProc(q)
  BY <1>1, <1>6 DEF SameProc
<1>12. VmInv' /\ \A q \in Procs : q # p /\ q # n => Image(q)' = Image(q)
  BY <1>7, <1>8, <1>9, <1>10, <1>11, VmActs
<1>13. Image(n) = NoImage
  BY <1>2, AliveOf
<1>14. Image(p)' = Image(p)
  <2>1. Size(p)' = Size(p)
    BY <1>1, <1>3, <1>4, <1>6 DEF Size
  <2> QED BY <1>1, <1>4, <1>6, <1>7, <2>1, ImageStays
<1> QED BY <1>10, <1>12, <1>13, <1>14, AllSame

LEMMA AllocKstackVm ==
    ASSUME Sound, NEW p \in Procs, AllocKstack(p)
    PROVE  VmInv' /\ VmStep
<1>1. pc[p] = "kstack" /\ UNCHANGED <<pt, content, tlb, sz, pgdir>>
  BY DEF AllocKstack, At, tables
<1>2. loc[p].op \in {"init", "fork"} /\ TypeInv /\ Sizes(p)
  BY <1>1, VmOf, OwnOf DEF LocalsOK, OpAt, Locs, Ops
<1>3. CASE Goto(p, "pgdir") /\ UNCHANGED state
  <2>1. pc'[p] = "pgdir" /\ loc'[p] = loc[p]
    BY <1>2, <1>3 DEF Goto, TypeInv, TypeOK, LocalType
  <2>2. PlaceOK(p)'
    BY <1>1, <1>2, <1>3, <2>1
       DEF PlaceOK, Sizes, FaultUser, HandZero, GrowNew, BuildNew, Copies
  <2> QED BY <1>1, <1>3, <2>2, PtIs, ContentIs, VmGoes
<1>4. CASE state' = [state EXCEPT ![loc[p].np] = "UNUSED"] /\ loc[p].op = "fork" /\ Return(p)
  BY <1>1, <1>4, ContentIs, VmGivesSlot
<1>5. CASE /\ state' = [state EXCEPT ![loc[p].np] = "UNUSED"] /\ loc[p].op = "init"
           /\ Panic("userinit")
  <2>1. loc[p].np = p /\ state[p] = "EMBRYO"
    BY <1>2, <1>5, InitOf
  <2>2. /\ state'[p] = "UNUSED" /\ UNCHANGED <<pc, loc>>
        /\ \A q \in Procs : q # p => state'[q] = state[q]
    BY <1>2, <1>5, <2>1 DEF Panic, TypeInv, TypeOK, PtableType
  <2>3. Spares /\ PtSeen /\ Rows(p) /\ Touches(p) /\ Holds'
    BY <1>1, PtIs, ContentIs, SparesShow
  <2>4. BootFirst'
    BY <2>2, BootKept
  <2>5. VmOK(p)'
    BY <1>1, <1>5, <2>2
       DEF VmOK, Sizes, TlbUser, FaultUser, HandZero, GrowNew, BuildNew, Copies
  <2>6. \A q \in Procs : q # p /\ q # p => SameProc(q)
    BY <1>1, <2>2 DEF SameProc
  <2>7. VmInv' /\ \A q \in Procs : q # p /\ q # p => Image(q)' = Image(q)
    BY <2>3, <2>4, <2>5, <2>6, VmActs
  <2>8. Image(p)' = Image(p)
    BY <2>1, <2>2 DEF Image
  <2> QED BY <2>7, <2>8, AllSame
<1>6. \/ Goto(p, "pgdir") /\ UNCHANGED state
      \/ /\ state' = [state EXCEPT ![loc[p].np] = "UNUSED"]
         /\ \/ loc[p].op = "fork" /\ Return(p)
            \/ loc[p].op # "fork" /\ Panic("userinit")
  BY DEF AllocKstack
<1> QED BY <1>2, <1>3, <1>4, <1>5, <1>6

LEMMA ExitVm ==
    ASSUME Sound, NEW p \in Procs, Exit(p)
    PROVE  VmInv' /\ VmStep
<1>1. pc[p] = "user" /\ UNCHANGED <<pt, content, sz, pgdir>>
  BY DEF Exit, At, tables
<1>2. CASE Panic("init exiting") /\ UNCHANGED <<state, tlb>>
  BY <1>1, <1>2, VmHalts DEF Panic
<1>3. CASE state' = [state EXCEPT ![p] = "ZOMBIE"] /\ GotoWith(p, "none", NoLoc) /\ Lcr3(p)
  <2>1. state[p] = "RUNNABLE" /\ TypeInv
    BY <1>1, VmOf, UserOf
  <2>2. /\ pc'[p] = "none" /\ loc'[p] = NoLoc /\ state'[p] = "ZOMBIE"
        /\ \A q \in Procs : q # p => SameProc(q)
        /\ \A q \in Procs : q # p => loc'[q] = loc[q] /\ state'[q] = state[q]
    BY <1>1, <1>3, <2>1
       DEF SameProc, Lcr3, GotoWith, TypeInv, TypeOK, LocalType, PtableType
  <2>3. Rows(p) /\ Touches(p) /\ Holds'
    BY <1>1, PtIs, ContentIs, SparesShow
  <2>4. BootFirst'
    BY <2>1, <2>2, NoLocIs, BootKept
  <2>5. VmOK(p)' /\ Image(p)' = NoImage
    BY <2>2, NoLocIs, VmIdle
  <2>6. VmInv' /\ \A q \in Procs : q # p => Image(q)' = Image(q)
    BY <2>2, <2>3, <2>4, <2>5, VmActs
  <2>7. Image(p) # NoImage
    BY <2>1, AliveOf
  <2> QED BY <2>5, <2>6, <2>7, VmExits
<1> QED BY <1>2, <1>3 DEF Exit

(* The child's image is the parent's.                                        *)
LEMMA ForkCommitVm ==
    ASSUME Sound, NEW p \in Procs, ForkCommit(p)
    PROVE  VmInv' /\ VmStep
<1>1. PICK n : n = loc[p].np
  OBVIOUS
<1>2. PICK d : d = loc[p].pd
  OBVIOUS
<1>3. /\ pc[p] = "commit" /\ loc[p].op = "fork" /\ UNCHANGED <<pt, content>>
      /\ pgdir' = [pgdir EXCEPT ![n] = d] /\ sz' = [sz EXCEPT ![n] = sz[p]]
      /\ state' = [state EXCEPT ![n] = "RUNNABLE"]
      /\ pc' = [pc EXCEPT ![n] = "user", ![p] = "user"]
      /\ loc' = [loc EXCEPT ![n] = NoLoc, ![p] = NoLoc]
      /\ tlb' = [tlb EXCEPT ![n] = [v \in VA |-> NoPage]]
  BY <1>1, <1>2 DEF ForkCommit, At, tables
<1>4. /\ n \in Procs /\ n # p /\ state[n] # "RUNNABLE" /\ state[p] = "RUNNABLE"
      /\ d \in Pages /\ Filled(d, sz[p], sz[p])
      /\ TypeInv /\ Sizes(p) /\ Copies(p) /\ sz[p] > 0
  <2>1. TypeInv /\ PrivInv /\ Sizes(p) /\ Copies(p)
    BY VmOf
  <2>2. state[p] = "RUNNABLE" /\ d \in Pages
    BY <1>2, <1>3, <2>1, RunnableOf, NewOf
  <2>3. n \in Procs /\ n # p /\ state[n] # "RUNNABLE"
    BY <1>1, <1>3, <2>1, ForkOf
  <2> QED BY <1>2, <1>3, <2>1, <2>2, <2>3, OwnOf DEF NewImage, Sizes
<1>5. /\ pgdir'[n] = d /\ sz'[n] = sz[p] /\ pc'[n] = "user" /\ loc'[n] = NoLoc
      /\ state'[n] = "RUNNABLE" /\ \A v \in VA : tlb'[n][v] = NoPage
      /\ pc'[p] = "user" /\ loc'[p] = NoLoc
      /\ pgdir'[p] = pgdir[p] /\ sz'[p] = sz[p] /\ state'[p] = state[p] /\ tlb'[p] = tlb[p]
  BY <1>3, <1>4 DEF TypeInv, TypeOK, LocalType, PtableType
<1>6. \A q \in Procs : q # p /\ q # n => SameProc(q)
  BY <1>3, <1>4 DEF SameProc, TypeInv, TypeOK, LocalType, PtableType
<1>7. Spares /\ PtSeen /\ Rows(p) /\ Touches(p) /\ Holds'
  BY <1>3, PtIs, ContentIs, SparesShow
<1>8. BootFirst'
  <2>1. \A q \in Procs : loc'[q].op = "init" => loc[q].op = "init"
    BY <1>5, <1>6, NoLocIs DEF SameProc
  <2> QED BY <1>4, <2>1, BootKept
<1>9. VmOK(n)'
  <2>1. TlbUser(n)'
    BY <1>5 DEF TlbUser
  <2> QED BY <1>4, <1>5, <2>1, NoLocIs, VmPlain
<1>10. VmOK(p)'
  <2>1. TlbUser(p)'
    BY <1>5, <1>7, TlbKept
  <2> QED BY <1>4, <1>5, <2>1, NoLocIs, VmPlain
<1>11. VmInv' /\ \A q \in Procs : q # p /\ q # n => Image(q)' = Image(q)
  BY <1>4, <1>6, <1>7, <1>8, <1>9, <1>10, VmActs
<1>12. Size(p) = sz[p] /\ Size(p)' = sz[p] /\ Size(n)' = sz[p]
  BY <1>3, <1>5, NoLocIs DEF Size
<1>13. Image(p)' = Image(p)
  BY <1>5, <1>7, <1>12, ImageStays
<1>14. Image(n)' = Image(p)
  <2> DEFINE f == pgdir[p]
             k == sz[p]
             a == [v \in 0 .. k - 1 |->
                     [val |-> IF pt[f][v].pa = NoPage THEN Junk ELSE content[pt[f][v].pa],
                      user |-> pt[f][v].u]]
             b == [v \in 0 .. k - 1 |->
                     [val |-> IF pt[d][v].pa = NoPage THEN Junk ELSE content[pt[d][v].pa],
                      user |-> pt[d][v].u]]
  <2>1. Image(p) = a
    BY <1>4, <1>12 DEF Image
  <2>2. Image(n)' = b
    BY <1>3, <1>5, <1>12 DEF Image
  <2>3. \A v \in 0 .. k - 1 : v \in VA /\ v < k
    BY <1>4, <1>12, SizeOf
  <2>4. \A v \in VA : v < k => pt[d][v].pa = pt[f][v].pa /\ pt[d][v].u = pt[f][v].u
    BY <1>2, <1>3, <1>4 DEF Copies, Filled
  <2> HIDE DEF f, k
  <2>5. a = b
    BY <2>3, <2>4
  <2> QED BY <2>1, <2>2, <2>5
<1>15. Image(p) # NoImage /\ Image(n) = NoImage
  BY <1>4, AliveOf
<1>16. \A q \in Procs : q # n => Image(q)' = Image(q)
  BY <1>11, <1>13
<1> QED BY <1>4, <1>11, <1>14, <1>15, <1>16, VmForks

-----------------------------------------------------------------------------
(* Steps that map pages. *)

(* p changes its page tables and nothing that it or another process sees.    *)
LEMMA VmWorks ==
    ASSUME Sound, NEW p \in Procs, NEW l, NEW r, GotoWith(p, l, r),
           UNCHANGED <<state, pgdir, sz, tlb>>, Rows(p), Touches(p), Holds',
           r.op = "init" => loc[p].op = "init", Size(p)' = Size(p),
           TlbUser(p)', PlaceOK(p)',
           state[p] = "RUNNABLE" => \A v \in VA : v < Size(p) => Shown(pgdir[p], v)
    PROVE  VmInv' /\ VmStep
<1>1. OthersSame(p) /\ pc'[p] = l /\ loc'[p] = r /\ TypeInv
  BY VmOf, MovesSame
<1>2. BootFirst'
  BY <1>1, BootKept DEF OthersSame, SameProc
<1>3. VmInv' /\ \A q \in Procs : q # p => Image(q)' = Image(q)
  BY <1>1, <1>2, VmActs DEF OthersSame, VmOK, PlaceOK
<1>4. Image(p)' = Image(p)
  BY <1>1, ImageKept
<1> QED BY <1>3, <1>4, AllSame

LEMMA SharesVm ==
    ASSUME Sound, NEW p \in Procs, pc[p] = "copy", loc[p].i < sz[p],
           NEW x, x.pa = pt[pgdir[p]][loc[p].i].pa, x.u = pt[pgdir[p]][loc[p].i].u,
           PtShares(pgdir[p], loc[p].pd, loc[p].i, x),
           Goto(p, "incr"), UNCHANGED <<tlb, state, sz, pgdir, content>>
    PROVE  VmInv' /\ VmStep
<1>1. PICK d : d = loc[p].pd
  OBVIOUS
<1>2. PICK f : f = pgdir[p]
  OBVIOUS
<1>3. PICK i : i = loc[p].i
  OBVIOUS
<1>4. TypeInv /\ CountInv /\ Sizes(p) /\ TlbUser(p) /\ Copies(p)
  BY VmOf
<1>5. loc[p].op = "fork" /\ d \in Pages /\ f \in Pages /\ f # d /\ i \in VA
  BY <1>1, <1>2, <1>3, <1>4, CopyPageOf
<1>6. \A e \in Pages, w \in VA : pt'[e][w] = IF w = i /\ (e = f \/ e = d) THEN x ELSE pt[e][w]
  BY <1>1, <1>2, <1>3 DEF PtShares
<1>7. \A w \in VA : pt'[f][w].pa = pt[f][w].pa /\ pt'[f][w].u = pt[f][w].u
  BY <1>2, <1>3, <1>5, <1>6
<1>8. Rows(p)
  BY <1>1, <1>2, <1>6 DEF Rows
<1>9. Touches(p) /\ Keeps
  BY ContentFrees, FreesAre
<1>10. Holds'
  <2>1. Fills
    BY <1>2, <1>3, <1>5, <1>6 DEF Fills
  <2> QED BY <1>9, <2>1, HoldsKept
<1>11. GotoWith(p, "incr", loc[p])
  BY <1>4, GotoIsGotoWith DEF TypeInv, TypeOK
<1>12. pc'[p] = "incr" /\ loc'[p] = loc[p]
  BY <1>4, <1>11, MovesSame
<1>13. TlbUser(p)'
  BY <1>2, <1>4, <1>7 DEF TlbUser
<1>14. PlaceOK(p)'
  <2>1. Copies(p)'
    <3> SUFFICES ASSUME NEW w \in VA, pt'[d][w].pa # NoPage
                 PROVE  pt'[d][w].pa = pt'[f][w].pa /\ pt'[d][w].u = pt'[f][w].u
      BY <1>1, <1>2, <1>12 DEF Copies
    <3>1. CASE w = i
      BY <1>5, <1>6, <3>1
    <3>2. CASE w # i
      <4>1. pt'[d][w] = pt[d][w] /\ pt'[f][w] = pt[f][w]
        BY <1>5, <1>6, <3>2
      <4> QED BY <1>1, <1>2, <1>4, <1>5, <4>1 DEF Copies
    <3> QED BY <3>1, <3>2
  <2> QED BY <1>4, <1>5, <1>12, <2>1
     DEF PlaceOK, Sizes, FaultUser, HandZero, GrowNew, BuildNew
<1>15. Size(p)' = Size(p)
  BY <1>12 DEF Size
<1>16. \A v \in VA : Shown(pgdir[p], v)
  BY <1>2, <1>7 DEF Shown
<1> QED BY <1>8, <1>9, <1>10, <1>11, <1>13, <1>14, <1>15, <1>16, VmWorks

LEMMA CopyPageVm ==
    ASSUME Sound, NEW p \in Procs, CopyPage(p)
    PROVE  VmInv' /\ VmStep
<1> DEFINE d   == loc[p].pd
           f   == pgdir[p]
           i   == loc[p].i
           ro  == [pt[f][i] EXCEPT !.w = FALSE]
           own == [pt EXCEPT ![f][i] = ro]
<1>1. pc[p] = "copy" /\ i < sz[p] /\ UNCHANGED <<tlb, state, sz, pgdir, content>>
  BY DEF CopyPage, At, ptable
<1>2. loc[p].op = "fork" /\ d \in Pages /\ f \in Pages /\ f # d /\ i \in VA /\ TypeInv
  BY <1>1, VmOf, CopyPageOf
<1>3. ro \in Ptes /\ ro.pa = pt[f][i].pa /\ ro.u = pt[f][i].u
  <2>1. pt[f][i] \in Ptes
    BY <1>2, PteOf
  <2> QED BY <2>1 DEF Ptes
<1> HIDE DEF ro
<1>4. /\ own \in [Pages -> [VA -> Ptes]]
      /\ \A e \in Pages, w \in VA : own[e][w] = IF e = f /\ w = i THEN ro ELSE pt[e][w]
  <2>1. pt \in [Pages -> [VA -> Ptes]]
    BY <1>2 DEF TypeInv, TypeOK, TablesType
  <2> QED BY <1>2, <1>3, <2>1
<1> HIDE DEF own
<1>5. CASE Panic("copyuvm: page not present") /\ UNCHANGED tables
  BY <1>1, <1>5, VmHalts DEF Panic, tables
<1>6. ASSUME pt' = [own EXCEPT ![d][i] = ro], Goto(p, "incr")
      PROVE  VmInv' /\ VmStep
  <2>1. PtShares(f, d, i, ro)
    BY <1>2, <1>4, <1>6 DEF PtShares
  <2> QED BY <1>1, <1>3, <1>6, <2>1, SharesVm
<1>7. ASSUME pt' = own, Goto(p, "freevm")
      PROVE  VmInv' /\ VmStep
  <2>1. PtSeen
    BY <1>3, <1>4, <1>7 DEF PtSeen
  <2>2. Rows(p)
    BY <1>4, <1>7 DEF Rows
  <2> QED BY <1>1, <1>2, <1>7, <2>1, <2>2, ContentIs, VmFrees
<1>8. \/ Panic("copyuvm: page not present") /\ UNCHANGED tables
      \/ pt' = [own EXCEPT ![d][i] = ro] /\ Goto(p, "incr")
      \/ pt' = own /\ Goto(p, "freevm")
  BY DEF CopyPage, ro, own
<1> QED BY <1>5, <1>6, <1>7, <1>8

(* mappages of a zero page in hand, beyond every image.                      *)
LEMMA MapsVm ==
    ASSUME Sound, NEW p \in Procs, pc[p] = "map",
           NEW d, d = Dir(p), NEW v, v = loc[p].i, NEW g, g = loc[p].pg, pt[d][v].pa = NoPage,
           PtSets(d, v, Pte(g, TRUE, TRUE)), NEW r, GotoWith(p, "alloc", r),
           r.op = loc[p].op, r.pd = loc[p].pd, r.lim = loc[p].lim,
           UNCHANGED <<tlb, state, sz, pgdir, content>>
    PROVE  VmInv' /\ VmStep
<1>1. /\ TypeInv /\ CountInv /\ PrivInv /\ Sizes(p) /\ TlbUser(p) /\ GrowNew(p) /\ BuildNew(p)
      /\ HandZero(p)
  BY VmOf
<1>2. /\ d \in Pages /\ g \in Pages /\ v < loc[p].lim
      /\ loc[p].op \in {"init", "exec", "grow"}
  <2>1. LocalsOK(pc[p], loc[p]) /\ loc[p].op \in Ops
    BY <1>1, OwnOf DEF Locs
  <2>2. d \in Pages
    BY <1>1, DirOf
  <2> QED BY <2>1, <2>2 DEF LocalsOK, OpAt, Ops
<1>3. v \in VA /\ v \in Int
  BY <1>1, <1>2, OwnOf DEF VA
<1>4. content[g] = Zero
  BY <1>1 DEF HandZero
<1>5. /\ pt'[d][v].pa = g /\ pt'[d][v].w /\ pt'[d][v].u
      /\ \A e \in Pages, w \in VA : ~(e = d /\ w = v) => pt'[e][w] = pt[e][w]
  BY <1>2, <1>3 DEF PtSets, Pte
<1>6. d \in {pgdir[p], loc[p].pd}
  BY DEF Dir
<1>7. Rows(p)
  BY <1>5, <1>6 DEF Rows
<1>8. Touches(p) /\ Keeps
  BY ContentFrees, FreesAre
<1>9. Holds'
  <2>1. Fills
    <3> SUFFICES ASSUME NEW e \in Pages, NEW w \in VA, pt'[e][w].pa # pt[e][w].pa
                 PROVE  content'[pt'[e][w].pa] \in Vals
      BY DEF Fills
    <3>1. pt'[e][w].pa = g
      BY <1>5
    <3> QED BY <1>4, <3>1, CowAssumption
  <2> QED BY <1>8, <2>1, HoldsKept
<1>10. pc'[p] = "alloc" /\ loc'[p] = r
  BY <1>1, MovesSame
<1>11. state[p] = "RUNNABLE" => pgdir[p] \in Pages
  BY <1>1 DEF TypeInv, Control, SlotOK
<1>12. TlbUser(p)'
  BY <1>1, <1>5, <1>11 DEF TlbUser
<1>13. Size(p)' = Size(p) /\ Size(p) = sz[p]
  BY <1>2, <1>10 DEF Size
<1>14. CASE loc[p].op = "grow"
  <2>1. state[p] = "RUNNABLE" /\ pgdir[p] \in Pages /\ loc[p].pd = NoPage /\ d = pgdir[p]
    BY <1>1, <1>14, RunnableOf, NoDirOf DEF Dir
  <2>2. sz[p] <= v /\ sz[p] \in Int
    BY <1>1, <1>14, <2>1, OwnOf DEF OwnImage
  <2>3. GrowNew(p)'
    <3> SUFFICES ASSUME NEW w \in VA, w >= sz[p], pt'[d][w].pa # NoPage
                 PROVE  pt'[d][w].u /\ content[pt'[d][w].pa] = Zero
      BY <2>1 DEF GrowNew
    <3>1. CASE w = v
      BY <1>4, <1>5, <3>1
    <3>2. CASE w # v
      BY <1>1, <1>2, <1>5, <1>14, <2>1, <3>2 DEF GrowNew
    <3> QED BY <3>1, <3>2
  <2>4. PlaceOK(p)'
    BY <1>1, <1>10, <1>14, <2>3
       DEF PlaceOK, Sizes, FaultUser, HandZero, BuildNew, Copies
  <2>5. ASSUME NEW w \in VA, w < Size(p)
        PROVE  Shown(pgdir[p], w)
    <3>1. w # v
      BY <1>3, <1>13, <2>2, <2>5 DEF VA
    <3>2. pt'[d][w] = pt[d][w]
      BY <1>2, <1>5, <3>1
    <3> QED BY <2>1, <3>2 DEF Shown
  <2> QED BY <1>7, <1>8, <1>9, <1>12, <1>13, <1>14, <2>4, <2>5, VmWorks
<1>15. CASE loc[p].op \in {"init", "exec"}
  <2>1. loc[p].pd \in Pages /\ d = loc[p].pd
    BY <1>1, <1>15, NewOf, CowAssumption DEF Dir
  <2>2. BuildNew(p)'
    <3> SUFFICES ASSUME NEW w \in VA, pt'[d][w].pa # NoPage
                 PROVE  pt'[d][w].u /\ pt'[d][w].w
      BY <1>10, <2>1 DEF BuildNew
    <3>1. CASE w = v
      BY <1>5, <3>1
    <3>2. CASE w # v
      <4>1. pt'[d][w] = pt[d][w]
        BY <1>2, <1>5, <3>2
      <4> QED BY <1>1, <1>2, <1>15, <2>1, <4>1 DEF BuildNew
    <3> QED BY <3>1, <3>2
  <2>3. PlaceOK(p)'
    BY <1>1, <1>10, <1>15, <2>2
       DEF PlaceOK, Sizes, FaultUser, HandZero, GrowNew, Copies
  <2>4. ASSUME state[p] = "RUNNABLE", NEW w \in VA
        PROVE  Shown(pgdir[p], w)
    <3>1. pgdir[p] \in Pages /\ pgdir[p] # d
      BY <1>1, <1>11, <2>1, <2>4 DEF CountInv, OneOwner
    <3>2. pt'[pgdir[p]][w] = pt[pgdir[p]][w]
      BY <1>5, <3>1
    <3> QED BY <3>2 DEF Shown
  <2> QED BY <1>7, <1>8, <1>9, <1>12, <1>13, <2>3, <2>4, VmWorks
<1> QED BY <1>2, <1>14, <1>15

LEMMA MapPageVm ==
    ASSUME Sound, NEW p \in Procs, MapPage(p)
    PROVE  VmInv' /\ VmStep
<1>1. pc[p] = "map" /\ UNCHANGED <<tlb, state, sz, pgdir, content>> /\ TypeInv /\ PrivInv
  BY VmOf DEF MapPage, At, ptable
<1>2. CASE Panic("remap") /\ UNCHANGED tables
  BY <1>1, <1>2, VmHalts DEF Panic, tables
<1>3. CASE Panic("userinit") /\ UNCHANGED tables
  BY <1>1, <1>3, VmHalts DEF Panic, tables
<1>4. CASE loc[p].op # "init" /\ Goto(p, "dealloc") /\ UNCHANGED tables
  <2>1. loc[p].op \in {"exec", "grow"}
    BY <1>1, <1>4, OwnOf DEF LocalsOK, OpAt, Locs, Ops
  <2>2. UNCHANGED pt
    BY <1>4 DEF tables
  <2> QED BY <1>1, <1>4, <2>1, <2>2, PtIs, ContentIs, VmFrees
<1>5. CASE /\ pt[Dir(p)][loc[p].i].pa = NoPage
           /\ pt' = [pt EXCEPT ![Dir(p)][loc[p].i] = Pte(loc[p].pg, TRUE, TRUE)]
           /\ GotoWith(p, "alloc", [loc[p] EXCEPT !.i = @ + 1, !.pg = NoPage])
  <2> DEFINE d == Dir(p)
             r == [loc[p] EXCEPT !.i = @ + 1, !.pg = NoPage]
  <2>1. loc[p].i < loc[p].lim /\ d \in Pages
    BY <1>1, DirOf, OwnOf DEF LocalsOK
  <2>2. loc[p].i \in VA
    BY <1>1, <2>1, OwnOf DEF VA
  <2>3. PtSets(d, loc[p].i, Pte(loc[p].pg, TRUE, TRUE))
    BY <1>1, <1>5, <2>1, <2>2, SetsOf
  <2>4. r.op = loc[p].op /\ r.pd = loc[p].pd /\ r.lim = loc[p].lim
    BY <1>1, OwnOf DEF Locs
  <2>5. GotoWith(p, "alloc", r)
    BY <1>5
  <2> HIDE DEF r
  <2> QED BY <1>1, <1>5, <2>3, <2>4, <2>5, MapsVm
<1> QED BY <1>2, <1>3, <1>4, <1>5 DEF MapPage

-----------------------------------------------------------------------------
(* Steps that change the size of an image. *)

LEMMA ImageIs ==
    ASSUME Sound, NEW p \in Procs, state[p] = "RUNNABLE"
    PROVE  /\ DOMAIN Image(p) = 0 .. Size(p) - 1
           /\ \A v \in 0 .. Size(p) - 1 :
                /\ v \in VA
                /\ Image(p)[v] = [val |-> IF pt[pgdir[p]][v].pa = NoPage THEN Junk
                                          ELSE content[pt[pgdir[p]][v].pa],
                                  user |-> pt[pgdir[p]][v].u]
<1>1. \A v \in 0 .. Size(p) - 1 : v \in VA
  BY VmOf, SizeOf
<1> QED BY <1>1 DEF Image

(* The page tables stay, the size of the image goes to n: what is new of it  *)
(* are zero pages.                                                           *)
LEMMA VmSizes ==
    ASSUME Sound, NEW p \in Procs, state[p] = "RUNNABLE", UNCHANGED <<pt, content, state, pgdir>>,
           NEW n \in 1 .. MaxSz, Size(p)' = n,
           \A v \in VA : v >= Size(p) /\ v < n =>
                /\ pt[pgdir[p]][v].pa # NoPage /\ pt[pgdir[p]][v].u
                /\ content[pt[pgdir[p]][v].pa] = Zero,
           \A q \in Procs : q # p => Image(q)' = Image(q)
    PROVE  VmStep
<1> DEFINE a(v) == [val |-> IF pt[pgdir[p]][v].pa = NoPage THEN Junk
                            ELSE content[pt[pgdir[p]][v].pa], user |-> pt[pgdir[p]][v].u]
           b(v) == IF v \in DOMAIN Image(p) THEN Image(p)[v] ELSE [val |-> Zero, user |-> TRUE]
<1>1. Image(p)' = [v \in 0 .. n - 1 |-> a(v)]
  BY DEF Image
<1>2. /\ MaxSz \in Nat /\ Size(p) \in Int
      /\ \A v \in 0 .. n - 1 : v \in VA /\ v < n /\ v \in Int /\ 0 <= v
      /\ \A d \in Pages, v \in VA : pt[d][v].u \in BOOLEAN
      /\ pgdir[p] \in Pages
  <2>1. TypeInv
    BY VmOf
  <2>2. \A d \in Pages, v \in VA : pt[d][v].u \in BOOLEAN
    BY PageOf DEF Ptes
  <2> QED BY <2>1, <2>2, SizeOf, CowAssumption DEF VA, TypeInv, Control, SlotOK
<1>3. ASSUME NEW v \in 0 .. n - 1
      PROVE  a(v) = b(v)
  <2>1. CASE v < Size(p)
    <3>1. v \in 0 .. Size(p) - 1
      BY <1>2, <2>1
    <3> QED BY <3>1, ImageIs
  <2>2. CASE v >= Size(p)
    <3>1. v \notin 0 .. Size(p) - 1
      BY <1>2, <2>2
    <3>2. b(v) = [val |-> Zero, user |-> TRUE]
      BY <3>1, ImageIs
    <3>3. a(v) = [val |-> Zero, user |-> TRUE]
      BY <1>2, <2>2
    <3> QED BY <3>2, <3>3
  <2> QED BY <1>2, <2>1, <2>2
<1>4. Image(p)' = [v \in 0 .. n - 1 |-> b(v)]
  BY <1>1, <1>3
<1>5. Image(p) # NoImage
  BY AliveOf
<1> QED BY <1>4, <1>5, VmResizes

LEMMA ShrinkVm ==
    ASSUME Sound, NEW p \in Procs, Shrink(p), "shrinkall" \notin Calls
    PROVE  VmInv' /\ VmStep
<1>1. pc[p] = "user" /\ UNCHANGED <<pt, content, tlb, state, sz, pgdir>>
  BY DEF Shrink, At, tables, ptable
<1>2. PICK n \in 0 .. sz[p] - 1 :
        /\ n # 0
        /\ GotoWith(p, "dealloc", [NoLoc EXCEPT !.op = "shrink", !.base = n, !.lim = sz[p]])
  BY DEF Shrink
<1> DEFINE r == [NoLoc EXCEPT !.op = "shrink", !.base = n, !.lim = sz[p]]
<1>3. r.op = "shrink" /\ r.base = n /\ GotoWith(p, "dealloc", r)
  BY <1>2 DEF NoLoc
<1> HIDE DEF r
<1>4. /\ loc[p].op = "none" /\ state[p] = "RUNNABLE" /\ TypeInv /\ Sizes(p)
      /\ sz[p] \in 0 .. MaxSz /\ MaxSz \in Nat
  BY <1>1, VmOf, UserOf, OwnOf
<1>5. OthersSame(p) /\ pc'[p] = "dealloc" /\ loc'[p] = r
  BY <1>1, <1>3, <1>4, MovesSame
<1>6. Spares /\ PtSeen /\ Rows(p) /\ Touches(p) /\ Holds'
  BY <1>1, PtIs, ContentIs, SparesShow
<1>7. BootFirst'
  BY <1>1, <1>3, <1>5, BootKept DEF OthersSame, SameProc
<1>8. VmOK(p)'
  <2>1. TlbUser(p)'
    BY <1>1, <1>6, TlbKept
  <2> QED BY <1>1, <1>3, <1>4, <1>5, <2>1, VmPlain DEF Sizes
<1>9. VmInv' /\ \A q \in Procs : q # p => Image(q)' = Image(q)
  BY <1>5, <1>6, <1>7, <1>8, VmActs DEF OthersSame
<1>10. Size(p)' = n /\ Size(p) = sz[p]
  BY <1>3, <1>4, <1>5 DEF Size
<1>11. n \in 1 .. MaxSz /\ \A v \in VA : ~(v >= Size(p) /\ v < n)
  BY <1>2, <1>4, <1>10 DEF VA
<1> QED BY <1>1, <1>4, <1>9, <1>10, <1>11, VmSizes

LEMMA GrowDoneVm ==
    ASSUME Sound, NEW p \in Procs, GrowDone(p)
    PROVE  VmInv' /\ VmStep
<1>1. /\ pc[p] = "alloc" /\ loc[p].i >= loc[p].lim /\ loc[p].op = "grow"
      /\ Lcr3(p) /\ Return(p) /\ UNCHANGED <<pt, content, state, pgdir>>
      /\ sz' = [sz EXCEPT ![p] = loc[p].lim]
  BY DEF GrowDone, Allocated, At, tables
<1>2. /\ TypeInv /\ PrivInv /\ Sizes(p) /\ GrowNew(p) /\ state[p] = "RUNNABLE"
      /\ loc[p].lim \in 1 .. MaxSz
  <2>1. TypeInv /\ PrivInv /\ Sizes(p) /\ GrowNew(p)
    BY VmOf
  <2> QED BY <1>1, <2>1, RunnableOf, OwnOf DEF Sizes
<1>3. sz'[p] = loc[p].lim
  BY <1>1, <1>2 DEF TypeInv, TypeOK, PtableType
<1>4. GotoWith(p, "user", NoLoc)
  BY <1>1, ReturnIs
<1>5. OthersSame(p) /\ pc'[p] = "user" /\ loc'[p] = NoLoc
  BY <1>1, <1>2, <1>4, MovesSame
<1>6. Rows(p) /\ Touches(p) /\ Holds'
  BY <1>1, PtIs, ContentIs, SparesShow
<1>7. BootFirst'
  BY <1>1, <1>5, NoLocIs, BootKept DEF OthersSame, SameProc
<1>8. VmOK(p)'
  <2>1. TlbUser(p)'
    BY <1>1, <1>2, TlbNone
  <2> QED BY <1>2, <1>3, <1>5, <2>1, NoLocIs, VmPlain
<1>9. VmInv' /\ \A q \in Procs : q # p => Image(q)' = Image(q)
  BY <1>5, <1>6, <1>7, <1>8, VmActs DEF OthersSame
<1>10. Size(p)' = loc[p].lim /\ Size(p) = sz[p]
  BY <1>1, <1>3, <1>5, NoLocIs DEF Size
<1>11. ASSUME NEW v \in VA, v >= Size(p), v < loc[p].lim
       PROVE  /\ pt[pgdir[p]][v].pa # NoPage /\ pt[pgdir[p]][v].u
              /\ content[pt[pgdir[p]][v].pa] = Zero
  <2>1. Filled(pgdir[p], loc[p].i, loc[p].i) /\ loc[p].i <= loc[p].lim
    BY <1>1, <1>2, OwnOf DEF OwnImage
  <2>2. pt[pgdir[p]][v].pa # NoPage
    BY <1>1, <1>2, <1>11, <2>1, OwnOf DEF Filled
  <2> QED BY <1>1, <1>2, <1>10, <1>11, <2>2 DEF GrowNew
<1> QED BY <1>1, <1>2, <1>9, <1>10, <1>11, VmSizes

LEMMA ShrinkDoneVm ==
    ASSUME Sound, NEW p \in Procs, ShrinkDone(p)
    PROVE  VmInv' /\ VmStep
<1>1. /\ pc[p] = "dealloc" /\ loc[p].op = "shrink" /\ Return(p)
      /\ UNCHANGED <<pt, content, state, pgdir>>
  BY DEF ShrinkDone, Deallocated, At, tables
<1>2. TypeInv /\ PrivInv /\ state[p] = "RUNNABLE" /\ loc[p].base # 0
  <2>1. TypeInv /\ PrivInv
    BY VmOf
  <2> QED BY <1>1, <2>1, RunnableOf, OwnOf DEF OwnImage
<1>3. sz' = [sz EXCEPT ![p] = loc[p].base] /\ Lcr3(p)
  BY <1>2 DEF ShrinkDone
<1>4. sz'[p] = loc[p].base /\ loc[p].base > 0
  BY <1>2, <1>3, OwnOf DEF TypeInv, TypeOK, PtableType
<1>5. GotoWith(p, "user", NoLoc)
  BY <1>1, ReturnIs
<1>6. pc'[p] = "user" /\ loc'[p] = NoLoc
  BY <1>1, <1>2, <1>3, <1>5, MovesSame
<1>7. PlaceOK(p)'
  BY <1>4, <1>6, NoLocIs, PlacePlain
<1>8. Size(p)' = Size(p)
  BY <1>1, <1>4, <1>6, NoLocIs DEF Size
<1> QED BY <1>1, <1>3, <1>5, <1>7, <1>8, NoLocIs, PtIs, ContentIs, VmCalm

-----------------------------------------------------------------------------
(* Steps that write to pages in use. *)

(* One page of p's image gets a new value.                                   *)
LEMMA WritesVm ==
    ASSUME Sound, NEW p \in Procs, pc[p] = "user", UNCHANGED <<pt, state, sz, pgdir, pc, loc>>,
           NEW v \in VA, v < sz[p], NEW x \in Vals, NEW g \in Pages,
           pt[pgdir[p]][v].pa = g, pt[pgdir[p]][v].u, Sole(g, pgdir[p], pgdir[p], v),
           content' = [content EXCEPT ![g] = x],
           \A q \in Procs : q # p => tlb'[q] = tlb[q],
           \A w \in VA : tlb'[p][w] = tlb[p][w] \/ w = v
    PROVE  VmInv' /\ VmStep
<1>1. /\ loc[p].op = "none" /\ pgdir[p] \in Pages /\ state[p] = "RUNNABLE"
      /\ TypeInv /\ Sizes(p) /\ TlbUser(p) /\ MaxSz \in Nat /\ sz[p] \in 0 .. MaxSz
  BY VmOf, UserOf, OwnOf
<1>2. \A h \in Pages : content'[h] = IF h = g THEN x ELSE content[h]
  BY <1>1 DEF TypeInv, TypeOK, KmemType
<1>3. OthersSame(p)
  BY DEF OthersSame, SameProc
<1>4. Rows(p) /\ Touches(p)
  <2>1. MapsAlone(p, g)
    BY <1>1 DEF MapsAlone, Unmapped, Sole
  <2> QED BY <1>2, <2>1 DEF Rows, Touches
<1>5. Holds'
  BY <1>2, HoldsKept DEF Fills, Keeps
<1>6. BootFirst'
  BY BootKept
<1>7. VmOK(p)'
  <2>1. TlbUser(p)'
    BY <1>1 DEF TlbUser
  <2>2. PlaceOK(p)'
    BY <1>1, PlacePlain DEF Sizes
  <2> QED BY <2>1, <2>2 DEF VmOK, PlaceOK
<1>8. VmInv' /\ \A q \in Procs : q # p => Image(q)' = Image(q)
  BY <1>3, <1>4, <1>5, <1>6, <1>7, VmActs DEF OthersSame
<1>9. Size(p) = sz[p] /\ v \in 0 .. Size(p) - 1
  BY <1>1 DEF Size, VA
<1>10. v \in DOMAIN Image(p) /\ Image(p)[v].user
  <2>1. Image(p)[v] = [val |-> IF pt[pgdir[p]][v].pa = NoPage THEN Junk
                               ELSE content[pt[pgdir[p]][v].pa], user |-> pt[pgdir[p]][v].u]
    BY <1>1, <1>9, ImageIs
  <2>2. Image(p)[v].user = pt[pgdir[p]][v].u
    BY <2>1
  <2> QED BY <1>1, <1>9, <2>2, ImageIs
<1>11. Image(p)' = [Image(p) EXCEPT ![v].val = x]
  <2> DEFINE n == Size(p)
             f(w) == [val |-> IF pt[pgdir[p]][w].pa = NoPage THEN Junk
                              ELSE content[pt[pgdir[p]][w].pa], user |-> pt[pgdir[p]][w].u]
             h(w) == [val |-> IF pt[pgdir[p]][w].pa = NoPage THEN Junk
                              ELSE content'[pt[pgdir[p]][w].pa], user |-> pt[pgdir[p]][w].u]
  <2>1. Image(p) = [w \in 0 .. n - 1 |-> f(w)]
    BY <1>1 DEF Image
  <2>2. Image(p)' = [w \in 0 .. n - 1 |-> h(w)]
    BY <1>1 DEF Image, Size
  <2>3. ASSUME NEW w \in 0 .. n - 1
        PROVE  h(w) = IF w = v THEN [f(w) EXCEPT !.val = x] ELSE f(w)
    <3>1. w \in VA
      BY <1>1, ImageIs
    <3>2. CASE w = v
      <4>1. h(w) = [val |-> x, user |-> pt[pgdir[p]][w].u]
        BY <1>2, <3>2, CowAssumption
      <4> QED BY <3>2, <4>1
    <3>3. CASE w # v
      <4>1. pt[pgdir[p]][w].pa # g
        BY <1>1, <3>1, <3>3 DEF Sole
      <4>2. pt[pgdir[p]][w].pa # NoPage => pt[pgdir[p]][w].pa \in Pages
        BY <1>1, <3>1, PageOf
      <4>3. pt[pgdir[p]][w].pa # NoPage =>
                content'[pt[pgdir[p]][w].pa] = content[pt[pgdir[p]][w].pa]
        BY <1>2, <4>1, <4>2
      <4>4. h(w) = f(w)
        BY <4>3
      <4> QED BY <3>3, <4>4
    <3> QED BY <3>2, <3>3
  <2>4. v \in 0 .. n - 1
    BY <1>9
  <2> HIDE DEF n, f, h
  <2>5. \A w \in 0 .. n - 1 : h(w) = [Image(p) EXCEPT ![v].val = x][w]
    BY <2>1, <2>3, <2>4
  <2>6. [w \in 0 .. n - 1 |-> h(w)] = [Image(p) EXCEPT ![v].val = x]
    BY <2>1, <2>5
  <2> QED BY <2>2, <2>6
<1> QED BY <1>8, <1>10, <1>11, VmStores

LEMMA StoreVm ==
    ASSUME Sound, NEW p \in Procs, Store(p)
    PROVE  VmInv' /\ VmStep
<1>1. pc[p] = "user" /\ UNCHANGED <<pt, state, sz, pgdir, pc, loc>>
  BY DEF Store, At, tables, ptable
<1>2. /\ loc[p].op = "none" /\ loc[p].pd = NoPage /\ pgdir[p] \in Pages
      /\ state[p] = "RUNNABLE" /\ TypeInv /\ PrivInv /\ TlbUser(p)
      /\ sz[p] \in Int /\ Filled(pgdir[p], sz[p], sz[p])
  <2>1. TypeInv /\ PrivInv /\ TlbUser(p)
    BY VmOf
  <2>2. loc[p].op = "none" /\ loc[p].pd = NoPage /\ pgdir[p] \in Pages /\ state[p] = "RUNNABLE"
    BY <1>1, <2>1, UserOf
  <2> QED BY <2>1, <2>2, OwnOf DEF OwnImage
<1>3. PICK v \in VA, x \in Vals :
        \/ /\ pt[pgdir[p]][v].w /\ pt[pgdir[p]][v].u
           /\ content' = [content EXCEPT ![pt[pgdir[p]][v].pa] = x]
           /\ tlb' = [tlb EXCEPT ![p][v] = pt[pgdir[p]][v].pa]
        \/ /\ tlb[p][v] # NoPage
           /\ content' = [content EXCEPT ![tlb[p][v]] = x]
           /\ UNCHANGED tlb
  BY DEF Store
<1>4. \A g \in Pages : pt[pgdir[p]][v].pa = g => v < sz[p]
  <2>1. v \in Int
    BY <1>3 DEF VA
  <2> QED BY <1>2, <1>3, <2>1, CowAssumption DEF Filled
<1>5. /\ \A q \in Procs : q # p => tlb'[q] = tlb[q]
      /\ \A w \in VA : tlb'[p][w] = tlb[p][w] \/ w = v
  BY <1>2, <1>3 DEF TypeInv, TypeOK, LocalType
<1>6. CASE /\ pt[pgdir[p]][v].w /\ pt[pgdir[p]][v].u
           /\ content' = [content EXCEPT ![pt[pgdir[p]][v].pa] = x]
  <2>1. pt[pgdir[p]][v].pa # NoPage /\ Sole(pt[pgdir[p]][v].pa, pgdir[p], pgdir[p], v)
    BY <1>2, <1>3, <1>6 DEF PrivInv, PteSound, Private
  <2>2. PICK g \in Pages : g = pt[pgdir[p]][v].pa
    BY <1>2, <1>3, <2>1, PageOf
  <2> QED BY <1>1, <1>3, <1>4, <1>5, <1>6, <2>1, <2>2, WritesVm
<1>7. CASE tlb[p][v] # NoPage /\ content' = [content EXCEPT ![tlb[p][v]] = x]
  <2>1. PICK g : g = tlb[p][v]
    OBVIOUS
  <2>2. pt[pgdir[p]][v].pa = g /\ g # NoPage /\ Sole(g, pgdir[p], NoPage, v)
    BY <1>1, <1>2, <1>3, <1>7, <2>1, OwnOf DEF TlbOK, Cached
  <2>3. g \in Pages /\ pt[pgdir[p]][v].u
    BY <1>2, <1>3, <1>7, <2>2, PageOf DEF TlbUser
  <2>4. Sole(g, pgdir[p], pgdir[p], v)
    BY <2>2, CowAssumption DEF Sole
  <2> QED BY <1>1, <1>3, <1>4, <1>5, <1>7, <2>1, <2>2, <2>3, <2>4, WritesVm
<1> QED BY <1>3, <1>6, <1>7

(* The handler moves the process to a copy of the page.                      *)
LEMMA CowMoveVm ==
    ASSUME Sound, NEW p \in Procs, CowMove(p)
    PROVE  VmInv' /\ VmStep
<1> DEFINE d == pgdir[p]
           v == loc[p].va
           g == loc[p].pg
           r == [loc[p] EXCEPT !.pg = NoPage]
<1>1. /\ pc[p] = "move" /\ pt' = [pt EXCEPT ![d][v] = Pte(g, TRUE, TRUE)]
      /\ content' = [content EXCEPT ![g] = content[loc[p].pa]]
      /\ GotoWith(p, "decr", r) /\ UNCHANGED <<tlb, state, sz, pgdir>>
  BY DEF CowMove, At, ptable
<1>2. /\ TypeInv /\ CountInv /\ PrivInv /\ FaultUser(p) /\ TlbUser(p) /\ Sizes(p)
      /\ loc[p] \in Locs /\ LocalsOK(pc[p], loc[p])
  BY VmOf, OwnOf
<1>3. /\ loc[p].op = "fault" /\ d \in Pages /\ v \in VA /\ loc[p].pd = NoPage /\ g \in Pages
      /\ pt[d][v].pa = loc[p].pa /\ loc[p].pa \in Pages /\ pt[d][v].u
  BY <1>1, <1>2, FaultOf DEF LocalsOK, CountInv, Hands, HandOK, FaultDue, FaultUser
<1>4. r.op = "fault" /\ r.pg = NoPage
  BY <1>2, <1>3 DEF Locs
<1>5. pc'[p] = "decr" /\ loc'[p] = r
  BY <1>1, <1>2, MovesSame
<1> HIDE DEF r
<1>6. Unmapped(g)
  BY <1>2, <1>3, CowAssumption DEF PrivInv, Freshes
<1>7. PtSets(d, v, Pte(g, TRUE, TRUE))
  BY <1>1, <1>2, <1>3, SetsOf
<1>8. \A h \in Pages : content'[h] = IF h = g THEN content[loc[p].pa] ELSE content[h]
  BY <1>1, <1>2, <1>3 DEF TypeInv, TypeOK, KmemType
<1>9. PICK a : a = Pte(g, TRUE, TRUE)
  OBVIOUS
<1>10. /\ a.pa = g /\ a.u
       /\ \A e \in Pages, w \in VA : pt'[e][w] = IF e = d /\ w = v THEN a ELSE pt[e][w]
  <2>1. a.pa = g /\ a.u
    BY <1>9 DEF Pte
  <2> QED BY <1>7, <1>9, <2>1 DEF PtSets
<1>11. content[loc[p].pa] \in Vals
  BY <1>3, CowAssumption DEF Sound, VmInv, Holds
<1> HIDE DEF d, v, g
<1>12. Rows(p) /\ Touches(p)
  BY <1>8, <1>10 DEF Rows, Touches, d, g
<1>13. Holds'
  BY <1>3, <1>8, <1>10, <1>11, HoldsKept DEF Fills, Keeps
<1>14. \A w \in VA : Shown(d, w)
  <2> SUFFICES ASSUME NEW w \in VA
               PROVE  Shown(d, w)
    OBVIOUS
  <2>1. CASE w = v
    BY <1>3, <1>8, <1>10, <2>1, CowAssumption DEF Shown
  <2>2. CASE w # v
    <3>1. pt'[d][w] = pt[d][w] /\ pt[d][w].pa # g
      BY <1>3, <1>6, <1>10, <2>2 DEF Unmapped
    <3>2. pt[d][w].pa # NoPage => pt[d][w].pa \in Pages
      BY <1>3, PageOf
    <3> QED BY <1>8, <3>1, <3>2 DEF Shown
  <2> QED BY <2>1, <2>2
<1>15. TlbUser(p)'
  <2> SUFFICES ASSUME state[p] = "RUNNABLE", NEW w \in VA, tlb[p][w] # NoPage,
                      pt'[d][w].pa # NoPage
               PROVE  pt'[d][w].u
    BY <1>1 DEF TlbUser, d
  <2>1. CASE w = v
    <3>1. pt'[d][w] = a
      BY <1>3, <1>10, <2>1
    <3> QED BY <1>10, <3>1
  <2>2. CASE w # v
    <3>1. pt'[d][w] = pt[d][w]
      BY <1>3, <1>10, <2>2
    <3> QED BY <1>2, <3>1 DEF TlbUser, d
  <2> QED BY <2>1, <2>2
<1>16. PlaceOK(p)'
  BY <1>1, <1>2, <1>4, <1>5, PlacePlain DEF Sizes
<1>17. Size(p)' = Size(p)
  BY <1>1, <1>3, <1>4, <1>5 DEF Size
<1> QED BY <1>1, <1>4, <1>12, <1>13, <1>14, <1>15, <1>16, <1>17, VmWorks DEF d

(* exec shows the image it has built.                                        *)
LEMMA ExecCommitVm ==
    ASSUME Sound, NEW p \in Procs, ExecCommit(p)
    PROVE  VmInv' /\ VmStep
<1> DEFINE d == loc[p].pd
           n == loc[p].lim
           r == [NoLoc EXCEPT !.op = "exec", !.pd = pgdir[p]]
<1>1. /\ pc[p] = "alloc" /\ loc[p].op = "exec" /\ loc[p].i >= n
      /\ pt' = [pt EXCEPT ![d][TextSz].u = FALSE]
      /\ pgdir' = [pgdir EXCEPT ![p] = d] /\ sz' = [sz EXCEPT ![p] = n]
      /\ Lcr3(p) /\ GotoWith(p, "freevm", r) /\ UNCHANGED state
  BY DEF ExecCommit, Allocated, At
<1>2. /\ TypeInv /\ PrivInv /\ Sizes(p) /\ BuildNew(p) /\ state[p] = "RUNNABLE" /\ d \in Pages
      /\ TextSz \in VA /\ n = TextSz + 2 /\ n \in 1 .. MaxSz /\ Filled(d, n, n)
  <2>1. TypeInv /\ PrivInv /\ Sizes(p) /\ BuildNew(p)
    BY VmOf
  <2>2. n = TextSz + 2
    BY <1>1, <2>1 DEF Sizes
  <2>3. TextSz \in VA /\ n \in 1 .. MaxSz
    BY <2>2, CowAssumption DEF VA
  <2>4. state[p] = "RUNNABLE" /\ d \in Pages
    BY <1>1, <2>1, RunnableOf, NewOf
  <2>5. loc[p].i <= n /\ Filled(d, loc[p].i, loc[p].i)
    BY <1>1, <2>1, OwnOf DEF NewImage
  <2>6. loc[p].i = n
    BY <1>1, <2>1, <2>5, OwnOf
  <2> QED BY <2>1, <2>2, <2>3, <2>4, <2>5, <2>6
<1>3. r.op = "exec"
  BY DEF NoLoc
<1>4. /\ pc'[p] = "freevm" /\ loc'[p] = r
      /\ \A q \in Procs : q # p => pc'[q] = pc[q] /\ loc'[q] = loc[q]
  BY <1>1, <1>2 DEF GotoWith, TypeInv, TypeOK, LocalType
<1> HIDE DEF r
<1>5. /\ pgdir'[p] = d /\ sz'[p] = n
      /\ \A q \in Procs : q # p => pgdir'[q] = pgdir[q] /\ sz'[q] = sz[q]
  BY <1>1, <1>2 DEF TypeInv, TypeOK, PtableType
<1>6. \A q \in Procs : q # p => tlb'[q] = tlb[q]
  BY <1>1, <1>2 DEF Lcr3, TypeInv, TypeOK, LocalType
<1>7. OthersSame(p)
  BY <1>1, <1>4, <1>5, <1>6 DEF OthersSame, SameProc
<1>8. /\ \A e \in Pages, w \in VA : pt'[e][w].pa = pt[e][w].pa /\ pt'[e][w] \in Ptes
      /\ \A e \in Pages, w \in VA : e # d => pt'[e][w] = pt[e][w]
  <2>1. PICK x : x = [pt[d][TextSz] EXCEPT !.u = FALSE]
    OBVIOUS
  <2>2. x \in Ptes /\ x.pa = pt[d][TextSz].pa
    <3>1. pt[d][TextSz] \in Ptes
      BY <1>2, PageOf
    <3> QED BY <2>1, <3>1 DEF Ptes
  <2>3. PtSets(d, TextSz, x)
    <3>1. pt' = [pt EXCEPT ![d][TextSz] = x]
      BY <1>1, <2>1
    <3> QED BY <1>2, <3>1, SetsOf
  <2>4. \A e \in Pages, w \in VA : pt[e][w] \in Ptes
    BY PageOf
  <2> QED BY <2>2, <2>3, <2>4 DEF PtSets
<1>9. \A g \in Pages : \/ content'[g] = content[g]
                       \/ content'[g] = Code /\ \E v \in VA : pt[d][v].pa = g
  <2>1. content' = [g \in Pages |-> IF \E v \in VA \ {TextSz} : v < n /\ pt[d][v].pa = g
                                     THEN Code ELSE content[g]]
    BY DEF ExecCommit, Allocated, At
  <2> QED BY <2>1
<1>10. Rows(p) /\ Touches(p)
  <2>1. Rows(p)
    BY <1>8 DEF Rows
  <2>2. ASSUME NEW g \in Pages, content'[g] # content[g]
        PROVE  MapsAlone(p, g)
    <3>1. PICK v \in VA : pt[d][v].pa = g
      BY <1>9, <2>2
    <3>2. g # NoPage
      BY CowAssumption
    <3>3. pt[d][v].w
      BY <1>1, <1>2, <3>1, <3>2 DEF BuildNew
    <3>4. Sole(g, d, d, v)
      BY <1>2, <3>1, <3>3 DEF PrivInv, Private
    <3> QED BY <1>2, <3>1, <3>4 DEF MapsAlone, Unmapped, Sole
  <2> QED BY <2>1, <2>2 DEF Touches
<1>11. Holds'
  <2>1. Code \in Vals
    BY CowAssumption
  <2> QED BY <1>8, <1>9, <2>1, HoldsKept DEF Fills, Keeps
<1>12. BootFirst'
  BY <1>1, <1>3, <1>4, BootKept
<1>13. VmOK(p)'
  <2>1. TlbUser(p)'
    BY <1>1, <1>2, TlbNone
  <2>2. PlaceOK(p)'
    BY <1>2, <1>3, <1>4, <1>5
       DEF PlaceOK, Sizes, FaultUser, HandZero, GrowNew, BuildNew, Copies
  <2> QED BY <2>1, <2>2 DEF VmOK, PlaceOK
<1>14. VmInv' /\ \A q \in Procs : q # p => Image(q)' = Image(q)
  BY <1>7, <1>10, <1>11, <1>12, <1>13, VmActs DEF OthersSame
<1>15. Image(p) # NoImage
  BY <1>2, AliveOf
<1>16. Image(p)' \in VM!Images
  <2> DEFINE h(w) == [val |-> IF pt'[d][w].pa = NoPage THEN Junk ELSE content'[pt'[d][w].pa],
                      user |-> pt'[d][w].u]
  <2>1. Size(p)' = n
    BY <1>3, <1>4, <1>5 DEF Size
  <2>2. Image(p)' = [w \in 0 .. n - 1 |-> h(w)]
    <3> HIDE DEF d, n
    <3> QED BY <1>1, <1>2, <1>5, <2>1 DEF Image
  <2>3. ASSUME NEW w \in 0 .. n - 1
        PROVE  h(w) \in VM!Page
    <3>1. w \in VA /\ w < n
      BY <1>2, CowAssumption DEF VA
    <3>2. pt'[d][w].pa # NoPage /\ pt'[d][w].u \in BOOLEAN
      BY <1>2, <1>8, <3>1 DEF Filled, Ptes
    <3>3. content'[pt'[d][w].pa] \in Vals
      BY <1>2, <1>11, <3>1, <3>2 DEF Holds
    <3> QED BY <3>2, <3>3 DEF VM!Page
  <2>4. Image(p)' \in [0 .. n - 1 -> VM!Page]
    <3> HIDE DEF h
    <3> QED BY <2>2, <2>3
  <2> QED BY <1>2, <2>4 DEF VM!Images
<1> QED BY <1>14, <1>15, <1>16, VmExecs

(* userinit starts the first process.                                        *)
LEMMA InitDoneVm ==
    ASSUME Sound, NEW p \in Procs, InitDone(p)
    PROVE  VmInv' /\ VmStep
<1>1. PICK d : d = loc[p].pd
  OBVIOUS
<1>2. /\ pc[p] = "alloc" /\ loc[p].i >= loc[p].lim /\ loc[p].op = "init" /\ UNCHANGED <<pt, tlb>>
      /\ pgdir' = [pgdir EXCEPT ![p] = d] /\ sz' = [sz EXCEPT ![p] = 1]
      /\ state' = [state EXCEPT ![p] = "RUNNABLE"] /\ Return(p)
      /\ content' = [content EXCEPT ![pt[d][0].pa] = Code]
  BY <1>1 DEF InitDone, Allocated, At, tables
<1>3. /\ TypeInv /\ PrivInv /\ BuildNew(p) /\ d \in Pages /\ state[p] # "RUNNABLE"
      /\ loc[p].lim = 1 /\ Filled(d, 1, 1) /\ 0 \in VA
  <2>1. TypeInv /\ PrivInv /\ BuildNew(p)
    BY VmOf
  <2>2. loc[p].i <= loc[p].lim /\ loc[p].lim = 1 /\ Filled(d, loc[p].i, loc[p].i)
    BY <1>1, <1>2, <2>1, OwnOf DEF NewImage
  <2>3. loc[p].i = 1
    BY <1>2, <2>1, <2>2, OwnOf
  <2> QED BY <1>1, <1>2, <2>1, <2>2, <2>3, NewOf, InitOf, CowAssumption DEF VA
<1>4. /\ pgdir'[p] = d /\ sz'[p] = 1 /\ pc'[p] = "user" /\ loc'[p] = NoLoc
      /\ state'[p] = "RUNNABLE" /\ \A q \in Procs : q # p => SameProc(q)
  BY <1>2, <1>3 DEF SameProc, Return, GotoWith, TypeInv, TypeOK, LocalType, PtableType
<1>5. PICK g \in Pages : g = pt[d][0].pa
  BY <1>3, PageOf DEF Filled
<1>6. pt[d][0].w /\ pt[d][0].u
  <2>1. pt[d][0].pa # NoPage
    BY <1>3 DEF Filled
  <2> QED BY <1>1, <1>2, <1>3, <2>1 DEF BuildNew
<1>7. \A h \in Pages : content'[h] = IF h = g THEN Code ELSE content[h]
  BY <1>2, <1>3, <1>5 DEF TypeInv, TypeOK, KmemType
<1>8. Rows(p) /\ Touches(p)
  <2>1. Sole(g, d, d, 0)
    BY <1>3, <1>5, <1>6 DEF PrivInv, Private
  <2>2. MapsAlone(p, g)
    BY <1>1, <1>3, <1>5, <2>1 DEF MapsAlone, Unmapped, Sole
  <2> QED BY <1>2, <1>7, <2>2 DEF Rows, Touches
<1>9. Holds'
  BY <1>2, <1>7, CowAssumption, HoldsKept DEF Fills, Keeps
<1>10. p = InitProc /\ \A q \in Procs : state[q] # "RUNNABLE"
  BY <1>2 DEF Sound, VmInv, BootFirst
<1>11. BootFirst'
  BY <1>4, <1>10, NoLocIs DEF Sound, VmInv, BootFirst, SameProc
<1>12. VmOK(p)'
  <2>1. TlbUser(p)'
    BY <1>2, <1>3, NoTlb DEF TlbUser
  <2>2. PlaceOK(p)'
    BY <1>4, NoLocIs, PlacePlain
  <2> QED BY <2>1, <2>2 DEF VmOK, PlaceOK
<1>13. VmInv' /\ \A q \in Procs : q # p => Image(q)' = Image(q)
  BY <1>4, <1>8, <1>9, <1>11, <1>12, VmActs
<1>14. \A q \in Procs : Image(q) = NoImage
  BY <1>10, AliveOf
<1>15. Image(p)' = [v \in {0} |-> [val |-> Code, user |-> TRUE]]
  <2> DEFINE h(w) == [val |-> IF pt'[d][w].pa = NoPage THEN Junk ELSE content'[pt'[d][w].pa],
                      user |-> pt'[d][w].u]
  <2>1. Size(p)' = 1 /\ 0 .. 1 - 1 = {0}
    BY <1>4, NoLocIs DEF Size
  <2>2. Image(p)' = [w \in {0} |-> h(w)]
    BY <1>4, <2>1 DEF Image
  <2>3. h(0) = [val |-> Code, user |-> TRUE]
    <3>1. pt[d][0] \in Ptes
      BY <1>3, PageOf
    <3>2. pt[d][0].u = TRUE
      BY <1>6, <3>1 DEF Ptes
    <3>3. pt'[d][0].pa = g /\ g # NoPage /\ content'[g] = Code
      BY <1>2, <1>5, <1>7, CowAssumption
    <3> QED BY <1>2, <3>2, <3>3
  <2> HIDE DEF h
  <2> QED BY <2>2, <2>3
<1> QED BY <1>13, <1>14, <1>15, CowAssumption, VmBoots

-----------------------------------------------------------------------------
(* The refinement. *)

LEMMA StepVm ==
    ASSUME Sound, Unused', "shrinkall" \notin Calls, Stray # "guard", NEW p \in Procs, Step(p)
    PROVE  VmInv' /\ VmStep
<1>1. CASE ForkStep(p)
  BY <1>1, ForkVm, AllocKstackVm, CopyPageVm, CopyIncrVm, CopyDoneVm, ForkCommitVm, ForkUndoVm
     DEF ForkStep
<1>2. CASE BuildStep(p)
  BY <1>2, SetupDirVm, SetupKptVm, AllocPageVm, MapPageVm, AllocFailedVm, InitDoneVm
     DEF BuildStep
<1>3. CASE SbrkStep(p)
  BY <1>3, GrowVm, GrowDoneVm, ShrinkVm, DeallocPageVm, ShrinkDoneVm DEF SbrkStep
<1>4. CASE ExecStep(p)
  BY <1>4, ExecVm, ExecCommitVm, ExecBadVm DEF ExecStep
<1>5. CASE FreeStep(p)
  BY <1>5, FreePageVm, FreeTableVm, FreeDirVm DEF FreeStep
<1>6. CASE LifeStep(p)
  BY <1>6, ExitVm, WaitVm DEF LifeStep
<1>7. CASE UserStep(p)
  BY <1>7, StoreVm, FaultVm DEF UserStep
<1>8. CASE CowStep(p)
  BY <1>8, CowOwnVm, CowAllocVm, CowMoveVm, CowDecrVm DEF CowStep
<1> QED BY <1>1, <1>2, <1>3, <1>4, <1>5, <1>6, <1>7, <1>8 DEF Step

LEMMA InitVm == Init => VmInv /\ VM!Init
<1> SUFFICES ASSUME Init
             PROVE  VmInv /\ VM!Init
  OBVIOUS
<1>1. /\ pt = [d \in Pages |-> [v \in VA |-> NoPte]]
      /\ state = [p \in Procs |-> IF p = InitProc THEN "EMBRYO" ELSE "UNUSED"]
      /\ pc = [p \in Procs |-> IF p = InitProc THEN "kstack" ELSE "none"]
      /\ loc = [p \in Procs |-> IF p = InitProc
                  THEN [NoLoc EXCEPT !.op = "init", !.np = p, !.lim = 1] ELSE NoLoc]
  BY DEF Init
<1>2. \A d \in Pages, v \in VA : pt[d][v].pa = NoPage
  BY <1>1 DEF NoPte
<1>3. \A p \in Procs : /\ state[p] # "RUNNABLE" /\ pc[p] \in {"kstack", "none"}
                       /\ loc[p].op \in {"init", "none"} /\ (loc[p].op = "init" => p = InitProc)
  BY <1>1 DEF NoLoc
<1>4. Holds /\ BootFirst
  BY <1>2, <1>3 DEF Holds, BootFirst
<1>5. ASSUME NEW p \in Procs
      PROVE  VmOK(p)
  BY <1>3 DEF VmOK, Sizes, TlbUser, FaultUser, HandZero, GrowNew, BuildNew, Copies
<1>6. \A p \in Procs : Image(p) = [v \in {} |-> Zero]
  BY <1>3 DEF Image
<1>7. VM!Init
  BY <1>6 DEF VM!Init, VM!None
<1> QED BY <1>4, <1>5, <1>7 DEF VmInv

(* vm.c, kalloc.c and the handler give every program the memory it would     *)
(* have if fork had copied all of its parent: each step of the kernel is a    *)
(* step of PrivateVm on the images, or invisible.  Assumed: no program       *)
(* shrinks its image to 0 (growproc then keeps a size without pages), and    *)
(* none stores to the page below its stack, which the handler would open.    *)
THEOREM ImageCorrect ==
    ASSUME "shrinkall" \notin Calls, Stray # "guard"
    PROVE  Spec => ImplementsPrivateVm
<1>1. Init => VmInv /\ VM!Init
  BY InitVm
<1>2. (KmemType' /\ CountInv') => Unused'
  BY NextUnused
<1>3. RunInv => KmemType
  BY DEF RunInv, TypeOK
<1>4. RunInv /\ CountInv /\ PrivInv /\ VmInv /\ Unused' /\ [Next]_vars => VmInv' /\ VmStep
  <2> SUFFICES ASSUME RunInv, CountInv, PrivInv, VmInv, Unused', [Next]_vars
               PROVE  VmInv' /\ VmStep
    OBVIOUS
  <2>1. CASE panic = "none"
    <3>1. Sound
      BY <2>1 DEF RunInv, TypeInv, Sound
    <3>2. CASE UNCHANGED vars
      BY <3>1, <3>2, VmHalts DEF vars, ptable, tables
    <3>3. ASSUME NEW p \in Procs, Step(p)
          PROVE  VmInv' /\ VmStep
      BY <3>1, <3>3, StepVm
    <3>4. UNCHANGED vars \/ \E p \in Procs : Step(p)
      BY DEF Next, Halted
    <3> QED BY <3>2, <3>3, <3>4
  <2>2. CASE panic # "none"
    <3>1. UNCHANGED <<pt, content, state, pgdir, sz, tlb, pc, loc>>
      BY <2>2 DEF Next, Halted, vars, ptable, tables
    <3> QED BY <3>1, VmStands
  <2> QED BY <2>1, <2>2
<1>5. VmStep => [VM!Next]_[p \in Procs |-> Image(p)]
  BY DEF VmStep, Images
<1> QED BY <1>1, <1>2, <1>3, <1>4, <1>5, PrivInvariant, PTL
        DEF Spec, ImplementsPrivateVm, VM!Spec
=============================================================================
