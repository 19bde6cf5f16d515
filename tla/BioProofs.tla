----------------------------- MODULE BioProofs ------------------------------
(***************************************************************************)
(* What is proved about Bio, for any number of processes, buffers, blocks   *)
(* and values: its types, that the cache is exact, and that it implements   *)
(* BlockStore, also when bget panics; and, for EnoughBuffers, that it does  *)
(* not.                                                                     *)
(*                                                                         *)
(* The inductive invariant adds to CacheExact who may touch a buffer: its   *)
(* lock belongs to the process that is past acquiresleep, so that no two    *)
(* wait for the disk with one buffer; a buffer that is counted has a block; *)
(* and the dirty buffers that nobody is writing are those the log pins.     *)
(***************************************************************************)
EXTENDS Bio, FiniteSetTheorems, TLAPS

BufRecords ==
    [block : Blocks \union {NoBlock}, valid : BOOLEAN, dirty : BOOLEAN,
     refcnt : Nat, data : Values \union {Garbage}]

Holding == {"locked", "io", "iowoken", "held"}
Users(b) == {p \in Procs : at[p] = b}
Waiting == {p \in Procs : pc[p] = "io"}
Queued == {idequeue[i] : i \in DOMAIN idequeue}

(* Blocks are cached once, and buffers counted for those who use them.      *)
Unique == \A b, c \in Bufs : b # c => buf[b].block # buf[c].block \/ buf[b].block = NoBlock
Counted == \A b \in Bufs : buf[b].refcnt = Cardinality(Users(b))
Seated == \A p \in Procs : IF pc[p] = "out" THEN at[p] = NoBuf
                           ELSE at[p] \in Bufs /\ buf[at[p]].block \in Blocks
(* Sleep locks, and what their holders know.                                *)
Locked == \A p \in Procs, b \in Bufs : lock[b] = p <=> at[p] = b /\ pc[p] \in Holding
Known == \A p \in Procs :
    /\ pc[p] \in {"held", "iowoken"} => buf[at[p]].valid
    /\ pc[p] = "iowoken" => ~buf[at[p]].dirty
(* The driver.                                                              *)
Once == \A i, j \in DOMAIN idequeue : i # j => idequeue[i] # idequeue[j]
Served == Queued = {at[p] : p \in Waiting}
Started == IF idequeue = <<>> THEN ide = NoRequest ELSE ide = Idestart(buf, Head(idequeue))
(* What a buffer says of the disk.                                          *)
Filled == \A b \in Bufs :
    /\ buf[b].dirty => buf[b].valid
    /\ buf[b].valid => buf[b].data \in Values
    /\ buf[b].valid /\ ~buf[b].dirty /\ buf[b].block \in Blocks => buf[b].data = disk[buf[b].block]
(* What the log pins.                                                       *)
Pinned == {b \in Bufs : buf[b].dirty /\ \A p \in Waiting : at[p] # b}
FewPinned == Cardinality(Pinned) <= MaxPinned

(* The inductive invariant.                                                 *)
IInv ==
    /\ TypeOK
    /\ Unique /\ Counted /\ Seated
    /\ Locked /\ Known
    /\ Once /\ Served /\ Started
    /\ Filled /\ FewPinned

-----------------------------------------------------------------------------
(* Facts about one state.                                                   *)

(* Values of records that the code changes field by field.                  *)
LEMMA BufRecordTypes ==
    ASSUME NEW r \in BufRecords, NEW n \in Nat, NEW v \in Values
    PROVE  /\ [r EXCEPT !.refcnt = n] \in BufRecords
           /\ [r EXCEPT !.data = v, !.dirty = TRUE] \in BufRecords
           /\ [r EXCEPT !.refcnt = n].block = r.block
           /\ [r EXCEPT !.refcnt = n].valid = r.valid
           /\ [r EXCEPT !.refcnt = n].dirty = r.dirty
           /\ [r EXCEPT !.refcnt = n].data = r.data
           /\ [r EXCEPT !.refcnt = n].refcnt = n
BY DEF BufRecords

LEMMA BufsFinite ==
    IsFiniteSet(Bufs) /\ Cardinality(Bufs) = NBUF
BY FS_Interval, BioAssumption DEF Bufs

(* The values of a function on a finite set.                                *)
LEMMA ImageFinite ==
    ASSUME NEW f, NEW S, IsFiniteSet(S)
    PROVE  IsFiniteSet({f[x] : x \in S}) /\ Cardinality({f[x] : x \in S}) <= Cardinality(S)
<1> DEFINE T == {f[x] : x \in S}
           g == [x \in S |-> f[x]]
<1>1. g \in Surjection(S, T)
  BY DEF Surjection
<1> HIDE DEF g, T
<1>2. IsFiniteSet(T) /\ Cardinality(T) <= Cardinality(S)
  BY <1>1, FS_Surjection
<1> QED BY <1>2 DEF T

LEMMA UsersFinite ==
    ASSUME NEW b \in Bufs
    PROVE  IsFiniteSet(Users(b)) /\ Cardinality(Users(b)) \in Nat
<1>1. Users(b) \subseteq Procs
  BY DEF Users
<1> QED BY <1>1, FS_Subset, FS_CardinalityType, BioAssumption

LEMMA NoBufOutside == NoBuf \notin Bufs
BY DEF NoBuf, Bufs

(* Nobody is at a buffer whose count is 0.                                  *)
LEMMA NoUsers ==
    ASSUME IInv, NEW b \in Bufs, buf[b].refcnt = 0, NEW p \in Procs
    PROVE  at[p] # b
<1>1. Cardinality(Users(b)) = 0
  BY DEF IInv, Counted
<1>2. Users(b) = {}
  BY <1>1, UsersFinite, FS_EmptySet
<1> QED BY <1>2 DEF Users

(* The first buffer of the queue has somebody who waits for it.             *)
LEMMA HeadFacts ==
    ASSUME IInv, idequeue # <<>>
    PROVE  /\ Head(idequeue) \in Bufs /\ Head(idequeue) \in Queued
           /\ ide = Idestart(buf, Head(idequeue))
           /\ \E q \in Waiting : at[q] = Head(idequeue)
<1>1. idequeue \in Seq(Bufs)
  BY DEF IInv, TypeOK
<1>2. Head(idequeue) \in Bufs /\ 1 \in DOMAIN idequeue /\ Head(idequeue) = idequeue[1]
  BY <1>1
<1>3. Head(idequeue) \in Queued
  BY <1>2 DEF Queued
<1> QED BY <1>2, <1>3 DEF IInv, Started, Served

(* A buffer in the queue is held by the process that waits for it.          *)
LEMMA QueuedHeld ==
    ASSUME IInv, NEW b \in Queued
    PROVE  \E q \in Waiting : at[q] = b /\ lock[b] = q /\ b \in Bufs
<1>1. PICK q \in Waiting : at[q] = b
  BY DEF IInv, Served
<1>2. q \in Procs /\ pc[q] = "io"
  BY DEF Waiting
<1>3. b \in Bufs
  BY <1>1, <1>2 DEF IInv, Seated
<1> QED BY <1>1, <1>2, <1>3 DEF IInv, Locked, Holding

(* A buffer has one process past acquiresleep.                              *)
LEMMA OneHolder ==
    ASSUME IInv, NEW p \in Procs, NEW q \in Procs,
           pc[p] \in Holding, pc[q] \in Holding, at[p] = at[q]
    PROVE  p = q
<1>1. at[p] \in Bufs
  BY DEF IInv, Seated, Holding
<1> QED BY <1>1 DEF IInv, Locked

LEMMA PinnedFinite == IsFiniteSet(Pinned)
BY BufsFinite, FS_Subset DEF Pinned

(* A step that takes no block into the log leaves as few as there were.     *)
LEMMA PinnedShrinks ==
    ASSUME FewPinned, Pinned' \subseteq Pinned
    PROVE  FewPinned'
<1>1. Cardinality(Pinned') <= Cardinality(Pinned) /\ IsFiniteSet(Pinned')
  BY PinnedFinite, FS_Subset
<1>2. Cardinality(Pinned') \in Nat /\ Cardinality(Pinned) \in Nat
  BY <1>1, PinnedFinite, FS_CardinalityType
<1> QED BY <1>1, <1>2, BioAssumption DEF FewPinned

(* A step that leaves the queue and what is in it alone.                    *)
LEMMA QueueSame ==
    ASSUME IInv, UNCHANGED <<idequeue, ide>>,
           \A q \in Procs : pc'[q] = "io" <=> pc[q] = "io",
           \A q \in Procs : pc[q] = "io" => at'[q] = at[q],
           \A b \in Queued : /\ buf'[b].block = buf[b].block /\ buf'[b].dirty = buf[b].dirty
                             /\ buf'[b].data = buf[b].data
    PROVE  Once' /\ Served' /\ Started' /\ Waiting' = Waiting
<1>1. Waiting' = Waiting
  BY DEF Waiting
<1>2. Once'
  BY DEF IInv, Once
<1>3. Served'
  <2>1. \A q \in Waiting : at'[q] = at[q]
    BY DEF Waiting
  <2>2. Queued' = Queued
    BY DEF Queued
  <2> QED BY <1>1, <2>1, <2>2 DEF IInv, Served
<1>4. Started'
  <2>1. CASE idequeue = <<>>
    BY <2>1 DEF IInv, Started, NoRequest
  <2>2. CASE idequeue # <<>>
    <3>1. Head(idequeue) \in Queued /\ ide = Idestart(buf, Head(idequeue))
      BY <2>2, HeadFacts
    <3>2. Idestart(buf', Head(idequeue)) = Idestart(buf, Head(idequeue))
      BY <3>1 DEF Idestart
    <3> QED BY <2>2, <3>1, <3>2 DEF Started
  <2> QED BY <2>1, <2>2
<1> QED BY <1>1, <1>2, <1>3, <1>4

-----------------------------------------------------------------------------
(* bget.                                                                    *)

(* With enough buffers a process that asks finds one to recycle.            *)
LEMMA AlwaysRoom ==
    ASSUME EnoughBuffers, IInv, NEW p \in Procs, pc[p] = "out"
    PROVE  Unused # {}
<1> SUFFICES ASSUME Unused = {} PROVE FALSE
  OBVIOUS
<1> DEFINE Others == Procs \ {p}
           Used   == {at[q] : q \in {r \in Others : at[r] \in Bufs}}
<1>1. Bufs \subseteq Used \union Pinned
  <2> SUFFICES ASSUME NEW b \in Bufs, b \notin Pinned PROVE b \in Used
    OBVIOUS
  <2>1. buf[b].refcnt # 0 \/ buf[b].dirty
    BY DEF Unused
  <2>2. \E q \in Procs : at[q] = b
    <3>1. CASE buf[b].refcnt # 0
      <4>1. Cardinality(Users(b)) # 0
        BY <3>1 DEF IInv, Counted
      <4>2. Users(b) # {}
        BY <4>1, FS_EmptySet
      <4> QED BY <4>2 DEF Users
    <3>2. CASE buf[b].dirty
      BY <3>2 DEF Pinned, Waiting
    <3> QED BY <2>1, <3>1, <3>2
  <2>3. at[p] # b
    BY NoBufOutside DEF IInv, Seated
  <2> QED BY <2>2, <2>3
<1>2. IsFiniteSet(Others) /\ Cardinality(Others) = Cardinality(Procs) - 1
  BY BioAssumption, FS_RemoveElement
<1>3. IsFiniteSet(Used) /\ Cardinality(Used) <= Cardinality(Others)
  <2> DEFINE S == {r \in Others : at[r] \in Bufs}
  <2>1. IsFiniteSet(S) /\ Cardinality(S) <= Cardinality(Others)
    BY <1>2, FS_Subset
  <2>2. IsFiniteSet(Used) /\ Cardinality(Used) <= Cardinality(S)
    BY <2>1, ImageFinite
  <2>3. Cardinality(S) \in Nat /\ Cardinality(Used) \in Nat /\ Cardinality(Others) \in Nat
    BY <1>2, <2>1, <2>2, FS_CardinalityType
  <2> QED BY <2>1, <2>2, <2>3
<1>4. IsFiniteSet(Used \union Pinned)
      /\ Cardinality(Used \union Pinned) <= Cardinality(Used) + Cardinality(Pinned)
  <2>1. IsFiniteSet(Used \union Pinned)
    BY <1>3, PinnedFinite, FS_Union
  <2>2. Cardinality(Used \union Pinned)
        = Cardinality(Used) + Cardinality(Pinned) - Cardinality(Used \cap Pinned)
    BY <1>3, PinnedFinite, FS_Union
  <2>3. Cardinality(Used \cap Pinned) \in Nat
    BY <1>3, FS_Intersection, FS_CardinalityType
  <2>4. Cardinality(Used) \in Nat /\ Cardinality(Pinned) \in Nat
    BY <1>3, PinnedFinite, FS_CardinalityType
  <2> QED BY <2>1, <2>2, <2>3, <2>4
<1>5. Cardinality(Bufs) <= Cardinality(Used \union Pinned)
  BY <1>1, <1>4, FS_Subset
<1>6. /\ Cardinality(Procs) \in Nat /\ Cardinality(Used) \in Nat /\ Cardinality(Pinned) \in Nat
      /\ Cardinality(Used \union Pinned) \in Nat /\ Cardinality(Bufs) = NBUF
  BY <1>3, <1>4, PinnedFinite, BufsFinite, FS_CardinalityType, BioAssumption
<1>7. Cardinality(Pinned) <= MaxPinned
  BY DEF IInv, FewPinned
<1> HIDE DEF Used, Others
<1> QED BY <1>2, <1>3, <1>4, <1>5, <1>6, <1>7, BioAssumption DEF EnoughBuffers

(* There is no buffer for block k: bget panics.                             *)
NoBuffer(k) == Cached(k) = {} /\ Unused = {}

(* What bget does then: nothing but the panic.                              *)
LEMMA BgetPanics ==
    ASSUME NEW p \in Procs, NEW k \in Blocks, Bget(p, k), NoBuffer(k)
    PROVE  UNCHANGED <<buf, lock, idequeue, ide, disk, pc, at>> /\ panic' = "bget: no buffers"
BY DEF Bget, NoBuffer, drive

(* What bget does otherwise: the buffer b it returns, and nothing else.     *)
LEMMA BgetFacts ==
    ASSUME NEW p \in Procs, NEW k \in Blocks, Bget(p, k), ~NoBuffer(k)
    PROVE  /\ UNCHANGED <<lock, drive, panic>> /\ pc[p] = "out"
           /\ pc' = [pc EXCEPT ![p] = "lock"]
           /\ \E b \in Bufs :
                 /\ at' = [at EXCEPT ![p] = b]
                 /\ \/ /\ b \in Cached(k)
                       /\ buf' = [buf EXCEPT ![b] = [buf[b] EXCEPT !.refcnt = buf[b].refcnt + 1]]
                    \/ /\ Cached(k) = {} /\ b \in Unused
                       /\ buf' = [buf EXCEPT ![b] = Recycled(b, k)]
<1>1. pc[p] = "out"
  BY DEF Bget, In
<1>2. ~(Cached(k) = {} /\ Unused = {})
  BY DEF NoBuffer
<1>3. Cached(k) \subseteq Bufs /\ Unused \subseteq Bufs
  BY DEF Cached, Unused
<1> QED BY <1>1, <1>2, <1>3 DEF Bget, Goes

LEMMA BgetStep ==
    ASSUME IInv, NEW p \in Procs, NEW k \in Blocks, Bget(p, k), ~NoBuffer(k)
    PROVE  IInv'
<1>1. /\ UNCHANGED <<lock, idequeue, ide, disk, panic>> /\ pc[p] = "out"
      /\ pc' = [pc EXCEPT ![p] = "lock"]
  BY BgetFacts DEF drive
<1>2. PICK b \in Bufs :
          /\ at' = [at EXCEPT ![p] = b]
          /\ \/ b \in Cached(k) /\ buf' = [buf EXCEPT ![b] = [buf[b] EXCEPT !.refcnt = buf[b].refcnt + 1]]
             \/ Cached(k) = {} /\ b \in Unused /\ buf' = [buf EXCEPT ![b] = Recycled(b, k)]
  BY BgetFacts
<1>3. buf \in [Bufs -> BufRecords] /\ pc \in [Procs -> Places] /\ at \in [Procs -> Bufs \union {NoBuf}]
  BY DEF IInv, TypeOK, BufRecords
(* The buffer keeps what it has, or is a fresh one.                         *)
<1>4. /\ buf' \in [Bufs -> BufRecords]
      /\ \A c \in Bufs : c # b => buf'[c] = buf[c]
      /\ buf'[b].block = k /\ buf'[b].refcnt = buf[b].refcnt + 1
      /\ \/ /\ buf[b].block = k /\ buf'[b].valid = buf[b].valid
            /\ buf'[b].dirty = buf[b].dirty /\ buf'[b].data = buf[b].data
         \/ /\ \A c \in Bufs : buf[c].block # k
            /\ buf[b].refcnt = 0 /\ ~buf'[b].valid /\ ~buf'[b].dirty
  <2>1. buf[b] \in BufRecords
    BY <1>2, <1>3
  <2>2. buf[b].refcnt + 1 \in Nat
    BY <2>1 DEF BufRecords
  <2>3. CASE b \in Cached(k) /\ buf' = [buf EXCEPT ![b] = [buf[b] EXCEPT !.refcnt = buf[b].refcnt + 1]]
    <3> DEFINE r == [buf[b] EXCEPT !.refcnt = buf[b].refcnt + 1]
    <3>1. /\ r \in BufRecords /\ r.block = buf[b].block /\ r.valid = buf[b].valid
          /\ r.dirty = buf[b].dirty /\ r.data = buf[b].data /\ r.refcnt = buf[b].refcnt + 1
      BY <2>1, <2>2 DEF BufRecords
    <3>2. buf' = [buf EXCEPT ![b] = r] /\ buf[b].block = k
      BY <2>3 DEF Cached
    <3> HIDE DEF r
    <3>3. buf'[b] = r /\ buf' \in [Bufs -> BufRecords] /\ \A c \in Bufs : c # b => buf'[c] = buf[c]
      BY <1>3, <3>1, <3>2
    <3> QED BY <3>1, <3>2, <3>3
  <2>4. CASE Cached(k) = {} /\ b \in Unused /\ buf' = [buf EXCEPT ![b] = Recycled(b, k)]
    <3> DEFINE r == Recycled(b, k)
    <3>1. buf[b].refcnt = 0 /\ \A c \in Bufs : buf[c].block # k
      BY <2>4 DEF Unused, Cached
    <3>2. /\ r \in BufRecords /\ r.block = k /\ ~r.valid /\ ~r.dirty /\ r.refcnt = 1
      BY <2>1 DEF Recycled, BufRecords
    <3>3. buf' = [buf EXCEPT ![b] = r]
      BY <2>4
    <3> HIDE DEF r
    <3>4. buf'[b] = r /\ buf' \in [Bufs -> BufRecords] /\ \A c \in Bufs : c # b => buf'[c] = buf[c]
      BY <1>3, <3>2, <3>3
    <3> QED BY <3>1, <3>2, <3>4
  <2> QED BY <1>2, <2>3, <2>4
<1>5. /\ at'[p] = b /\ pc'[p] = "lock"
      /\ \A q \in Procs : q # p => at'[q] = at[q] /\ pc'[q] = pc[q]
      /\ pc' \in [Procs -> Places] /\ at' \in [Procs -> Bufs \union {NoBuf}]
  BY <1>1, <1>2, <1>3 DEF Places
<1>6. at[p] = NoBuf
  BY <1>1 DEF IInv, Seated
(* Whoever is at b already finds it as it was.                              *)
<1>7. \A q \in Procs : at[q] = b =>
          /\ buf[b].block = k /\ buf'[b].valid = buf[b].valid
          /\ buf'[b].dirty = buf[b].dirty /\ buf'[b].data = buf[b].data
  BY <1>4, NoUsers
<1>8. TypeOK'
  BY <1>1, <1>4, <1>5 DEF IInv, TypeOK, BufRecords
<1>9. Unique'
  BY <1>4 DEF IInv, Unique
<1>10. Counted'
  <2>1. ASSUME NEW c \in Bufs, c # b PROVE Users(c)' = Users(c)
    BY <1>5, <1>6, <2>1, NoBufOutside DEF Users
  <2>2. Users(b)' = Users(b) \union {p} /\ p \notin Users(b)
    BY <1>5, <1>6, NoBufOutside DEF Users
  <2>3. Cardinality(Users(b) \union {p}) = Cardinality(Users(b)) + 1
    BY <2>2, UsersFinite, FS_AddElement
  <2> QED BY <1>4, <2>1, <2>2, <2>3 DEF IInv, Counted
<1>11. Seated'
  <2> SUFFICES ASSUME NEW q \in Procs
               PROVE  IF pc'[q] = "out" THEN at'[q] = NoBuf
                      ELSE at'[q] \in Bufs /\ buf'[at'[q]].block \in Blocks
    BY DEF Seated
  <2>1. CASE q = p
    BY <1>4, <1>5, <2>1
  <2>2. CASE q # p
    <3>1. IF pc[q] = "out" THEN at[q] = NoBuf ELSE at[q] \in Bufs /\ buf[at[q]].block \in Blocks
      BY DEF IInv, Seated
    <3> QED BY <1>4, <1>5, <2>2, <3>1
  <2> QED BY <2>1, <2>2
<1>12. Locked'
  <2> SUFFICES ASSUME NEW q \in Procs, NEW c \in Bufs
               PROVE  lock'[c] = q <=> at'[q] = c /\ pc'[q] \in Holding
    BY DEF Locked
  <2>1. lock[c] = q <=> at[q] = c /\ pc[q] \in Holding
    BY DEF IInv, Locked
  <2> QED BY <1>1, <1>5, <2>1 DEF Holding
<1>13. Known'
  <2> SUFFICES ASSUME NEW q \in Procs, pc'[q] \in {"held", "iowoken"}
               PROVE  buf'[at'[q]].valid /\ (pc'[q] = "iowoken" => ~buf'[at'[q]].dirty)
    BY DEF Known
  <2>1. q # p /\ at'[q] = at[q] /\ pc'[q] = pc[q]
    BY <1>5
  <2>2. at[q] \in Bufs /\ buf[at[q]].valid /\ (pc[q] = "iowoken" => ~buf[at[q]].dirty)
    BY <2>1 DEF IInv, Known, Seated
  <2> QED BY <1>4, <1>7, <2>1, <2>2
<1>14. Once' /\ Served' /\ Started' /\ Waiting' = Waiting
  <2>1. \A c \in Queued : /\ buf'[c].block = buf[c].block /\ buf'[c].dirty = buf[c].dirty
                          /\ buf'[c].data = buf[c].data
    <3> SUFFICES ASSUME NEW c \in Queued
                 PROVE  /\ buf'[c].block = buf[c].block /\ buf'[c].dirty = buf[c].dirty
                        /\ buf'[c].data = buf[c].data
      OBVIOUS
    <3>1. PICK q \in Waiting : at[q] = c /\ c \in Bufs
      BY QueuedHeld
    <3> QED BY <1>4, <1>7, <3>1 DEF Waiting
  <2>2. \A q \in Procs : (pc'[q] = "io" <=> pc[q] = "io") /\ (pc[q] = "io" => at'[q] = at[q])
    BY <1>1, <1>5
  <2> QED BY <1>1, <2>1, <2>2, QueueSame
<1>15. Filled'
  <2> SUFFICES ASSUME NEW c \in Bufs
               PROVE  /\ buf'[c].dirty => buf'[c].valid
                      /\ buf'[c].valid => buf'[c].data \in Values
                      /\ buf'[c].valid /\ ~buf'[c].dirty /\ buf'[c].block \in Blocks
                            => buf'[c].data = disk'[buf'[c].block]
    BY DEF Filled
  <2>1. /\ buf[c].dirty => buf[c].valid
        /\ buf[c].valid => buf[c].data \in Values
        /\ buf[c].valid /\ ~buf[c].dirty /\ buf[c].block \in Blocks
              => buf[c].data = disk[buf[c].block]
    BY DEF IInv, Filled
  <2> QED BY <1>1, <1>4, <2>1
<1>16. FewPinned'
  <2>1. Pinned' \subseteq Pinned
    <3> SUFFICES ASSUME NEW c \in Bufs, buf'[c].dirty, \A q \in Waiting : at'[q] # c
                 PROVE  buf[c].dirty /\ \A q \in Waiting : at[q] # c
      BY <1>14 DEF Pinned
    <3> QED BY <1>1, <1>4, <1>5 DEF Waiting
  <2> QED BY <2>1, PinnedShrinks DEF IInv
<1> QED BY <1>1, <1>8, <1>9, <1>10, <1>11, <1>12, <1>13, <1>14, <1>15, <1>16 DEF IInv

-----------------------------------------------------------------------------
(* Steps of one process that has a buffer.                                  *)

(* What such a step changes at most: the place of p, of sleepers that it    *)
(* wakes, and who holds the lock of p's buffer.                             *)
LockMoves(p) ==
    /\ UNCHANGED <<buf, drive, at, panic>>
    /\ pc[p] \notin {"out", "io"} /\ pc'[p] \notin {"out", "io", "iowoken"}
    /\ pc' \in [Procs -> Places] /\ lock' \in [Bufs -> Procs \union {NoProc}]
    /\ \A q \in Procs : q # p => pc'[q] = pc[q] \/ (pc[q] = "asleep" /\ pc'[q] = "lock")
    /\ \A c \in Bufs : c # at[p] => lock'[c] = lock[c]
    /\ \/ lock' = lock /\ (pc'[p] \in Holding <=> pc[p] \in Holding)
       \/ pc'[p] \in Holding /\ lock[at[p]] = NoProc /\ lock'[at[p]] = p
       \/ pc'[p] \notin Holding /\ lock[at[p]] = p /\ lock'[at[p]] = NoProc
    /\ pc'[p] = "held" => buf[at[p]].valid

LEMMA LockStep ==
    ASSUME IInv, NEW p \in Procs, LockMoves(p)
    PROVE  IInv'
<1> USE DEF LockMoves
<1>1. at[p] \in Bufs /\ UNCHANGED <<idequeue, ide, disk>>
  BY DEF IInv, Seated, drive
<1>2. \A q \in Procs : pc'[q] = "io" <=> pc[q] = "io"
  OBVIOUS
<1>3. TypeOK'
  BY <1>1 DEF IInv, TypeOK
<1>4. Unique' /\ Counted'
  BY DEF IInv, Unique, Counted, Users
<1>5. Seated'
  <2> SUFFICES ASSUME NEW q \in Procs
               PROVE  IF pc'[q] = "out" THEN at[q] = NoBuf
                      ELSE at[q] \in Bufs /\ buf[at[q]].block \in Blocks
    BY DEF Seated
  <2>1. IF pc[q] = "out" THEN at[q] = NoBuf ELSE at[q] \in Bufs /\ buf[at[q]].block \in Blocks
    BY DEF IInv, Seated
  <2>2. pc'[q] = "out" <=> pc[q] = "out"
    OBVIOUS
  <2> QED BY <2>1, <2>2
<1>6. Locked'
  <2> SUFFICES ASSUME NEW q \in Procs, NEW c \in Bufs
               PROVE  lock'[c] = q <=> at[q] = c /\ pc'[q] \in Holding
    BY DEF Locked
  <2>1. /\ lock[c] = q <=> at[q] = c /\ pc[q] \in Holding
        /\ lock[c] = p <=> at[p] = c /\ pc[p] \in Holding
    BY DEF IInv, Locked
  <2>2. q # p => (pc'[q] \in Holding <=> pc[q] \in Holding)
    BY DEF Holding
  <2>3. CASE c = at[p]
    BY <2>1, <2>2, <2>3, BioAssumption
  <2>4. CASE c # at[p]
    BY <2>1, <2>2, <2>4
  <2> QED BY <2>3, <2>4
<1>7. Known'
  <2> SUFFICES ASSUME NEW q \in Procs, pc'[q] \in {"held", "iowoken"}
               PROVE  buf[at[q]].valid /\ (pc'[q] = "iowoken" => ~buf[at[q]].dirty)
    BY DEF Known
  <2> QED BY DEF IInv, Known
<1>8. Once' /\ Served' /\ Started' /\ Waiting' = Waiting
  BY <1>1, <1>2, QueueSame
<1>9. Filled'
  BY <1>1 DEF IInv, Filled
<1>10. FewPinned'
  BY <1>8, PinnedShrinks DEF IInv, Pinned
<1> QED BY <1>3, <1>4, <1>5, <1>6, <1>7, <1>8, <1>9, <1>10 DEF IInv

LEMMA AcquiresleepStep ==
    ASSUME IInv, NEW p \in Procs, Acquiresleep(p)
    PROVE  IInv'
<1>1. /\ pc[p] = "lock" /\ UNCHANGED <<buf, drive, at, panic>>
      /\ IF lock[at[p]] = NoProc
         THEN lock' = [lock EXCEPT ![at[p]] = p] /\ pc' = [pc EXCEPT ![p] = "locked"]
         ELSE pc' = [pc EXCEPT ![p] = "asleep"] /\ UNCHANGED lock
  BY DEF Acquiresleep, In, Goes
<1>2. /\ pc \in [Procs -> Places] /\ lock \in [Bufs -> Procs \union {NoProc}] /\ at[p] \in Bufs
  BY <1>1 DEF IInv, TypeOK, Seated
<1>3. CASE lock[at[p]] = NoProc
  <2>1. /\ pc' \in [Procs -> Places] /\ pc'[p] = "locked"
        /\ \A q \in Procs : q # p => pc'[q] = pc[q]
    BY <1>1, <1>2, <1>3 DEF Places
  <2>2. /\ lock' \in [Bufs -> Procs \union {NoProc}] /\ lock'[at[p]] = p
        /\ \A c \in Bufs : c # at[p] => lock'[c] = lock[c]
    BY <1>1, <1>2, <1>3
  <2> QED BY <1>1, <1>3, <2>1, <2>2, LockStep DEF LockMoves, Holding
<1>4. CASE lock[at[p]] # NoProc
  <2>1. /\ pc' \in [Procs -> Places] /\ pc'[p] = "asleep" /\ lock' = lock
        /\ \A q \in Procs : q # p => pc'[q] = pc[q]
    BY <1>1, <1>2, <1>4 DEF Places
  <2> QED BY <1>1, <1>2, <2>1, LockStep DEF LockMoves, Holding
<1> QED BY <1>3, <1>4

LEMMA ReleasesleepStep ==
    ASSUME IInv, NEW p \in Procs, Releasesleep(p)
    PROVE  IInv'
<1> DEFINE w == [pc EXCEPT ![p] = "unlocked"]
<1>1. /\ pc[p] = "held" /\ UNCHANGED <<buf, drive, at, panic>>
      /\ lock' = [lock EXCEPT ![at[p]] = NoProc]
      /\ pc' = Wakeup(w, at[p], "asleep", "lock")
  BY DEF Releasesleep, In
<1>2. /\ pc \in [Procs -> Places] /\ lock \in [Bufs -> Procs \union {NoProc}] /\ at[p] \in Bufs
  BY <1>1 DEF IInv, TypeOK, Seated
<1>3. w \in [Procs -> Places] /\ w[p] = "unlocked" /\ \A q \in Procs : q # p => w[q] = pc[q]
  BY <1>2 DEF Places
<1> HIDE DEF w
<1>4. \A q \in Procs : /\ pc[q] = "asleep" /\ at[q] = at[p] => pc'[q] = "lock"
                       /\ ~(pc[q] = "asleep" /\ at[q] = at[p]) => pc'[q] = w[q]
  BY <1>1 DEF Wakeup
<1>5. pc' \in [Procs -> Places]
  <2>1. pc' = [q \in Procs |-> IF pc[q] = "asleep" /\ at[q] = at[p] THEN "lock" ELSE w[q]]
    BY <1>1 DEF Wakeup
  <2> QED BY <1>3, <2>1 DEF Places
<1>6. /\ pc'[p] = "unlocked"
      /\ \A q \in Procs : q # p => pc'[q] = pc[q] \/ (pc[q] = "asleep" /\ pc'[q] = "lock")
  BY <1>1, <1>3, <1>4
<1>7. /\ lock' \in [Bufs -> Procs \union {NoProc}] /\ lock'[at[p]] = NoProc
      /\ \A c \in Bufs : c # at[p] => lock'[c] = lock[c]
  BY <1>1, <1>2
<1>8. lock[at[p]] = p
  BY <1>1, <1>2 DEF IInv, Locked, Holding
<1> QED BY <1>1, <1>5, <1>6, <1>7, <1>8, LockStep DEF LockMoves, Holding

LEMMA IowokenStep ==
    ASSUME IInv, NEW p \in Procs, Iowoken(p)
    PROVE  IInv'
<1>1. pc[p] = "iowoken" /\ UNCHANGED <<cache, drive, at, panic>>
  BY DEF Iowoken, In
<1>2. buf[at[p]].valid /\ ~buf[at[p]].dirty
  BY <1>1 DEF IInv, Known
<1>3. pc' = [pc EXCEPT ![p] = "held"]
  BY <1>2 DEF Iowoken, Goes
<1>4. /\ pc' \in [Procs -> Places] /\ pc'[p] = "held" /\ \A q \in Procs : q # p => pc'[q] = pc[q]
  BY <1>3 DEF IInv, TypeOK, Places
<1>5. UNCHANGED <<buf, lock>> /\ lock \in [Bufs -> Procs \union {NoProc}]
  BY <1>1 DEF cache, IInv, TypeOK
<1> QED BY <1>1, <1>2, <1>4, <1>5, LockStep DEF LockMoves, Holding

-----------------------------------------------------------------------------
(* Steps that change what the holder of a buffer sees in it.                *)

(* The holder p of a buffer changes its data and flags, and nothing else of *)
(* the cache.                                                               *)
Touches(p) ==
    /\ UNCHANGED <<lock, at, disk, panic>>
    /\ at[p] \in Bufs
    /\ buf' \in [Bufs -> BufRecords]
    /\ \A c \in Bufs : c # at[p] => buf'[c] = buf[c]
    /\ buf'[at[p]].block = buf[at[p]].block /\ buf'[at[p]].refcnt = buf[at[p]].refcnt
    /\ buf'[at[p]].valid = buf[at[p]].valid
    /\ buf'[at[p]].dirty => buf'[at[p]].valid
    /\ buf'[at[p]].valid => buf'[at[p]].dirty /\ buf'[at[p]].data \in Values

LEMMA TouchFacts ==
    ASSUME IInv, NEW p \in Procs, Touches(p)
    PROVE  Unique' /\ Counted' /\ Filled'
           /\ \A c \in Bufs : buf'[c].block = buf[c].block /\ buf'[c].valid = buf[c].valid
<1>1. \A c \in Bufs : /\ buf'[c].block = buf[c].block /\ buf'[c].refcnt = buf[c].refcnt
                      /\ buf'[c].valid = buf[c].valid
  <2> SUFFICES ASSUME NEW c \in Bufs
               PROVE  /\ buf'[c].block = buf[c].block /\ buf'[c].refcnt = buf[c].refcnt
                      /\ buf'[c].valid = buf[c].valid
    OBVIOUS
  <2>1. CASE c = at[p]
    BY <2>1 DEF Touches
  <2>2. CASE c # at[p]
    BY <2>2 DEF Touches
  <2> QED BY <2>1, <2>2
<1>2. Unique'
  BY <1>1 DEF IInv, Unique
<1>3. Counted'
  BY <1>1 DEF IInv, Counted, Users, Touches
<1>4. Filled'
  <2> SUFFICES ASSUME NEW c \in Bufs
               PROVE  /\ buf'[c].dirty => buf'[c].valid
                      /\ buf'[c].valid => buf'[c].data \in Values
                      /\ buf'[c].valid /\ ~buf'[c].dirty /\ buf'[c].block \in Blocks
                            => buf'[c].data = disk'[buf'[c].block]
    BY DEF Filled
  <2>1. CASE c = at[p]
    BY <2>1 DEF Touches
  <2>2. CASE c # at[p]
    BY <2>2 DEF Touches, IInv, Filled
  <2> QED BY <2>1, <2>2
<1> QED BY <1>1, <1>2, <1>3, <1>4

(* iderw: the buffer of p goes to the end of the queue.                     *)
LEMMA IderwStep ==
    ASSUME IInv, NEW p \in Procs, pc[p] \in {"locked", "held"}, Touches(p), Iderw(p, buf')
    PROVE  IInv'
<1> DEFINE b == at[p]
<1>1. /\ idequeue' = Append(idequeue, b) /\ pc' = [pc EXCEPT ![p] = "io"]
      /\ ide' = IF idequeue = <<>> THEN Idestart(buf', b) ELSE ide
      /\ UNCHANGED <<lock, at, disk, panic>> /\ b \in Bufs
  BY DEF Iderw, Goes, Touches
<1>2. idequeue \in Seq(Bufs) /\ pc \in [Procs -> Places] /\ lock[b] = p
  BY <1>1 DEF IInv, TypeOK, Locked, Holding
<1>3. /\ pc' \in [Procs -> Places] /\ pc'[p] = "io"
      /\ \A q \in Procs : q # p => pc'[q] = pc[q]
  BY <1>1, <1>2 DEF Places
<1>4. Waiting' = Waiting \union {p} /\ p \notin Waiting
  BY <1>3 DEF Waiting
(* Only its holder could have queued it.                                    *)
<1>5. b \notin Queued
  <2> SUFFICES ASSUME b \in Queued PROVE FALSE
    OBVIOUS
  <2>1. PICK q \in Waiting : lock[b] = q
    BY QueuedHeld
  <2> QED BY <1>2, <1>4, <2>1
<1>6. /\ idequeue' \in Seq(Bufs) /\ idequeue' # <<>>
      /\ DOMAIN idequeue' = DOMAIN idequeue \union {Len(idequeue) + 1}
      /\ Len(idequeue) + 1 \notin DOMAIN idequeue
      /\ idequeue'[Len(idequeue) + 1] = b
      /\ \A i \in DOMAIN idequeue : idequeue'[i] = idequeue[i]
      /\ Head(idequeue') = IF idequeue = <<>> THEN b ELSE Head(idequeue)
  BY <1>1, <1>2
<1> HIDE DEF b
<1>7. Once'
  <2>1. \A i \in DOMAIN idequeue : idequeue[i] # b
    BY <1>5 DEF Queued
  <2> QED BY <1>6, <2>1 DEF IInv, Once
<1>8. Served'
  <2>1. Queued' = Queued \union {b}
    BY <1>6 DEF Queued
  <2>2. {at'[q] : q \in Waiting'} = {at[q] : q \in Waiting} \union {b}
    BY <1>1, <1>4 DEF b
  <2> QED BY <2>1, <2>2 DEF IInv, Served
<1>9. Started'
  <2>1. CASE idequeue = <<>>
    BY <1>1, <1>6, <2>1 DEF Started
  <2>2. CASE idequeue # <<>>
    <3>1. Head(idequeue) \in Bufs /\ Head(idequeue) \in Queued /\ ide = Idestart(buf, Head(idequeue))
      BY <2>2, HeadFacts
    <3>2. buf'[Head(idequeue)] = buf[Head(idequeue)]
      BY <1>5, <3>1 DEF Touches, b
    <3>3. Idestart(buf', Head(idequeue)) = ide
      BY <3>1, <3>2 DEF Idestart
    <3> QED BY <1>1, <1>6, <2>2, <3>3 DEF Started
  <2> QED BY <2>1, <2>2
<1>10. Unique' /\ Counted' /\ Filled' /\ \A c \in Bufs : buf'[c].block = buf[c].block
  BY TouchFacts
<1>11. Seated'
  <2> SUFFICES ASSUME NEW q \in Procs
               PROVE  IF pc'[q] = "out" THEN at[q] = NoBuf
                      ELSE at[q] \in Bufs /\ buf'[at[q]].block \in Blocks
    BY <1>1 DEF Seated
  <2>1. IF pc[q] = "out" THEN at[q] = NoBuf ELSE at[q] \in Bufs /\ buf[at[q]].block \in Blocks
    BY DEF IInv, Seated
  <2>2. pc'[q] = "out" <=> pc[q] = "out"
    BY <1>3
  <2> QED BY <1>10, <2>1, <2>2
<1>12. Locked'
  <2>1. \A q \in Procs : pc'[q] \in Holding <=> pc[q] \in Holding
    BY <1>3 DEF Holding
  <2> QED BY <1>1, <2>1 DEF IInv, Locked
<1>13. Known'
  <2> SUFFICES ASSUME NEW q \in Procs, pc'[q] \in {"held", "iowoken"}
               PROVE  buf'[at[q]].valid /\ (pc'[q] = "iowoken" => ~buf'[at[q]].dirty)
    BY <1>1 DEF Known
  <2>1. q # p /\ pc'[q] = pc[q]
    BY <1>3
  <2>2. at[q] \in Bufs /\ at[q] # at[p]
    BY <2>1, OneHolder DEF IInv, Seated, Holding
  <2>3. buf'[at[q]] = buf[at[q]]
    BY <2>2 DEF Touches
  <2> QED BY <2>1, <2>3 DEF IInv, Known
<1>14. FewPinned'
  <2>1. Pinned' \subseteq Pinned
    <3> SUFFICES ASSUME NEW c \in Bufs, buf'[c].dirty, \A q \in Waiting' : at[q] # c
                 PROVE  buf[c].dirty /\ \A q \in Waiting : at[q] # c
      BY <1>1 DEF Pinned
    <3>1. c # at[p]
      BY <1>4
    <3> QED BY <1>4, <3>1 DEF Touches
  <2> QED BY <2>1, PinnedShrinks DEF IInv
<1>15. TypeOK'
  <2>1. ide' \in [block : Blocks \union {NoBlock}, write : BOOLEAN, data : Values \union {Garbage}]
    <3>1. buf'[b] \in BufRecords
      BY <1>1 DEF Touches
    <3>2. Idestart(buf', b) \in [block : Blocks \union {NoBlock}, write : BOOLEAN, data : Values \union {Garbage}]
      BY <3>1 DEF Idestart, BufRecords
    <3> QED BY <1>1, <3>2 DEF IInv, TypeOK
  <2> QED BY <1>1, <1>3, <1>6, <2>1 DEF IInv, TypeOK, Touches, BufRecords
<1> QED BY <1>1, <1>7, <1>8, <1>9, <1>10, <1>11, <1>12, <1>13, <1>14, <1>15 DEF IInv

LEMMA BreadStep ==
    ASSUME IInv, NEW p \in Procs, Bread(p)
    PROVE  IInv'
<1>1. /\ pc[p] = "locked" /\ UNCHANGED <<buf, lock, at, panic>>
      /\ buf \in [Bufs -> BufRecords] /\ at[p] \in Bufs
  BY DEF Bread, In, cache, IInv, TypeOK, BufRecords, Seated
<1>2. CASE buf[at[p]].valid
  <2>1. pc' = [pc EXCEPT ![p] = "held"] /\ UNCHANGED drive
    BY <1>2 DEF Bread, Goes
  <2>2. /\ pc' \in [Procs -> Places] /\ pc'[p] = "held" /\ \A q \in Procs : q # p => pc'[q] = pc[q]
    BY <2>1 DEF IInv, TypeOK, Places
  <2>3. lock' \in [Bufs -> Procs \union {NoProc}]
    BY <1>1 DEF IInv, TypeOK
  <2>4. LockMoves(p)
    BY <1>1, <1>2, <2>1, <2>2, <2>3 DEF LockMoves, Holding
  <2> QED BY <2>4, LockStep
<1>3. CASE ~buf[at[p]].valid
  <2>1. Iderw(p, buf)
    BY <1>3 DEF Bread
  <2>2. Touches(p)
    BY <1>1, <1>3, <2>1 DEF Touches, Iderw, IInv, Filled
  <2> QED BY <1>1, <2>1, <2>2, IderwStep
<1> QED BY <1>2, <1>3

LEMMA TwoFields ==
    ASSUME NEW f \in [Bufs -> BufRecords], NEW b \in Bufs, NEW v
    PROVE  [f EXCEPT ![b].data = v, ![b].dirty = TRUE]
           = [f EXCEPT ![b] = [f[b] EXCEPT !.data = v, !.dirty = TRUE]]
OBVIOUS

(* A new buffer for p's: other data, and dirty.                             *)
LEMMA DirtyFacts ==
    ASSUME IInv, NEW p \in Procs, NEW v \in Values, pc[p] = "held",
           buf' = [buf EXCEPT ![at[p]].data = v, ![at[p]].dirty = TRUE],
           UNCHANGED <<lock, at, disk, panic>>
    PROVE  /\ Touches(p) /\ buf'[at[p]].dirty /\ buf'[at[p]].data = v
           /\ buf[at[p]].valid
<1>1. /\ buf \in [Bufs -> BufRecords] /\ at[p] \in Bufs /\ buf[at[p]] \in BufRecords
      /\ buf[at[p]].valid
  BY DEF IInv, TypeOK, BufRecords, Seated, Known
<1> DEFINE r == [buf[at[p]] EXCEPT !.data = v, !.dirty = TRUE]
<1>2. /\ r \in BufRecords /\ r.block = buf[at[p]].block /\ r.refcnt = buf[at[p]].refcnt
      /\ r.valid = buf[at[p]].valid /\ r.dirty /\ r.data = v
  BY <1>1 DEF BufRecords
<1>3. buf' = [buf EXCEPT ![at[p]] = r]
  <2>1. [buf EXCEPT ![at[p]].data = v, ![at[p]].dirty = TRUE] = [buf EXCEPT ![at[p]] = r]
    BY <1>1, TwoFields, Zenon
  <2> QED BY <2>1, Zenon
<1> HIDE DEF r
<1>4. buf'[at[p]] = r /\ buf' \in [Bufs -> BufRecords] /\ \A c \in Bufs : c # at[p] => buf'[c] = buf[c]
  <2>1. r \in BufRecords
    BY <1>2
  <2>2. /\ [buf EXCEPT ![at[p]] = r] \in [Bufs -> BufRecords] /\ [buf EXCEPT ![at[p]] = r][at[p]] = r
        /\ \A c \in Bufs : c # at[p] => [buf EXCEPT ![at[p]] = r][c] = buf[c]
    BY <1>1, <2>1
  <2> QED BY <1>3, <2>2
<1> QED BY <1>1, <1>2, <1>4 DEF Touches

LEMMA BwriteStep ==
    ASSUME IInv, NEW p \in Procs, NEW v \in Values, Bwrite(p, v)
    PROVE  IInv'
<1>1. /\ pc[p] = "held" /\ UNCHANGED <<lock, at, panic>> /\ Iderw(p, buf')
      /\ buf' = [buf EXCEPT ![at[p]].data = v, ![at[p]].dirty = TRUE]
  BY DEF Bwrite, In
<1>2. UNCHANGED disk
  BY <1>1 DEF Iderw
<1> QED BY <1>1, <1>2, DirtyFacts, IderwStep

LEMMA LogWriteStep ==
    ASSUME IInv, NEW p \in Procs, NEW v \in Values, LogWrite(p, v)
    PROVE  IInv'
<1> DEFINE b == at[p]
           Dirty == {c \in Bufs : buf[c].dirty}
<1>1. /\ pc[p] = "held" /\ UNCHANGED <<lock, drive, pc, at, panic>>
      /\ buf[b].dirty \/ Cardinality(Dirty) < MaxPinned
      /\ buf' = [buf EXCEPT ![b].data = v, ![b].dirty = TRUE]
  BY DEF LogWrite, In
<1>2. Touches(p) /\ buf[b].valid /\ b \in Bufs /\ UNCHANGED <<idequeue, ide, disk>>
  BY <1>1, DirtyFacts DEF drive, Touches
<1>3. Unique' /\ Counted' /\ Filled'
      /\ \A c \in Bufs : buf'[c].block = buf[c].block /\ buf'[c].valid = buf[c].valid
  BY <1>2, TouchFacts
<1>4. \A q \in Procs : q # p /\ pc[q] \in Holding => at[q] # b
  BY <1>1, OneHolder DEF Holding
<1>5. Once' /\ Served' /\ Started' /\ Waiting' = Waiting
  <2>1. \A c \in Queued : c # b /\ c \in Bufs
    <3> SUFFICES ASSUME NEW c \in Queued PROVE c # b /\ c \in Bufs
      OBVIOUS
    <3>1. PICK q \in Waiting : at[q] = c /\ c \in Bufs
      BY QueuedHeld
    <3> QED BY <1>1, <1>4, <3>1 DEF Waiting, Holding
  <2>2. \A c \in Queued : buf'[c] = buf[c]
    BY <1>2, <2>1 DEF Touches
  <2> QED BY <1>1, <1>2, <2>2, QueueSame
<1>6. Seated' /\ Locked'
  <2>1. \A q \in Procs : IF pc[q] = "out" THEN at[q] = NoBuf
                        ELSE at[q] \in Bufs /\ buf[at[q]].block \in Blocks
    BY DEF IInv, Seated
  <2>2. Seated'
    BY <1>1, <1>3, <2>1 DEF Seated
  <2> QED BY <1>1, <2>2 DEF IInv, Locked
<1>7. Known'
  <2> SUFFICES ASSUME NEW q \in Procs, pc[q] \in {"held", "iowoken"}
               PROVE  buf'[at[q]].valid /\ (pc[q] = "iowoken" => ~buf'[at[q]].dirty)
    BY <1>1 DEF Known
  <2>1. at[q] \in Bufs /\ buf[at[q]].valid /\ (pc[q] = "iowoken" => ~buf[at[q]].dirty)
    BY DEF IInv, Known, Seated
  <2>2. pc[q] = "iowoken" => buf'[at[q]] = buf[at[q]]
    BY <1>1, <1>2, <1>4, <2>1 DEF Touches, Holding
  <2> QED BY <1>3, <2>1, <2>2
<1>8. FewPinned'
  <2>1. \A c \in Bufs : buf'[c].dirty => c = b \/ buf[c].dirty
    BY <1>2 DEF Touches
  <2>2. CASE buf[b].dirty
    <3>1. Pinned' \subseteq Pinned
      BY <1>1, <1>5, <2>1, <2>2 DEF Pinned
    <3> QED BY <3>1, PinnedShrinks DEF IInv
  <2>3. CASE Cardinality(Dirty) < MaxPinned
    <3>1. Dirty \subseteq Bufs /\ Pinned' \subseteq Dirty \union {b}
      BY <1>2, <2>1 DEF Pinned
    <3> HIDE DEF Dirty
    <3>2. IsFiniteSet(Dirty) /\ Cardinality(Dirty) \in Nat
      BY <3>1, BufsFinite, FS_Subset, FS_CardinalityType
    <3>3. IsFiniteSet(Dirty \union {b}) /\ Cardinality(Dirty \union {b}) <= Cardinality(Dirty) + 1
      BY <3>2, FS_AddElement
    <3>4. IsFiniteSet(Pinned') /\ Cardinality(Pinned') <= Cardinality(Dirty \union {b})
      BY <3>1, <3>3, FS_Subset
    <3>5. Cardinality(Pinned') \in Nat /\ Cardinality(Dirty \union {b}) \in Nat
      BY <3>3, <3>4, FS_CardinalityType
    <3> QED BY <2>3, <3>2, <3>3, <3>4, <3>5, BioAssumption DEF FewPinned
  <2> QED BY <1>1, <2>2, <2>3
<1>9. TypeOK'
  BY <1>1, <1>2 DEF IInv, TypeOK, Touches, BufRecords
<1> QED BY <1>1, <1>3, <1>5, <1>6, <1>7, <1>8, <1>9 DEF IInv

LEMMA BrelseStep ==
    ASSUME IInv, NEW p \in Procs, Brelse(p)
    PROVE  IInv'
<1>1. PICK b \in Bufs :
      /\ b = at[p] /\ pc[p] = "unlocked" /\ UNCHANGED <<lock, idequeue, ide, disk, panic>>
      /\ buf' = [buf EXCEPT ![b].refcnt = buf[b].refcnt - 1]
      /\ at' = [at EXCEPT ![p] = NoBuf] /\ pc' = [pc EXCEPT ![p] = "out"]
  BY DEF Brelse, In, Goes, drive, IInv, Seated
<1>2. /\ buf \in [Bufs -> BufRecords] /\ b \in Bufs /\ buf[b] \in BufRecords
      /\ pc \in [Procs -> Places] /\ at \in [Procs -> Bufs \union {NoBuf}]
  BY <1>1 DEF IInv, TypeOK, BufRecords, Seated
<1>3. /\ pc' \in [Procs -> Places] /\ at' \in [Procs -> Bufs \union {NoBuf}]
      /\ pc'[p] = "out" /\ at'[p] = NoBuf
      /\ \A q \in Procs : q # p => pc'[q] = pc[q] /\ at'[q] = at[q]
  BY <1>1, <1>2 DEF Places
<1>4. /\ Users(b)' = Users(b) \ {p} /\ p \in Users(b)
      /\ \A c \in Bufs : c # b => Users(c)' = Users(c)
  BY <1>1, <1>2, <1>3, NoBufOutside DEF Users
<1>5. Cardinality(Users(b)) = buf[b].refcnt /\ Cardinality(Users(b)') = buf[b].refcnt - 1
      /\ buf[b].refcnt - 1 \in Nat
  <2>1. IsFiniteSet(Users(b)) /\ Cardinality(Users(b)) = buf[b].refcnt
    BY <1>2, UsersFinite DEF IInv, Counted
  <2>2. IsFiniteSet(Users(b) \ {p}) /\ Cardinality(Users(b) \ {p}) = buf[b].refcnt - 1
    BY <1>4, <2>1, FS_RemoveElement
  <2>3. Cardinality(Users(b) \ {p}) \in Nat
    BY <2>2, FS_CardinalityType
  <2> QED BY <1>4, <2>1, <2>2, <2>3
<1>6. /\ buf' \in [Bufs -> BufRecords] /\ buf'[b].refcnt = buf[b].refcnt - 1
      /\ \A c \in Bufs : c # b => buf'[c] = buf[c]
      /\ \A c \in Bufs : /\ buf'[c].block = buf[c].block /\ buf'[c].valid = buf[c].valid
                         /\ buf'[c].dirty = buf[c].dirty /\ buf'[c].data = buf[c].data
  <2> DEFINE r == [buf[b] EXCEPT !.refcnt = buf[b].refcnt - 1]
  <2>1. /\ r \in BufRecords /\ r.block = buf[b].block /\ r.valid = buf[b].valid
        /\ r.dirty = buf[b].dirty /\ r.data = buf[b].data /\ r.refcnt = buf[b].refcnt - 1
    BY <1>2, <1>5 DEF BufRecords
  <2>2. buf' = [buf EXCEPT ![b] = r]
    BY <1>1
  <2> HIDE DEF r
  <2>3. buf'[b] = r /\ buf' \in [Bufs -> BufRecords] /\ \A c \in Bufs : c # b => buf'[c] = buf[c]
    BY <1>2, <2>1, <2>2
  <2> QED BY <2>1, <2>3
<1>7. TypeOK'
  BY <1>1, <1>3, <1>6 DEF IInv, TypeOK, BufRecords
<1>8. Unique' /\ Filled'
  BY <1>1, <1>6 DEF IInv, Unique, Filled
<1>9. Counted'
  BY <1>4, <1>5, <1>6 DEF IInv, Counted
<1>10. Seated'
  BY <1>3, <1>6 DEF IInv, Seated
<1>11. Locked'
  BY <1>1, <1>3, NoBufOutside DEF IInv, Locked, Holding
<1>12. Known'
  BY <1>1, <1>3, <1>6 DEF IInv, Known, Seated
<1>13. Once' /\ Served' /\ Started' /\ Waiting' = Waiting
  <2>1. \A c \in Queued : c \in Bufs
    BY QueuedHeld
  <2> QED BY <1>1, <1>3, <1>6, <2>1, QueueSame
<1>14. FewPinned'
  <2>1. Pinned' \subseteq Pinned
    BY <1>1, <1>3, <1>6, <1>13 DEF Pinned, Waiting
  <2> QED BY <2>1, PinnedShrinks DEF IInv
<1> QED BY <1>1, <1>7, <1>8, <1>9, <1>10, <1>11, <1>12, <1>13, <1>14 DEF IInv

-----------------------------------------------------------------------------
(* The interrupt handler.                                                   *)

(* What it does to the first buffer of the queue, b, and to its block, k.   *)
LEMMA IdeintrFacts ==
    ASSUME IInv, Ideintr
    PROVE  /\ idequeue # <<>> /\ UNCHANGED <<lock, at, panic>>
           /\ idequeue' = Tail(idequeue)
           /\ ide' = IF idequeue' = <<>> THEN NoRequest ELSE Idestart(buf', Head(idequeue'))
           /\ \E b \in Bufs :
                 /\ b = Head(idequeue) /\ buf[b].block \in Blocks
                 /\ \E q \in Waiting : at[q] = b
                 /\ buf' \in [Bufs -> BufRecords]
                 /\ \A c \in Bufs : c # b => buf'[c] = buf[c]
                 /\ buf'[b].block = buf[b].block /\ buf'[b].refcnt = buf[b].refcnt
                 /\ buf'[b].valid /\ ~buf'[b].dirty
                 /\ buf'[b].data = disk'[buf[b].block] /\ buf'[b].data \in Values
                 /\ buf'[b].data = IF buf[b].dirty THEN buf[b].data ELSE disk[buf[b].block]
                 /\ disk' \in [Blocks -> Values]
                 /\ \A k \in Blocks : k # buf[b].block => disk'[k] = disk[k]
                 /\ pc' \in [Procs -> Places]
                 /\ \A q \in Procs : /\ pc[q] = "io" /\ at[q] = b => pc'[q] = "iowoken"
                                     /\ ~(pc[q] = "io" /\ at[q] = b) => pc'[q] = pc[q]
<1>1. /\ idequeue # <<>> /\ UNCHANGED <<lock, at, panic>>
      /\ idequeue' = Tail(idequeue)
      /\ ide' = IF idequeue' = <<>> THEN NoRequest ELSE Idestart(buf', Head(idequeue'))
  BY DEF Ideintr, IInv, Started
<1>2. PICK b \in Bufs : b = Head(idequeue) /\ ide = Idestart(buf, b) /\ \E q \in Waiting : at[q] = b
  BY <1>1, HeadFacts
<1> DEFINE k == buf[b].block
<1>3. /\ buf \in [Bufs -> BufRecords] /\ buf[b] \in BufRecords /\ k \in Blocks
      /\ disk \in [Blocks -> Values] /\ pc \in [Procs -> Places]
  BY <1>2 DEF IInv, TypeOK, BufRecords, Seated, Waiting
<1>4. ide.block = k /\ ide.write = buf[b].dirty /\ (buf[b].dirty => ide.data = buf[b].data)
  BY <1>2 DEF Idestart
<1>5. disk' = IF ide.write THEN [disk EXCEPT ![ide.block] = ide.data] ELSE disk
  BY DEF Ideintr
<1>6. /\ disk' \in [Blocks -> Values] /\ \A j \in Blocks : j # k => disk'[j] = disk[j]
      /\ disk'[k] = IF buf[b].dirty THEN buf[b].data ELSE disk[k]
  <2>1. CASE buf[b].dirty
    <3>1. buf[b].data \in Values
      BY <2>1 DEF IInv, Filled
    <3>2. disk' = [disk EXCEPT ![k] = buf[b].data]
      BY <1>4, <1>5, <2>1
    <3> QED BY <1>3, <2>1, <3>1, <3>2
  <2>2. CASE ~buf[b].dirty
    <3>1. disk' = disk
      BY <1>4, <1>5, <2>2
    <3> QED BY <1>3, <2>2, <3>1
  <2> QED BY <2>1, <2>2
<1>7. disk'[k] \in Values
  BY <1>3, <1>6
<1> DEFINE r == [buf[b] EXCEPT !.valid = TRUE, !.dirty = FALSE, !.data = disk'[k]]
<1>8. /\ r \in BufRecords /\ r.block = k /\ r.refcnt = buf[b].refcnt
      /\ r.valid /\ ~r.dirty /\ r.data = disk'[k]
  BY <1>3, <1>7 DEF BufRecords
<1>9. buf' = [buf EXCEPT ![b] = r]
  <2>1. buf' = [buf EXCEPT ![b].valid = TRUE, ![b].dirty = FALSE,
                           ![b].data = IF buf[b].dirty THEN buf[b].data ELSE disk'[ide.block]]
    BY <1>2 DEF Ideintr
  <2>2. (IF buf[b].dirty THEN buf[b].data ELSE disk'[ide.block]) = disk'[k]
    BY <1>4, <1>6
  <2> QED BY <2>1, <2>2
<1> HIDE DEF r
<1>10. buf'[b] = r /\ buf' \in [Bufs -> BufRecords] /\ \A c \in Bufs : c # b => buf'[c] = buf[c]
  BY <1>3, <1>8, <1>9
<1>11. pc' = [q \in Procs |-> IF pc[q] = "io" /\ at[q] = b THEN "iowoken" ELSE pc[q]]
  BY <1>2 DEF Ideintr, Wakeup
<1>12. /\ pc' \in [Procs -> Places]
       /\ \A q \in Procs : /\ pc[q] = "io" /\ at[q] = b => pc'[q] = "iowoken"
                           /\ ~(pc[q] = "io" /\ at[q] = b) => pc'[q] = pc[q]
  BY <1>3, <1>11 DEF Places
<1>13. /\ buf'[b].block = buf[b].block /\ buf'[b].refcnt = buf[b].refcnt
       /\ buf'[b].valid /\ ~buf'[b].dirty
       /\ buf'[b].data = disk'[buf[b].block] /\ buf'[b].data \in Values
       /\ buf'[b].data = IF buf[b].dirty THEN buf[b].data ELSE disk[buf[b].block]
  BY <1>6, <1>7, <1>8, <1>10
<1> QED BY <1>1, <1>2, <1>3, <1>6, <1>10, <1>12, <1>13

LEMMA IdeintrStep ==
    ASSUME IInv, Ideintr
    PROVE  IInv'
<1>1. /\ idequeue # <<>> /\ UNCHANGED <<lock, at, panic>>
      /\ idequeue' = Tail(idequeue)
      /\ ide' = IF idequeue' = <<>> THEN NoRequest ELSE Idestart(buf', Head(idequeue'))
  BY IdeintrFacts
<1>2. PICK b \in Bufs :
                 /\ b = Head(idequeue) /\ buf[b].block \in Blocks
                 /\ \E q \in Waiting : at[q] = b
                 /\ buf' \in [Bufs -> BufRecords]
                 /\ \A c \in Bufs : c # b => buf'[c] = buf[c]
                 /\ buf'[b].block = buf[b].block /\ buf'[b].refcnt = buf[b].refcnt
                 /\ buf'[b].valid /\ ~buf'[b].dirty
                 /\ buf'[b].data = disk'[buf[b].block] /\ buf'[b].data \in Values
                 /\ buf'[b].data = IF buf[b].dirty THEN buf[b].data ELSE disk[buf[b].block]
                 /\ disk' \in [Blocks -> Values]
                 /\ \A k \in Blocks : k # buf[b].block => disk'[k] = disk[k]
                 /\ pc' \in [Procs -> Places]
                 /\ \A q \in Procs : /\ pc[q] = "io" /\ at[q] = b => pc'[q] = "iowoken"
                                     /\ ~(pc[q] = "io" /\ at[q] = b) => pc'[q] = pc[q]
  BY IdeintrFacts
<1>3. idequeue \in Seq(Bufs) /\ lock \in [Bufs -> Procs \union {NoProc}]
  BY DEF IInv, TypeOK
<1>4. /\ idequeue' \in Seq(Bufs) /\ DOMAIN idequeue = 1 .. Len(idequeue) /\ Len(idequeue) \in Nat
      /\ idequeue[1] = b /\ 1 \in DOMAIN idequeue
      /\ DOMAIN idequeue' = 1 .. Len(idequeue) - 1
      /\ \A i \in DOMAIN idequeue' : i + 1 \in DOMAIN idequeue /\ idequeue'[i] = idequeue[i + 1]
  BY <1>1, <1>2, <1>3
<1>5. Once'
  BY <1>4 DEF IInv, Once
<1>6. Waiting' = {q \in Waiting : at[q] # b}
  BY <1>2 DEF Waiting
<1>7. Served'
  <2>1. Queued' = Queued \ {b}
    <3>1. ASSUME NEW c \in Queued' PROVE c \in Queued /\ c # b
      <4>1. PICK i \in DOMAIN idequeue' : c = idequeue'[i]
        BY <3>1 DEF Queued
      <4>2. c = idequeue[i + 1] /\ i + 1 \in DOMAIN idequeue /\ i + 1 # 1
        BY <1>4, <4>1
      <4> QED BY <1>4, <4>2 DEF Queued, IInv, Once
    <3>2. ASSUME NEW c \in Queued, c # b PROVE c \in Queued'
      <4>1. PICK i \in DOMAIN idequeue : c = idequeue[i]
        BY DEF Queued
      <4>2. i # 1 /\ i - 1 \in DOMAIN idequeue'
        BY <1>4, <3>2, <4>1
      <4>3. idequeue'[i - 1] = c
        BY <1>4, <4>1, <4>2
      <4> QED BY <4>2, <4>3 DEF Queued
    <3> QED BY <3>1, <3>2
  <2>2. {at[q] : q \in Waiting'} = {at[q] : q \in Waiting} \ {b}
    BY <1>6
  <2> QED BY <1>1, <2>1, <2>2 DEF IInv, Served
<1>8. Started'
  BY <1>1 DEF Started, NoRequest
<1>9. Unique' /\ Counted'
  <2>1. \A c \in Bufs : buf'[c].block = buf[c].block /\ buf'[c].refcnt = buf[c].refcnt
    BY <1>2
  <2> QED BY <1>1, <2>1 DEF IInv, Unique, Counted, Users
<1>10. Seated'
  <2> SUFFICES ASSUME NEW q \in Procs
               PROVE  IF pc'[q] = "out" THEN at[q] = NoBuf
                      ELSE at[q] \in Bufs /\ buf'[at[q]].block \in Blocks
    BY <1>1 DEF Seated
  <2>1. IF pc[q] = "out" THEN at[q] = NoBuf ELSE at[q] \in Bufs /\ buf[at[q]].block \in Blocks
    BY DEF IInv, Seated
  <2>2. pc'[q] = "out" <=> pc[q] = "out"
    BY <1>2
  <2> QED BY <1>2, <2>1, <2>2
<1>11. Locked'
  <2>1. \A q \in Procs : pc'[q] \in Holding <=> pc[q] \in Holding
    BY <1>2 DEF Holding
  <2> QED BY <1>1, <2>1 DEF IInv, Locked
<1>12. Known'
  <2> SUFFICES ASSUME NEW q \in Procs, pc'[q] \in {"held", "iowoken"}
               PROVE  buf'[at[q]].valid /\ (pc'[q] = "iowoken" => ~buf'[at[q]].dirty)
    BY <1>1 DEF Known
  <2>1. CASE at[q] = b
    BY <1>2, <2>1
  <2>2. CASE at[q] # b
    <3>1. pc'[q] = pc[q] /\ at[q] \in Bufs
      BY <1>2, <2>2 DEF IInv, Seated
    <3> QED BY <1>2, <2>2, <3>1 DEF IInv, Known
  <2> QED BY <2>1, <2>2
<1>13. Filled'
  <2> SUFFICES ASSUME NEW c \in Bufs
               PROVE  /\ buf'[c].dirty => buf'[c].valid
                      /\ buf'[c].valid => buf'[c].data \in Values
                      /\ buf'[c].valid /\ ~buf'[c].dirty /\ buf'[c].block \in Blocks
                            => buf'[c].data = disk'[buf'[c].block]
    BY DEF Filled
  <2>1. CASE c = b
    BY <1>2, <2>1
  <2>2. CASE c # b
    <3>1. buf'[c] = buf[c] /\ buf[c].block # buf[b].block
      BY <1>2, <2>2, BioAssumption DEF IInv, Unique
    <3> QED BY <1>2, <3>1 DEF IInv, Filled
  <2> QED BY <2>1, <2>2
<1>14. FewPinned'
  <2>1. Pinned' \subseteq Pinned
    <3> SUFFICES ASSUME NEW c \in Bufs, buf'[c].dirty, \A q \in Waiting' : at[q] # c
                 PROVE  buf[c].dirty /\ \A q \in Waiting : at[q] # c
      BY <1>1 DEF Pinned
    <3>1. c # b
      BY <1>2
    <3> QED BY <1>2, <1>6, <3>1
  <2> QED BY <2>1, PinnedShrinks DEF IInv
<1>15. ide' \in [block : Blocks \union {NoBlock}, write : BOOLEAN, data : Values \union {Garbage}]
  <2>1. CASE idequeue' = <<>>
    BY <1>1, <2>1 DEF NoRequest
  <2>2. CASE idequeue' # <<>>
    <3>1. Head(idequeue') \in Bufs
      BY <1>4, <2>2
    <3>2. buf'[Head(idequeue')] \in BufRecords
      BY <1>2, <3>1
    <3>3. Idestart(buf', Head(idequeue'))
            \in [block : Blocks \union {NoBlock}, write : BOOLEAN, data : Values \union {Garbage}]
      BY <3>2 DEF Idestart, BufRecords
    <3> QED BY <1>1, <2>2, <3>3
  <2> QED BY <2>1, <2>2
<1>16. TypeOK'
  BY <1>1, <1>2, <1>4, <1>15 DEF IInv, TypeOK, BufRecords
<1> QED BY <1>1, <1>5, <1>7, <1>8, <1>9, <1>10, <1>11, <1>12, <1>13, <1>14, <1>16 DEF IInv

-----------------------------------------------------------------------------
LEMMA InitInv == Init => IInv
<1> SUFFICES ASSUME Init PROVE IInv
  OBVIOUS
<1>1. TypeOK
  BY BioAssumption DEF Init, TypeOK, NoRequest, Places
<1>2. /\ \A b \in Bufs : /\ buf[b].block = NoBlock /\ ~buf[b].valid /\ ~buf[b].dirty
                         /\ buf[b].refcnt = 0 /\ lock[b] = NoProc
      /\ \A p \in Procs : pc[p] = "out" /\ at[p] = NoBuf
      /\ idequeue = <<>> /\ ide = NoRequest
  BY DEF Init
<1>3. Unique /\ Filled /\ Started
  BY <1>2, BioAssumption DEF Unique, Filled, Started
<1>4. Counted
  <2>1. \A b \in Bufs : Users(b) = {}
    BY <1>2, NoBufOutside DEF Users
  <2> QED BY <1>2, <2>1, FS_EmptySet DEF Counted
<1>5. Seated /\ Locked /\ Known
  BY <1>2, NoBufOutside, BioAssumption DEF Seated, Locked, Known
<1>6. Once /\ Served
  <2>1. Queued = {} /\ Waiting = {}
    BY <1>2 DEF Queued, Waiting
  <2> QED BY <1>2, <2>1 DEF Once, Served
<1>7. FewPinned
  <2>1. Pinned = {}
    BY <1>2 DEF Pinned
  <2> QED BY <2>1, FS_EmptySet, BioAssumption DEF FewPinned
<1> QED BY <1>1, <1>3, <1>4, <1>5, <1>6, <1>7 DEF IInv

(* Steps that leave the cache, the driver and the processes alone.          *)
LEMMA StutterInv ==
    ASSUME IInv, UNCHANGED <<buf, lock, idequeue, ide, disk, pc, at>>,
           panic' \in {panic, "bget: no buffers"}
    PROVE  IInv'
<1>1. TypeOK'
  <2>1. panic' \in {"none", "bget: no buffers"}
    BY DEF IInv, TypeOK
  <2> QED BY <2>1 DEF IInv, TypeOK
<1>2. Unique' /\ Seated' /\ Locked' /\ Known' /\ Filled'
  BY DEF IInv, Unique, Seated, Locked, Known, Filled
<1>3. Counted' /\ FewPinned'
  BY DEF IInv, Counted, Users, FewPinned, Pinned, Waiting
<1>4. Once' /\ Served' /\ Started'
  BY QueueSame
<1> QED BY <1>1, <1>2, <1>3, <1>4 DEF IInv

LEMMA NextInv == IInv /\ [Next]_vars => IInv'
<1> SUFFICES ASSUME IInv, [Next]_vars PROVE IInv'
  OBVIOUS
<1>1. CASE UNCHANGED vars
  BY <1>1, StutterInv DEF vars, cache, drive
<1>2. CASE Ideintr
  BY <1>2, IdeintrStep
<1>3. ASSUME NEW p \in Procs, Step(p) PROVE IInv'
  BY <1>3, AcquiresleepStep, BreadStep, IowokenStep, ReleasesleepStep, BrelseStep DEF Step
<1>4. ASSUME NEW p \in Procs, NEW k \in Blocks, Bget(p, k) PROVE IInv'
  <2>1. CASE NoBuffer(k)
    BY <1>4, <2>1, BgetPanics, StutterInv
  <2>2. CASE ~NoBuffer(k)
    BY <1>4, <2>2, BgetStep
  <2> QED BY <2>1, <2>2
<1>5. ASSUME NEW p \in Procs, NEW v \in Values, Bwrite(p, v) \/ LogWrite(p, v) PROVE IInv'
  BY <1>5, BwriteStep, LogWriteStep
<1> QED BY <1>1, <1>2, <1>3, <1>4, <1>5 DEF Next

LEMMA Invariance == Spec => []IInv
BY InitInv, NextInv, PTL DEF Spec

(* Every variable of the cache and of the driver keeps its type.            *)
THEOREM TypeCorrect == Spec => []TypeOK
BY Invariance, PTL DEF IInv

(* A block is in one buffer, the counts are exact, and the disk serves the  *)
(* first of the buffers that are waited for, however few buffers there are. *)
THEOREM CacheCorrect == Spec => []CacheExact
<1>1. IInv => CacheExact
  BY DEF IInv, CacheExact, Unique, Counted, Users, Once, Served, Queued, Waiting, Started
<1> QED BY <1>1, Invariance, PTL

NoPanic == panic = "none"

(* With a buffer for each process and each block the log pins, bget always  *)
(* finds one and does not panic.                                            *)
THEOREM BufferFound ==
    ASSUME EnoughBuffers
    PROVE  Spec => []NoPanic
<1>1. Init => NoPanic
  BY DEF Init, NoPanic
<1>2. IInv /\ NoPanic /\ [Next]_vars => NoPanic'
  <2> SUFFICES ASSUME IInv, panic = "none", [Next]_vars PROVE panic' = "none"
    BY DEF NoPanic
  <2>1. CASE UNCHANGED vars
    BY <2>1 DEF vars
  <2>2. CASE Ideintr
    BY <2>2 DEF Ideintr
  <2>3. ASSUME NEW p \in Procs, Step(p) PROVE panic' = "none"
    BY <2>3 DEF Step, Acquiresleep, Bread, Iowoken, Releasesleep, Brelse
  <2>4. ASSUME NEW p \in Procs, NEW k \in Blocks, Bget(p, k) PROVE panic' = "none"
    <3>1. pc[p] = "out"
      BY <2>4 DEF Bget, In
    <3>2. ~NoBuffer(k)
      BY <3>1, AlwaysRoom DEF NoBuffer
    <3> QED BY <2>4, <3>2, BgetFacts
  <2>5. ASSUME NEW p \in Procs, NEW v \in Values, Bwrite(p, v) \/ LogWrite(p, v)
        PROVE  panic' = "none"
    BY <2>5 DEF Bwrite, LogWrite
  <2> QED BY <2>1, <2>2, <2>3, <2>4, <2>5 DEF Next
<1> QED BY <1>1, <1>2, Invariance, PTL DEF Spec

-----------------------------------------------------------------------------
(* The refinement of BlockStore.                                            *)

AbsStep == [Store!Next]_(Store!vars)

(* What the mapping says of a block, cached or not.                         *)
Says(k, v, h) == Mem[k] = v /\ Holder[k] = h

LEMMA CachedSays ==
    ASSUME IInv, NEW b \in Bufs, buf[b].block \in Blocks
    PROVE  Says(buf[b].block, IF buf[b].valid THEN buf[b].data ELSE disk[buf[b].block],
                              IF buf[b].valid THEN lock[b] ELSE NoProc)
<1> DEFINE k == buf[b].block
<1>1. Cached(k) = {b}
  BY BioAssumption DEF IInv, Unique, Cached
<1>2. (CHOOSE c \in Cached(k) : TRUE) = b
  BY <1>1
<1>3. Mem[k] = IF buf[b].valid THEN buf[b].data ELSE disk[k]
  BY <1>1, <1>2 DEF Mem
<1>4. lock[b] \in Procs \union {NoProc}
  BY DEF IInv, TypeOK
<1>5. Holder[k] = IF buf[b].valid THEN lock[b] ELSE NoProc
  <2>1. Holder[k] = IF \E p \in Procs : InUse(p, b)
                    THEN CHOOSE p \in Procs : InUse(p, b) ELSE NoProc
    BY <1>1 DEF Holder
  <2>2. CASE buf[b].valid /\ lock[b] \in Procs
    BY <2>1, <2>2 DEF InUse
  <2>3. CASE ~buf[b].valid \/ lock[b] = NoProc
    BY <2>1, <2>3, BioAssumption DEF InUse
  <2> QED BY <1>4, <2>2, <2>3
<1> QED BY <1>3, <1>5 DEF Says

LEMMA UncachedSays ==
    ASSUME NEW k \in Blocks, Cached(k) = {}
    PROVE  Says(k, disk[k], NoProc)
BY DEF Says, Mem, Holder

(* The same of the next state.                                              *)
CachedFact == \A b \in Bufs : buf[b].block \in Blocks =>
    Says(buf[b].block, IF buf[b].valid THEN buf[b].data ELSE disk[buf[b].block],
                       IF buf[b].valid THEN lock[b] ELSE NoProc)
UncachedFact == \A k \in Blocks : (\A b \in Bufs : buf[b].block # k) => Says(k, disk[k], NoProc)

LEMMA SaysNow == IInv => CachedFact /\ UncachedFact
<1>1. IInv => CachedFact
  BY CachedSays DEF CachedFact
<1>2. UncachedFact
  <2>1. ASSUME NEW k \in Blocks, \A b \in Bufs : buf[b].block # k PROVE Cached(k) = {}
    BY <2>1 DEF Cached
  <2> QED BY <2>1, UncachedSays DEF UncachedFact
<1> QED BY <1>1, <1>2

LEMMA SaysNext == IInv' => CachedFact' /\ UncachedFact'
BY SaysNow, PTL

LEMMA MemFunctions == /\ Mem = [k \in Blocks |-> Mem[k]]
                      /\ Holder = [k \in Blocks |-> Holder[k]]
BY DEF Mem, Holder

LEMMA MemFunctionsNext == /\ Mem' = [k \in Blocks |-> Mem'[k]]
                          /\ Holder' = [k \in Blocks |-> Holder'[k]]
BY DEF Mem, Holder

(* Steps that leave the mapping as it is.                                   *)
LEMMA NoChange ==
    ASSUME \A k \in Blocks : Mem'[k] = Mem[k] /\ Holder'[k] = Holder[k]
    PROVE  AbsStep
<1>1. Mem' = Mem /\ Holder' = Holder
  BY MemFunctions, MemFunctionsNext
<1> QED BY <1>1 DEF AbsStep, Store!vars

(* The blocks whose buffers a step leaves alone.                            *)
LEMMA BlockSame ==
    ASSUME IInv, IInv', NEW b \in Bufs, buf'[b].block = buf[b].block,
           \A c \in Bufs : c # b => buf'[c] = buf[c] /\ lock'[c] = lock[c],
           NEW k \in Blocks, k # buf[b].block, disk'[k] = disk[k]
    PROVE  Mem'[k] = Mem[k] /\ Holder'[k] = Holder[k]
<1>1. CASE \E c \in Bufs : buf[c].block = k
  <2>1. PICK c \in Bufs : buf[c].block = k
    BY <1>1
  <2>2. c # b /\ buf'[c] = buf[c] /\ lock'[c] = lock[c]
    BY <2>1
  <2> QED BY <2>1, <2>2, SaysNow, SaysNext DEF CachedFact, Says
<1>2. CASE \A c \in Bufs : buf[c].block # k
  <2>1. \A c \in Bufs : buf'[c].block # k
    BY <1>2
  <2> QED BY <1>2, <2>1, SaysNow, SaysNext DEF UncachedFact, Says
<1> QED BY <1>1, <1>2

(* Steps that change neither the buffers nor their locks nor the disk.      *)
LEMMA QuietRefines ==
    ASSUME IInv, IInv', UNCHANGED <<lock, disk>>,
           \A b \in Bufs : /\ buf'[b].block = buf[b].block /\ buf'[b].valid = buf[b].valid
                           /\ buf'[b].data = buf[b].data
    PROVE  AbsStep
<1>1. ASSUME NEW k \in Blocks PROVE Mem'[k] = Mem[k] /\ Holder'[k] = Holder[k]
  <2>1. CASE \E c \in Bufs : buf[c].block = k
    BY <2>1, SaysNow, SaysNext DEF CachedFact, Says
  <2>2. CASE \A c \in Bufs : buf[c].block # k
    BY <2>2, SaysNow, SaysNext DEF UncachedFact, Says
  <2> QED BY <2>1, <2>2
<1> QED BY <1>1, NoChange

LEMMA BgetRefines ==
    ASSUME IInv, IInv', NEW p \in Procs, NEW k \in Blocks, Bget(p, k), ~NoBuffer(k)
    PROVE  AbsStep
<1>1. UNCHANGED <<lock, disk>>
  BY BgetFacts DEF drive
<1>2. PICK b \in Bufs :
          \/ b \in Cached(k) /\ buf' = [buf EXCEPT ![b] = [buf[b] EXCEPT !.refcnt = buf[b].refcnt + 1]]
          \/ Cached(k) = {} /\ b \in Unused /\ buf' = [buf EXCEPT ![b] = Recycled(b, k)]
  BY BgetFacts
<1>3. buf \in [Bufs -> BufRecords] /\ buf[b] \in BufRecords
  BY DEF IInv, TypeOK, BufRecords
<1>4. CASE b \in Cached(k) /\ buf' = [buf EXCEPT ![b] = [buf[b] EXCEPT !.refcnt = buf[b].refcnt + 1]]
  <2> DEFINE r == [buf[b] EXCEPT !.refcnt = buf[b].refcnt + 1]
  <2>1. r.block = buf[b].block /\ r.valid = buf[b].valid /\ r.data = buf[b].data
    BY <1>3 DEF BufRecords
  <2>2. buf' = [buf EXCEPT ![b] = r]
    BY <1>4
  <2> HIDE DEF r
  <2>3. buf'[b] = r /\ \A c \in Bufs : c # b => buf'[c] = buf[c]
    BY <1>3, <2>2
  <2>4. \A c \in Bufs : /\ buf'[c].block = buf[c].block /\ buf'[c].valid = buf[c].valid
                        /\ buf'[c].data = buf[c].data
    BY <2>1, <2>3
  <2> QED BY <1>1, <2>4, QuietRefines
<1>5. CASE Cached(k) = {} /\ b \in Unused /\ buf' = [buf EXCEPT ![b] = Recycled(b, k)]
  <2>1. /\ buf'[b].block = k /\ ~buf'[b].valid
        /\ \A c \in Bufs : c # b => buf'[c] = buf[c]
    BY <1>3, <1>5 DEF Recycled
  <2>2. /\ \A c \in Bufs : buf[c].block # k
        /\ buf[b].refcnt = 0 /\ ~buf[b].dirty
    BY <1>5 DEF Cached, Unused
  <2>3. lock[b] = NoProc
    <3>1. \A q \in Procs : lock[b] # q
      BY <2>2, NoUsers DEF IInv, Locked
    <3> QED BY <3>1 DEF IInv, TypeOK
  <2>4. ASSUME NEW j \in Blocks PROVE Mem'[j] = Mem[j] /\ Holder'[j] = Holder[j]
    <3>1. CASE j = k
      <4>1. Says(k, disk[k], NoProc)
        BY <2>2, SaysNow DEF UncachedFact
      <4>2. Says(k, disk[k], NoProc)'
        BY <1>1, <2>1, SaysNext DEF CachedFact, Says
      <4> QED BY <1>1, <3>1, <4>1, <4>2 DEF Says
    <3>2. CASE j = buf[b].block
      <4>1. Says(j, disk[j], NoProc)
        <5>1. buf[b].valid => buf[b].data = disk[j]
          BY <2>2, <3>2 DEF IInv, Filled
        <5> QED BY <2>3, <3>2, <5>1, SaysNow DEF CachedFact
      <4>2. \A c \in Bufs : buf'[c].block # j
        BY <2>1, <2>2, <3>2, BioAssumption DEF IInv, Unique
      <4>3. Says(j, disk[j], NoProc)'
        BY <1>1, <4>2, SaysNext DEF UncachedFact, Says
      <4> QED BY <1>1, <4>1, <4>3 DEF Says
    <3>3. CASE j # k /\ j # buf[b].block
      <4>1. CASE \E c \in Bufs : buf[c].block = j
        <5>1. PICK c \in Bufs : buf[c].block = j
          BY <4>1
        <5>2. buf'[c] = buf[c]
          BY <2>1, <3>3, <5>1
        <5> QED BY <1>1, <5>1, <5>2, SaysNow, SaysNext DEF CachedFact, Says
      <4>2. CASE \A c \in Bufs : buf[c].block # j
        <5>1. \A c \in Bufs : buf'[c].block # j
          BY <2>1, <3>3, <4>2
        <5> QED BY <1>1, <4>2, <5>1, SaysNow, SaysNext DEF UncachedFact, Says
      <4> QED BY <4>1, <4>2
    <3> QED BY <3>1, <3>2, <3>3
  <2> QED BY <2>4, NoChange
<1> QED BY <1>2, <1>4, <1>5

(* Steps after which p holds block k, or does not any more.                 *)
LEMMA GetRefines ==
    ASSUME NEW p \in Procs, NEW k \in Blocks, Holder[k] = NoProc, Holder'[k] = p,
           Mem'[k] = Mem[k],
           \A j \in Blocks : j # k => Mem'[j] = Mem[j] /\ Holder'[j] = Holder[j]
    PROVE  AbsStep
<1>1. Mem' = Mem
  BY MemFunctions, MemFunctionsNext
<1>2. Holder' = [Holder EXCEPT ![k] = p]
  <2>1. Holder = [j \in Blocks |-> Holder[j]] /\ Holder' = [j \in Blocks |-> Holder'[j]]
    BY MemFunctions, MemFunctionsNext
  <2> QED BY <2>1
<1>3. Store!Get(p, k)
  BY <1>1, <1>2 DEF Store!Get
<1> QED BY <1>3 DEF AbsStep, Store!Next

LEMMA ReleaseRefines ==
    ASSUME NEW p \in Procs, NEW k \in Blocks, Holder[k] = p, Holder'[k] = NoProc,
           Mem'[k] = Mem[k],
           \A j \in Blocks : j # k => Mem'[j] = Mem[j] /\ Holder'[j] = Holder[j]
    PROVE  AbsStep
<1>1. Mem' = Mem
  BY MemFunctions, MemFunctionsNext
<1>2. Holder' = [Holder EXCEPT ![k] = NoProc]
  <2>1. Holder = [j \in Blocks |-> Holder[j]] /\ Holder' = [j \in Blocks |-> Holder'[j]]
    BY MemFunctions, MemFunctionsNext
  <2> QED BY <2>1
<1>3. Store!Release(p, k)
  BY <1>1, <1>2 DEF Store!Release
<1> QED BY <1>3 DEF AbsStep, Store!Next

LEMMA PutRefines ==
    ASSUME NEW p \in Procs, NEW k \in Blocks, NEW v \in Values, Holder[k] = p, Holder'[k] = p,
           Mem'[k] = v,
           \A j \in Blocks : j # k => Mem'[j] = Mem[j] /\ Holder'[j] = Holder[j]
    PROVE  AbsStep
<1>1. Holder' = Holder
  BY MemFunctions, MemFunctionsNext
<1>2. Mem' = [Mem EXCEPT ![k] = v]
  <2>1. Mem = [j \in Blocks |-> Mem[j]] /\ Mem' = [j \in Blocks |-> Mem'[j]]
    BY MemFunctions, MemFunctionsNext
  <2> QED BY <2>1
<1>3. Store!Put(p, k, v)
  BY <1>1, <1>2 DEF Store!Put
<1> QED BY <1>3 DEF AbsStep, Store!Next

LEMMA AcquiresleepRefines ==
    ASSUME IInv, IInv', NEW p \in Procs, Acquiresleep(p)
    PROVE  AbsStep
<1>1. PICK b \in Bufs : b = at[p] /\ buf[b].block \in Blocks
  BY DEF Acquiresleep, In, IInv, Seated
<1>2. /\ UNCHANGED <<buf, disk>>
      /\ \/ lock[b] = NoProc /\ lock' = [lock EXCEPT ![b] = p]
         \/ UNCHANGED lock
  BY <1>1 DEF Acquiresleep, drive
<1>3. CASE UNCHANGED lock
  BY <1>2, <1>3, QuietRefines
<1>4. CASE lock[b] = NoProc /\ lock' = [lock EXCEPT ![b] = p]
  <2>1. lock'[b] = p /\ \A c \in Bufs : c # b => lock'[c] = lock[c]
    BY <1>4 DEF IInv, TypeOK
  <2> DEFINE k == buf[b].block
  <2>2. \A j \in Blocks : j # k => Mem'[j] = Mem[j] /\ Holder'[j] = Holder[j]
    BY <1>2, <2>1, BlockSame
  <2>3. /\ Says(k, IF buf[b].valid THEN buf[b].data ELSE disk[k],
                   IF buf[b].valid THEN lock[b] ELSE NoProc)
        /\ Says(k, IF buf[b].valid THEN buf[b].data ELSE disk[k],
                   IF buf[b].valid THEN lock[b] ELSE NoProc)'
    BY <1>1, <1>2, SaysNow, SaysNext DEF CachedFact
  <2>4. CASE buf[b].valid
    <3>1. Holder[k] = NoProc /\ Holder'[k] = p /\ Mem'[k] = Mem[k]
      BY <1>2, <1>4, <2>1, <2>3, <2>4 DEF Says
    <3> QED BY <1>1, <2>2, <3>1, GetRefines
  <2>5. CASE ~buf[b].valid
    <3>1. Holder'[k] = Holder[k] /\ Mem'[k] = Mem[k]
      BY <1>2, <2>3, <2>5 DEF Says
    <3> QED BY <2>2, <3>1, NoChange
  <2> QED BY <2>4, <2>5
<1> QED BY <1>2, <1>3, <1>4

LEMMA ReleasesleepRefines ==
    ASSUME IInv, IInv', NEW p \in Procs, Releasesleep(p)
    PROVE  AbsStep
<1>1. PICK b \in Bufs : b = at[p] /\ buf[b].block \in Blocks /\ lock[b] = p /\ buf[b].valid
  BY DEF Releasesleep, In, IInv, Seated, Locked, Known, Holding
<1>2. UNCHANGED <<buf, disk>> /\ lock' = [lock EXCEPT ![b] = NoProc]
  BY <1>1 DEF Releasesleep, drive
<1>3. lock'[b] = NoProc /\ \A c \in Bufs : c # b => lock'[c] = lock[c]
  BY <1>2 DEF IInv, TypeOK
<1> DEFINE k == buf[b].block
<1>4. \A j \in Blocks : j # k => Mem'[j] = Mem[j] /\ Holder'[j] = Holder[j]
  BY <1>2, <1>3, BlockSame
<1>5. /\ Says(k, buf[b].data, lock[b]) /\ Says(k, buf[b].data, lock[b])'
  BY <1>1, <1>2, SaysNow, SaysNext DEF CachedFact
<1>6. Holder[k] = p /\ Holder'[k] = NoProc /\ Mem'[k] = Mem[k]
  BY <1>1, <1>2, <1>3, <1>5 DEF Says
<1> QED BY <1>1, <1>4, <1>6, ReleaseRefines

(* Whoever holds a buffer may put what it likes into its block.             *)
LEMMA DirtyRefines ==
    ASSUME IInv, IInv', NEW p \in Procs, NEW v \in Values, pc[p] = "held",
           buf' = [buf EXCEPT ![at[p]].data = v, ![at[p]].dirty = TRUE],
           UNCHANGED <<lock, at, disk, panic>>
    PROVE  AbsStep
<1>1. PICK b \in Bufs : b = at[p] /\ buf[b].block \in Blocks /\ lock[b] = p
  BY DEF IInv, Seated, Locked, Holding
<1>2. Touches(p) /\ buf'[b].data = v /\ buf[b].valid
  BY <1>1, DirtyFacts
<1>3. /\ buf'[b].block = buf[b].block /\ buf'[b].valid
      /\ \A c \in Bufs : c # b => buf'[c] = buf[c] /\ lock'[c] = lock[c]
  BY <1>1, <1>2 DEF Touches
<1> DEFINE k == buf[b].block
<1>4. \A j \in Blocks : j # k => Mem'[j] = Mem[j] /\ Holder'[j] = Holder[j]
  BY <1>3, BlockSame
<1>5. Says(k, buf[b].data, lock[b])
  BY <1>1, <1>2, SaysNow DEF CachedFact
<1>6. Mem'[k] = buf'[b].data /\ Holder'[k] = lock'[b]
  BY <1>1, <1>3, SaysNext DEF CachedFact, Says
<1>7. Holder[k] = p /\ Holder'[k] = p /\ Mem'[k] = v
  BY <1>1, <1>2, <1>5, <1>6 DEF Says
<1> QED BY <1>1, <1>4, <1>7, PutRefines

(* A buffer that was read is handed to the process that waits for it.       *)
LEMMA IdeintrRefines ==
    ASSUME IInv, IInv', Ideintr
    PROVE  AbsStep
<1>1. UNCHANGED lock
  BY IdeintrFacts
<1>2. PICK b \in Bufs :
          /\ buf[b].block \in Blocks /\ \E q \in Waiting : at[q] = b
          /\ \A c \in Bufs : c # b => buf'[c] = buf[c]
          /\ buf'[b].block = buf[b].block /\ buf'[b].valid
          /\ buf'[b].data = IF buf[b].dirty THEN buf[b].data ELSE disk[buf[b].block]
          /\ \A k \in Blocks : k # buf[b].block => disk'[k] = disk[k]
  BY IdeintrFacts
<1>3. PICK p \in Procs : lock[b] = p
  BY <1>2 DEF IInv, Locked, Holding, Waiting
<1> DEFINE k == buf[b].block
<1>4. \A j \in Blocks : j # k => Mem'[j] = Mem[j] /\ Holder'[j] = Holder[j]
  BY <1>1, <1>2, BlockSame
<1>5. Says(k, IF buf[b].valid THEN buf[b].data ELSE disk[k], IF buf[b].valid THEN p ELSE NoProc)
  BY <1>2, <1>3, SaysNow DEF CachedFact
<1>6. Mem'[k] = buf'[b].data /\ Holder'[k] = p
  BY <1>1, <1>2, <1>3, SaysNext DEF CachedFact, Says
<1>7. CASE buf[b].valid
  <2>1. buf'[b].data = buf[b].data
    BY <1>2, <1>7 DEF IInv, Filled
  <2>2. Mem'[k] = Mem[k] /\ Holder'[k] = Holder[k]
    BY <1>5, <1>6, <1>7, <2>1 DEF Says
  <2> QED BY <1>4, <2>2, NoChange
<1>8. CASE ~buf[b].valid
  <2>1. buf'[b].data = disk[k]
    BY <1>2, <1>8 DEF IInv, Filled
  <2>2. Mem'[k] = Mem[k] /\ Holder[k] = NoProc /\ Holder'[k] = p
    BY <1>5, <1>6, <1>8, <2>1 DEF Says
  <2> QED BY <1>2, <1>4, <2>2, GetRefines
<1> QED BY <1>7, <1>8

LEMMA StepRefines ==
    ASSUME IInv, IInv', NEW p \in Procs, Step(p)
    PROVE  AbsStep
<1>1. CASE Acquiresleep(p)
  BY <1>1, AcquiresleepRefines
<1>2. CASE Bread(p) \/ Iowoken(p)
  <2>1. UNCHANGED <<buf, lock, disk>>
    BY <1>2 DEF Bread, Iowoken, Iderw, cache, drive
  <2> QED BY <2>1, QuietRefines
<1>3. CASE Releasesleep(p)
  BY <1>3, ReleasesleepRefines
<1>4. CASE Brelse(p)
  <2>1. PICK b \in Bufs : b = at[p]
    BY <1>4 DEF Brelse, In, IInv, Seated
  <2>2. UNCHANGED <<lock, disk>> /\ buf' = [buf EXCEPT ![b].refcnt = buf[b].refcnt - 1]
    BY <1>4, <2>1 DEF Brelse, drive
  <2>3. buf \in [Bufs -> BufRecords]
    BY DEF IInv, TypeOK, BufRecords
  <2>4. \A c \in Bufs : /\ buf'[c].block = buf[c].block /\ buf'[c].valid = buf[c].valid
                        /\ buf'[c].data = buf[c].data
    BY <2>2, <2>3 DEF BufRecords
  <2> QED BY <2>2, <2>4, QuietRefines
<1> QED BY <1>1, <1>2, <1>3, <1>4 DEF Step

LEMMA InitStore == Init => Store!Init
<1> SUFFICES ASSUME Init PROVE Store!Init
  OBVIOUS
<1>1. IInv
  BY InitInv
<1>2. \A k \in Blocks : Says(k, disk[k], NoProc)
  <2>1. \A b \in Bufs : buf[b].block = NoBlock
    BY DEF Init
  <2> QED BY <1>1, <2>1, SaysNow, BioAssumption DEF UncachedFact
<1>3. disk \in [Blocks -> Values]
  BY <1>1 DEF IInv, TypeOK
<1>4. Mem \in [Blocks -> Values] /\ Holder = [k \in Blocks |-> NoProc]
  <2>1. Mem = [k \in Blocks |-> Mem[k]] /\ Holder = [k \in Blocks |-> Holder[k]]
    BY MemFunctions
  <2>2. \A k \in Blocks : Mem[k] \in Values /\ Holder[k] = NoProc
    BY <1>2, <1>3 DEF Says
  <2> QED BY <2>1, <2>2
<1> QED BY <1>4 DEF Store!Init

LEMMA NextRefines == IInv /\ IInv' /\ [Next]_vars => AbsStep
<1> SUFFICES ASSUME IInv, IInv', [Next]_vars PROVE AbsStep
  OBVIOUS
<1>1. CASE UNCHANGED vars
  <2>1. UNCHANGED <<buf, lock, disk>>
    BY <1>1 DEF vars, cache, drive
  <2> QED BY <2>1, QuietRefines
<1>2. CASE Ideintr
  BY <1>2, IdeintrRefines
<1>3. ASSUME NEW p \in Procs, Step(p) PROVE AbsStep
  BY <1>3, StepRefines
<1>4. ASSUME NEW p \in Procs, NEW k \in Blocks, Bget(p, k) PROVE AbsStep
  <2>1. CASE NoBuffer(k)
    BY <1>4, <2>1, BgetPanics, QuietRefines
  <2>2. CASE ~NoBuffer(k)
    BY <1>4, <2>2, BgetRefines
  <2> QED BY <2>1, <2>2
<1>5. ASSUME NEW p \in Procs, NEW v \in Values, Bwrite(p, v) \/ LogWrite(p, v) PROVE AbsStep
  <2>1. /\ pc[p] = "held" /\ UNCHANGED <<lock, at, disk, panic>>
        /\ buf' = [buf EXCEPT ![at[p]].data = v, ![at[p]].dirty = TRUE]
    BY <1>5 DEF Bwrite, LogWrite, Iderw, drive, In
  <2> QED BY <2>1, DirtyRefines
<1> QED BY <1>1, <1>2, <1>3, <1>4, <1>5 DEF Next

(* However buffers are recycled, pinned and written later, the cache behaves *)
(* as the blocks of the disk, each used by one process at a time, which      *)
(* finds what was last put into it.                                          *)
THEOREM StoreCorrect == Spec => ImplementsBlockStore
<1>1. IInv /\ IInv' /\ [Next]_vars => [Store!Next]_(Store!vars)
  BY NextRefines DEF AbsStep
<1> QED BY <1>1, Invariance, InitStore, PTL DEF Spec, ImplementsBlockStore, Store!Spec
=============================================================================
