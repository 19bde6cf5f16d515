----------------------------- MODULE LogProofs ------------------------------
(***************************************************************************)
(* Theorems about Log, for any number of processes, blocks and values, and  *)
(* any size of the log that satisfies CallsFit.                             *)
(***************************************************************************)
EXTENDS Log, FiniteSetTheorems, TLAPS

(* The calls in progress, and the writes they may still add to the log.     *)
OpenCalls == {p \in Procs : InCall(p)}
Reserved  == {r \in Procs \X (1 .. MaxWrites) :
                 InCall(r[1]) /\ Cardinality(loc[r[1]].wrote) < r[2]}

(* outstanding is the number of calls in progress; one call at a time       *)
(* commits, when no other is in progress.                                   *)
Counted    == log.outstanding = Cardinality(OpenCalls)
OneCommits ==
    /\ log.committing <=> \E p \in Procs : Commits(p)
    /\ \A p, q \in Procs : Commits(p) => ~InCall(q) /\ (Commits(q) => p = q)

(* While initlog runs no process does.                                      *)
Booting == boot.at # "up" =>
    /\ \A p \in Procs : pc[p] = "idle" /\ loc[p] = NoLoc
    /\ dirty = {}
    /\ boot.at = "read_head" => log.lh = <<>> /\ boot.tail = 0
    /\ boot.at = "install"   => log.lh = disk.head

(* What each process has in its locals, by where it is.                     *)
LocalOK(p) ==
    /\ IsFiniteSet(loc[p].wrote) /\ Cardinality(loc[p].wrote) <= MaxWrites
    /\ loc[p].wrote \subseteq Logged
    /\ loc[p].b \in Blocks <=> pc[p] = "logging"
    /\ pc[p] = "logging" =>
          loc[p].b \in loc[p].wrote \/ Cardinality(loc[p].wrote) < MaxWrites
    /\ ~InCall(p) => loc[p].wrote = {}
    /\ pc[p] \in {"write_log", "install"} => loc[p].tail <= Len(log.lh)
    /\ pc[p] \notin {"write_log", "install"} => loc[p].tail = 0
Locals == \A p \in Procs : LocalOK(p)

(* The log is empty when no group is in progress, and its header on disk    *)
(* names the group only while it is installed.                              *)
LogEmpty ==
    /\ boot.at = "up" /\ OpenCalls = {} /\ ~log.committing => log.lh = <<>>
    /\ \A p \in Procs : pc[p] = "done" => log.lh = <<>>
Header == boot.at = "up" =>
    disk.head = IF \E p \in Procs : pc[p] = "install" THEN log.lh ELSE <<>>

(* The log holds a block once.                                              *)
Once(s)  == \A i, j \in DOMAIN s : s[i] = s[j] => i = j
LogOnce  == Once(log.lh) /\ Once(disk.head)

(* The log has room for what it holds and for what calls may add.           *)
Fits(n) == n <= LogBlocks - 2 /\ n < LOGSIZE
Room    == Fits(Len(log.lh) + Cardinality(Reserved)) /\ Fits(Len(disk.head))

IInv ==
    /\ TypeOK /\ panic = "none"
    /\ Counted /\ OneCommits /\ Booting /\ Locals /\ LogEmpty /\ Header
    /\ LogOnce /\ Room /\ PinnedWhileLogged

-----------------------------------------------------------------------------
(* Sets of calls and of writes.                                             *)

LEMMA OpenFinite ==
    IsFiniteSet(OpenCalls) /\ Cardinality(OpenCalls) \in Nat
BY FS_Subset, FS_CardinalityType, LogAssumption DEF OpenCalls

LEMMA ReservedFinite ==
    /\ IsFiniteSet(Reserved) /\ Cardinality(Reserved) \in Nat
    /\ Cardinality(Reserved) <= Cardinality(OpenCalls) * MaxWrites
<1>1. IsFiniteSet(1 .. MaxWrites) /\ Cardinality(1 .. MaxWrites) = MaxWrites
  BY FS_Interval, LogAssumption
<1>2. /\ IsFiniteSet(OpenCalls \X (1 .. MaxWrites))
      /\ Cardinality(OpenCalls \X (1 .. MaxWrites)) = Cardinality(OpenCalls) * MaxWrites
  BY <1>1, OpenFinite, FS_Product
<1>3. Reserved \in SUBSET (OpenCalls \X (1 .. MaxWrites))
  BY DEF Reserved, OpenCalls
<1> QED BY <1>2, <1>3, FS_Subset, FS_CardinalityType

(* A step that changes neither who is in a call nor what calls have written. *)
LEMMA SameCalls ==
    ASSUME \A q \in Procs : (InCall(q)' <=> InCall(q)) /\ loc'[q].wrote = loc[q].wrote
    PROVE  OpenCalls' = OpenCalls /\ Reserved' = Reserved
BY DEF OpenCalls, Reserved

(* The admission test leaves room for one more call.                        *)
LEMMA Admitted ==
    ASSUME NEW len \in Nat, NEW out \in Nat, NEW res \in Nat,
           len + (out + 1) * MAXOPBLOCKS <= LOGSIZE,
           res <= out * MaxWrites, out = 0 => len = 0
    PROVE  Fits(len + (res + MaxWrites))
<1> DEFINE slack == MAXOPBLOCKS - MaxWrites
<1> USE LogAssumption, CallsFit
<1>1. slack \in Nat /\ slack >= 1
  OBVIOUS
<1>2. CASE out = 0
  <2>1. res = 0
    BY <1>2
  <2> QED BY <1>2, <2>1 DEF Fits
<1>3. CASE out >= 1
  <2>1. (out + 1) * MAXOPBLOCKS = out * MaxWrites + MaxWrites + (out + 1) * slack
    OBVIOUS
  <2>2. (out + 1) * slack >= 2 * slack
    BY <1>1, <1>3
  <2>3. len + res + MaxWrites + 2 * slack <= LOGSIZE
    BY <2>1, <2>2, <1>1
  <2> QED BY <2>3, <1>1 DEF Fits
<1> QED BY <1>2, <1>3

-----------------------------------------------------------------------------
(* The records of the state.                                                *)
LogRecords == [lh : Seq(Blocks), outstanding : Nat, committing : BOOLEAN]
Locs       == [b : Blocks \union {NoBlock}, tail : Nat, wrote : SUBSET Blocks]
Disks      == [home : [Blocks -> Values], slot : [Slots -> Values], head : Seq(Blocks)]

LEMMA LogRecordTypes ==
    ASSUME NEW l \in LogRecords
    PROVE  /\ \A s \in Seq(Blocks) : [l EXCEPT !.lh = s] \in LogRecords
           /\ \A n \in Nat : [l EXCEPT !.outstanding = n] \in LogRecords
           /\ \A c \in BOOLEAN : [l EXCEPT !.committing = c] \in LogRecords
BY Zenon DEF LogRecords

LEMMA LocTypes ==
    ASSUME NEW l \in Locs
    PROVE  /\ \A n \in Nat : [l EXCEPT !.tail = n] \in Locs
           /\ \A b \in Blocks : [l EXCEPT !.b = b] \in Locs
           /\ \A w \in SUBSET Blocks : [l EXCEPT !.b = NoBlock, !.wrote = w] \in Locs
           /\ NoLoc \in Locs
BY DEF Locs, NoLoc

LEMMA DiskTypes ==
    ASSUME NEW d \in Disks
    PROVE  /\ \A b \in Blocks, v \in Values : [d EXCEPT !.home[b] = v] \in Disks
           /\ \A i \in Slots, v \in Values : [d EXCEPT !.slot[i] = v] \in Disks
           /\ \A s \in Seq(Blocks) : [d EXCEPT !.head = s] \in Disks
BY DEF Disks

-----------------------------------------------------------------------------
(* Facts about a call in progress, and about a commit.                      *)

LEMMA CallFacts ==
    ASSUME IInv, NEW p \in Procs, InCall(p)
    PROVE  /\ boot.at = "up" /\ log.outstanding >= 1 /\ log.outstanding \in Nat
           /\ ~log.committing /\ p \in OpenCalls
           /\ \A q \in Procs : ~Commits(q)
           /\ disk.head = <<>> /\ Len(log.lh) <= LogBlocks - 2 /\ Len(log.lh) < LOGSIZE
<1>1. boot.at = "up" /\ p \in OpenCalls
  BY DEF IInv, Booting, InCall, OpenCalls
<1>2. log.outstanding >= 1 /\ log.outstanding \in Nat
  BY <1>1, OpenFinite, FS_EmptySet DEF IInv, Counted
<1>3. ~log.committing /\ \A q \in Procs : ~Commits(q)
  BY DEF IInv, OneCommits
<1>4. disk.head = <<>>
  BY <1>1, <1>3 DEF IInv, Header, Commits
<1>5. Len(log.lh) <= LogBlocks - 2 /\ Len(log.lh) < LOGSIZE
  <2>1. Len(log.lh) \in Nat /\ LogBlocks \in Nat /\ LOGSIZE \in Nat
    BY LogAssumption DEF IInv, TypeOK
  <2> QED BY <2>1, ReservedFinite DEF IInv, Room, Fits
<1> QED BY <1>1, <1>2, <1>3, <1>4, <1>5

LEMMA CommitFacts ==
    ASSUME IInv, NEW p \in Procs, Commits(p)
    PROVE  /\ boot.at = "up" /\ log.committing /\ log.outstanding = 0 /\ OpenCalls = {}
           /\ \A q \in Procs : ~InCall(q) /\ (q # p => ~Commits(q))
           /\ Len(log.lh) <= LogBlocks - 2
<1>1. boot.at = "up"
  BY DEF IInv, Booting, Commits
<1>2. log.committing /\ \A q \in Procs : ~InCall(q) /\ (q # p => ~Commits(q))
  BY DEF IInv, OneCommits
<1>3. OpenCalls = {} /\ log.outstanding = 0
  BY <1>2, FS_EmptySet DEF IInv, Counted, OpenCalls
<1>4. Len(log.lh) <= LogBlocks - 2
  <2>1. Len(log.lh) \in Nat /\ LogBlocks \in Nat /\ LOGSIZE \in Nat
    BY LogAssumption DEF IInv, TypeOK
  <2> QED BY <2>1, ReservedFinite DEF IInv, Room, Fits
<1> QED BY <1>1, <1>2, <1>3, <1>4

-----------------------------------------------------------------------------
(* Every action preserves the invariant.                                    *)

LEMMA BeginOpStep ==
    ASSUME IInv, NEW p \in Procs, BeginOp(p)
    PROVE  IInv'
<1> USE DEF IInv
<1>1. TypeOK'
  <2>1. pc' \in [Procs -> Places]
    BY DEF TypeOK, BeginOp, Goes, Places
  <2>2. log' = log \/ log' = [log EXCEPT !.outstanding = @ + 1]
    BY DEF BeginOp
  <2>3. log' \in LogRecords
    <3>1. log \in LogRecords /\ log.outstanding + 1 \in Nat
      BY DEF TypeOK, LogRecords
    <3> QED BY <2>2, <3>1, LogRecordTypes
  <2> QED BY <2>1, <2>3 DEF TypeOK, LogRecords, BeginOp
<1>2. /\ pc[p] \in {"idle", "begin"} /\ boot.at = "up"
      /\ pc'[p] \in {"asleep", "op"} /\ \A q \in Procs : q # p => pc'[q] = pc[q]
      /\ UNCHANGED <<disk, cache, dirty, boot, loc, panic>>
      /\ log'.lh = log.lh /\ log'.committing = log.committing
  BY DEF BeginOp, At, Up, Goes, TypeOK
<1>3. OneCommits'
  BY <1>2 DEF OneCommits, Commits, InCall, BeginOp, Goes, TypeOK
<1>4. Booting' /\ Header' /\ LogOnce' /\ PinnedWhileLogged'
  BY <1>2 DEF Booting, Header, LogOnce, Once, PinnedWhileLogged, Up
<1>5. Locals'
  BY <1>2 DEF Locals, LocalOK, Logged, InCall
<1>6. CASE pc'[p] = "asleep"
  <2>1. log' = log
    BY <1>6 DEF BeginOp, Goes, TypeOK
  <2>2. OpenCalls' = OpenCalls /\ Reserved' = Reserved
    BY <1>2, <1>6, SameCalls DEF InCall
  <2> QED BY <1>1, <1>2, <1>3, <1>4, <1>5, <2>1, <2>2 DEF Counted, LogEmpty, Room
<1>7. CASE pc'[p] = "op"
  <2>1. ~log.committing /\ ~Full /\ log' = [log EXCEPT !.outstanding = @ + 1]
    BY <1>7 DEF BeginOp, Goes, TypeOK
  <2>2. OpenCalls' = OpenCalls \union {p} /\ p \notin OpenCalls
    BY <1>2, <1>7 DEF OpenCalls, InCall
  <2>3. Counted'
    <3>1. log'.outstanding = log.outstanding + 1
      BY <2>1 DEF TypeOK
    <3>2. Cardinality(OpenCalls \union {p}) = Cardinality(OpenCalls) + 1
      BY <2>2, OpenFinite, FS_AddElement
    <3> QED BY <2>2, <3>1, <3>2 DEF Counted
  <2>4. LogEmpty'
    BY <1>2, <2>2 DEF LogEmpty
  <2>5. Room'
    <3>1. loc[p].wrote = {}
      BY <1>2 DEF Locals, LocalOK, InCall
    <3>2. Reserved' = Reserved \union ({p} \X (1 .. MaxWrites))
      BY <1>2, <1>7, <3>1, FS_EmptySet DEF Reserved, InCall
    <3>3. Cardinality({p} \X (1 .. MaxWrites)) = MaxWrites /\ IsFiniteSet({p} \X (1 .. MaxWrites))
      <4>1. IsFiniteSet({p}) /\ Cardinality({p}) = 1
        BY FS_Singleton
      <4>2. IsFiniteSet(1 .. MaxWrites) /\ Cardinality(1 .. MaxWrites) = MaxWrites
        BY FS_Interval, LogAssumption
      <4>3. 1 * MaxWrites = MaxWrites
        BY LogAssumption
      <4>4. /\ Cardinality({p} \X (1 .. MaxWrites)) = Cardinality({p}) * Cardinality(1 .. MaxWrites)
            /\ IsFiniteSet({p} \X (1 .. MaxWrites))
        BY <4>1, <4>2, FS_Product
      <4> QED BY <4>1, <4>2, <4>3, <4>4
    <3>4. Cardinality(Reserved') <= Cardinality(Reserved) + MaxWrites
      <4>1. Reserved \cap ({p} \X (1 .. MaxWrites)) = {}
        BY <1>2 DEF Reserved, InCall
      <4>2. Cardinality(Reserved') = Cardinality(Reserved) + MaxWrites - Cardinality({})
        BY <3>2, <3>3, <4>1, FS_Union, ReservedFinite
      <4> QED BY <4>2, FS_EmptySet, ReservedFinite, LogAssumption
    <3>5. Fits(Len(log.lh) + (Cardinality(Reserved) + MaxWrites))
      <4>1. Len(log.lh) + (log.outstanding + 1) * MAXOPBLOCKS <= LOGSIZE
        <5>1. Len(log.lh) \in Nat /\ (log.outstanding + 1) * MAXOPBLOCKS \in Nat
          BY LogAssumption DEF TypeOK
        <5> QED BY <2>1, <5>1, LogAssumption DEF Full
      <4>2. log.outstanding = 0 => Len(log.lh) = 0
        BY <1>2, <2>1, OpenFinite, FS_EmptySet DEF Counted, LogEmpty
      <4>3. Len(log.lh) \in Nat /\ log.outstanding \in Nat
        BY DEF TypeOK
      <4> QED BY <4>1, <4>2, <4>3, ReservedFinite, Admitted DEF Counted
    <3>6. Cardinality(Reserved') \in Nat
      BY <3>2, <3>3, ReservedFinite, FS_Union, FS_CardinalityType
    <3>7. Fits(Len(log'.lh) + Cardinality(Reserved'))
      <4>1. Len(log.lh) \in Nat
        BY DEF TypeOK
      <4> QED BY <1>2, <3>4, <3>5, <3>6, <4>1, ReservedFinite, LogAssumption DEF Fits
    <3> QED BY <1>2, <3>7 DEF Room
  <2> QED BY <1>1, <1>2, <1>3, <1>4, <1>5, <2>3, <2>4, <2>5
<1> QED BY <1>2, <1>6, <1>7

(* A step that leaves the log and what pins its blocks alone.               *)
LEMMA QuietStep ==
    ASSUME IInv, UNCHANGED <<dirty, boot, panic>>,
           disk'.head = disk.head, log'.lh = log.lh,
           \A q \in Procs : /\ pc'[q] = "install" <=> pc[q] = "install"
                            /\ pc[q] = "install" => loc'[q].tail = loc[q].tail
    PROVE  Header' /\ LogOnce' /\ PinnedWhileLogged'
<1> USE DEF IInv
<1>1. Header'
  BY DEF Header
<1>2. LogOnce'
  BY DEF LogOnce, Once
<1>3. PinnedWhileLogged'
  BY DEF PinnedWhileLogged, Up
<1> QED BY <1>1, <1>2, <1>3

LEMMA ModifyStep ==
    ASSUME IInv, NEW p \in Procs, NEW b \in Blocks, NEW v \in Values, Modify(p, b, v)
    PROVE  IInv'
<1> USE DEF IInv
<1>1. /\ pc[p] = "op" /\ InCall(p)
      /\ b \in loc[p].wrote \/ Cardinality(loc[p].wrote) < MaxWrites
  BY DEF Modify, At, InCall
<1>2. /\ UNCHANGED <<disk, dirty, log, boot, panic>>
      /\ pc' = [pc EXCEPT ![p] = "logging"] /\ loc' = [loc EXCEPT ![p].b = b]
      /\ cache' = [cache EXCEPT ![b] = v]
  <2>1. Len(log.lh) \in Nat /\ LogBlocks \in Nat /\ LOGSIZE \in Nat
    BY LogAssumption DEF TypeOK
  <2>2. /\ Len(log.lh) <= LogBlocks - 2 /\ Len(log.lh) < LOGSIZE
        /\ log.outstanding >= 1 /\ log.outstanding \in Nat
    BY <1>1, CallFacts
  <2>3. ~(Len(log.lh) >= LOGSIZE \/ Len(log.lh) >= LogBlocks - 1) /\ ~(log.outstanding < 1)
    BY <2>1, <2>2
  <2> QED BY <2>3 DEF Modify, Goes
<1>3. /\ pc'[p] = "logging" /\ loc'[p] = [loc[p] EXCEPT !.b = b]
      /\ \A q \in Procs : q # p => pc'[q] = pc[q] /\ loc'[q] = loc[q]
  BY <1>2 DEF TypeOK
<1>4. TypeOK'
  <2>1. loc' \in [Procs -> Locs]
    <3>1. loc[p] \in Locs
      BY DEF TypeOK, Locs
    <3> QED BY <1>2, <3>1, LocTypes DEF TypeOK, Locs
  <2> QED BY <1>2, <2>1 DEF TypeOK, Places, Locs
<1>5. loc'[p].b = b /\ loc'[p].tail = loc[p].tail /\ loc'[p].wrote = loc[p].wrote
  BY <1>3 DEF TypeOK
<1>6. \A q \in Procs : /\ InCall(q)' <=> InCall(q)
                       /\ Commits(q)' <=> Commits(q)
                       /\ loc'[q].wrote = loc[q].wrote
  BY <1>1, <1>3, <1>5 DEF InCall, Commits
<1>7. OpenCalls' = OpenCalls /\ Reserved' = Reserved
  BY <1>6, SameCalls
<1>8. Counted' /\ OneCommits' /\ Room'
  BY <1>2, <1>6, <1>7 DEF Counted, OneCommits, Room
<1>9. Booting' /\ LogEmpty'
  BY <1>1, <1>2, <1>3, <1>7, CallFacts DEF Booting, LogEmpty
<1>10. Locals'
  <2>1. LocalOK(p)'
    BY <1>1, <1>2, <1>3, <1>5 DEF Locals, LocalOK, Logged, InCall
  <2>2. \A q \in Procs : q # p => LocalOK(q)'
    BY <1>2, <1>3 DEF Locals, LocalOK, Logged, InCall
  <2> QED BY <2>1, <2>2 DEF Locals
<1>11. Header' /\ LogOnce' /\ PinnedWhileLogged'
  BY <1>1, <1>2, <1>3, QuietStep
<1> QED BY <1>2, <1>4, <1>8, <1>9, <1>10, <1>11

(* The log grows by the block or has it already; a block a call writes for  *)
(* the first time takes one of the writes it had left.                      *)
LEMMA LogWriteStep ==
    ASSUME IInv, NEW p \in Procs, LogWrite(p)
    PROVE  IInv'
<1> DEFINE b == loc[p].b
<1> USE DEF IInv
<1>1. pc[p] = "logging" /\ InCall(p)
  BY DEF LogWrite, At, InCall
<1>2. b \in Blocks /\ (b \in loc[p].wrote \/ Cardinality(loc[p].wrote) < MaxWrites)
  BY <1>1 DEF Locals, LocalOK
<1>3. /\ UNCHANGED <<disk, cache, boot, panic>>
      /\ pc' = [pc EXCEPT ![p] = "op"] /\ dirty' = dirty \union {b}
      /\ loc' = [loc EXCEPT ![p].b = NoBlock, ![p].wrote = @ \union {b}]
      /\ log' = IF b \in Logged THEN log ELSE [log EXCEPT !.lh = Append(@, b)]
  BY DEF LogWrite, Goes, Logged
<1>4. /\ pc'[p] = "op" /\ loc'[p] = [loc[p] EXCEPT !.b = NoBlock, !.wrote = @ \union {b}]
      /\ \A q \in Procs : q # p => pc'[q] = pc[q] /\ loc'[q] = loc[q]
  BY <1>3 DEF TypeOK
<1>5. /\ loc'[p].b = NoBlock /\ loc'[p].tail = loc[p].tail
      /\ loc'[p].wrote = loc[p].wrote \union {b}
  BY <1>4 DEF TypeOK
<1>6. /\ log.lh \in Seq(Blocks) /\ log'.lh \in Seq(Blocks)
      /\ log'.lh = IF b \in Logged THEN log.lh ELSE Append(log.lh, b)
      /\ log'.outstanding = log.outstanding /\ log'.committing = log.committing
      /\ log' \in LogRecords
  <2>1. log \in LogRecords /\ log.lh \in Seq(Blocks) /\ Append(log.lh, b) \in Seq(Blocks)
    BY <1>2 DEF TypeOK, LogRecords
  <2>2. log' \in LogRecords
    BY <1>3, <2>1, LogRecordTypes
  <2> QED BY <1>3, <2>1, <2>2 DEF LogRecords
<1>7. TypeOK'
  <2>1. loc' \in [Procs -> Locs]
    <3>1. loc[p] \in Locs /\ loc[p].wrote \union {b} \in SUBSET Blocks
      BY <1>2 DEF TypeOK, Locs
    <3>2. [loc[p] EXCEPT !.b = NoBlock, !.wrote = loc[p].wrote \union {b}] \in Locs
      BY <3>1, LocTypes
    <3> QED BY <1>3, <3>2 DEF TypeOK, Locs
  <2> QED BY <1>2, <1>3, <1>6, <2>1 DEF TypeOK, Places, Locs, LogRecords
<1>8. \A q \in Procs : (InCall(q)' <=> InCall(q)) /\ (Commits(q)' <=> Commits(q))
  BY <1>1, <1>4 DEF InCall, Commits
<1>9. OpenCalls' = OpenCalls
  BY <1>8 DEF OpenCalls
<1>10. Counted' /\ OneCommits'
  BY <1>6, <1>8, <1>9 DEF Counted, OneCommits
<1>11. Booting' /\ LogEmpty' /\ Header'
  <2>1. /\ boot.at = "up" /\ p \in OpenCalls /\ disk.head = <<>>
        /\ \A q \in Procs : ~Commits(q)
    BY <1>1, CallFacts
  <2>2. \A q \in Procs : pc'[q] # "install" /\ pc'[q] # "done"
    BY <1>8, <2>1 DEF Commits
  <2> QED BY <1>3, <1>9, <2>1, <2>2 DEF Booting, LogEmpty, Header
<1>12. /\ Logged' = Logged \union {b} /\ Once(log'.lh)
       /\ Len(log'.lh) \in Nat
       /\ Len(log'.lh) = IF b \in Logged THEN Len(log.lh) ELSE Len(log.lh) + 1
       /\ \A i \in DOMAIN log.lh : i \in DOMAIN log'.lh /\ log'.lh[i] = log.lh[i]
  <2>1. CASE b \in Logged
    BY <1>6, <2>1 DEF Logged, LogOnce, Once
  <2>2. CASE b \notin Logged
    <3>1. /\ log'.lh = Append(log.lh, b) /\ Len(log'.lh) = Len(log.lh) + 1
          /\ DOMAIN log'.lh = 1 .. Len(log.lh) + 1 /\ DOMAIN log.lh = 1 .. Len(log.lh)
          /\ \A i \in 1 .. Len(log.lh) : log'.lh[i] = log.lh[i]
          /\ log'.lh[Len(log.lh) + 1] = b /\ Len(log.lh) \in Nat
      BY <1>2, <1>6, <2>2
    <3>2. \A i \in 1 .. Len(log.lh) : log.lh[i] # b
      BY <2>2, <3>1 DEF Logged
    <3>3. Once(log'.lh)
      BY <3>1, <3>2 DEF LogOnce, Once
    <3>4. Logged' = Logged \union {b}
      BY <3>1 DEF Logged
    <3> QED BY <2>2, <3>1, <3>3, <3>4
  <2> QED BY <2>1, <2>2
<1>13. /\ IsFiniteSet(loc[p].wrote) /\ Cardinality(loc[p].wrote) \in Nat
       /\ IsFiniteSet(loc'[p].wrote)
       /\ Cardinality(loc'[p].wrote) =
            IF b \in loc[p].wrote THEN Cardinality(loc[p].wrote)
                                  ELSE Cardinality(loc[p].wrote) + 1
       /\ Cardinality(loc'[p].wrote) <= MaxWrites
  <2>1. IsFiniteSet(loc[p].wrote) /\ Cardinality(loc[p].wrote) <= MaxWrites
    BY DEF Locals, LocalOK
  <2>2. Cardinality(loc[p].wrote) \in Nat
    BY <2>1, FS_CardinalityType
  <2>3. /\ IsFiniteSet(loc'[p].wrote)
        /\ Cardinality(loc'[p].wrote) =
             IF b \in loc[p].wrote THEN Cardinality(loc[p].wrote)
                                   ELSE Cardinality(loc[p].wrote) + 1
    BY <1>5, <2>1, FS_AddElement
  <2> QED BY <1>2, <2>1, <2>2, <2>3, LogAssumption
<1>14. Locals'
  <2>1. LocalOK(p)'
    <3>1. loc[p].wrote \subseteq Logged /\ loc[p].tail = 0
      BY <1>1 DEF Locals, LocalOK
    <3> QED BY <1>4, <1>5, <1>12, <1>13, <3>1, LogAssumption DEF LocalOK, InCall
  <2>2. \A q \in Procs : q # p => LocalOK(q)'
    <3> SUFFICES ASSUME NEW q \in Procs, q # p PROVE LocalOK(q)'
      OBVIOUS
    <3>1. pc[q] \notin {"write_log", "install"}
      BY <1>1, CallFacts DEF Commits
    <3> QED BY <1>4, <1>12, <3>1 DEF Locals, LocalOK, InCall
  <2> QED BY <2>1, <2>2 DEF Locals
<1>15. LogOnce'
  BY <1>3, <1>12 DEF LogOnce
<1>16. Room'
  <2>1. Len(log.lh) \in Nat /\ LogBlocks \in Nat /\ LOGSIZE \in Nat
    BY LogAssumption DEF TypeOK
  <2>2. CASE b \in loc[p].wrote
    <3>1. b \in Logged
      BY <2>2 DEF Locals, LocalOK
    <3>2. \A q \in Procs : loc'[q].wrote = loc[q].wrote
      BY <1>4, <1>5, <2>2
    <3>3. Reserved' = Reserved
      BY <1>8, <3>2, SameCalls
    <3> QED BY <1>3, <1>12, <3>1, <3>3 DEF Room
  <2>3. CASE b \notin loc[p].wrote
    <3> DEFINE r == <<p, Cardinality(loc[p].wrote) + 1>>
    <3>1. r \in Reserved
      BY <1>1, <1>2, <1>13, <2>3, LogAssumption DEF Reserved
    <3>2. Reserved' = Reserved \ {r}
      <4>1. \A q \in Procs, k \in 1 .. MaxWrites :
               (Cardinality(loc'[q].wrote) < k) <=>
                  (Cardinality(loc[q].wrote) < k /\ <<q, k>> # r)
        <5> SUFFICES ASSUME NEW q \in Procs, NEW k \in 1 .. MaxWrites
                     PROVE  (Cardinality(loc'[q].wrote) < k) <=>
                               (Cardinality(loc[q].wrote) < k /\ <<q, k>> # r)
          OBVIOUS
        <5>1. CASE q = p
          <6>1. /\ k \in Nat /\ Cardinality(loc[p].wrote) \in Nat
                /\ Cardinality(loc'[p].wrote) = Cardinality(loc[p].wrote) + 1
            BY <1>13, <2>3, LogAssumption
          <6> QED BY <5>1, <6>1
        <5>2. CASE q # p
          BY <1>4, <5>2
        <5> QED BY <5>1, <5>2
      <4> QED BY <1>8, <4>1 DEF Reserved
    <3>3. Cardinality(Reserved') = Cardinality(Reserved) - 1
      BY <3>1, <3>2, ReservedFinite, FS_RemoveElement
    <3>4. Len(log'.lh) + Cardinality(Reserved') <= Len(log.lh) + Cardinality(Reserved)
      BY <1>12, <2>1, <3>3, ReservedFinite
    <3>5. /\ Len(log'.lh) + Cardinality(Reserved') \in Int
          /\ Len(log.lh) + Cardinality(Reserved) \in Int
      BY <1>12, <2>1, <3>3, ReservedFinite
    <3> QED BY <1>3, <2>1, <3>4, <3>5 DEF Room, Fits
  <2> QED BY <2>2, <2>3
<1>17. PinnedWhileLogged'
  <2>1. \A q \in Procs : pc[q] # "install" /\ pc'[q] # "install"
    BY <1>1, <1>8, CallFacts DEF Commits
  <2>2. Up /\ dirty = Logged
    <3>1. Up
      BY <1>1, CallFacts DEF Up
    <3> QED BY <2>1, <3>1 DEF PinnedWhileLogged, TypeOK, Logged
  <2>3. dirty' = Logged'
    BY <1>3, <1>12, <2>2
  <2>4. \A c : c \in dirty' <=> \E i \in DOMAIN log'.lh : log'.lh[i] = c
    BY <2>3 DEF Logged
  <2> QED BY <2>1, <2>4 DEF PinnedWhileLogged
<1> QED BY <1>3, <1>7, <1>10, <1>11, <1>14, <1>15, <1>16, <1>17

LEMMA EvictStep ==
    ASSUME IInv, NEW b \in Blocks, Evict(b)
    PROVE  IInv'
<1> USE DEF IInv
<1>1. /\ UNCHANGED <<disk, dirty, log, boot, pc, loc, panic>>
      /\ cache' = [cache EXCEPT ![b] = disk.home[b]]
  BY DEF Evict
<1>2. TypeOK'
  BY <1>1 DEF TypeOK
<1>3. OpenCalls' = OpenCalls /\ Reserved' = Reserved
  BY <1>1, SameCalls DEF InCall
<1>4. Counted' /\ OneCommits' /\ Booting' /\ LogEmpty' /\ Room'
  BY <1>1, <1>3 DEF Counted, OneCommits, Commits, InCall, Booting, LogEmpty, Room
<1>5. Locals'
  BY <1>1 DEF Locals, LocalOK, Logged, InCall
<1>6. Header' /\ LogOnce' /\ PinnedWhileLogged'
  BY <1>1, QuietStep
<1> QED BY <1>1, <1>2, <1>4, <1>5, <1>6

(* A wakeup changes nothing the invariant looks at.                         *)
LEMMA WokenFacts ==
    ASSUME NEW w \in [Procs -> Places]
    PROVE  /\ Woken(w) \in [Procs -> Places]
           /\ \A q \in Procs :
                 Woken(w)[q] = w[q] \/ (w[q] = "asleep" /\ Woken(w)[q] = "begin")
BY DEF Woken, Places

LEMMA EndOpStep ==
    ASSUME IInv, NEW p \in Procs, EndOp(p)
    PROVE  IInv'
<1> DEFINE last == log.outstanding = 1
<1> USE DEF IInv
<1>1. pc[p] = "op" /\ InCall(p)
  BY DEF EndOp, At, InCall
<1>2. /\ boot.at = "up" /\ ~log.committing /\ p \in OpenCalls /\ disk.head = <<>>
      /\ log.outstanding \in Nat /\ log.outstanding >= 1
      /\ \A q \in Procs : ~Commits(q)
  BY <1>1, CallFacts
<1>3. /\ log' = [log EXCEPT !.outstanding = @ - 1, !.committing = last]
      /\ pc' = IF ~last THEN Woken([pc EXCEPT ![p] = "idle"])
               ELSE [pc EXCEPT ![p] = IF log.lh = <<>> THEN "done" ELSE "write_log"]
      /\ loc' = [loc EXCEPT ![p] = NoLoc]
      /\ UNCHANGED <<disk, cache, dirty, boot, panic>>
  BY <1>2 DEF EndOp
<1>4. loc'[p] = NoLoc /\ \A q \in Procs : q # p => loc'[q] = loc[q]
  BY <1>3 DEF TypeOK
<1>5. /\ pc' \in [Procs -> Places]
      /\ pc'[p] = IF ~last THEN "idle" ELSE IF log.lh = <<>> THEN "done" ELSE "write_log"
      /\ \A q \in Procs :
            q # p => pc'[q] = pc[q] \/ (pc[q] = "asleep" /\ pc'[q] = "begin")
  <2>1. CASE last
    BY <1>3, <2>1 DEF TypeOK, Places
  <2>2. CASE ~last
    <3>1. [pc EXCEPT ![p] = "idle"] \in [Procs -> Places]
      BY DEF TypeOK, Places
    <3>2. pc' = Woken([pc EXCEPT ![p] = "idle"])
      BY <1>3, <2>2
    <3>3. pc'[p] = "idle"
      BY <3>2 DEF Woken, TypeOK
    <3>4. \A q \in Procs : q # p => [pc EXCEPT ![p] = "idle"][q] = pc[q]
      BY DEF TypeOK
    <3> QED BY <2>2, <3>1, <3>2, <3>3, <3>4, WokenFacts
  <2> QED BY <2>1, <2>2
<1>6. /\ log'.lh = log.lh /\ log'.outstanding = log.outstanding - 1
      /\ log'.committing = last /\ log' \in LogRecords
  <2>1. log \in LogRecords /\ log.outstanding - 1 \in Nat /\ last \in BOOLEAN
    BY <1>2 DEF TypeOK, LogRecords
  <2> HIDE DEF last
  <2>2. log' = [log EXCEPT !.outstanding = log.outstanding - 1, !.committing = last]
    BY <1>3
  <2> QED BY <2>1, <2>2, Zenon DEF LogRecords
<1>7. TypeOK'
  <2>1. loc' \in [Procs -> Locs]
    BY <1>3 DEF TypeOK, Locs, NoLoc
  <2> QED BY <1>3, <1>5, <1>6, <2>1 DEF TypeOK, Locs, LogRecords
<1>8. /\ ~InCall(p)' /\ (Commits(p)' <=> last)
      /\ \A q \in Procs : q # p => (InCall(q)' <=> InCall(q)) /\ ~Commits(q)'
  BY <1>2, <1>5 DEF InCall, Commits
<1>9. OpenCalls' = OpenCalls \ {p}
  BY <1>8 DEF OpenCalls
<1>10. Cardinality(OpenCalls') = Cardinality(OpenCalls) - 1 /\ IsFiniteSet(OpenCalls')
  BY <1>2, <1>9, OpenFinite, FS_RemoveElement
<1>11. Counted'
  BY <1>6, <1>10 DEF Counted
<1>12. OpenCalls' = {} <=> last
  BY <1>2, <1>6, <1>10, <1>11, FS_EmptySet DEF Counted
<1>13. OneCommits'
  BY <1>6, <1>8, <1>12 DEF OneCommits, OpenCalls
<1>14. Booting' /\ LogEmpty'
  <2>1. \A q \in Procs : pc'[q] = "done" => log.lh = <<>>
    BY <1>5, <1>8 DEF Commits
  <2> QED BY <1>2, <1>3, <1>6, <1>12, <2>1 DEF Booting, LogEmpty
<1>15. Locals'
  <2>1. LocalOK(p)'
    <3>1. NoLoc.b \notin Blocks /\ NoLoc.tail = 0 /\ NoLoc.wrote = {}
      BY LogAssumption DEF NoLoc
    <3>2. IsFiniteSet({}) /\ Cardinality({}) = 0 /\ Len(log.lh) \in Nat /\ 0 <= MaxWrites
      BY FS_EmptySet, LogAssumption DEF TypeOK
    <3>3. pc'[p] # "logging" /\ ~InCall(p)' /\ 0 <= Len(log.lh)
      BY <1>5, <1>8, <3>2
    <3> QED BY <1>4, <1>6, <3>1, <3>2, <3>3 DEF LocalOK
  <2>2. \A q \in Procs : q # p => LocalOK(q)'
    BY <1>4, <1>5, <1>6, <1>8 DEF Locals, LocalOK, Logged
  <2> QED BY <2>1, <2>2 DEF Locals
<1>16. Header' /\ LogOnce' /\ PinnedWhileLogged'
  <2>1. \A q \in Procs : pc[q] # "install" /\ pc'[q] # "install"
    BY <1>2, <1>5 DEF Commits
  <2> QED BY <1>3, <1>6, <2>1, QuietStep
<1>17. Room'
  <2>1. Reserved' \in SUBSET Reserved
    BY <1>4, <1>8 DEF Reserved
  <2>2. Cardinality(Reserved') <= Cardinality(Reserved) /\ Cardinality(Reserved') \in Nat
    BY <2>1, ReservedFinite, FS_Subset, FS_CardinalityType
  <2>3. Len(log.lh) \in Nat /\ LogBlocks \in Nat /\ LOGSIZE \in Nat
    BY LogAssumption DEF TypeOK
  <2> QED BY <1>3, <1>6, <2>2, <2>3, ReservedFinite DEF Room, Fits
<1> QED BY <1>3, <1>7, <1>11, <1>13, <1>14, <1>15, <1>16, <1>17

LEMMA WriteLogStep ==
    ASSUME IInv, NEW p \in Procs, WriteLog(p)
    PROVE  IInv'
<1> DEFINE t == loc[p].tail
           v == cache[log.lh[t + 1]]
<1> USE DEF IInv
<1>1. /\ pc[p] = "write_log" /\ Commits(p) /\ t < Len(log.lh)
      /\ WriteSlot(t, v) /\ loc' = [loc EXCEPT ![p].tail = t + 1]
      /\ UNCHANGED <<cache, dirty, log, boot, pc, panic>>
  BY DEF WriteLog, At, Commits
<1>2. /\ t \in Nat /\ Len(log.lh) \in Nat /\ log.lh \in Seq(Blocks) /\ t + 1 \in 1 .. Len(log.lh)
      /\ t \in Slots
  <2>1. t \in Nat /\ Len(log.lh) \in Nat /\ log.lh \in Seq(Blocks)
    BY DEF TypeOK
  <2>2. Len(log.lh) <= LogBlocks - 2
    BY <1>1, CommitFacts
  <2> QED BY <1>1, <2>1, <2>2, LogAssumption DEF Slots
<1>3. v \in Values
  BY <1>2 DEF TypeOK
<1>4. disk' = [disk EXCEPT !.slot[t] = v] /\ disk' \in Disks /\ disk'.head = disk.head
  <2>1. disk \in Disks
    BY DEF TypeOK, Disks
  <2>2. disk' = [disk EXCEPT !.slot[t] = v]
    BY <1>1, <1>2 DEF WriteSlot
  <2> QED BY <1>2, <1>3, <2>1, <2>2, DiskTypes DEF Disks
<1>5. /\ loc'[p].tail = t + 1 /\ loc'[p].b = loc[p].b /\ loc'[p].wrote = loc[p].wrote
      /\ \A q \in Procs : q # p => loc'[q] = loc[q]
      /\ loc' \in [Procs -> Locs]
  <2>1. loc[p] \in Locs /\ t + 1 \in Nat
    BY <1>2 DEF TypeOK, Locs
  <2>2. [loc[p] EXCEPT !.tail = t + 1] \in Locs
    BY <2>1, LocTypes
  <2>3. loc'[p] = [loc[p] EXCEPT !.tail = t + 1]
    BY <1>1 DEF TypeOK
  <2>4. loc' \in [Procs -> Locs] /\ \A q \in Procs : q # p => loc'[q] = loc[q]
    BY <1>1, <2>2 DEF TypeOK, Locs
  <2> QED BY <2>1, <2>3, <2>4 DEF Locs
<1>6. TypeOK'
  BY <1>1, <1>4, <1>5 DEF TypeOK, Locs, Disks
<1>7. OpenCalls' = OpenCalls /\ Reserved' = Reserved
  BY <1>1, <1>5, SameCalls DEF InCall
<1>8. Counted' /\ OneCommits' /\ LogEmpty' /\ Room'
  BY <1>1, <1>4, <1>7 DEF Counted, OneCommits, Commits, InCall, LogEmpty, Room
<1>9. Booting'
  BY <1>1, CommitFacts DEF Booting
<1>10. Locals'
  <2>1. LocalOK(p)'
    <3>1. t + 1 <= Len(log.lh)
      BY <1>2
    <3> QED BY <1>1, <1>5, <3>1 DEF Locals, LocalOK, Logged, InCall
  <2>2. \A q \in Procs : q # p => LocalOK(q)'
    BY <1>1, <1>5 DEF Locals, LocalOK, Logged, InCall
  <2> QED BY <2>1, <2>2 DEF Locals
<1>11. Header' /\ LogOnce' /\ PinnedWhileLogged'
  BY <1>1, <1>4, <1>5, QuietStep
<1> QED BY <1>1, <1>6, <1>8, <1>9, <1>10, <1>11

LEMMA WriteHeadStep ==
    ASSUME IInv, NEW p \in Procs, WriteHead(p)
    PROVE  IInv'
<1> USE DEF IInv
<1>1. /\ pc[p] = "write_log" /\ Commits(p)
      /\ disk' = [disk EXCEPT !.head = log.lh]
      /\ pc' = [pc EXCEPT ![p] = "install"] /\ loc' = [loc EXCEPT ![p].tail = 0]
      /\ UNCHANGED <<cache, dirty, log, boot, panic>>
  BY DEF WriteHead, At, Commits, Goes
<1>2. /\ boot.at = "up" /\ log.committing /\ OpenCalls = {} /\ Len(log.lh) <= LogBlocks - 2
      /\ \A q \in Procs : ~InCall(q) /\ (q # p => ~Commits(q))
  BY <1>1, CommitFacts
<1>3. disk' \in Disks /\ disk'.head = log.lh /\ log.lh \in Seq(Blocks) /\ Len(log.lh) \in Nat
  <2>1. disk \in Disks /\ log.lh \in Seq(Blocks) /\ Len(log.lh) \in Nat
    BY DEF TypeOK, Disks
  <2> QED BY <1>1, <2>1, DiskTypes DEF Disks
<1>4. /\ loc'[p].tail = 0 /\ loc'[p].b = loc[p].b /\ loc'[p].wrote = loc[p].wrote
      /\ pc'[p] = "install"
      /\ \A q \in Procs : q # p => loc'[q] = loc[q] /\ pc'[q] = pc[q]
      /\ loc' \in [Procs -> Locs]
  <2>1. loc[p] \in Locs
    BY DEF TypeOK, Locs
  <2> QED BY <1>1, <2>1, LocTypes DEF TypeOK, Locs
<1>5. TypeOK'
  BY <1>1, <1>3, <1>4 DEF TypeOK, Locs, Disks, Places
<1>6. \A q \in Procs : /\ InCall(q)' <=> InCall(q)
                       /\ Commits(q)' <=> Commits(q)
                       /\ loc'[q].wrote = loc[q].wrote
  BY <1>1, <1>4 DEF InCall, Commits
<1>7. OpenCalls' = OpenCalls /\ Reserved' = Reserved
  BY <1>6, SameCalls
<1>8. Counted' /\ OneCommits' /\ Booting' /\ LogEmpty'
  BY <1>1, <1>2, <1>4, <1>6, <1>7 DEF Counted, OneCommits, Booting, LogEmpty
<1>9. Locals'
  BY <1>1, <1>3, <1>4, <1>6 DEF Locals, LocalOK, Logged
<1>10. Header' /\ LogOnce'
  BY <1>1, <1>3, <1>4 DEF Header, LogOnce, Once
<1>11. Room'
  <2>1. Cardinality(Reserved) \in Nat /\ LOGSIZE \in Nat /\ LogBlocks \in Nat
    BY ReservedFinite, LogAssumption
  <2> QED BY <1>1, <1>3, <1>7, <2>1 DEF Room, Fits
<1>12. PinnedWhileLogged'
  <2>1. \A q \in Procs : pc[q] # "install"
    BY <1>1, <1>2 DEF Commits
  <2>2. \A i \in DOMAIN log.lh : i > 0
    BY <1>3
  <2>3. \A q \in Procs : pc'[q] = "install" => loc'[q].tail = 0
    BY <1>4, <2>1
  <2>4. \A c \in Blocks : c \in dirty <=> \E i \in DOMAIN log.lh : log.lh[i] = c
    BY <1>2, <2>1 DEF PinnedWhileLogged, Up
  <2> QED BY <1>1, <2>2, <2>3, <2>4 DEF PinnedWhileLogged
<1> QED BY <1>1, <1>5, <1>8, <1>9, <1>10, <1>11, <1>12

LEMMA InstallStep ==
    ASSUME IInv, NEW p \in Procs, Install(p)
    PROVE  IInv'
<1> DEFINE t == loc[p].tail
           b == log.lh[t + 1]
           v == disk.slot[t]
<1> USE DEF IInv
<1>1. /\ pc[p] = "install" /\ Commits(p) /\ t < Len(log.lh)
      /\ InstallBlock(t) /\ loc' = [loc EXCEPT ![p].tail = t + 1]
      /\ UNCHANGED <<log, boot, pc, panic>>
  BY DEF Install, At, Commits
<1>2. /\ t \in Nat /\ Len(log.lh) \in Nat /\ t + 1 \in DOMAIN log.lh
      /\ t \in Slots /\ b \in Blocks /\ v \in Values
      /\ \A i \in DOMAIN log.lh : i \in Nat
  <2>1. t \in Nat /\ Len(log.lh) \in Nat /\ log.lh \in Seq(Blocks)
    BY DEF TypeOK
  <2>2. Len(log.lh) <= LogBlocks - 2
    BY <1>1, CommitFacts
  <2>3. t \in Slots /\ t + 1 \in 1 .. Len(log.lh)
    BY <1>1, <2>1, <2>2, LogAssumption DEF Slots
  <2> QED BY <2>1, <2>3 DEF TypeOK
<1>3. /\ disk' = [disk EXCEPT !.home[b] = v] /\ cache' = [cache EXCEPT ![b] = v]
      /\ dirty' = dirty \ {b}
  BY <1>1, <1>2 DEF InstallBlock, ReadSlot
<1>4. disk' \in Disks /\ disk'.head = disk.head
  <2>1. disk \in Disks
    BY DEF TypeOK, Disks
  <2> QED BY <1>2, <1>3, <2>1, DiskTypes DEF Disks
<1>5. /\ loc'[p].tail = t + 1 /\ loc'[p].b = loc[p].b /\ loc'[p].wrote = loc[p].wrote
      /\ \A q \in Procs : q # p => loc'[q] = loc[q]
      /\ loc' \in [Procs -> Locs]
  <2>1. loc[p] \in Locs /\ t + 1 \in Nat
    BY <1>2 DEF TypeOK, Locs
  <2>2. [loc[p] EXCEPT !.tail = t + 1] \in Locs
    BY <2>1, LocTypes
  <2>3. loc'[p] = [loc[p] EXCEPT !.tail = t + 1]
    BY <1>1 DEF TypeOK
  <2>4. loc' \in [Procs -> Locs] /\ \A q \in Procs : q # p => loc'[q] = loc[q]
    BY <1>1, <2>2 DEF TypeOK, Locs
  <2> QED BY <2>1, <2>3, <2>4 DEF Locs
<1>6. TypeOK'
  BY <1>1, <1>2, <1>3, <1>4, <1>5 DEF TypeOK, Locs, Disks
<1>7. OpenCalls' = OpenCalls /\ Reserved' = Reserved
  BY <1>1, <1>5, SameCalls DEF InCall
<1>8. Counted' /\ OneCommits' /\ LogEmpty' /\ Room' /\ Header' /\ LogOnce'
  BY <1>1, <1>4, <1>7
     DEF Counted, OneCommits, Commits, InCall, LogEmpty, Room, Header, LogOnce, Once
<1>9. Booting'
  BY <1>1, CommitFacts DEF Booting
<1>10. Locals'
  <2>1. LocalOK(p)'
    <3>1. t + 1 <= Len(log.lh)
      BY <1>1, <1>2
    <3> QED BY <1>1, <1>5, <3>1 DEF Locals, LocalOK, Logged, InCall
  <2>2. \A q \in Procs : q # p => LocalOK(q)'
    BY <1>1, <1>5 DEF Locals, LocalOK, Logged, InCall
  <2> QED BY <2>1, <2>2 DEF Locals
<1>11. PinnedWhileLogged'
  <2>1. \A q \in Procs : pc[q] = "install" <=> q = p
    BY <1>1, CommitFacts DEF Commits
  <2>2. \A c \in Blocks : c \in dirty <=> \E i \in DOMAIN log.lh : log.lh[i] = c /\ t < i
    BY <1>1, <2>1, CommitFacts DEF PinnedWhileLogged, Up
  <2>3. \A i \in DOMAIN log.lh : t + 1 < i <=> t < i /\ log.lh[i] # b
    BY <1>2 DEF LogOnce, Once
  <2>4. \A c \in Blocks : c \in dirty' <=> \E i \in DOMAIN log.lh : log.lh[i] = c /\ t + 1 < i
    BY <1>3, <2>2, <2>3
  <2> QED BY <1>1, <1>5, <2>1, <2>4 DEF PinnedWhileLogged
<1> QED BY <1>1, <1>6, <1>8, <1>9, <1>10, <1>11

(* Nothing is logged and nobody is in a call.                               *)
LEMMA EmptyLocals ==
    ASSUME NEW q \in Procs, loc'[q] = NoLoc, pc'[q] \in {"idle", "done", "begin", "asleep"}
    PROVE  LocalOK(q)'
<1>1. NoLoc.b \notin Blocks /\ NoLoc.tail = 0 /\ NoLoc.wrote = {}
  BY LogAssumption DEF NoLoc
<1>2. IsFiniteSet({}) /\ Cardinality({}) = 0 /\ 0 <= MaxWrites
  BY FS_EmptySet, LogAssumption
<1> QED BY <1>1, <1>2 DEF LocalOK, InCall

LEMMA EmptyRoom ==
    ASSUME Len(log'.lh) = 0, OpenCalls' = {}, Fits(Len(disk'.head))
    PROVE  Room'
<1>1. Reserved' = {}
  BY DEF Reserved, OpenCalls
<1>2. Cardinality(Reserved') = 0
  BY <1>1, FS_EmptySet
<1>3. LogBlocks - 2 >= 0 /\ LOGSIZE > 0 /\ LogBlocks \in Nat /\ LOGSIZE \in Nat
  BY LogAssumption, CallsFit
<1> QED BY <1>2, <1>3 DEF Room, Fits

LEMMA ClearHeadStep ==
    ASSUME IInv, NEW p \in Procs, ClearHead(p)
    PROVE  IInv'
<1> USE DEF IInv
<1>1. /\ pc[p] = "install" /\ Commits(p) /\ loc[p].tail = Len(log.lh)
      /\ log' = [log EXCEPT !.lh = <<>>] /\ disk' = [disk EXCEPT !.head = <<>>]
      /\ pc' = [pc EXCEPT ![p] = "done"] /\ loc' = [loc EXCEPT ![p] = NoLoc]
      /\ UNCHANGED <<cache, dirty, boot, panic>>
  BY DEF ClearHead, At, Commits, Goes
<1>2. /\ boot.at = "up" /\ log.committing /\ OpenCalls = {}
      /\ \A q \in Procs : ~InCall(q) /\ (q # p => ~Commits(q))
  BY <1>1, CommitFacts
<1>3. /\ log'.lh = <<>> /\ log'.outstanding = log.outstanding
      /\ log'.committing = log.committing /\ log' \in LogRecords
  <2>1. log \in LogRecords /\ <<>> \in Seq(Blocks)
    BY DEF TypeOK, LogRecords
  <2> QED BY <1>1, <2>1, LogRecordTypes DEF LogRecords
<1>4. disk' \in Disks /\ disk'.head = <<>>
  <2>1. disk \in Disks /\ <<>> \in Seq(Blocks)
    BY DEF TypeOK, Disks
  <2> QED BY <1>1, <2>1, DiskTypes DEF Disks
<1>5. /\ pc'[p] = "done" /\ loc'[p] = NoLoc /\ loc' \in [Procs -> Locs]
      /\ \A q \in Procs : q # p => loc'[q] = loc[q] /\ pc'[q] = pc[q]
  BY <1>1 DEF TypeOK, Locs, NoLoc
<1>6. TypeOK'
  BY <1>1, <1>3, <1>4, <1>5 DEF TypeOK, LogRecords, Disks, Locs, Places
<1>7. \A q \in Procs : (InCall(q)' <=> InCall(q)) /\ (Commits(q)' <=> Commits(q))
  BY <1>1, <1>5 DEF InCall, Commits
<1>8. OpenCalls' = OpenCalls
  BY <1>7 DEF OpenCalls
<1>9. Counted' /\ OneCommits' /\ Booting' /\ LogEmpty'
  BY <1>1, <1>2, <1>3, <1>7, <1>8 DEF Counted, OneCommits, Booting, LogEmpty
<1>10. Locals'
  <2>1. LocalOK(p)'
    BY <1>5, EmptyLocals
  <2>2. ASSUME NEW q \in Procs, q # p PROVE LocalOK(q)'
    <3>1. loc[q].wrote = {} /\ pc[q] \notin {"write_log", "install"}
      BY <1>2, <2>2 DEF Locals, LocalOK, Commits
    <3> QED BY <1>2, <1>5, <1>7, <2>2, <3>1 DEF Locals, LocalOK
  <2> QED BY <2>1, <2>2 DEF Locals
<1>11. Header' /\ LogOnce'
  BY <1>3, <1>4 DEF Header, LogOnce, Once
<1>12. Room'
  <2>1. Fits(Len(disk'.head))
    BY <1>4, LogAssumption, CallsFit DEF Fits
  <2> QED BY <1>2, <1>3, <1>8, <2>1, EmptyRoom
<1>13. PinnedWhileLogged'
  <2>1. \A i \in DOMAIN log.lh : ~(loc[p].tail < i)
    BY <1>1 DEF TypeOK
  <2>2. dirty = {}
    BY <1>1, <1>2, <2>1 DEF PinnedWhileLogged, Up, TypeOK
  <2> QED BY <1>1, <1>3, <2>2 DEF PinnedWhileLogged
<1> QED BY <1>1, <1>6, <1>9, <1>10, <1>11, <1>12, <1>13

LEMMA EndCommitStep ==
    ASSUME IInv, NEW p \in Procs, EndCommit(p)
    PROVE  IInv'
<1> USE DEF IInv
<1>1. /\ pc[p] = "done" /\ Commits(p)
      /\ log' = [log EXCEPT !.committing = FALSE]
      /\ pc' = Woken([pc EXCEPT ![p] = "idle"])
      /\ UNCHANGED <<disk, cache, dirty, boot, loc, panic>>
  BY DEF EndCommit, At, Commits
<1>2. /\ boot.at = "up" /\ log.committing /\ OpenCalls = {} /\ log.lh = <<>>
      /\ \A q \in Procs : ~InCall(q) /\ (q # p => ~Commits(q))
  BY <1>1, CommitFacts DEF LogEmpty
<1>3. /\ log'.lh = <<>> /\ log'.outstanding = log.outstanding
      /\ ~log'.committing /\ log' \in LogRecords
  <2>1. log \in LogRecords
    BY DEF TypeOK, LogRecords
  <2>2. log' \in LogRecords /\ log'.lh = log.lh /\ log'.outstanding = log.outstanding
    BY <1>1, <2>1, LogRecordTypes DEF LogRecords
  <2>3. log'.committing = FALSE
    BY <1>1, <2>1, Zenon DEF LogRecords
  <2> QED BY <1>2, <2>2, <2>3
<1>4. /\ pc' \in [Procs -> Places] /\ pc'[p] = "idle"
      /\ \A q \in Procs :
            q # p => pc'[q] = pc[q] \/ (pc[q] = "asleep" /\ pc'[q] = "begin")
  <2>1. [pc EXCEPT ![p] = "idle"] \in [Procs -> Places]
    BY DEF TypeOK, Places
  <2>2. pc'[p] = "idle"
    BY <1>1 DEF Woken, TypeOK
  <2>3. \A q \in Procs : q # p => [pc EXCEPT ![p] = "idle"][q] = pc[q]
    BY DEF TypeOK
  <2> DEFINE w == [pc EXCEPT ![p] = "idle"]
  <2>4. w \in [Procs -> Places] /\ pc' = Woken(w)
    BY <1>1, <2>1
  <2>5. \A q \in Procs : q # p => w[q] = pc[q]
    BY <2>3
  <2> HIDE DEF w
  <2>6. pc' \in [Procs -> Places]
    BY <2>4, WokenFacts
  <2>7. \A q \in Procs : pc'[q] = w[q] \/ (w[q] = "asleep" /\ pc'[q] = "begin")
    BY <2>4, WokenFacts
  <2> QED BY <2>2, <2>5, <2>6, <2>7
<1>5. TypeOK'
  BY <1>1, <1>3, <1>4 DEF TypeOK, LogRecords
<1>6. \A q \in Procs : ~InCall(q)' /\ ~Commits(q)'
  BY <1>2, <1>4 DEF InCall, Commits
<1>7. OpenCalls' = OpenCalls
  BY <1>2, <1>6 DEF OpenCalls
<1>8. Counted' /\ OneCommits' /\ Booting' /\ LogEmpty'
  BY <1>1, <1>2, <1>3, <1>6, <1>7 DEF Counted, OneCommits, Booting, LogEmpty
<1>9. Locals'
  <2>1. \A q \in Procs : loc[q].wrote = {}
    BY <1>2 DEF Locals, LocalOK
  <2>2. \A q \in Procs : /\ pc'[q] = "logging" <=> pc[q] = "logging"
                         /\ pc'[q] \notin {"write_log", "install"}
                         /\ pc[q] \notin {"write_log", "install"}
    BY <1>1, <1>2, <1>4, <1>6 DEF Commits, InCall
  <2> QED BY <1>1, <1>6, <2>1, <2>2 DEF Locals, LocalOK
<1>10. Header' /\ LogOnce' /\ PinnedWhileLogged'
  <2>1. \A q \in Procs : pc[q] # "install" /\ pc'[q] # "install"
    BY <1>1, <1>2, <1>6 DEF Commits
  <2> QED BY <1>1, <1>2, <1>3, <2>1, QuietStep
<1>11. Room'
  <2>1. Len(log'.lh) = 0
    BY <1>3
  <2> QED BY <1>1, <1>2, <1>7, <2>1, EmptyRoom DEF Room
<1> QED BY <1>1, <1>5, <1>8, <1>9, <1>10, <1>11

-----------------------------------------------------------------------------
(* A crash, and recovery.                                                   *)

(* No process runs and none has run since the machine started.              *)
LEMMA Fresh ==
    ASSUME pc' = [q \in Procs |-> "idle"], loc' = [q \in Procs |-> NoLoc],
           log'.outstanding = 0, ~log'.committing
    PROVE  /\ OpenCalls' = {} /\ \A q \in Procs : ~InCall(q)' /\ ~Commits(q)'
           /\ Counted' /\ OneCommits' /\ Locals'
           /\ pc' \in [Procs -> Places] /\ loc' \in [Procs -> Locs]
<1>1. \A q \in Procs : pc'[q] = "idle" /\ loc'[q] = NoLoc
  OBVIOUS
<1>2. \A q \in Procs : ~InCall(q)' /\ ~Commits(q)'
  BY <1>1 DEF InCall, Commits
<1>3. OpenCalls' = {}
  BY <1>2 DEF OpenCalls
<1>4. Counted' /\ OneCommits'
  BY <1>2, <1>3, FS_EmptySet DEF Counted, OneCommits
<1>5. Locals'
  BY <1>1, EmptyLocals DEF Locals
<1>6. pc' \in [Procs -> Places] /\ loc' \in [Procs -> Locs]
  BY DEF Places, Locs, NoLoc
<1> QED BY <1>2, <1>3, <1>4, <1>5, <1>6

LEMMA CrashStep ==
    ASSUME IInv, Crash
    PROVE  IInv'
<1> USE DEF IInv
<1>1. /\ cache' = disk.home /\ dirty' = {} /\ panic' = "none" /\ disk' = disk
      /\ log'.lh = <<>> /\ log'.outstanding = 0 /\ ~log'.committing /\ log' \in LogRecords
      /\ boot' = [at |-> "read_head", tail |-> 0]
      /\ pc' = [q \in Procs |-> "idle"] /\ loc' = [q \in Procs |-> NoLoc]
  BY DEF Crash, NoLog, LogRecords
<1>2. TypeOK'
  BY <1>1, Fresh DEF TypeOK, LogRecords, Locs
<1>3. Booting' /\ LogEmpty' /\ Header' /\ PinnedWhileLogged'
  BY <1>1 DEF Booting, LogEmpty, Header, PinnedWhileLogged, Up
<1>4. LogOnce'
  BY <1>1 DEF LogOnce, Once
<1>5. Room'
  <2>1. Len(log'.lh) = 0 /\ OpenCalls' = {}
    BY <1>1, Fresh
  <2> QED BY <1>1, <2>1, EmptyRoom DEF Room
<1> QED BY <1>1, <1>2, <1>3, <1>4, <1>5, Fresh

(* What recovery leaves alone.                                              *)
LEMMA BootFacts ==
    ASSUME IInv, boot.at # "up"
    PROVE  /\ OpenCalls = {} /\ log.outstanding = 0 /\ ~log.committing
           /\ \A q \in Procs : pc[q] = "idle" /\ loc[q] = NoLoc
           /\ Reserved = {} /\ dirty = {}
<1>1. \A q \in Procs : pc[q] = "idle" /\ loc[q] = NoLoc
  BY DEF IInv, Booting
<1>2. OpenCalls = {} /\ Reserved = {}
  BY <1>1 DEF OpenCalls, Reserved, InCall
<1>3. log.outstanding = 0 /\ ~log.committing
  BY <1>1, <1>2, FS_EmptySet DEF IInv, Counted, OneCommits, Commits
<1>4. dirty = {}
  BY DEF IInv, Booting
<1> QED BY <1>1, <1>2, <1>3, <1>4

LEMMA ReadHeadStep ==
    ASSUME IInv, ReadHead
    PROVE  IInv'
<1> USE DEF IInv
<1>1. /\ boot.at = "read_head" /\ boot.tail = 0
      /\ log' = [log EXCEPT !.lh = disk.head] /\ boot' = [boot EXCEPT !.at = "install"]
      /\ UNCHANGED <<disk, cache, dirty, pc, loc, panic>>
  BY DEF ReadHead, Booting
<1>2. /\ log'.lh = disk.head /\ log'.outstanding = log.outstanding
      /\ log'.committing = log.committing /\ log' \in LogRecords
  <2>1. log \in LogRecords /\ disk.head \in Seq(Blocks)
    BY DEF TypeOK, LogRecords
  <2> QED BY <1>1, <2>1, LogRecordTypes DEF LogRecords
<1>3. boot' \in [at : {"read_head", "install", "up"}, tail : Nat] /\ boot'.at = "install"
  BY <1>1 DEF TypeOK
<1>4. TypeOK'
  BY <1>1, <1>2, <1>3 DEF TypeOK, LogRecords
<1>5. OpenCalls' = OpenCalls /\ Reserved' = Reserved
  BY <1>1, SameCalls DEF InCall
<1>6. Counted' /\ OneCommits'
  BY <1>1, <1>2, <1>5 DEF Counted, OneCommits, Commits, InCall
<1>7. Booting' /\ LogEmpty' /\ Header' /\ PinnedWhileLogged'
  BY <1>1, <1>2, <1>3, BootFacts DEF Booting, LogEmpty, Header, PinnedWhileLogged, Up
<1>8. Locals'
  BY <1>1, BootFacts, EmptyLocals DEF Locals
<1>9. LogOnce'
  BY <1>1, <1>2 DEF LogOnce, Once
<1>10. Room'
  <2>1. Len(disk.head) \in Nat
    BY DEF TypeOK
  <2>2. Reserved = {}
    BY <1>1, BootFacts
  <2>3. Cardinality(Reserved) = 0
    BY <2>2, FS_EmptySet
  <2> QED BY <1>1, <1>2, <1>5, <2>1, <2>3 DEF Room, Fits
<1> QED BY <1>1, <1>4, <1>6, <1>7, <1>8, <1>9, <1>10

LEMMA RecoverInstallStep ==
    ASSUME IInv, RecoverInstall
    PROVE  IInv'
<1> DEFINE t == boot.tail
           b == log.lh[t + 1]
           v == disk.slot[t]
<1> USE DEF IInv
<1>1. /\ boot.at = "install" /\ t < Len(log.lh) /\ InstallBlock(t)
      /\ boot' = [boot EXCEPT !.tail = t + 1] /\ UNCHANGED <<log, pc, loc, panic>>
  BY DEF RecoverInstall
<1>2. t \in Nat /\ t \in Slots /\ b \in Blocks /\ v \in Values
  <2>1. t \in Nat /\ Len(log.lh) \in Nat /\ log.lh \in Seq(Blocks)
    BY DEF TypeOK
  <2>2. Len(log.lh) <= LogBlocks - 2
    BY <2>1, ReservedFinite, LogAssumption DEF Room, Fits
  <2>3. t \in Slots /\ t + 1 \in 1 .. Len(log.lh)
    BY <1>1, <2>1, <2>2, LogAssumption DEF Slots
  <2> QED BY <2>1, <2>3 DEF TypeOK
<1>3. /\ disk' = [disk EXCEPT !.home[b] = v] /\ cache' = [cache EXCEPT ![b] = v]
      /\ dirty' = {}
  BY <1>1, <1>2, BootFacts DEF InstallBlock, ReadSlot
<1>4. disk' \in Disks /\ disk'.head = disk.head
  <2>1. disk \in Disks
    BY DEF TypeOK, Disks
  <2> QED BY <1>2, <1>3, <2>1, DiskTypes DEF Disks
<1>5. /\ boot' \in [at : {"read_head", "install", "up"}, tail : Nat] /\ boot'.at = "install"
  <2>1. boot \in [at : {"read_head", "install", "up"}, tail : Nat] /\ t + 1 \in Nat
    BY <1>2 DEF TypeOK
  <2> QED BY <1>1, <2>1
<1>6. TypeOK'
  BY <1>1, <1>2, <1>3, <1>4, <1>5 DEF TypeOK, Disks
<1>7. OpenCalls' = OpenCalls /\ Reserved' = Reserved
  BY <1>1, SameCalls DEF InCall
<1>8. Counted' /\ OneCommits' /\ Room' /\ LogOnce'
  BY <1>1, <1>4, <1>7 DEF Counted, OneCommits, Commits, InCall, Room, LogOnce, Once
<1>9. Booting' /\ LogEmpty' /\ Header' /\ PinnedWhileLogged'
  BY <1>1, <1>3, <1>4, <1>5, BootFacts DEF Booting, LogEmpty, Header, PinnedWhileLogged, Up
<1>10. Locals'
  BY <1>1, BootFacts, EmptyLocals DEF Locals
<1> QED BY <1>1, <1>6, <1>8, <1>9, <1>10

LEMMA RecoverClearStep ==
    ASSUME IInv, RecoverClear
    PROVE  IInv'
<1> USE DEF IInv
<1>1. /\ boot.at = "install"
      /\ log' = [log EXCEPT !.lh = <<>>] /\ disk' = [disk EXCEPT !.head = <<>>]
      /\ boot' = [at |-> "up", tail |-> 0] /\ UNCHANGED <<cache, dirty, pc, loc, panic>>
  BY DEF RecoverClear
<1>2. /\ log'.lh = <<>> /\ log'.outstanding = log.outstanding
      /\ log'.committing = log.committing /\ log' \in LogRecords
  <2>1. log \in LogRecords /\ <<>> \in Seq(Blocks)
    BY DEF TypeOK, LogRecords
  <2> QED BY <1>1, <2>1, LogRecordTypes DEF LogRecords
<1>3. disk' \in Disks /\ disk'.head = <<>>
  <2>1. disk \in Disks /\ <<>> \in Seq(Blocks)
    BY DEF TypeOK, Disks
  <2> QED BY <1>1, <2>1, DiskTypes DEF Disks
<1>4. TypeOK'
  BY <1>1, <1>2, <1>3 DEF TypeOK, LogRecords, Disks
<1>5. OpenCalls' = OpenCalls
  BY <1>1 DEF OpenCalls, InCall
<1>6. Counted' /\ OneCommits'
  BY <1>1, <1>2, <1>5 DEF Counted, OneCommits, Commits, InCall
<1>7. Booting' /\ LogEmpty' /\ Header'
  BY <1>1, <1>2, <1>3 DEF Booting, LogEmpty, Header
<1>8. Locals'
  BY <1>1, BootFacts, EmptyLocals DEF Locals
<1>9. LogOnce'
  BY <1>2, <1>3 DEF LogOnce, Once
<1>10. Room'
  <2>1. Len(log'.lh) = 0 /\ OpenCalls' = {}
    BY <1>1, <1>2, <1>5, BootFacts
  <2>2. Fits(Len(disk'.head))
    BY <1>3, LogAssumption, CallsFit DEF Fits
  <2> QED BY <2>1, <2>2, EmptyRoom
<1>11. PinnedWhileLogged'
  BY <1>1, <1>2, BootFacts DEF PinnedWhileLogged
<1> QED BY <1>1, <1>4, <1>6, <1>7, <1>8, <1>9, <1>10, <1>11

-----------------------------------------------------------------------------
(* The invariant is inductive.                                              *)

LEMMA InitIInv == Init => IInv
<1> SUFFICES ASSUME Init PROVE IInv
  OBVIOUS
<1>1. /\ disk \in Disks /\ disk.head = <<>> /\ cache = disk.home /\ dirty = {}
      /\ panic = "none" /\ boot = [at |-> "read_head", tail |-> 0]
      /\ pc = [q \in Procs |-> "idle"] /\ loc = [q \in Procs |-> NoLoc] /\ log = NoLog
  BY DEF Init, Disks
<1>2. log.lh = <<>> /\ log.outstanding = 0 /\ ~log.committing /\ log \in LogRecords
  BY <1>1 DEF NoLog, LogRecords
<1>3. \A q \in Procs : pc[q] = "idle" /\ loc[q] = NoLoc /\ ~InCall(q) /\ ~Commits(q)
  BY <1>1 DEF InCall, Commits
<1>4. OpenCalls = {} /\ Reserved = {}
  BY <1>3 DEF OpenCalls, Reserved
<1>5. TypeOK
  BY <1>1, <1>2 DEF TypeOK, Disks, LogRecords, NoLoc, Places
<1>6. Counted /\ OneCommits
  BY <1>2, <1>3, <1>4, FS_EmptySet DEF Counted, OneCommits
<1>7. Booting /\ LogEmpty /\ Header /\ PinnedWhileLogged
  BY <1>1, <1>2, <1>3 DEF Booting, LogEmpty, Header, PinnedWhileLogged, Up
<1>8. LogOnce
  BY <1>1, <1>2 DEF LogOnce, Once
<1>9. Locals
  <2>1. NoLoc.b \notin Blocks /\ NoLoc.tail = 0 /\ NoLoc.wrote = {}
    BY LogAssumption DEF NoLoc
  <2>2. IsFiniteSet({}) /\ Cardinality({}) = 0 /\ 0 <= MaxWrites
    BY FS_EmptySet, LogAssumption
  <2> QED BY <1>3, <2>1, <2>2 DEF Locals, LocalOK
<1>10. Room
  <2>1. Cardinality(Reserved) = 0 /\ Len(log.lh) = 0 /\ Len(disk.head) = 0
    BY <1>1, <1>2, <1>4, FS_EmptySet
  <2>2. LogBlocks - 2 >= 0 /\ LOGSIZE > 0 /\ LogBlocks \in Nat /\ LOGSIZE \in Nat
    BY LogAssumption, CallsFit
  <2> QED BY <2>1, <2>2 DEF Room, Fits
<1> QED BY <1>1, <1>5, <1>6, <1>7, <1>8, <1>9, <1>10 DEF IInv

LEMMA NextIInv == IInv /\ [Next]_vars => IInv'
<1> SUFFICES ASSUME IInv, [Next]_vars PROVE IInv'
  OBVIOUS
<1>1. ASSUME NEW p \in Procs,
             \/ BeginOp(p) \/ LogWrite(p) \/ EndOp(p)
             \/ WriteLog(p) \/ WriteHead(p) \/ Install(p) \/ ClearHead(p) \/ EndCommit(p)
      PROVE  IInv'
  BY <1>1, BeginOpStep, LogWriteStep, EndOpStep, WriteLogStep, WriteHeadStep,
     InstallStep, ClearHeadStep, EndCommitStep
<1>2. ASSUME NEW p \in Procs, NEW b \in Blocks, NEW v \in Values, Modify(p, b, v)
      PROVE  IInv'
  BY <1>2, ModifyStep
<1>3. ASSUME NEW b \in Blocks, Evict(b) PROVE IInv'
  BY <1>3, EvictStep
<1>4. CASE Crash \/ ReadHead \/ RecoverInstall \/ RecoverClear
  BY <1>4, CrashStep, ReadHeadStep, RecoverInstallStep, RecoverClearStep
<1>5. CASE UNCHANGED vars
  BY <1>5 DEF vars, IInv, TypeOK, Counted, OpenCalls, OneCommits, Booting, Locals, LocalOK,
     LogEmpty, Header, LogOnce, Once, Room, Reserved, PinnedWhileLogged, Up, Logged,
     InCall, Commits
<1> QED BY <1>1, <1>2, <1>3, <1>4, <1>5 DEF Next

LEMMA IInvHolds == Spec => []IInv
BY InitIInv, NextIInv, PTL DEF Spec

-----------------------------------------------------------------------------
(* Theorems.                                                                *)

(* Every variable keeps its type, whatever calls, crashes and recoveries    *)
(* interleave.                                                              *)
THEOREM TypeCorrect == Spec => []TypeOK
<1>1. IInv => TypeOK
  BY DEF IInv
<1> QED BY <1>1, IInvHolds, PTL

(* begin_op admits only calls whose writes fit: log_write never panics, and *)
(* commit never writes past the end of the log on disk.                     *)
THEOREM RoomCorrect == Spec => []LogHasRoom
<1>1. IInv => LogHasRoom
  <2> SUFFICES ASSUME IInv PROVE LogHasRoom
    OBVIOUS
  <2>1. Len(log.lh) \in Nat /\ Len(disk.head) \in Nat
    BY DEF IInv, TypeOK
  <2> QED BY <2>1, ReservedFinite, LogAssumption DEF IInv, Room, Fits, LogHasRoom
<1> QED BY <1>1, IInvHolds, PTL

(* A buffer stays pinned exactly from log_write to the installation of its  *)
(* block.                                                                   *)
THEOREM PinnedCorrect == Spec => []PinnedWhileLogged
<1>1. IInv => PinnedWhileLogged
  BY DEF IInv
<1> QED BY <1>1, IInvHolds, PTL

-----------------------------------------------------------------------------
(***************************************************************************)
(* The refinement of AtomicDisk: what the disk and the cache hold.          *)
(***************************************************************************)

Held(b) == \E p \in Procs : loc[p].b = b

(* A buffer nobody uses and the log has not pinned is what the disk has.    *)
Clean == \A b \in Blocks : b \notin dirty /\ ~Held(b) => cache[b] = disk.home[b]

(* The log on disk has what the cache has, as far as write_log has come;    *)
(* recovery has copied it home as far as it has come.                       *)
CopiedTo(n) == \A i \in 1 .. n : disk.slot[i - 1] = cache[log.lh[i]]
Copied == \A p \in Procs :
    /\ pc[p] = "write_log" => CopiedTo(loc[p].tail)
    /\ pc[p] = "install"   => CopiedTo(Len(log.lh))
Replayed == boot.at = "install" =>
    boot.tail <= Len(log.lh) /\ \A i \in 1 .. boot.tail : disk.home[log.lh[i]] = disk.slot[i - 1]

DInv == IInv /\ Clean /\ Copied /\ Replayed

Mem     == IF boot.at = "up" THEN cache ELSE Recovered
AbsStep == [Atomic!Next]_(Atomic!vars)

LEMMA Stutter ==
    ASSUME Recovered' = Recovered, Mem' = Mem, OpenCalls' = OpenCalls
    PROVE  AbsStep
BY DEF AbsStep, Atomic!vars, Mem, OpenCalls

LEMMA SameDisk ==
    ASSUME disk' = disk
    PROVE  Recovered' = Recovered
BY DEF Recovered, ReadSlot

(* What recovery would make of each block.                                  *)
RecoveredOK ==
    /\ Recovered = [b \in Blocks |-> Recovered[b]]
    /\ \A i \in DOMAIN disk.head : i - 1 \in Slots /\ Recovered[disk.head[i]] = disk.slot[i - 1]
    /\ \A b \in Blocks :
          (\A i \in DOMAIN disk.head : disk.head[i] # b) => Recovered[b] = disk.home[b]

LEMMA RecoveredAt == IInv => RecoveredOK
<1> SUFFICES ASSUME IInv PROVE RecoveredOK
  OBVIOUS
<1> DEFINE at(b) == {i \in DOMAIN disk.head : disk.head[i] = b}
           val(b) == IF at(b) = {} THEN disk.home[b] ELSE ReadSlot((CHOOSE i \in at(b) : TRUE) - 1)
<1>1. Recovered = [b \in Blocks |-> val(b)]
  BY Zenon DEF Recovered
<1> HIDE DEF val
<1>2. Recovered = [b \in Blocks |-> Recovered[b]]
  BY <1>1
<1>3. ASSUME NEW i \in DOMAIN disk.head
      PROVE  i - 1 \in Slots /\ Recovered[disk.head[i]] = disk.slot[i - 1]
  <2>1. /\ disk.head \in Seq(Blocks) /\ Len(disk.head) \in Nat /\ i \in 1 .. Len(disk.head)
        /\ disk.head[i] \in Blocks
    BY <1>3 DEF IInv, TypeOK
  <2>2. Len(disk.head) <= LogBlocks - 2
    BY DEF IInv, Room, Fits
  <2>3. i - 1 \in Slots
    BY <2>1, <2>2, LogAssumption DEF Slots
  <2>4. at(disk.head[i]) = {i}
    BY <1>3 DEF IInv, LogOnce, Once
  <2>5. val(disk.head[i]) = ReadSlot(i - 1)
    BY <2>4 DEF val
  <2> QED BY <1>1, <2>1, <2>3, <2>5 DEF ReadSlot
<1>4. ASSUME NEW b \in Blocks, \A i \in DOMAIN disk.head : disk.head[i] # b
      PROVE  Recovered[b] = disk.home[b]
  <2>1. at(b) = {}
    BY <1>4
  <2> QED BY <1>1, <2>1 DEF val
<1> QED BY <1>2, <1>3, <1>4 DEF RecoveredOK

LEMMA EmptyHead == IInv /\ disk.head = <<>> => Recovered = disk.home
<1> SUFFICES ASSUME IInv, disk.head = <<>> PROVE Recovered = disk.home
  OBVIOUS
<1>1. \A b \in Blocks : Recovered[b] = disk.home[b]
  BY RecoveredAt DEF RecoveredOK
<1>2. disk.home = [b \in Blocks |-> disk.home[b]]
  BY DEF IInv, TypeOK
<1> QED BY <1>1, <1>2, RecoveredAt DEF RecoveredOK

(* The same after a step.                                                   *)
LEMMA RecoveredNext == IInv' => RecoveredOK'
BY RecoveredAt, PTL

LEMMA EmptyHeadNext == (IInv /\ disk.head = <<>>)' => (Recovered = disk.home)'
BY EmptyHead, PTL

(* Only a process between its bread and log_write has a buffer.             *)
LEMMA HeldFacts ==
    ASSUME IInv
    PROVE  /\ \A p \in Procs : pc[p] # "logging" => loc[p].b \notin Blocks
           /\ boot.at # "up" \/ log.committing => \A b \in Blocks : ~Held(b)
<1>1. \A p \in Procs : pc[p] # "logging" => loc[p].b \notin Blocks
  BY DEF IInv, Locals, LocalOK
<1>2. boot.at # "up" \/ log.committing => \A p \in Procs : pc[p] # "logging"
  BY DEF IInv, Booting, OneCommits, InCall
<1> QED BY <1>1, <1>2 DEF Held

-----------------------------------------------------------------------------
(* Every action keeps what the disk and the cache hold, and is a step of    *)
(* AtomicDisk or none.                                                      *)

DiskInv == Clean /\ Copied /\ Replayed

(* A step of a running machine that touches neither the disk nor the cache, *)
(* and neither starts nor goes on with a commit.                            *)
LEMMA QuietDisk ==
    ASSUME DInv, boot.at = "up", boot' = boot, UNCHANGED <<disk, cache>>,
           \A b \in Blocks : b \notin dirty' /\ ~Held(b)' => b \notin dirty /\ ~Held(b),
           \A q \in Procs : pc'[q] \notin {"write_log", "install"}
    PROVE  DiskInv' /\ Recovered' = Recovered /\ Mem' = Mem
<1>1. Clean'
  BY DEF DInv, Clean
<1>2. Copied' /\ Replayed'
  BY DEF Copied, Replayed
<1>3. Recovered' = Recovered /\ Mem' = Mem
  BY SameDisk DEF Mem
<1> QED BY <1>1, <1>2, <1>3 DEF DiskInv

(* When no group is in progress the disk is what calls see.                 *)
LEMMA AtRest ==
    ASSUME DInv, boot.at = "up", OpenCalls = {}, ~log.committing
    PROVE  Recovered = cache
<1> USE DEF DInv
<1>1. log.lh = <<>> /\ \A q \in Procs : ~InCall(q) /\ ~Commits(q)
  BY DEF IInv, LogEmpty, OpenCalls, OneCommits
<1>2. dirty = {}
  BY <1>1 DEF IInv, PinnedWhileLogged, Up, TypeOK
<1>3. \A b \in Blocks : ~Held(b)
  BY <1>1, HeldFacts DEF Held, InCall
<1>4. \A b \in Blocks : cache[b] = disk.home[b]
  BY <1>2, <1>3 DEF Clean
<1>5. disk.head = <<>>
  BY <1>1 DEF IInv, Header, Commits
<1>6. cache = disk.home
  <2>1. cache \in [Blocks -> Values] /\ disk.home \in [Blocks -> Values]
    BY DEF IInv, TypeOK
  <2> QED BY <1>4, <2>1
<1> QED BY <1>5, <1>6, EmptyHead

LEMMA BeginOpDisk ==
    ASSUME DInv, NEW p \in Procs, BeginOp(p)
    PROVE  DiskInv' /\ AbsStep
<1> USE DEF DInv
<1>1. /\ pc[p] \in {"idle", "begin"} /\ boot.at = "up"
      /\ pc'[p] \in {"asleep", "op"} /\ \A q \in Procs : q # p => pc'[q] = pc[q]
      /\ UNCHANGED <<disk, cache, dirty, boot, loc, panic>>
  BY DEF BeginOp, At, Up, Goes, IInv, TypeOK
<1>2. CASE pc'[p] = "asleep"
  <2>1. OpenCalls' = OpenCalls
    BY <1>1, <1>2 DEF OpenCalls, InCall
  <2>2. DiskInv'
    BY <1>1, <1>2, SameDisk
       DEF DiskInv, Clean, Held, Copied, CopiedTo, Replayed, BeginOp, Goes, IInv, TypeOK
  <2>3. Recovered' = Recovered /\ Mem' = Mem
    BY <1>1, SameDisk DEF Mem
  <2> QED BY <2>1, <2>2, <2>3, Stutter
<1>3. CASE pc'[p] = "op"
  <2>1. ~log.committing /\ ~Full
    BY <1>3 DEF BeginOp, Goes, IInv, TypeOK
  <2>2. \A q \in Procs : pc'[q] \notin {"write_log", "install"}
    BY <1>1, <2>1 DEF IInv, OneCommits, Commits
  <2>3. DiskInv' /\ Recovered' = Recovered /\ Mem' = Mem
    BY <1>1, <2>2, QuietDisk DEF Held
  <2>4. OpenCalls' = OpenCalls \union {p} /\ p \notin OpenCalls
    BY <1>1, <1>3 DEF OpenCalls, InCall
  <2>5. OpenCalls # {} \/ Recovered = Mem
    BY <1>1, <2>1, AtRest DEF Mem
  <2>6. Atomic!Begin(p)
    BY <2>3, <2>4, <2>5 DEF Atomic!Begin, Mem, OpenCalls
  <2> QED BY <2>3, <2>6 DEF AbsStep, Atomic!Next
<1> QED BY <1>1, <1>2, <1>3

LEMMA ModifyDisk ==
    ASSUME DInv, NEW p \in Procs, NEW b \in Blocks, NEW v \in Values, Modify(p, b, v)
    PROVE  DiskInv' /\ AbsStep
<1> USE DEF DInv
<1>1. /\ pc[p] = "op" /\ InCall(p) /\ UNCHANGED <<disk, dirty, log, boot>>
      /\ cache' = [cache EXCEPT ![b] = v]
  BY DEF Modify, At, InCall
<1>2. boot.at = "up" /\ p \in OpenCalls /\ ~log.committing /\ \A q \in Procs : ~Commits(q)
  BY <1>1, CallFacts
<1>3. panic' = "none"
  BY ModifyStep DEF IInv
<1>4. pc' = [pc EXCEPT ![p] = "logging"] /\ loc' = [loc EXCEPT ![p].b = b]
  BY <1>3 DEF Modify, Goes
<1>5. /\ pc'[p] = "logging" /\ loc'[p].b = b
      /\ \A q \in Procs : q # p => pc'[q] = pc[q] /\ loc'[q] = loc[q]
  BY <1>4 DEF IInv, TypeOK
<1>6. Clean'
  <2> SUFFICES ASSUME NEW c \in Blocks, c \notin dirty', ~Held(c)'
               PROVE  cache'[c] = disk'.home[c]
    BY DEF Clean
  <2>1. c # b
    BY <1>5 DEF Held
  <2>2. ~Held(c)
    <3>1. loc[p].b # c
      BY <1>1, HeldFacts
    <3> QED BY <1>5, <3>1 DEF Held
  <2> QED BY <1>1, <2>1, <2>2 DEF Clean, IInv, TypeOK
<1>7. Copied' /\ Replayed'
  BY <1>1, <1>2, <1>5 DEF Copied, Replayed, Commits
<1>8. Recovered' = Recovered /\ OpenCalls' = OpenCalls
  BY <1>1, <1>5, SameDisk DEF OpenCalls, InCall
<1>9. Mem = cache /\ Mem' = cache'
  BY <1>1, <1>2 DEF Mem
<1>10. Atomic!Write(p)
  BY <1>1, <1>2, <1>8, <1>9 DEF Atomic!Write, Mem, OpenCalls
<1> QED BY <1>6, <1>7, <1>10 DEF DiskInv, AbsStep, Atomic!Next

LEMMA LogWriteDisk ==
    ASSUME DInv, NEW p \in Procs, LogWrite(p)
    PROVE  DiskInv' /\ AbsStep
<1> DEFINE b == loc[p].b
<1> USE DEF DInv
<1>1. /\ pc[p] = "logging" /\ InCall(p)
      /\ UNCHANGED <<disk, cache, boot>> /\ dirty' = dirty \union {b}
      /\ pc' = [pc EXCEPT ![p] = "op"]
      /\ loc' = [loc EXCEPT ![p].b = NoBlock, ![p].wrote = @ \union {b}]
  BY DEF LogWrite, At, InCall, Goes
<1>2. boot.at = "up" /\ \A q \in Procs : ~Commits(q)
  BY <1>1, CallFacts
<1>3. /\ pc'[p] = "op"
      /\ \A q \in Procs : q # p => pc'[q] = pc[q] /\ loc'[q] = loc[q]
  BY <1>1 DEF IInv, TypeOK
<1>4. \A q \in Procs : pc'[q] \notin {"write_log", "install"}
  BY <1>2, <1>3 DEF Commits
<1>5. ASSUME NEW c \in Blocks, c \notin dirty', ~Held(c)'
      PROVE  c \notin dirty /\ ~Held(c)
  BY <1>1, <1>3, <1>5 DEF Held
<1>6. OpenCalls' = OpenCalls
  BY <1>1, <1>3 DEF OpenCalls, InCall
<1> QED BY <1>1, <1>2, <1>4, <1>5, <1>6, QuietDisk, Stutter

(* A buffer that bget may recycle is what the disk has: reading the block   *)
(* again changes nothing.                                                   *)
LEMMA EvictDisk ==
    ASSUME DInv, NEW b \in Blocks, Evict(b)
    PROVE  DiskInv' /\ AbsStep
<1> USE DEF DInv
<1>1. /\ b \notin dirty /\ ~Held(b) /\ cache' = [cache EXCEPT ![b] = disk.home[b]]
      /\ UNCHANGED <<disk, dirty, log, boot, pc, loc, panic>>
  BY DEF Evict, Held
<1>2. cache' = cache
  BY <1>1 DEF Clean, IInv, TypeOK
<1>3. DiskInv'
  BY <1>1, <1>2 DEF DiskInv, Clean, Held, Copied, CopiedTo, Replayed
<1>4. OpenCalls' = OpenCalls /\ Recovered' = Recovered /\ Mem' = Mem
  BY <1>1, <1>2, SameDisk DEF OpenCalls, InCall, Mem
<1> QED BY <1>3, <1>4, Stutter

LEMMA EndOpDisk ==
    ASSUME DInv, NEW p \in Procs, EndOp(p)
    PROVE  DiskInv' /\ AbsStep
<1> USE DEF DInv
<1>1. pc[p] = "op" /\ InCall(p)
  BY DEF EndOp, At, InCall
<1>2. /\ boot.at = "up" /\ ~log.committing /\ p \in OpenCalls
      /\ \A q \in Procs : ~Commits(q)
  BY <1>1, CallFacts
<1>3. /\ UNCHANGED <<disk, cache, dirty, boot>> /\ loc' = [loc EXCEPT ![p] = NoLoc]
      /\ pc' = IF log.outstanding # 1 THEN Woken([pc EXCEPT ![p] = "idle"])
               ELSE [pc EXCEPT ![p] = IF log.lh = <<>> THEN "done" ELSE "write_log"]
  BY <1>2 DEF EndOp
<1>4. loc'[p] = NoLoc /\ \A q \in Procs : q # p => loc'[q] = loc[q]
  BY <1>3 DEF IInv, TypeOK
<1>5. /\ pc'[p] \in {"idle", "done", "write_log"}
      /\ \A q \in Procs :
            q # p => pc'[q] = pc[q] \/ (pc[q] = "asleep" /\ pc'[q] = "begin")
  BY <1>3 DEF Woken, IInv, TypeOK
<1>6. OpenCalls' = OpenCalls \ {p}
  BY <1>5 DEF OpenCalls, InCall
<1>7. Clean'
  <2>1. NoLoc.b \notin Blocks
    BY LogAssumption DEF NoLoc
  <2>2. loc[p].b \notin Blocks
    BY <1>1, HeldFacts
  <2> QED BY <1>3, <1>4, <2>1, <2>2 DEF Clean, Held
<1>8. Copied' /\ Replayed'
  <2>1. \A q \in Procs : q # p => pc'[q] \notin {"write_log", "install"}
    BY <1>2, <1>5 DEF Commits
  <2>2. CopiedTo(loc[p].tail)'
    BY <1>4 DEF CopiedTo, NoLoc
  <2> QED BY <1>2, <1>3, <1>5, <2>1, <2>2 DEF Copied, Replayed
<1>9. Recovered' = Recovered /\ Mem' = Mem
  BY <1>3, SameDisk DEF Mem
<1>10. Atomic!End(p)
  BY <1>2, <1>6, <1>9 DEF Atomic!End, Mem, OpenCalls
<1> QED BY <1>7, <1>8, <1>10 DEF DiskInv, AbsStep, Atomic!Next

LEMMA WriteLogDisk ==
    ASSUME DInv, NEW p \in Procs, WriteLog(p)
    PROVE  DiskInv' /\ AbsStep
<1> DEFINE t == loc[p].tail
           v == cache[log.lh[t + 1]]
<1> USE DEF DInv
<1>1. /\ pc[p] = "write_log" /\ Commits(p) /\ t < Len(log.lh) /\ t \in Nat /\ Len(log.lh) \in Nat
      /\ WriteSlot(t, v) /\ loc' = [loc EXCEPT ![p].tail = t + 1]
      /\ UNCHANGED <<cache, dirty, log, boot, pc>>
  BY DEF WriteLog, At, Commits, IInv, TypeOK
<1>2. /\ boot.at = "up" /\ log.committing
      /\ \A q \in Procs : q # p => ~Commits(q)
  BY <1>1, CommitFacts
<1>3. t \in Slots
  BY <1>1, CommitFacts, LogAssumption DEF Slots
<1>4. disk' = [disk EXCEPT !.slot[t] = v]
  BY <1>1, <1>3 DEF WriteSlot
<1>5. /\ disk'.home = disk.home /\ disk'.head = disk.head /\ disk'.slot[t] = v
      /\ \A i \in Nat : i # t => disk'.slot[i] = disk.slot[i]
  BY <1>3, <1>4 DEF IInv, TypeOK
<1>6. /\ loc'[p].tail = t + 1 /\ loc'[p].b = loc[p].b
      /\ \A q \in Procs : q # p => loc'[q] = loc[q]
  BY <1>1 DEF IInv, TypeOK
<1>7. Clean'
  BY <1>1, <1>5, <1>6 DEF Clean, Held
<1>8. Copied' /\ Replayed'
  <2>1. CopiedTo(loc[p].tail)
    BY <1>1 DEF Copied
  <2>2. ASSUME NEW i \in 1 .. t + 1
        PROVE  disk'.slot[i - 1] = cache[log.lh[i]]
    <3>1. CASE i = t + 1
      BY <1>1, <1>5, <3>1
    <3>2. CASE i # t + 1
      <4>1. i \in 1 .. t /\ i - 1 \in Nat /\ i - 1 # t
        BY <1>1, <3>2
      <4> QED BY <1>5, <2>1, <4>1 DEF CopiedTo
    <3> QED BY <3>1, <3>2
  <2>3. CopiedTo(loc[p].tail)'
    BY <1>1, <1>6, <2>2 DEF CopiedTo
  <2>4. \A q \in Procs : q # p => pc'[q] \notin {"write_log", "install"}
    BY <1>1, <1>2 DEF Commits
  <2> QED BY <1>1, <1>2, <2>3, <2>4 DEF Copied, Replayed
<1>9. Recovered' = Recovered
  <2>1. disk.head = <<>>
    BY <1>1, <1>2 DEF IInv, Header, Commits
  <2>2. IInv'
    BY WriteLogStep
  <2>3. Recovered' = disk'.home
    BY <1>5, <2>1, <2>2, EmptyHeadNext
  <2> QED BY <1>5, <2>1, <2>3, EmptyHead
<1>10. OpenCalls' = OpenCalls /\ Mem' = Mem
  BY <1>1, <1>2 DEF OpenCalls, InCall, Mem
<1> QED BY <1>7, <1>8, <1>9, <1>10, Stutter DEF DiskInv

(* The true commit: what recovery would make of the disk becomes what the   *)
(* calls of the group wrote.                                                *)
LEMMA WriteHeadDisk ==
    ASSUME DInv, NEW p \in Procs, WriteHead(p)
    PROVE  DiskInv' /\ AbsStep
<1> USE DEF DInv
<1>1. /\ pc[p] = "write_log" /\ Commits(p) /\ loc[p].tail = Len(log.lh)
      /\ disk' = [disk EXCEPT !.head = log.lh]
      /\ pc' = [pc EXCEPT ![p] = "install"] /\ loc' = [loc EXCEPT ![p].tail = 0]
      /\ UNCHANGED <<cache, dirty, log, boot>>
  BY DEF WriteHead, At, Commits, Goes
<1>2. /\ boot.at = "up" /\ log.committing /\ OpenCalls = {}
      /\ \A q \in Procs : ~InCall(q) /\ (q # p => ~Commits(q))
  BY <1>1, CommitFacts
<1>3. disk'.home = disk.home /\ disk'.slot = disk.slot /\ disk'.head = log.lh
  BY <1>1 DEF IInv, TypeOK
<1>4. /\ pc'[p] = "install" /\ loc'[p].b = loc[p].b
      /\ \A q \in Procs : q # p => loc'[q] = loc[q] /\ pc'[q] = pc[q]
  BY <1>1 DEF IInv, TypeOK
<1>5. CopiedTo(Len(log.lh))
  BY <1>1 DEF Copied
<1>6. DiskInv'
  <2>1. Clean'
    BY <1>1, <1>3, <1>4 DEF Clean, Held
  <2>2. Copied'
    BY <1>1, <1>2, <1>3, <1>4, <1>5 DEF Copied, CopiedTo, Commits
  <2>3. Replayed'
    BY <1>1, <1>2 DEF Replayed
  <2> QED BY <2>1, <2>2, <2>3 DEF DiskInv
<1>7. Recovered' = cache
  <2>1. IInv'
    BY WriteHeadStep
  <2>2. /\ Recovered' = [b \in Blocks |-> Recovered'[b]]
        /\ \A i \in DOMAIN log.lh : Recovered'[log.lh[i]] = disk.slot[i - 1]
        /\ \A b \in Blocks :
              (\A i \in DOMAIN log.lh : log.lh[i] # b) => Recovered'[b] = disk.home[b]
    BY <1>3, <2>1, RecoveredNext DEF RecoveredOK
  <2>3. \A i \in DOMAIN log.lh : Recovered'[log.lh[i]] = cache[log.lh[i]]
    <3>1. log.lh \in Seq(Blocks)
      BY DEF IInv, TypeOK
    <3>2. \A i \in DOMAIN log.lh : i \in 1 .. Len(log.lh)
      BY <3>1
    <3> QED BY <1>5, <2>2, <3>2 DEF CopiedTo
  <2>4. ASSUME NEW b \in Blocks, \A i \in DOMAIN log.lh : log.lh[i] # b
        PROVE  Recovered'[b] = cache[b]
    <3>1. b \notin dirty
      BY <1>2, <2>4 DEF IInv, PinnedWhileLogged, Up
    <3>2. ~Held(b)
      BY <1>2, HeldFacts
    <3> QED BY <2>2, <2>4, <3>1, <3>2 DEF Clean
  <2>5. \A b \in Blocks : Recovered'[b] = cache[b]
    BY <2>3, <2>4
  <2>6. cache = [b \in Blocks |-> cache[b]]
    BY DEF IInv, TypeOK
  <2> QED BY <2>2, <2>5, <2>6
<1>8. OpenCalls' = OpenCalls /\ Mem' = cache /\ Mem = cache
  BY <1>1, <1>2, <1>4 DEF OpenCalls, InCall, Mem
<1>9. Atomic!Commit
  BY <1>2, <1>7, <1>8 DEF Atomic!Commit, Mem, OpenCalls
<1> QED BY <1>6, <1>9 DEF AbsStep, Atomic!Next

(* Installing a block the header names, or erasing the header when all are  *)
(* installed, changes nothing that recovery would find.                     *)
LEMMA InstallRecovered ==
    ASSUME IInv, IInv', NEW i \in DOMAIN disk.head,
           disk' = [disk EXCEPT !.home[disk.head[i]] = disk.slot[i - 1]]
    PROVE  Recovered' = Recovered
<1>1. /\ disk'.head = disk.head /\ disk'.slot = disk.slot
      /\ \A b \in Blocks : b # disk.head[i] => disk'.home[b] = disk.home[b]
  BY DEF IInv, TypeOK
<1>2. ASSUME NEW b \in Blocks PROVE Recovered'[b] = Recovered[b]
  <2>1. CASE \E j \in DOMAIN disk.head : disk.head[j] = b
    BY <1>1, <2>1, RecoveredAt, RecoveredNext DEF RecoveredOK
  <2>2. CASE \A j \in DOMAIN disk.head : disk.head[j] # b
    BY <1>1, <2>2, RecoveredAt, RecoveredNext DEF RecoveredOK
  <2> QED BY <2>1, <2>2
<1> QED BY <1>2, RecoveredAt, RecoveredNext DEF RecoveredOK

LEMMA ClearRecovered ==
    ASSUME IInv, IInv', disk' = [disk EXCEPT !.head = <<>>],
           \A i \in DOMAIN disk.head : disk.home[disk.head[i]] = disk.slot[i - 1]
    PROVE  Recovered' = Recovered /\ Recovered = disk.home
<1>1. disk'.home = disk.home /\ disk'.head = <<>>
  BY DEF IInv, TypeOK
<1>2. \A b \in Blocks : Recovered[b] = disk.home[b]
  BY RecoveredAt DEF RecoveredOK
<1>3. disk.home = [b \in Blocks |-> disk.home[b]]
  BY DEF IInv, TypeOK
<1>4. Recovered = disk.home
  BY <1>2, <1>3, RecoveredAt DEF RecoveredOK
<1>5. Recovered' = disk'.home
  BY <1>1, EmptyHeadNext
<1> QED BY <1>1, <1>4, <1>5

LEMMA InstallDisk ==
    ASSUME DInv, NEW p \in Procs, Install(p)
    PROVE  DiskInv' /\ AbsStep
<1> DEFINE t == loc[p].tail
           b == log.lh[t + 1]
           v == disk.slot[t]
<1> USE DEF DInv
<1>1. /\ pc[p] = "install" /\ Commits(p) /\ t < Len(log.lh) /\ t \in Nat /\ Len(log.lh) \in Nat
      /\ InstallBlock(t) /\ loc' = [loc EXCEPT ![p].tail = t + 1]
      /\ UNCHANGED <<log, boot, pc>>
  BY DEF Install, At, Commits, IInv, TypeOK
<1>2. /\ boot.at = "up" /\ log.committing /\ disk.head = log.lh
      /\ \A q \in Procs : q # p => ~Commits(q)
  BY <1>1, CommitFacts DEF IInv, Header
<1>3. t \in Slots /\ t + 1 \in DOMAIN log.lh /\ b \in Blocks
  <2>1. t \in Slots /\ t + 1 \in 1 .. Len(log.lh)
    BY <1>1, CommitFacts, LogAssumption DEF Slots
  <2> QED BY <2>1 DEF IInv, TypeOK
<1>4. /\ disk' = [disk EXCEPT !.home[b] = v] /\ cache' = [cache EXCEPT ![b] = v]
      /\ dirty' = dirty \ {b}
  BY <1>1, <1>3 DEF InstallBlock, ReadSlot
<1>5. cache' = cache
  <2>1. CopiedTo(Len(log.lh))
    BY <1>1 DEF Copied
  <2>2. v = cache[b]
    <3>1. t + 1 \in 1 .. Len(log.lh) /\ (t + 1) - 1 = t
      BY <1>1
    <3> QED BY <2>1, <3>1 DEF CopiedTo
  <2> QED BY <1>4, <2>2 DEF IInv, TypeOK
<1>6. /\ disk'.slot = disk.slot /\ disk'.home[b] = v
      /\ \A c \in Blocks : c # b => disk'.home[c] = disk.home[c]
  BY <1>3, <1>4 DEF IInv, TypeOK
<1>7. loc'[p].b = loc[p].b /\ \A q \in Procs : q # p => loc'[q] = loc[q]
  BY <1>1 DEF IInv, TypeOK
<1>8. Clean'
  <2> SUFFICES ASSUME NEW c \in Blocks, c \notin dirty', ~Held(c)'
               PROVE  cache'[c] = disk'.home[c]
    BY DEF Clean
  <2>1. ~Held(c)
    BY <1>7 DEF Held
  <2>2. CASE c = b
    BY <1>3, <1>4, <1>6, <2>2 DEF IInv, TypeOK
  <2>3. CASE c # b
    BY <1>4, <1>5, <1>6, <2>1, <2>3 DEF Clean
  <2> QED BY <2>2, <2>3
<1>9. Copied' /\ Replayed'
  BY <1>1, <1>2, <1>5, <1>6, <1>7 DEF Copied, CopiedTo, Replayed
<1>10. Recovered' = Recovered
  <2>1. IInv'
    BY InstallStep
  <2>2. t + 1 \in DOMAIN disk.head /\ (t + 1) - 1 = t
    BY <1>1, <1>2, <1>3
  <2>3. disk' = [disk EXCEPT !.home[disk.head[t + 1]] = disk.slot[(t + 1) - 1]]
    BY <1>2, <1>4, <2>2
  <2> QED BY <2>1, <2>2, <2>3, InstallRecovered
<1>11. OpenCalls' = OpenCalls /\ Mem' = Mem
  BY <1>1, <1>2, <1>5 DEF OpenCalls, InCall, Mem
<1> QED BY <1>8, <1>9, <1>10, <1>11, Stutter DEF DiskInv

LEMMA ClearHeadDisk ==
    ASSUME DInv, NEW p \in Procs, ClearHead(p)
    PROVE  DiskInv' /\ AbsStep
<1> USE DEF DInv
<1>1. /\ pc[p] = "install" /\ Commits(p) /\ loc[p].tail = Len(log.lh)
      /\ disk' = [disk EXCEPT !.head = <<>>]
      /\ pc' = [pc EXCEPT ![p] = "done"] /\ loc' = [loc EXCEPT ![p] = NoLoc]
      /\ UNCHANGED <<cache, dirty, boot>>
  BY DEF ClearHead, At, Commits, Goes
<1>2. /\ boot.at = "up" /\ log.committing /\ disk.head = log.lh
      /\ \A q \in Procs : ~InCall(q) /\ (q # p => ~Commits(q))
  BY <1>1, CommitFacts DEF IInv, Header
<1>3. dirty = {}
  <2>1. \A i \in DOMAIN log.lh : ~(loc[p].tail < i)
    BY <1>1 DEF IInv, TypeOK
  <2> QED BY <1>1, <1>2, <2>1 DEF IInv, PinnedWhileLogged, Up, TypeOK
<1>4. \A b \in Blocks : cache[b] = disk.home[b]
  BY <1>2, <1>3, HeldFacts DEF Clean
<1>5. disk'.home = disk.home
  BY <1>1 DEF IInv, TypeOK
<1>6. \A q \in Procs : pc'[q] \notin {"write_log", "install", "op", "logging"}
  BY <1>1, <1>2 DEF Commits, InCall, IInv, TypeOK
<1>7. DiskInv'
  BY <1>1, <1>2, <1>4, <1>5, <1>6 DEF DiskInv, Clean, Copied, Replayed
<1>8. Recovered' = Recovered
  <2>1. IInv'
    BY ClearHeadStep
  <2>2. \A i \in DOMAIN log.lh : disk.home[log.lh[i]] = disk.slot[i - 1]
    <3>1. log.lh \in Seq(Blocks) /\ CopiedTo(Len(log.lh))
      BY <1>1 DEF Copied, IInv, TypeOK
    <3>2. \A i \in DOMAIN log.lh : i \in 1 .. Len(log.lh) /\ log.lh[i] \in Blocks
      BY <3>1
    <3> QED BY <1>4, <3>1, <3>2 DEF CopiedTo
  <2> QED BY <1>1, <1>2, <2>1, <2>2, ClearRecovered
<1>9. OpenCalls' = OpenCalls
  BY <1>2, <1>6 DEF OpenCalls, InCall
<1>10. Mem' = Mem
  BY <1>1, <1>2 DEF Mem
<1> QED BY <1>7, <1>8, <1>9, <1>10, Stutter

LEMMA EndCommitDisk ==
    ASSUME DInv, NEW p \in Procs, EndCommit(p)
    PROVE  DiskInv' /\ AbsStep
<1> USE DEF DInv
<1>1. /\ pc[p] = "done" /\ Commits(p) /\ pc' = Woken([pc EXCEPT ![p] = "idle"])
      /\ UNCHANGED <<disk, cache, dirty, boot, loc>>
  BY DEF EndCommit, At, Commits
<1>2. /\ boot.at = "up" /\ log.committing /\ OpenCalls = {}
      /\ \A q \in Procs : ~InCall(q) /\ (q # p => ~Commits(q))
  BY <1>1, CommitFacts
<1>3. \A q \in Procs : pc'[q] \notin {"write_log", "install", "op", "logging"}
  BY <1>1, <1>2 DEF Woken, Commits, InCall, IInv, TypeOK
<1>4. DiskInv' /\ Recovered' = Recovered /\ Mem' = Mem
  BY <1>1, <1>2, <1>3, QuietDisk DEF Held
<1>5. OpenCalls' = OpenCalls
  BY <1>2, <1>3 DEF OpenCalls, InCall
<1> QED BY <1>4, <1>5, Stutter

-----------------------------------------------------------------------------
LEMMA CrashDisk ==
    ASSUME DInv, Crash
    PROVE  DiskInv' /\ AbsStep
<1> USE DEF DInv
<1>1. /\ cache' = disk.home /\ disk' = disk /\ boot'.at = "read_head"
      /\ pc' = [q \in Procs |-> "idle"]
  BY DEF Crash
<1>2. DiskInv'
  BY <1>1 DEF DiskInv, Clean, Copied, Replayed
<1>3. OpenCalls' = {}
  BY <1>1 DEF OpenCalls, InCall
<1>4. Recovered' = Recovered /\ Mem' = Recovered'
  BY <1>1, SameDisk DEF Mem
<1>5. Atomic!Crash
  BY <1>3, <1>4 DEF Atomic!Crash, Mem, OpenCalls
<1> QED BY <1>2, <1>5 DEF AbsStep, Atomic!Next

LEMMA ReadHeadDisk ==
    ASSUME DInv, ReadHead
    PROVE  DiskInv' /\ AbsStep
<1> USE DEF DInv
<1>1. /\ boot.at = "read_head" /\ boot.tail = 0 /\ boot'.at = "install" /\ boot'.tail = 0
      /\ log'.lh = disk.head /\ UNCHANGED <<disk, cache, dirty, pc, loc>>
  BY DEF ReadHead, IInv, Booting, TypeOK
<1>2. \A q \in Procs : pc[q] = "idle"
  BY <1>1, BootFacts
<1>3. DiskInv'
  BY <1>1, <1>2 DEF DiskInv, Clean, Held, Copied, Replayed, IInv, TypeOK
<1>4. OpenCalls' = OpenCalls /\ Recovered' = Recovered /\ Mem' = Mem
  BY <1>1, SameDisk DEF OpenCalls, InCall, Mem
<1> QED BY <1>3, <1>4, Stutter

LEMMA RecoverInstallDisk ==
    ASSUME DInv, RecoverInstall
    PROVE  DiskInv' /\ AbsStep
<1> DEFINE t == boot.tail
           b == log.lh[t + 1]
           v == disk.slot[t]
<1> USE DEF DInv
<1>1. /\ boot.at = "install" /\ t < Len(log.lh) /\ t \in Nat /\ Len(log.lh) \in Nat
      /\ InstallBlock(t) /\ log.lh = disk.head
      /\ UNCHANGED <<log, pc, loc>>
  BY DEF RecoverInstall, IInv, Booting, TypeOK
<1>2. t \in Slots /\ t + 1 \in DOMAIN log.lh /\ b \in Blocks /\ log.lh \in Seq(Blocks)
  <2>1. Len(log.lh) <= LogBlocks - 2
    BY <1>1 DEF IInv, Room, Fits
  <2>2. t \in Slots /\ t + 1 \in 1 .. Len(log.lh)
    BY <1>1, <2>1, LogAssumption DEF Slots
  <2> QED BY <2>2 DEF IInv, TypeOK
<1>3. disk' = [disk EXCEPT !.home[b] = v] /\ cache' = [cache EXCEPT ![b] = v]
  BY <1>1, <1>2 DEF InstallBlock, ReadSlot
<1>4. /\ disk'.slot = disk.slot /\ disk'.home[b] = v
      /\ \A c \in Blocks : c # b => disk'.home[c] = disk.home[c]
  BY <1>2, <1>3 DEF IInv, TypeOK
<1>5. boot'.at = "install" /\ boot'.tail = t + 1
  BY <1>1 DEF RecoverInstall, IInv, TypeOK
<1>6. \A c \in Blocks : cache[c] = disk.home[c]
  BY <1>1, BootFacts, HeldFacts DEF Clean
<1>7. Clean'
  BY <1>2, <1>3, <1>4, <1>6 DEF Clean, IInv, TypeOK
<1>8. Copied'
  BY <1>1, BootFacts DEF Copied
<1>9. Replayed'
  <2>1. ASSUME NEW i \in 1 .. t + 1
        PROVE  disk'.home[log.lh[i]] = disk.slot[i - 1]
    <3>1. CASE i = t + 1
      BY <1>1, <1>4, <3>1
    <3>2. CASE i # t + 1
      <4>1. i \in 1 .. t /\ i \in DOMAIN log.lh
        BY <1>1, <1>2, <3>2
      <4>2. log.lh[i] # b /\ log.lh[i] \in Blocks
        BY <1>1, <1>2, <3>2, <4>1 DEF IInv, LogOnce, Once
      <4>3. disk.home[log.lh[i]] = disk.slot[i - 1]
        BY <1>1, <4>1 DEF Replayed
      <4> QED BY <1>4, <4>2, <4>3
    <3> QED BY <3>1, <3>2
  <2> QED BY <1>1, <1>4, <1>5, <2>1 DEF Replayed
<1>10. Recovered' = Recovered
  <2>1. IInv'
    BY RecoverInstallStep
  <2>2. t + 1 \in DOMAIN disk.head /\ (t + 1) - 1 = t
    BY <1>1, <1>2
  <2>3. disk' = [disk EXCEPT !.home[disk.head[t + 1]] = disk.slot[(t + 1) - 1]]
    BY <1>1, <1>3, <2>2
  <2> QED BY <2>1, <2>2, <2>3, InstallRecovered
<1>11. OpenCalls' = OpenCalls /\ Mem' = Mem
  BY <1>1, <1>5, <1>10 DEF OpenCalls, InCall, Mem
<1> QED BY <1>7, <1>8, <1>9, <1>10, <1>11, Stutter DEF DiskInv

LEMMA RecoverClearDisk ==
    ASSUME DInv, RecoverClear
    PROVE  DiskInv' /\ AbsStep
<1> USE DEF DInv
<1>1. /\ boot.at = "install" /\ boot.tail = Len(log.lh) /\ log.lh = disk.head
      /\ disk' = [disk EXCEPT !.head = <<>>] /\ boot'.at = "up"
      /\ UNCHANGED <<cache, dirty, pc, loc>>
  BY DEF RecoverClear, IInv, Booting
<1>2. disk'.home = disk.home
  BY <1>1 DEF IInv, TypeOK
<1>3. /\ \A b \in Blocks : cache[b] = disk.home[b]
      /\ \A q \in Procs : pc[q] = "idle"
  BY <1>1, BootFacts, HeldFacts DEF Clean
<1>4. DiskInv'
  BY <1>1, <1>2, <1>3 DEF DiskInv, Clean, Copied, Replayed
<1>5. Recovered' = Recovered /\ Recovered = disk.home
  <2>1. IInv'
    BY RecoverClearStep
  <2>2. \A i \in DOMAIN disk.head : disk.home[disk.head[i]] = disk.slot[i - 1]
    BY <1>1 DEF Replayed, IInv, TypeOK
  <2> QED BY <1>1, <2>1, <2>2, ClearRecovered
<1>6. Mem' = Mem
  <2>1. cache = disk.home
    <3>1. cache \in [Blocks -> Values] /\ disk.home \in [Blocks -> Values]
      BY DEF IInv, TypeOK
    <3> QED BY <1>3, <3>1
  <2> QED BY <1>1, <1>5, <2>1 DEF Mem
<1>7. OpenCalls' = OpenCalls
  BY <1>1 DEF OpenCalls, InCall
<1> QED BY <1>4, <1>5, <1>6, <1>7, Stutter

-----------------------------------------------------------------------------
LEMMA InitDisk == Init => DInv /\ Atomic!Init
<1> SUFFICES ASSUME Init PROVE DInv /\ Atomic!Init
  OBVIOUS
<1>1. IInv
  BY InitIInv
<1>2. /\ cache = disk.home /\ disk.head = <<>> /\ boot.at = "read_head"
      /\ \A q \in Procs : pc[q] = "idle"
  BY DEF Init
<1>3. Clean /\ Copied /\ Replayed
  BY <1>2 DEF Clean, Copied, Replayed
<1>4. Recovered = disk.home /\ disk.home \in [Blocks -> Values]
  BY <1>1, <1>2, EmptyHead DEF IInv, TypeOK
<1>5. Atomic!Init
  BY <1>2, <1>4 DEF Atomic!Init, InCall
<1> QED BY <1>1, <1>3, <1>5 DEF DInv

LEMMA NextDisk == DInv /\ [Next]_vars => DInv' /\ AbsStep
<1> SUFFICES ASSUME DInv, [Next]_vars PROVE DiskInv' /\ AbsStep
  BY NextIInv DEF DInv, DiskInv
<1>1. ASSUME NEW p \in Procs,
             \/ BeginOp(p) \/ LogWrite(p) \/ EndOp(p)
             \/ WriteLog(p) \/ WriteHead(p) \/ Install(p) \/ ClearHead(p) \/ EndCommit(p)
      PROVE  DiskInv' /\ AbsStep
  BY <1>1, BeginOpDisk, LogWriteDisk, EndOpDisk, WriteLogDisk, WriteHeadDisk,
     InstallDisk, ClearHeadDisk, EndCommitDisk
<1>2. ASSUME NEW p \in Procs, NEW b \in Blocks, NEW v \in Values, Modify(p, b, v)
      PROVE  DiskInv' /\ AbsStep
  BY <1>2, ModifyDisk
<1>3. ASSUME NEW b \in Blocks, Evict(b) PROVE DiskInv' /\ AbsStep
  BY <1>3, EvictDisk
<1>4. CASE Crash \/ ReadHead \/ RecoverInstall \/ RecoverClear
  BY <1>4, CrashDisk, ReadHeadDisk, RecoverInstallDisk, RecoverClearDisk
<1>5. CASE UNCHANGED vars
  <2>1. DiskInv'
    BY <1>5 DEF vars, DInv, DiskInv, Clean, Held, Copied, CopiedTo, Replayed
  <2>2. Recovered' = Recovered /\ Mem' = Mem /\ OpenCalls' = OpenCalls
    BY <1>5, SameDisk DEF vars, Mem, OpenCalls, InCall
  <2> QED BY <2>1, <2>2, Stutter
<1> QED BY <1>1, <1>2, <1>3, <1>4, <1>5 DEF Next

(* Groups of overlapping calls reach the disk whole or not at all, whenever *)
(* the machine crashes, during recovery too.                                *)
THEOREM AtomicCorrect == Spec => ImplementsAtomicDisk
<1>1. DInv /\ [Next]_vars => DInv' /\ [Atomic!Next]_(Atomic!vars)
  BY NextDisk DEF AbsStep
<1> QED BY <1>1, InitDisk, PTL DEF Spec, ImplementsAtomicDisk, Atomic!Spec

-----------------------------------------------------------------------------
(* Sleep in begin_op.                                                       *)

LEMMA SleepersNext == IInv /\ SleepersHaveWaker /\ [Next]_vars => SleepersHaveWaker'
<1> SUFFICES ASSUME IInv, SleepersHaveWaker, [Next]_vars, Up',
                    NEW s \in Procs, pc'[s] = "asleep"
             PROVE  \E q \in Procs : InCall(q)' \/ Commits(q)'
  BY DEF SleepersHaveWaker
<1> USE DEF InCall, Commits
<1>1. pc \in [Procs -> Places] /\ panic = "none"
  BY DEF IInv, TypeOK
<1>2. ASSUME boot.at = "up", pc[s] = "asleep"
      PROVE  \E q \in Procs : InCall(q) \/ Commits(q)
  BY <1>1, <1>2 DEF SleepersHaveWaker, Up
<1>3. ASSUME NEW p \in Procs, BeginOp(p)
      PROVE  \E q \in Procs : InCall(q)' \/ Commits(q)'
  <2>1. boot.at = "up" /\ pc[p] \in {"idle", "begin"} /\ \A q \in Procs : q # p => pc'[q] = pc[q]
    BY <1>1, <1>3 DEF BeginOp, At, Up, Goes
  <2>2. CASE s # p
    BY <1>2, <2>1, <2>2
  <2>3. CASE s = p
    <3>1. log.committing \/ Full
      BY <1>1, <1>3, <2>3 DEF BeginOp, Goes
    <3>2. CASE log.committing
      BY <2>1, <3>2 DEF IInv, OneCommits
    <3>3. CASE ~log.committing /\ OpenCalls = {}
      <4>1. log.lh = <<>> /\ log.outstanding = 0
        BY <2>1, <3>3, FS_EmptySet DEF IInv, LogEmpty, Counted
      <4>2. Len(log.lh) + (log.outstanding + 1) * MAXOPBLOCKS = MAXOPBLOCKS
        BY <4>1, LogAssumption
      <4> QED BY <3>1, <3>3, <4>2, LogAssumption DEF Full
    <3>4. CASE OpenCalls # {}
      BY <2>1, <3>4 DEF OpenCalls
    <3> QED BY <3>2, <3>3, <3>4
  <2> QED BY <2>2, <2>3
<1>4. ASSUME NEW p \in Procs,
             \/ LogWrite(p) \/ WriteLog(p) \/ WriteHead(p) \/ Install(p) \/ ClearHead(p)
             \/ \E b \in Blocks, v \in Values : Modify(p, b, v)
      PROVE  \E q \in Procs : InCall(q)' \/ Commits(q)'
  BY <1>1, <1>4 DEF LogWrite, WriteLog, WriteHead, Install, ClearHead, Modify, At, Up, Goes
<1>5. ASSUME NEW p \in Procs, EndOp(p)
      PROVE  \E q \in Procs : InCall(q)' \/ Commits(q)'
  <2>1. pc[p] = "op"
    BY <1>5 DEF EndOp, At
  <2>2. ~log.committing
    BY <2>1, CallFacts
  <2>3. CASE log.outstanding # 1
    BY <1>1, <1>5, <2>2, <2>3 DEF EndOp, Woken
  <2>4. CASE log.outstanding = 1
    BY <1>1, <1>5, <2>2, <2>4 DEF EndOp
  <2> QED BY <2>3, <2>4
<1>6. ASSUME NEW p \in Procs, EndCommit(p)
      PROVE  \E q \in Procs : InCall(q)' \/ Commits(q)'
  BY <1>1, <1>6 DEF EndCommit, Woken
<1>7. ASSUME NEW b \in Blocks, Evict(b)
      PROVE  \E q \in Procs : InCall(q)' \/ Commits(q)'
  BY <1>2, <1>7 DEF Evict, Up
<1>8. CASE Crash \/ ReadHead \/ RecoverInstall \/ RecoverClear
  <2>1. pc'[s] = "idle"
    BY <1>8, BootFacts DEF Crash, ReadHead, RecoverInstall, RecoverClear
  <2> QED BY <2>1
<1>9. CASE UNCHANGED vars
  BY <1>2, <1>9 DEF vars, Up
<1> QED BY <1>3, <1>4, <1>5, <1>6, <1>7, <1>8, <1>9 DEF Next

(* Whoever sleeps in begin_op has somebody who will wake it: a call that is *)
(* in progress or one that commits.                                         *)
THEOREM SleepersCorrect == Spec => []SleepersHaveWaker
<1>1. Init => SleepersHaveWaker
  BY DEF Init, SleepersHaveWaker, Up
<1> QED BY <1>1, IInvHolds, SleepersNext, PTL DEF Spec
=============================================================================
