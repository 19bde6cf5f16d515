------------------------------ MODULE FsProofs ------------------------------
(* Inodes, directories and files stay right however calls interleave: for    *)
(* any number of processes, inodes, blocks, files and names, and any calls   *)
(* with well-formed paths.                                                   *)
EXTENDS Fs, FiniteSetTheorems, WellFoundedInduction, TLAPS

(* A call's locals.                                                         *)
CallNames == {"open", "openw", "chdir", "creat", "mkdir", "mknod", "unlink", "link"}
Makes == {"creat", "mkdir", "mknod"}
Local ==
    [call : CallNames \union {"none"}, path : Seq(Names), new : Seq(Names \union {"/"}),
     at : Inums \union {Nil}, ip : Inums \union {Nil}, f : Files \union {Nil},
     puts : Seq(Inums), then : Places]
LocType == loc \in [Procs -> Local]

(* Where a call is, or will be when it has put its inodes.                  *)
Putting2 == {"put", "drop"}
Then(w, l) == IF w \in Putting2 THEN l.then ELSE w
After(p) == Then(pc[p], loc[p])

-----------------------------------------------------------------------------
(* The inductive invariant.                                                 *)

(* What a call has at hand at place v, besides the inodes it puts.          *)
Inodes(l, v) ==
    /\ v \in {"walk", "parent", "resolved", "victim", "unlockdir"} <=> l.at # Nil
    /\ v \in {"exists", "opening", "made", "unlinked", "unlinkold", "victim"} => l.ip # Nil
    /\ v \in {"user", "resolved", "write"} => l.ip = Nil
    /\ v \in {"walk", "parent", "unlockdir"} /\ l.ip # Nil => l.call = "link"
    /\ v = "write" <=> l.f # Nil
Args(l, v) ==
    /\ v \in {"walk", "parent", "victim"} => l.path # <<>>
    /\ v = "parent" => Len(l.path) = 1
    /\ v = "victim" => Head(l.path) \notin {".", ".."}
    /\ l.call = "link" => HasLast(l.new)
Making(l, v) ==
    /\ v = "walk" => l.call # "none"
    /\ v = "parent" => Parent(l)
    /\ v = "resolved" => l.call \in {"open", "openw", "chdir", "link"}
    /\ v \in {"exists", "made"} => l.call \in Makes
    /\ v = "opening" => l.call \in {"open", "openw", "creat"}
    /\ v \in {"victim", "unlinked"} => l.call = "unlink"
    /\ v = "unlockdir" => l.call \in {"unlink", "link"} /\ (l.call = "link" <=> l.ip # Nil)
    /\ v = "unlinkold" => l.call = "link"
Puttings(l, w) ==
    IF w \in Putting2
    THEN l.puts # <<>> /\ l.then \notin {"put", "drop", "parent", "victim", "write"}
    ELSE l.puts = <<>> /\ l.then = "user"
Shaped(l, w) ==
    Inodes(l, Then(w, l)) /\ Args(l, Then(w, l)) /\ Making(l, Then(w, l)) /\ Puttings(l, w)
Shapes == \A p \in Procs : Shaped(loc[p], pc[p])

(* The inode whose lock a call holds.                                       *)
HeldAt(l, v) ==
    IF v \in {"opening", "made", "unlinked"} THEN l.ip
    ELSE IF v \in {"victim", "unlockdir"} THEN l.at ELSE Nil
Held(p) == HeldAt(loc[p], After(p))
LockInv == \A p \in Procs, i \in Inums : lock[i] = p <=> Held(p) = i

(* What is known of the inodes a process refers to.                         *)
LocTyped(l, v) ==
    /\ v \in {"parent", "victim", "unlockdir"} => dinode[l.at].type = "dir"
    /\ v # "exists" /\ l.ip # Nil => dinode[l.ip].type # "free"
    /\ l.call = "link" /\ l.ip # Nil => dinode[l.ip].type # "dir"
    /\ v = "victim" => dinode[l.at].ents[Head(l.path)] = l.ip
Writing(p) ==
    pc[p] = "write" => /\ dinode[file[loc[p].f].ip].type = "file"
                       /\ \E d \in Fds : ofile[p][d] = loc[p].f
Typed == \A p \in Procs :
    dinode[cwd[p]].type = "dir" /\ LocTyped(loc[p], After(p)) /\ Writing(p)
FilesInv == \A f \in Files :
    /\ file[f].ref = 0 => file[f] = NoFile
    /\ file[f].ref > 0 => file[f].ip # Nil /\ dinode[file[f].ip].type # "free"
ValidInv == \A i \in Inums : icache[i].valid => dinode[i].type # "free"

(* The tree.                                                                *)
Child(d, n, c) == dinode[d].type = "dir" /\ n \notin {".", ".."} /\ dinode[d].ents[n] = c /\ c # Nil
EntInv == \A i \in Inums :
    /\ dinode[i].type = "free" => dinode[i] = FreeIno
    /\ dinode[i].type # "dir" => dinode[i].ents = NoEnts
    /\ dinode[i].type = "dir" => dinode[i].ents["."] = i /\ dinode[i].ents[".."] # Nil
RootInv == dinode[Root].type = "dir" /\ dinode[Root].ents[".."] = Root
NamedWell(d, n, c) ==
    /\ dinode[c].type # "free" /\ c # Root
    /\ dinode[c].type = "dir" =>
         /\ dinode[c].ents[".."] = d
         /\ \A e \in Inums, m \in Names : Child(e, m, c) => e = d /\ m = n
    /\ \A m \in Names : ~Child(c, m, d)
TreeInv == \A d \in Inums, n \in Names, c \in Inums : Child(d, n, c) => NamedWell(d, n, c)

(* Links: the names of an inode, the directories in it, the calls that have *)
(* counted a name that is not there yet or is not any more, and the root.   *)
NameSet(i) == {e \in Entries : Named(e) = i}
UpSet(i)   == {d \in Dirs \cap Linked : dinode[d].ents[".."] = i}
Owes(l, v, i) == l.ip = i /\ (l.call = "link" \/ v = "unlinked")
OweSet(i)  == {p \in Procs : Owes(loc[p], After(p), i)}
NameN(i) == Cardinality(NameSet(i))
UpN(i)   == Cardinality(UpSet(i))
OweN(i)  == Cardinality(OweSet(i))
One(a, b) == IF a = b THEN 1 ELSE 0
LinkInv == \A i \in Inums :
    dinode[i].type # "free" => dinode[i].nlink >= NameN(i) + UpN(i) + OweN(i) + One(i, Root)

(* References, descriptors and blocks.                                      *)
CwdN(i)  == Cardinality({p \in Procs : cwd[p] = i})
FileN(i) == Cardinality({f \in Files : file[f].ref > 0 /\ file[f].ip = i})
AtN(i)   == Cardinality({p \in Procs : loc[p].at = i})
IpN(i)   == Cardinality({p \in Procs : loc[p].ip = i})
PutN(k, i) == Cardinality({p \in Procs : Putting(p, k, i)})
RefsInv == \A i \in Inums : icache[i].ref = Refs(i)
FdSet(f) == {pd \in Procs \X Fds : ofile[pd[1]][pd[2]] = f}
FdsInv == \A f \in Files : file[f].ref = Cardinality(FdSet(f))
BlocksInv ==
    /\ bitmap = UNION {dinode[i].blks : i \in Inums}
    /\ \A i, j \in Inums : i # j => dinode[i].blks \cap dinode[j].blks = {}

LocalInv == LocType /\ Shapes /\ LockInv
DiskInv  == EntInv /\ RootInv /\ TreeInv
CountInv == RefsInv /\ FdsInv /\ BlocksInv
IInv == TypeOK /\ LocalInv /\ Typed /\ FilesInv /\ ValidInv /\ DiskInv /\ LinkInv /\ CountInv

-----------------------------------------------------------------------------
(* Facts about the constants, and counting.                                 *)

LEMMA Constants ==
    /\ NInodes \in Nat /\ NInodes > 0 /\ NBlocks \in Nat /\ NBlocks > 0
    /\ NFILE \in Nat /\ NOFILE \in Nat /\ NINODE \in Nat
    /\ Root \in Inums /\ Nil \notin Inums /\ Nil \notin Files /\ NoProc \notin Procs
    /\ "." \in Names /\ ".." \in Names /\ "/" \notin Names
    /\ \A i \in Inums : i \in Nat
BY FsAssumption DEF Root, Nil, Inums, Files

LEMMA Finite ==
    /\ IsFiniteSet(Procs) /\ IsFiniteSet(Names) /\ IsFiniteSet(Inums) /\ IsFiniteSet(Files)
    /\ IsFiniteSet(Blocks) /\ IsFiniteSet(Inums \X Names) /\ IsFiniteSet(Procs \X Fds)
<1>1. IsFiniteSet(Procs) /\ IsFiniteSet(Names)  BY FsAssumption
<1>2. IsFiniteSet(Inums) /\ IsFiniteSet(Files) /\ IsFiniteSet(Blocks) /\ IsFiniteSet(Fds)
  BY FsAssumption, FS_Interval DEF Inums, Files, Blocks, Fds
<1>3. IsFiniteSet(Inums \X Names) /\ IsFiniteSet(Procs \X Fds)  BY <1>1, <1>2, FS_Product
<1> QED  BY <1>1, <1>2, <1>3

LEMMA CardNat ==
    ASSUME NEW S, IsFiniteSet(S), NEW A \in SUBSET S
    PROVE  IsFiniteSet(A) /\ Cardinality(A) \in Nat
BY FS_Subset, FS_CardinalityType

(* Two sets that differ in one element at most.                             *)
LEMMA DiffersAt ==
    ASSUME NEW S, IsFiniteSet(S), NEW A \in SUBSET S, NEW B \in SUBSET S, NEW x,
           \A s \in S : s # x => (s \in A <=> s \in B)
    PROVE  Cardinality(B) = Cardinality(A) + (IF x \in B THEN 1 ELSE 0)
                                           - (IF x \in A THEN 1 ELSE 0)
<1>1. IsFiniteSet(A) /\ IsFiniteSet(B) /\ Cardinality(A) \in Nat /\ Cardinality(B) \in Nat
  BY CardNat
<1>2. A \ {x} = B \ {x}  OBVIOUS
<1>3. Cardinality(A \ {x}) = IF x \in A THEN Cardinality(A) - 1 ELSE Cardinality(A)
  BY <1>1, FS_RemoveElement
<1>4. Cardinality(B \ {x}) = IF x \in B THEN Cardinality(B) - 1 ELSE Cardinality(B)
  BY <1>1, FS_RemoveElement
<1> QED  BY <1>1, <1>2, <1>3, <1>4

(* The same for a set of the elements that have a value.                    *)
LEMMA Recount ==
    ASSUME NEW S, IsFiniteSet(S), NEW A \in SUBSET S, NEW B \in SUBSET S, NEW x,
           \A s \in S : s # x => (s \in A <=> s \in B),
           NEW g, NEW a, NEW b, x \in A <=> a = g, x \in B <=> b = g
    PROVE  Cardinality(B) = Cardinality(A) + One(b, g) - One(a, g)
<1>1. Cardinality(B) = Cardinality(A) + (IF x \in B THEN 1 ELSE 0) - (IF x \in A THEN 1 ELSE 0)
  BY DiffersAt
<1> QED  BY <1>1 DEF One

LEMMA CardLess ==
    ASSUME NEW S, IsFiniteSet(S), NEW A \in SUBSET S, NEW B \in SUBSET A
    PROVE  Cardinality(B) <= Cardinality(A)
BY CardNat, FS_Subset

LEMMA CardSome ==
    ASSUME NEW S, IsFiniteSet(S), NEW A \in SUBSET S, NEW x \in A
    PROVE  /\ Cardinality(A) >= 1
           /\ \A y \in A : y # x => Cardinality(A) >= 2
<1>1. IsFiniteSet(A) /\ Cardinality(A) \in Nat  BY CardNat
<1>2. Cardinality(A \ {x}) = Cardinality(A) - 1 /\ IsFiniteSet(A \ {x})
  BY <1>1, FS_RemoveElement
<1>3. Cardinality(A \ {x}) \in Nat  BY <1>2, FS_CardinalityType
<1>4. ASSUME NEW y \in A, y # x PROVE Cardinality(A) >= 2
  <2>1. A \ {x} # {}  BY <1>4
  <2>2. Cardinality(A \ {x}) # 0  BY <1>2, <2>1, FS_EmptySet
  <2> QED  BY <1>1, <1>2, <1>3, <2>2
<1> QED  BY <1>1, <1>2, <1>3, <1>4

LEMMA CardNone ==
    ASSUME NEW S, IsFiniteSet(S), NEW A \in SUBSET S, Cardinality(A) = 0
    PROVE  A = {}
BY CardNat, FS_EmptySet

LEMMA RefParts ==
    ASSUME NEW i
    PROVE  /\ CwdN(i) \in Nat /\ FileN(i) \in Nat /\ AtN(i) \in Nat /\ IpN(i) \in Nat
           /\ PutN(1, i) \in Nat /\ PutN(2, i) \in Nat
           /\ Refs(i) = CwdN(i) + FileN(i) + AtN(i) + IpN(i) + PutN(1, i) + PutN(2, i)
<1>1. \A S : S \subseteq Procs => Cardinality(S) \in Nat  BY CardNat, Finite
<1>2. \A S : S \subseteq Files => Cardinality(S) \in Nat  BY CardNat, Finite
<1>3. CwdN(i) \in Nat /\ AtN(i) \in Nat /\ IpN(i) \in Nat /\ PutN(1, i) \in Nat /\ PutN(2, i) \in Nat
  BY <1>1 DEF CwdN, AtN, IpN, PutN
<1>4. FileN(i) \in Nat  BY <1>2 DEF FileN
<1>5. Refs(i) = CwdN(i) + FileN(i) + AtN(i) + IpN(i) + PutN(1, i) + PutN(2, i)
  BY DEF Refs, CwdN, FileN, AtN, IpN, PutN
<1> QED  BY <1>3, <1>4, <1>5

-----------------------------------------------------------------------------
(* What an action does, by parts.  Process p goes to w with the locals m.   *)
MoveOK(p, w, m) ==
    /\ pc' = [pc EXCEPT ![p] = w] /\ loc' = [loc EXCEPT ![p] = m]
    /\ w \in Places /\ m \in Local /\ Len(m.puts) <= 2 /\ Shaped(m, w)
(* It holds h then, and lets go of what it held.                            *)
LockOK(p, h) ==
    /\ lock' \in [Inums -> Procs \union {NoProc}]
    /\ h # Nil => lock[h] \in {NoProc, p}
    /\ \A i \in Inums : lock'[i] = IF h = i THEN p ELSE IF Held(p) = i THEN NoProc ELSE lock[i]
(* What it takes into the cache has a type.                                 *)
CacheOK ==
    /\ icache' \in [Inums -> [ref : Nat, valid : BOOLEAN]]
    /\ \A i \in Inums : icache'[i].valid => icache[i].valid \/ dinode[i].type # "free"
(* It changes file g, its own current directory and its own descriptors.    *)
FdsOK(p, g) ==
    /\ g \in Files
    /\ file' \in [Files -> [ref : Nat, ip : Inums \union {Nil}, writable : BOOLEAN]]
    /\ ofile' \in [Procs -> [Fds -> Files \union {Nil}]] /\ cwd' \in [Procs -> Inums]
    /\ \A f \in Files : f # g => file'[f] = file[f]
    /\ \A q \in Procs : q # p => cwd'[q] = cwd[q] /\ ofile'[q] = ofile[q]
    /\ file'[g].ip = file[g].ip \/ \A q \in Procs, d \in Fds : q # p => ofile[q][d] # g
RowN(r, i) == IF r.ref > 0 /\ r.ip = i THEN 1 ELSE 0
(* The references that the locals l are.                                    *)
PutAt(l, k, i) == IF k \in DOMAIN l.puts /\ l.puts[k] = i THEN 1 ELSE 0
Own(l, i) == One(l.at, i) + One(l.ip, i) + PutAt(l, 1, i) + PutAt(l, 2, i)
RefsOK(p, m, g) == \A i \in Inums :
    icache'[i].ref = icache[i].ref + Own(m, i) - Own(loc[p], i)
                   + One(cwd'[p], i) - One(cwd[p], i) + RowN(file'[g], i) - RowN(file[g], i)
(* It leaves types and entries alone, and counts what it owes.              *)
DiskOK ==
    /\ dinode' \in [Inums -> [type : Types, nlink : Int, ents : [Names -> Inums \union {Nil}],
                              len : Nat, blks : SUBSET Blocks]]
    /\ bitmap' \in SUBSET Blocks
    /\ \A i \in Inums : /\ dinode'[i].type = dinode[i].type /\ dinode'[i].ents = dinode[i].ents
                        /\ dinode[i].type = "free" => dinode'[i] = dinode[i]
OweAt(l, v, i) == IF Owes(l, v, i) THEN 1 ELSE 0
OwesOK(p, w, m) == \A i \in Inums : dinode[i].type # "free" =>
    dinode'[i].nlink >= dinode[i].nlink + OweAt(m, Then(w, m), i) - OweAt(loc[p], After(p), i)

LEMMA LocalKept ==
    ASSUME TypeOK, LocalInv, NEW p \in Procs, NEW w, NEW m,
           MoveOK(p, w, m), LockOK(p, HeldAt(m, Then(w, m)))
    PROVE  /\ LocalInv' /\ pc' \in [Procs -> Places] /\ \A q \in Procs : Len(loc'[q].puts) <= 2
           /\ loc'[p] = m /\ After(p)' = Then(w, m)
           /\ \A q \in Procs : q # p => loc'[q] = loc[q] /\ pc'[q] = pc[q] /\ After(q)' = After(q)
<1> DEFINE h == HeldAt(m, Then(w, m))
<1>1. pc \in [Procs -> Places] /\ loc \in [Procs -> Local] /\ \A q \in Procs : Len(loc[q].puts) <= 2
  BY DEF TypeOK, LocalInv, LocType
<1>2. pc' \in [Procs -> Places] /\ loc' \in [Procs -> Local]  BY <1>1 DEF MoveOK
<1>3. loc'[p] = m /\ pc'[p] = w  BY <1>1 DEF MoveOK
<1>4. \A q \in Procs : q # p => loc'[q] = loc[q] /\ pc'[q] = pc[q]  BY <1>1 DEF MoveOK
<1>5. After(p)' = Then(w, m)  BY <1>3 DEF After
<1>6. \A q \in Procs : q # p => After(q)' = After(q)  BY <1>4 DEF After
<1>7. \A q \in Procs : Len(loc'[q].puts) <= 2  BY <1>1, <1>3, <1>4 DEF MoveOK
<1>8. Shapes'
  <2>1. Shaped(m, w) /\ \A q \in Procs : Shaped(loc[q], pc[q])  BY DEF MoveOK, LocalInv, Shapes
  <2>2. \A q \in Procs : Shaped(loc'[q], pc'[q])  BY <1>3, <1>4, <2>1
  <2> QED  BY <2>2 DEF Shapes, Shaped, Inodes, Args, Making, Puttings, HasLast, IsPath, Parent, Then
<1>9. LockInv'
  <2>1. Held(p)' = h  BY <1>3, <1>5 DEF Held
  <2>2. \A q \in Procs : q # p => Held(q)' = Held(q)  BY <1>4, <1>6 DEF Held
  <2> HIDE DEF h
  <2>3. \A i \in Inums : lock'[i] = IF h = i THEN p ELSE IF Held(p) = i THEN NoProc ELSE lock[i]
    BY DEF LockOK, h
  <2>4. h # Nil => lock[h] \in {NoProc, p}  BY DEF LockOK, h
  <2>5. \A q \in Procs, i \in Inums : lock[i] = q <=> Held(q) = i  BY DEF LocalInv, LockInv
  <2>6. NoProc \notin Procs /\ Nil \notin Inums  BY Constants
  <2>7. ASSUME NEW q \in Procs, NEW i \in Inums PROVE lock'[i] = q <=> Held(q)' = i
    <3>1. CASE q = p
      BY <2>1, <2>3, <2>5, <2>6, <3>1
    <3>2. CASE q # p /\ h = i
      <4>1. lock[i] # q  BY <2>4, <2>6, <3>2
      <4> QED  BY <2>2, <2>3, <2>5, <3>2, <4>1
    <3>3. CASE q # p /\ h # i /\ Held(p) = i
      <4>1. lock[i] = p  BY <2>5, <3>3
      <4> QED  BY <2>2, <2>3, <2>5, <2>6, <3>3, <4>1
    <3>4. CASE q # p /\ h # i /\ Held(p) # i
      BY <2>2, <2>3, <2>5, <3>4
    <3> QED  BY <3>1, <3>2, <3>3, <3>4
  <2> QED  BY <2>7 DEF LockInv
<1> QED  BY <1>2, <1>3, <1>4, <1>5, <1>6, <1>7, <1>8, <1>9 DEF LocalInv, LocType

LEMMA RefsKept ==
    ASSUME TypeOK, LocalInv, RefsInv, NEW p \in Procs, NEW w, NEW m, NEW g,
           MoveOK(p, w, m), LockOK(p, HeldAt(m, Then(w, m))), FdsOK(p, g), RefsOK(p, m, g)
    PROVE  RefsInv'
<1>1. /\ loc'[p] = m /\ \A q \in Procs : q # p => loc'[q] = loc[q]
  BY LocalKept
<1>2. SUFFICES ASSUME NEW i \in Inums PROVE icache'[i].ref = Refs(i)'
  BY DEF RefsInv
<1>3. IsFiniteSet(Procs) /\ IsFiniteSet(Files)  BY Finite
<1>4. AtN(i)' = AtN(i) + One(m.at, i) - One(loc[p].at, i)
  <2> DEFINE A == {q \in Procs : loc[q].at = i}
             B == {q \in Procs : loc'[q].at = i}
  <2>1. \A s \in Procs : s # p => (s \in A <=> s \in B)  BY <1>1
  <2>2. p \in A <=> loc[p].at = i  OBVIOUS
  <2>3. p \in B <=> m.at = i  BY <1>1
  <2>4. A \in SUBSET Procs /\ B \in SUBSET Procs  OBVIOUS
  <2>5. AtN(i) = Cardinality(A) /\ AtN(i)' = Cardinality(B)  BY DEF AtN
  <2> HIDE DEF A, B
  <2>6. Cardinality(B) = Cardinality(A) + One(m.at, i) - One(loc[p].at, i)
    BY <1>3, <2>1, <2>2, <2>3, <2>4, Recount
  <2> QED  BY <2>5, <2>6
<1>5. IpN(i)' = IpN(i) + One(m.ip, i) - One(loc[p].ip, i)
  <2> DEFINE A == {q \in Procs : loc[q].ip = i}
             B == {q \in Procs : loc'[q].ip = i}
  <2>1. \A s \in Procs : s # p => (s \in A <=> s \in B)  BY <1>1
  <2>2. p \in A <=> loc[p].ip = i  OBVIOUS
  <2>3. p \in B <=> m.ip = i  BY <1>1
  <2>4. A \in SUBSET Procs /\ B \in SUBSET Procs  OBVIOUS
  <2>5. IpN(i) = Cardinality(A) /\ IpN(i)' = Cardinality(B)  BY DEF IpN
  <2> HIDE DEF A, B
  <2>6. Cardinality(B) = Cardinality(A) + One(m.ip, i) - One(loc[p].ip, i)
    BY <1>3, <2>1, <2>2, <2>3, <2>4, Recount
  <2> QED  BY <2>5, <2>6
<1>6. ASSUME NEW k PROVE PutN(k, i)' = PutN(k, i) + PutAt(m, k, i) - PutAt(loc[p], k, i)
  <2> DEFINE A == {q \in Procs : k \in DOMAIN loc[q].puts /\ loc[q].puts[k] = i}
             B == {q \in Procs : k \in DOMAIN loc'[q].puts /\ loc'[q].puts[k] = i}
  <2>1. \A s \in Procs : s # p => (s \in A <=> s \in B)  BY <1>1
  <2>2. PutAt(loc[p], k, i) = IF p \in A THEN 1 ELSE 0  BY DEF PutAt
  <2>3. PutAt(m, k, i) = IF p \in B THEN 1 ELSE 0  BY <1>1 DEF PutAt
  <2>4. A \in SUBSET Procs /\ B \in SUBSET Procs  OBVIOUS
  <2>5. PutN(k, i) = Cardinality(A) /\ PutN(k, i)' = Cardinality(B)  BY DEF PutN, Putting
  <2> HIDE DEF A, B
  <2>6. Cardinality(B) = Cardinality(A) + (IF p \in B THEN 1 ELSE 0) - (IF p \in A THEN 1 ELSE 0)
    BY <1>3, <2>1, <2>4, DiffersAt
  <2> QED  BY <2>2, <2>3, <2>5, <2>6
<1>7. CwdN(i)' = CwdN(i) + One(cwd'[p], i) - One(cwd[p], i)
  <2> DEFINE A == {q \in Procs : cwd[q] = i}
             B == {q \in Procs : cwd'[q] = i}
  <2>1. \A s \in Procs : s # p => (s \in A <=> s \in B)  BY DEF FdsOK
  <2>2. p \in A <=> cwd[p] = i  OBVIOUS
  <2>3. p \in B <=> cwd'[p] = i  OBVIOUS
  <2>4. A \in SUBSET Procs /\ B \in SUBSET Procs  OBVIOUS
  <2>5. CwdN(i) = Cardinality(A) /\ CwdN(i)' = Cardinality(B)  BY DEF CwdN
  <2> HIDE DEF A, B
  <2>6. Cardinality(B) = Cardinality(A) + One(cwd'[p], i) - One(cwd[p], i)
    BY <1>3, <2>1, <2>2, <2>3, <2>4, Recount
  <2> QED  BY <2>5, <2>6
<1>8. FileN(i)' = FileN(i) + RowN(file'[g], i) - RowN(file[g], i)
  <2> DEFINE A == {f \in Files : file[f].ref > 0 /\ file[f].ip = i}
             B == {f \in Files : file'[f].ref > 0 /\ file'[f].ip = i}
  <2>1. \A s \in Files : s # g => (s \in A <=> s \in B)  BY DEF FdsOK
  <2>2. g \in Files  BY DEF FdsOK
  <2>3. RowN(file[g], i) = (IF g \in A THEN 1 ELSE 0) /\ RowN(file'[g], i) = (IF g \in B THEN 1 ELSE 0)
    BY <2>2 DEF RowN
  <2>4. A \in SUBSET Files /\ B \in SUBSET Files  OBVIOUS
  <2>5. FileN(i) = Cardinality(A) /\ FileN(i)' = Cardinality(B)  BY DEF FileN
  <2> HIDE DEF A, B
  <2>6. Cardinality(B) = Cardinality(A) + (IF g \in B THEN 1 ELSE 0) - (IF g \in A THEN 1 ELSE 0)
    BY <1>3, <2>1, <2>4, DiffersAt
  <2> QED  BY <2>3, <2>5, <2>6
<1>9. PutN(1, i)' = PutN(1, i) + PutAt(m, 1, i) - PutAt(loc[p], 1, i)  BY <1>6
<1>10. PutN(2, i)' = PutN(2, i) + PutAt(m, 2, i) - PutAt(loc[p], 2, i)  BY <1>6
<1>11. icache[i].ref = Refs(i)  BY DEF RefsInv
<1>12. icache'[i].ref = icache[i].ref + Own(m, i) - Own(loc[p], i)
                      + One(cwd'[p], i) - One(cwd[p], i) + RowN(file'[g], i) - RowN(file[g], i)
  BY DEF RefsOK
<1>13. Refs(i)' = CwdN(i)' + FileN(i)' + AtN(i)' + IpN(i)' + PutN(1, i)' + PutN(2, i)'
  BY DEF Refs, CwdN, FileN, AtN, IpN, PutN
<1>14. /\ CwdN(i) \in Nat /\ FileN(i) \in Nat /\ AtN(i) \in Nat /\ IpN(i) \in Nat
       /\ PutN(1, i) \in Nat /\ PutN(2, i) \in Nat
       /\ Refs(i) = CwdN(i) + FileN(i) + AtN(i) + IpN(i) + PutN(1, i) + PutN(2, i)
  BY RefParts
<1>15. /\ One(m.at, i) \in Int /\ One(m.ip, i) \in Int /\ One(loc[p].at, i) \in Int /\ One(loc[p].ip, i) \in Int
       /\ One(cwd'[p], i) \in Int /\ One(cwd[p], i) \in Int
       /\ PutAt(m, 1, i) \in Int /\ PutAt(m, 2, i) \in Int
       /\ PutAt(loc[p], 1, i) \in Int /\ PutAt(loc[p], 2, i) \in Int
       /\ RowN(file'[g], i) \in Int /\ RowN(file[g], i) \in Int
  BY DEF One, PutAt, RowN
<1> QED
  BY <1>4, <1>5, <1>7, <1>8, <1>9, <1>10, <1>11, <1>12, <1>13, <1>14, <1>15 DEF Own

-----------------------------------------------------------------------------
LEMMA TreeKept ==
    ASSUME TypeOK, DiskInv, DiskOK
    PROVE  /\ DiskInv'
           /\ \A i \in Inums : NameSet(i)' = NameSet(i) /\ UpSet(i)' = UpSet(i)
<1>1. \A i \in Inums : /\ dinode'[i].type = dinode[i].type /\ dinode'[i].ents = dinode[i].ents
                       /\ dinode[i].type = "free" => dinode'[i] = dinode[i]
  BY DEF DiskOK
<1>2. \A d \in Inums, n \in Names, c \in Inums : Child(d, n, c)' <=> Child(d, n, c)
  BY <1>1 DEF Child
<1>3. EntInv'
  <2>1. EntInv  BY DEF DiskInv
  <2> QED  BY <1>1, <2>1 DEF EntInv
<1>4. RootInv'  BY <1>1, Constants DEF DiskInv, RootInv
<1>5. TreeInv'
  <2>1. \A d \in Inums, n \in Names, c \in Inums : Child(d, n, c) => NamedWell(d, n, c)
    BY DEF DiskInv, TreeInv
  <2>2. ASSUME NEW d \in Inums, NEW n \in Names, NEW c \in Inums, NamedWell(d, n, c)
        PROVE  NamedWell(d, n, c)'
    BY <1>1, <1>2, <2>2 DEF NamedWell
  <2> QED  BY <1>2, <2>1, <2>2 DEF TreeInv
<1>6. Dirs' = Dirs  BY <1>1 DEF Dirs
<1>7. Entries' = Entries
  <2>1. \A e \in Dirs \X (Names \ {".", ".."}) : dinode'[e[1]].ents = dinode[e[1]].ents
    BY <1>1 DEF Dirs
  <2> QED  BY <1>6, <2>1 DEF Entries
<1>8. \A e \in Entries : Named(e)' = Named(e)
  <2>1. \A e \in Entries : e[1] \in Inums  BY DEF Entries, Dirs
  <2> QED  BY <1>1, <2>1 DEF Named
<1>9. Linked' = Linked  BY <1>7, <1>8 DEF Linked
<1>10. \A i \in Inums : NameSet(i)' = NameSet(i)  BY <1>7, <1>8 DEF NameSet
<1>11. \A i \in Inums : UpSet(i)' = UpSet(i)
  <2>1. \A d \in Dirs : dinode'[d].ents = dinode[d].ents  BY <1>1 DEF Dirs
  <2> QED  BY <1>6, <1>9, <2>1 DEF UpSet
<1> QED  BY <1>3, <1>4, <1>5, <1>10, <1>11 DEF DiskInv

LEMMA OweKept ==
    ASSUME TypeOK, LocalInv, NEW p \in Procs, NEW w, NEW m,
           MoveOK(p, w, m), LockOK(p, HeldAt(m, Then(w, m))), NEW i \in Inums
    PROVE  /\ OweN(i) \in Nat /\ OweN(i)' \in Nat
           /\ OweN(i)' = OweN(i) + OweAt(m, Then(w, m), i) - OweAt(loc[p], After(p), i)
<1>1. /\ loc'[p] = m /\ After(p)' = Then(w, m)
      /\ \A q \in Procs : q # p => loc'[q] = loc[q] /\ After(q)' = After(q)
  BY LocalKept
<1> DEFINE A == {q \in Procs : Owes(loc[q], After(q), i)}
           B == {q \in Procs : Owes(loc'[q], After(q)', i)}
<1>2. \A s \in Procs : s # p => (s \in A <=> s \in B)  BY <1>1
<1>3. OweAt(loc[p], After(p), i) = (IF p \in A THEN 1 ELSE 0)  BY DEF OweAt
<1>4. OweAt(m, Then(w, m), i) = (IF p \in B THEN 1 ELSE 0)  BY <1>1 DEF OweAt
<1>5. A \in SUBSET Procs /\ B \in SUBSET Procs  OBVIOUS
<1>6. OweN(i) = Cardinality(A) /\ OweN(i)' = Cardinality(B)
  BY DEF OweN, OweSet, Owes
<1> HIDE DEF A, B
<1>7. Cardinality(B) = Cardinality(A) + (IF p \in B THEN 1 ELSE 0) - (IF p \in A THEN 1 ELSE 0)
  BY <1>2, <1>5, Finite, DiffersAt
<1>8. Cardinality(A) \in Nat /\ Cardinality(B) \in Nat  BY <1>5, Finite, CardNat
<1> QED  BY <1>3, <1>4, <1>6, <1>7, <1>8

(* The sets of links are finite.                                            *)
LEMMA LinkCards ==
    ASSUME NEW i
    PROVE  /\ NameSet(i) \in SUBSET (Inums \X Names) /\ UpSet(i) \in SUBSET Inums
           /\ OweSet(i) \in SUBSET Procs
           /\ NameN(i) \in Nat /\ UpN(i) \in Nat /\ OweN(i) \in Nat
<1>1. NameSet(i) \in SUBSET (Inums \X Names)  BY DEF NameSet, Entries, Dirs
<1>2. UpSet(i) \in SUBSET Inums  BY DEF UpSet, Dirs
<1>3. OweSet(i) \in SUBSET Procs  BY DEF OweSet
<1> QED  BY <1>1, <1>2, <1>3, Finite, CardNat DEF NameN, UpN, OweN

LEMMA LinkKept ==
    ASSUME TypeOK, LocalInv, DiskInv, LinkInv, DiskOK, NEW p \in Procs, NEW w, NEW m,
           MoveOK(p, w, m), LockOK(p, HeldAt(m, Then(w, m))), OwesOK(p, w, m)
    PROVE  LinkInv'
<1> SUFFICES ASSUME NEW i \in Inums, dinode'[i].type # "free"
             PROVE  dinode'[i].nlink >= NameN(i)' + UpN(i)' + OweN(i)' + One(i, Root)
  BY DEF LinkInv, One, Root
<1>1. dinode[i].type # "free"  BY DEF DiskOK
<1>2. NameN(i)' = NameN(i) /\ UpN(i)' = UpN(i)  BY TreeKept DEF NameN, UpN
<1>3. OweN(i)' = OweN(i) + OweAt(m, Then(w, m), i) - OweAt(loc[p], After(p), i)  BY OweKept
<1>4. dinode[i].nlink >= NameN(i) + UpN(i) + OweN(i) + One(i, Root)  BY <1>1 DEF LinkInv
<1>5. dinode'[i].nlink >= dinode[i].nlink + OweAt(m, Then(w, m), i) - OweAt(loc[p], After(p), i)
  BY <1>1 DEF OwesOK
<1>6. NameN(i) \in Nat /\ UpN(i) \in Nat /\ OweN(i) \in Nat  BY LinkCards
<1>7. dinode[i].nlink \in Int  BY DEF TypeOK
<1>8. dinode'[i].nlink \in Int  BY DEF DiskOK
<1>9. OweAt(m, Then(w, m), i) \in Int /\ OweAt(loc[p], After(p), i) \in Int /\ One(i, Root) \in Int
  BY DEF OweAt, One
<1> QED  BY <1>2, <1>3, <1>4, <1>5, <1>6, <1>7, <1>8, <1>9

(* An open descriptor has an open file.                                     *)
LEMMA FdRef ==
    ASSUME TypeOK, FdsInv, NEW q \in Procs, NEW d \in Fds, ofile[q][d] # Nil
    PROVE  /\ ofile[q][d] \in Files /\ file[ofile[q][d]].ref > 0
           /\ \A r \in Procs, e \in Fds :
                 ofile[r][e] = ofile[q][d] /\ <<r, e>> # <<q, d>> => file[ofile[q][d]].ref > 1
<1> DEFINE f == ofile[q][d]
<1>1. f \in Files  BY DEF TypeOK
<1>2. FdSet(f) \in SUBSET (Procs \X Fds) /\ <<q, d>> \in FdSet(f)  BY DEF FdSet
<1>3. Cardinality(FdSet(f)) >= 1 /\ \A y \in FdSet(f) : y # <<q, d>> => Cardinality(FdSet(f)) >= 2
  BY <1>2, Finite, CardSome
<1>4. file[f].ref = Cardinality(FdSet(f)) /\ Cardinality(FdSet(f)) \in Nat
  BY <1>1, <1>2, Finite, CardNat DEF FdsInv
<1>5. \A r \in Procs, e \in Fds : ofile[r][e] = f => <<r, e>> \in FdSet(f)  BY DEF FdSet
<1>6. ASSUME NEW r \in Procs, NEW e \in Fds, ofile[r][e] = f, <<r, e>> # <<q, d>>
      PROVE  file[f].ref > 1
  <2> HIDE DEF f
  <2>1. <<r, e>> \in FdSet(f)  BY <1>5, <1>6
  <2>2. Cardinality(FdSet(f)) >= 2  BY <1>3, <1>6, <2>1
  <2> QED  BY <1>4, <2>2
<1>7. file[f].ref > 0
  <2> HIDE DEF f
  <2> QED  BY <1>3, <1>4
<1> QED  BY <1>1, <1>6, <1>7

(* What the others know stays true when types and entries stay.             *)
LEMMA TypedKept ==
    ASSUME TypeOK, LocalInv, Typed, FilesInv, FdsInv, DiskOK, NEW p \in Procs, NEW w, NEW m, NEW g,
           MoveOK(p, w, m), LockOK(p, HeldAt(m, Then(w, m))), FdsOK(p, g),
           dinode[cwd'[p]].type = "dir", LocTyped(m, Then(w, m)), Writing(p)'
    PROVE  Typed'
<1>1. \A i \in Inums : dinode'[i].type = dinode[i].type /\ dinode'[i].ents = dinode[i].ents
  BY DEF DiskOK
<1>2. /\ loc'[p] = m /\ After(p)' = Then(w, m) /\ LocalInv'
      /\ \A q \in Procs : q # p => loc'[q] = loc[q] /\ pc'[q] = pc[q] /\ After(q)' = After(q)
  BY LocalKept
<1> SUFFICES ASSUME NEW q \in Procs
             PROVE  dinode'[cwd'[q]].type = "dir" /\ LocTyped(loc[q], After(q))' /\ Writing(q)'
  BY DEF Typed
<1>3. cwd'[q] \in Inums  BY DEF FdsOK
<1>4. dinode[cwd'[q]].type = "dir"  BY DEF Typed, FdsOK
<1>5. LocTyped(loc'[q], After(q)')  BY <1>2 DEF Typed
<1>6. loc'[q] \in Local /\ Shaped(loc'[q], pc'[q])
  BY <1>2 DEF LocalInv, LocType, Shapes, Shaped, Inodes, Args, Making, Puttings, Then,
     HasLast, IsPath, Parent
<1>7. LocTyped(loc[q], After(q))'
  <2> DEFINE l == loc'[q]  v == After(q)'
  <2>1. l.at \in Inums \union {Nil} /\ l.ip \in Inums \union {Nil}  BY <1>6 DEF Local
  <2>2. v \in {"parent", "victim", "unlockdir"} => l.at # Nil
    <3>1. Inodes(l, v)  BY <1>6 DEF Shaped, After, Then
    <3> QED  BY <3>1 DEF Inodes
  <2>3. LocTyped(l, v)  BY <1>5
  <2> QED  BY <1>1, <2>1, <2>2, <2>3 DEF LocTyped, Nil
<1>8. Writing(q)'
  <2>1. CASE q = p  BY <2>1
  <2>2. CASE q # p
    <3> SUFFICES ASSUME pc'[q] = "write"
                 PROVE  /\ dinode'[file'[loc'[q].f].ip].type = "file"
                        /\ \E d \in Fds : ofile'[q][d] = loc'[q].f
      BY DEF Writing
    <3>1. pc[q] = "write" /\ loc'[q] = loc[q]  BY <1>2, <2>2
    <3>2. dinode[file[loc[q].f].ip].type = "file" /\ \E d \in Fds : ofile[q][d] = loc[q].f
      BY <3>1 DEF Typed, Writing
    <3>3. ofile'[q] = ofile[q]  BY <2>2 DEF FdsOK
    <3>4. loc[q].f \in Files
      <4>1. loc[q].f \in Files \union {Nil}  BY <1>6, <3>1 DEF Local
      <4>2. Inodes(loc[q], "write")  BY <1>6, <3>1 DEF Shaped, Then, Putting2
      <4>3. loc[q].f # Nil  BY <4>2 DEF Inodes
      <4> QED  BY <4>1, <4>3
    <3>5. file'[loc[q].f].ip = file[loc[q].f].ip  BY <2>2, <3>2, <3>4 DEF FdsOK
    <3>6. file[loc[q].f].ip \in Inums
      <4>1. file[loc[q].f].ip \in Inums \union {Nil}  BY <3>4 DEF TypeOK
      <4>2. file[loc[q].f].ref > 0
        <5> PICK d \in Fds : ofile[q][d] = loc[q].f  BY <3>2
        <5> QED  BY <3>4, FdRef, Constants
      <4>3. file[loc[q].f].ip # Nil  BY <3>4, <4>2 DEF FilesInv
      <4> QED  BY <4>1, <4>3
    <3> QED  BY <1>1, <3>1, <3>2, <3>3, <3>5, <3>6
  <2> QED  BY <2>1, <2>2
<1> QED  BY <1>1, <1>3, <1>4, <1>7, <1>8

-----------------------------------------------------------------------------
LEMMA Still ==
    ASSUME IInv, UNCHANGED <<disk, icache, lock, fds, pc, loc>>
    PROVE  IInv'
<1>1. /\ dinode' = dinode /\ bitmap' = bitmap /\ icache' = icache /\ lock' = lock
      /\ file' = file /\ ofile' = ofile /\ cwd' = cwd /\ pc' = pc /\ loc' = loc
  BY DEF disk, fds
<1>2. TypeOK'  BY <1>1 DEF IInv, TypeOK
<1>3. \A p : After(p)' = After(p) /\ Held(p)' = Held(p)  BY <1>1 DEF After, Held
<1>4. LocalInv'  
  <2>1. LocType'  BY <1>1 DEF IInv, LocalInv, LocType
  <2>2. Shapes'  BY <1>1 DEF IInv, LocalInv, Shapes
  <2>3. LockInv'  BY <1>1, <1>3 DEF IInv, LocalInv, LockInv
  <2> QED  BY <2>1, <2>2, <2>3 DEF LocalInv
<1>5. Typed'
  <2>1. \A p \in Procs : LocTyped(loc[p], After(p)) => LocTyped(loc[p], After(p))'
    BY <1>1, <1>3 DEF LocTyped
  <2>2. \A p \in Procs : Writing(p) => Writing(p)'  BY <1>1 DEF Writing
  <2> QED  BY <1>1, <2>1, <2>2 DEF IInv, Typed
<1>6. FilesInv' /\ ValidInv'  BY <1>1 DEF IInv, FilesInv, ValidInv
<1>7. DiskInv'  BY <1>1 DEF IInv, DiskInv, EntInv, RootInv, TreeInv, Child, NamedWell
<1>8. LinkInv'
  <2>1. \A i : NameSet(i)' = NameSet(i) /\ UpSet(i)' = UpSet(i) 
    BY <1>1 DEF NameSet, UpSet, Entries, Dirs, Linked, Named
  <2>2. \A i : OweSet(i)' = OweSet(i)  BY <1>1, <1>3 DEF OweSet, Owes
  <2>3. \A i : NameN(i)' = NameN(i) /\ UpN(i)' = UpN(i) /\ OweN(i)' = OweN(i)
    BY <2>1, <2>2 DEF NameN, UpN, OweN
  <2> QED  BY <1>1, <2>3 DEF IInv, LinkInv, One, Root
<1>9. CountInv'
  <2>1. \A i : Refs(i)' = Refs(i)  BY <1>1 DEF Refs, Putting
  <2>2. RefsInv'  BY <1>1, <2>1 DEF IInv, CountInv, RefsInv
  <2>3. FdsInv'  BY <1>1 DEF IInv, CountInv, FdsInv, FdSet
  <2>4. BlocksInv'  BY <1>1 DEF IInv, CountInv, BlocksInv
  <2> QED  BY <2>2, <2>3, <2>4 DEF CountInv
<1> QED  BY <1>2, <1>4, <1>5, <1>6, <1>7, <1>8, <1>9 DEF IInv

(* An action that leaves the tree alone keeps the invariant if its parts    *)
(* are right.                                                               *)
LEMMA Quiet ==
    ASSUME IInv, NEW p \in Procs, NEW w, NEW m, NEW g,
           MoveOK(p, w, m), LockOK(p, HeldAt(m, Then(w, m))), CacheOK, FdsOK(p, g), RefsOK(p, m, g),
           DiskOK, OwesOK(p, w, m), BlocksInv', FilesInv', FdsInv',
           dinode[cwd'[p]].type = "dir", LocTyped(m, Then(w, m)), Writing(p)'
    PROVE  IInv'
<1>1. /\ LocalInv' /\ pc' \in [Procs -> Places] /\ \A q \in Procs : Len(loc'[q].puts) <= 2
  BY LocalKept DEF IInv
<1>2. TypeOK'  BY <1>1 DEF TypeOK, DiskOK, LockOK, CacheOK, FdsOK
<1>3. RefsInv'  BY RefsKept DEF IInv, CountInv
<1>4. DiskInv'  BY TreeKept DEF IInv
<1>5. LinkInv'  BY LinkKept DEF IInv
<1>6. Typed'  BY TypedKept DEF IInv, CountInv
<1>7. ValidInv'  BY DEF IInv, ValidInv, CacheOK, DiskOK
<1> QED  BY <1>1, <1>2, <1>3, <1>4, <1>5, <1>6, <1>7 DEF IInv, CountInv

-----------------------------------------------------------------------------
(* Locks.                                                                   *)
LEMMA Here ==
    ASSUME IInv, NEW p \in Procs
    PROVE  /\ loc[p] \in Local /\ pc[p] \in Places /\ Len(loc[p].puts) <= 2
           /\ Inodes(loc[p], After(p)) /\ Args(loc[p], After(p)) /\ Making(loc[p], After(p))
           /\ Puttings(loc[p], pc[p])
           /\ dinode[cwd[p]].type = "dir" /\ LocTyped(loc[p], After(p))
           /\ Held(p) \in Inums \union {Nil} /\ cwd[p] \in Inums
           /\ \A i \in Inums : lock[i] = p <=> Held(p) = i
<1>1. loc[p] \in Local /\ pc[p] \in Places /\ Len(loc[p].puts) <= 2 /\ cwd[p] \in Inums
  BY DEF IInv, TypeOK, LocalInv, LocType
<1>2. Shaped(loc[p], pc[p])  BY DEF IInv, LocalInv, Shapes
<1>3. Inodes(loc[p], After(p)) /\ Args(loc[p], After(p)) /\ Making(loc[p], After(p)) /\ Puttings(loc[p], pc[p])
  BY <1>2 DEF Shaped, After
<1>4. dinode[cwd[p]].type = "dir" /\ LocTyped(loc[p], After(p))  BY DEF IInv, Typed
<1>5. Held(p) \in Inums \union {Nil}
  <2>1. loc[p].at \in Inums \union {Nil} /\ loc[p].ip \in Inums \union {Nil}  BY <1>1 DEF Local
  <2> QED  BY <2>1 DEF Held, HeldAt
<1>6. \A i \in Inums : lock[i] = p <=> Held(p) = i  BY DEF IInv, LocalInv, LockInv
<1> QED  BY <1>1, <1>3, <1>4, <1>5, <1>6

(* A call that is not putting inodes is where it will be.                   *)
LEMMA NotPutting ==
    ASSUME NEW p, pc[p] \notin Putting2
    PROVE  After(p) = pc[p]
BY DEF After, Then

LEMMA Locked ==
    ASSUME IInv, NEW p \in Procs, NEW w, Locks(p, w), Target(p) \in Inums
    PROVE  /\ pc[p] = w /\ lock[Target(p)] = NoProc /\ dinode[Target(p)].type # "free"
           /\ \A q \in Procs : Held(q) # Target(p)
<1>1. pc[p] = w /\ lock[Target(p)] = NoProc /\ ~NoType(Target(p))  BY DEF Locks, At, CanLock
<1>2. dinode[Target(p)].type # "free"  BY <1>1 DEF NoType, IInv, ValidInv
<1>3. \A q \in Procs : Held(q) # Target(p)
  BY <1>1, Here, Constants
<1> QED  BY <1>1, <1>2, <1>3

LEMMA LockSame ==
    ASSUME IInv, NEW p \in Procs, NEW h, h = Held(p), lock' = lock
    PROVE  LockOK(p, h)
<1>1. lock \in [Inums -> Procs \union {NoProc}]  BY DEF IInv, TypeOK
<1>2. Held(p) \in Inums \union {Nil} /\ \A i \in Inums : lock[i] = p <=> Held(p) = i  BY Here
<1> QED  BY <1>1, <1>2 DEF LockOK

LEMMA LockTake ==
    ASSUME IInv, NEW p \in Procs, NEW h \in Inums, Held(p) = Nil, lock[h] = NoProc,
           lock' = [lock EXCEPT ![h] = p]
    PROVE  LockOK(p, h)
<1>1. lock \in [Inums -> Procs \union {NoProc}]  BY DEF IInv, TypeOK
<1>2. Nil \notin Inums  BY Constants
<1> QED  BY <1>1, <1>2 DEF LockOK

LEMMA LockDrop ==
    ASSUME IInv, NEW p \in Procs, NEW i, Held(p) = i, lock' = [lock EXCEPT ![i] = NoProc]
    PROVE  LockOK(p, Nil)
<1>1. lock \in [Inums -> Procs \union {NoProc}]  BY DEF IInv, TypeOK
<1>2. Nil \notin Inums  BY Constants
<1> QED  BY <1>1, <1>2 DEF LockOK

-----------------------------------------------------------------------------
(* The cache.                                                               *)
LEMMA CacheSame ==
    ASSUME IInv, icache' = icache
    PROVE  CacheOK /\ \A i \in Inums : icache'[i].ref = icache[i].ref
BY DEF IInv, TypeOK, CacheOK

LEMMA CacheLock ==
    ASSUME IInv, NEW t \in Inums, dinode[t].type # "free", icache' = Ilock(icache, t)
    PROVE  CacheOK /\ \A i \in Inums : icache'[i].ref = icache[i].ref
<1>1. icache \in [Inums -> [ref : Nat, valid : BOOLEAN]]  BY DEF IInv, TypeOK
<1>2. icache' = [icache EXCEPT ![t] = [icache[t] EXCEPT !.valid = TRUE]]  BY DEF Ilock
<1>3. icache[t] \in [ref : Nat, valid : BOOLEAN]  BY <1>1
<1>4. [icache[t] EXCEPT !.valid = TRUE] \in [ref : Nat, valid : BOOLEAN]
      /\ [icache[t] EXCEPT !.valid = TRUE].ref = icache[t].ref
  BY <1>3
<1> QED  BY <1>1, <1>2, <1>4 DEF CacheOK

LEMMA CacheGet ==
    ASSUME IInv, NEW c, c = icache \/ \E t \in Inums : dinode[t].type # "free" /\ c = Ilock(icache, t),
           NEW n \in Inums, icache' = Iget(c, n)
    PROVE  CacheOK /\ \A i \in Inums : icache'[i].ref = icache[i].ref + One(n, i)
<1>1. icache \in [Inums -> [ref : Nat, valid : BOOLEAN]]  BY DEF IInv, TypeOK
<1>2. /\ c \in [Inums -> [ref : Nat, valid : BOOLEAN]]
      /\ \A i \in Inums : c[i].ref = icache[i].ref /\ (c[i].valid => icache[i].valid \/ dinode[i].type # "free")
  <2>1. CASE c = icache  BY <1>1, <2>1
  <2>2. CASE \E t \in Inums : dinode[t].type # "free" /\ c = Ilock(icache, t)
    <3> PICK t \in Inums : dinode[t].type # "free" /\ c = Ilock(icache, t)  BY <2>2
    <3>1. c = [icache EXCEPT ![t] = [icache[t] EXCEPT !.valid = TRUE]]  BY DEF Ilock
    <3>2. icache[t] \in [ref : Nat, valid : BOOLEAN]  BY <1>1
    <3>3. [icache[t] EXCEPT !.valid = TRUE] \in [ref : Nat, valid : BOOLEAN]
          /\ [icache[t] EXCEPT !.valid = TRUE].ref = icache[t].ref
      BY <3>2
    <3> QED  BY <1>1, <3>1, <3>3
  <2> QED  BY <2>1, <2>2
<1> DEFINE r == [ref |-> c[n].ref + 1, valid |-> c[n].ref > 0 /\ c[n].valid]
<1>3. icache' = [c EXCEPT ![n] = r]  BY DEF Iget
<1>4. c[n].ref \in Nat /\ c[n].valid \in BOOLEAN  BY <1>2
<1>5. r \in [ref : Nat, valid : BOOLEAN] /\ r.ref = c[n].ref + 1 /\ (r.valid => c[n].valid)  BY <1>4
<1> HIDE DEF r
<1>6. icache' \in [Inums -> [ref : Nat, valid : BOOLEAN]]  BY <1>2, <1>3, <1>5
<1>7. icache'[n] = r /\ \A i \in Inums : i # n => icache'[i] = c[i]  BY <1>2, <1>3
<1>8. \A i \in Inums : icache[i].ref \in Nat  BY <1>1
<1>9. \A i \in Inums : icache'[i].ref = icache[i].ref + One(n, i)
  <2> TAKE i \in Inums
  <2>1. CASE i = n  BY <1>2, <1>5, <1>7, <2>1 DEF One
  <2>2. CASE i # n  BY <1>2, <1>7, <1>8, <2>2 DEF One
  <2> QED  BY <2>1, <2>2
<1>10. \A i \in Inums : icache'[i].valid => icache[i].valid \/ dinode[i].type # "free"
  BY <1>2, <1>5, <1>7
<1> QED  BY <1>6, <1>9, <1>10 DEF CacheOK

-----------------------------------------------------------------------------
(* Locals.                                                                  *)
LEMMA OwnNone ==
    ASSUME NEW l, l.puts = <<>>, NEW i
    PROVE  Own(l, i) = One(l.at, i) + One(l.ip, i)
<1>1. PutAt(l, 1, i) = 0 /\ PutAt(l, 2, i) = 0  BY DEF PutAt
<1>2. One(l.at, i) \in Int /\ One(l.ip, i) \in Int  BY DEF One
<1> QED  BY <1>1, <1>2 DEF Own

LEMMA OwnOne ==
    ASSUME NEW l, NEW a, l.puts = <<a>>, NEW i
    PROVE  Own(l, i) = One(l.at, i) + One(l.ip, i) + One(a, i)
<1>1. PutAt(l, 1, i) = One(a, i) /\ PutAt(l, 2, i) = 0  BY DEF PutAt, One
<1>2. One(l.at, i) \in Int /\ One(l.ip, i) \in Int /\ One(a, i) \in Int  BY DEF One
<1> QED  BY <1>1, <1>2 DEF Own

LEMMA OwnTwo ==
    ASSUME NEW l, NEW a, NEW b, l.puts = <<a, b>>, NEW i
    PROVE  Own(l, i) = One(l.at, i) + One(l.ip, i) + One(a, i) + One(b, i)
<1>1. PutAt(l, 1, i) = One(a, i) /\ PutAt(l, 2, i) = One(b, i)  BY DEF PutAt, One
<1> QED  BY <1>1 DEF Own

LEMMA NoLocFields ==
    /\ NoLoc \in Local
    /\ NoLoc.call = "none" /\ NoLoc.at = Nil /\ NoLoc.ip = Nil /\ NoLoc.f = Nil /\ NoLoc.puts = <<>>
    /\ NoLoc.then = "user"
    /\ Inodes(NoLoc, "user") /\ Args(NoLoc, "user") /\ Making(NoLoc, "user")
<1>1. NoLoc \in Local  BY DEF NoLoc, Local, Places, Waits
<1>2. /\ NoLoc.call = "none" /\ NoLoc.at = Nil /\ NoLoc.ip = Nil /\ NoLoc.f = Nil /\ NoLoc.puts = <<>>
      /\ NoLoc.then = "user"
  BY DEF NoLoc
<1>3. Inodes(NoLoc, "user") /\ Args(NoLoc, "user") /\ Making(NoLoc, "user")
  BY <1>2 DEF Inodes, Args, Making
<1> QED  BY <1>1, <1>2, <1>3

(* To put inodes and go on with the locals l.                               *)
WithPuts(l, s, then) == [l EXCEPT !.puts = s, !.then = then]
LEMMA PutsMoves ==
    ASSUME IInv, NEW p \in Procs, NEW l \in Local, NEW s \in Seq(Inums), NEW then \in Places, Puts(p, s, then, l),
           s # <<>>, Len(s) <= 2, then \notin {"put", "drop", "parent", "victim", "write"},
           Inodes(l, then), Args(l, then), Making(l, then), NEW m, m = WithPuts(l, s, then)
    PROVE  /\ MoveOK(p, "put", m) /\ Then("put", m) = then
           /\ m.call = l.call /\ m.path = l.path /\ m.at = l.at /\ m.ip = l.ip /\ m.puts = s
           /\ \A v : HeldAt(m, v) = HeldAt(l, v) /\ (LocTyped(m, v) <=> LocTyped(l, v))
           /\ \A v, i : OweAt(m, v, i) = OweAt(l, v, i)
<1>1. m \in Local /\ m.puts = s /\ m.then = then  BY DEF Local, WithPuts
<1>2. m.call = l.call /\ m.path = l.path /\ m.new = l.new /\ m.at = l.at /\ m.ip = l.ip /\ m.f = l.f
  BY DEF Local, WithPuts
<1>3. Inodes(m, then)  BY <1>2 DEF Inodes
<1>4. Args(m, then)  BY <1>2 DEF Args
<1>5. Making(m, then)  BY <1>2 DEF Making, Parent
<1>6. Then("put", m) = then  BY <1>1 DEF Then, Putting2
<1>7. Shaped(m, "put")  BY <1>1, <1>3, <1>4, <1>5, <1>6 DEF Shaped, Puttings, Putting2
<1>8. pc' = [pc EXCEPT ![p] = "put"] /\ loc' = [loc EXCEPT ![p] = m]  BY DEF Puts, Goes, WithPuts
<1>9. MoveOK(p, "put", m)  BY <1>1, <1>7, <1>8 DEF MoveOK, Places, Waits
<1>10. \A v : HeldAt(m, v) = HeldAt(l, v)  BY <1>2 DEF HeldAt
<1>11. \A v : LocTyped(m, v) <=> LocTyped(l, v)  BY <1>2 DEF LocTyped
<1>12. \A v, i : OweAt(m, v, i) = OweAt(l, v, i)  BY <1>2 DEF OweAt, Owes
<1> QED  BY <1>1, <1>2, <1>6, <1>9, <1>10, <1>11, <1>12

LEMMA ReturnMoves ==
    ASSUME IInv, NEW p \in Procs, NEW s \in Seq(Inums), Return(p, s), s # <<>>, Len(s) <= 2,
           NEW m, m = WithPuts(NoLoc, s, "user")
    PROVE  /\ MoveOK(p, "put", m) /\ Then("put", m) = "user"
           /\ m.at = Nil /\ m.ip = Nil /\ m.puts = s /\ m.call = "none"
           /\ HeldAt(m, "user") = Nil /\ LocTyped(m, "user") /\ \A i \in Inums : OweAt(m, "user", i) = 0
<1>1. Puts(p, s, "user", NoLoc)  BY DEF Return
<1>2. "user" \in Places  BY DEF Places
<1>3. /\ MoveOK(p, "put", m) /\ Then("put", m) = "user"
      /\ m.call = NoLoc.call /\ m.path = NoLoc.path /\ m.at = NoLoc.at /\ m.ip = NoLoc.ip /\ m.puts = s
  BY <1>1, <1>2, NoLocFields, PutsMoves
<1>4. m.at = Nil /\ m.ip = Nil /\ m.call = "none"  BY <1>3, NoLocFields
<1>5. HeldAt(m, "user") = Nil  BY DEF HeldAt
<1>6. LocTyped(m, "user")  BY <1>4 DEF LocTyped
<1>7. \A i \in Inums : OweAt(m, "user", i) = 0  BY <1>4 DEF OweAt, Owes
<1> QED  BY <1>3, <1>4, <1>5, <1>6, <1>7

-----------------------------------------------------------------------------
(* Actions that leave the disk alone, or the files.                         *)
LEMMA DiskSame ==
    ASSUME IInv, UNCHANGED disk
    PROVE  DiskOK /\ BlocksInv'
<1>1. dinode' = dinode /\ bitmap' = bitmap  BY DEF disk
<1>2. DiskOK  BY <1>1 DEF IInv, TypeOK, DiskOK
<1>3. BlocksInv'  BY <1>1 DEF IInv, CountInv, BlocksInv
<1> QED  BY <1>2, <1>3

LEMMA FdsSame ==
    ASSUME IInv, DiskOK, NEW p \in Procs, UNCHANGED fds
    PROVE  /\ FdsOK(p, 1) /\ FdsInv' /\ FilesInv' /\ dinode[cwd'[p]].type = "dir"
           /\ \A i : RowN(file'[1], i) - RowN(file[1], i) = 0
<1>1. file' = file /\ ofile' = ofile /\ cwd' = cwd  BY DEF fds
<1>2. 1 \in Files  BY FsAssumption DEF Files
<1>3. FdsOK(p, 1)  BY <1>1, <1>2 DEF IInv, TypeOK, FdsOK
<1>4. FdsInv'  BY <1>1 DEF IInv, CountInv, FdsInv, FdSet
<1>5. FilesInv'
  <2>1. \A f \in Files : file[f].ip \in Inums \union {Nil}  BY DEF IInv, TypeOK
  <2> QED  BY <1>1, <2>1 DEF IInv, FilesInv, DiskOK
<1>6. \A i : RowN(file'[1], i) - RowN(file[1], i) = 0  BY <1>1 DEF RowN
<1> QED  BY <1>1, <1>3, <1>4, <1>5, <1>6, Here

LEMMA CallStep ==
    ASSUME IInv, NEW p \in Procs, NEW w, NEW m, UNCHANGED fds, w # "write",
           MoveOK(p, w, m), LockOK(p, HeldAt(m, Then(w, m))), CacheOK,
           \A i \in Inums : icache'[i].ref = icache[i].ref + Own(m, i) - Own(loc[p], i),
           DiskOK, OwesOK(p, w, m), BlocksInv', LocTyped(m, Then(w, m))
    PROVE  IInv'
<1>1. /\ FdsOK(p, 1) /\ FdsInv' /\ FilesInv' /\ dinode[cwd'[p]].type = "dir"
      /\ \A i : RowN(file'[1], i) - RowN(file[1], i) = 0
  BY FdsSame
<1>2. RefsOK(p, m, 1)
  <2> SUFFICES ASSUME NEW i \in Inums
               PROVE  icache'[i].ref = icache[i].ref + Own(m, i) - Own(loc[p], i)
                        + One(cwd'[p], i) - One(cwd[p], i) + RowN(file'[1], i) - RowN(file[1], i)
    BY DEF RefsOK
  <2>1. cwd' = cwd /\ file' = file  BY DEF fds
  <2>2. icache'[i].ref = icache[i].ref + Own(m, i) - Own(loc[p], i)  OBVIOUS
  <2>3. icache'[i].ref \in Int  BY DEF CacheOK
  <2>4. One(cwd[p], i) \in Int /\ RowN(file[1], i) \in Int  BY DEF One, RowN
  <2> DEFINE x == icache[i].ref + Own(m, i) - Own(loc[p], i)
  <2>5. x \in Int /\ x + One(cwd'[p], i) - One(cwd[p], i) + RowN(file'[1], i) - RowN(file[1], i) = x
    <3>1. x \in Int  BY <2>2, <2>3
    <3> HIDE DEF x
    <3> QED  BY <2>1, <2>4, <3>1
  <2> QED  BY <2>2, <2>5
<1>3. Writing(p)'
  <2>1. pc'[p] = w  BY Here DEF MoveOK, IInv, TypeOK
  <2> QED  BY <2>1 DEF Writing
<1> QED  BY <1>1, <1>2, <1>3, Quiet

LEMMA OwesSame ==
    ASSUME IInv, NEW p \in Procs, NEW w, NEW m, UNCHANGED disk,
           \A i \in Inums : dinode[i].type # "free" => OweAt(m, Then(w, m), i) <= OweAt(loc[p], After(p), i)
    PROVE  OwesOK(p, w, m)
<1> SUFFICES ASSUME NEW i \in Inums, dinode[i].type # "free"
             PROVE  dinode'[i].nlink >= dinode[i].nlink + OweAt(m, Then(w, m), i) - OweAt(loc[p], After(p), i)
  BY DEF OwesOK
<1>1. dinode'[i].nlink = dinode[i].nlink /\ dinode[i].nlink \in Int  BY DEF disk, IInv, TypeOK
<1>2. OweAt(m, Then(w, m), i) \in Int /\ OweAt(loc[p], After(p), i) \in Int  BY DEF OweAt
<1>3. OweAt(m, Then(w, m), i) <= OweAt(loc[p], After(p), i)  OBVIOUS
<1> QED  BY <1>1, <1>2, <1>3

(* ... or both.                                                             *)
LEMMA NameStep ==
    ASSUME IInv, NEW p \in Procs, NEW w, NEW m, UNCHANGED <<disk, fds>>, w # "write",
           MoveOK(p, w, m), LockOK(p, HeldAt(m, Then(w, m))), CacheOK,
           \A i \in Inums : icache'[i].ref = icache[i].ref + Own(m, i) - Own(loc[p], i),
           \A i \in Inums : dinode[i].type # "free" => OweAt(m, Then(w, m), i) <= OweAt(loc[p], After(p), i),
           LocTyped(m, Then(w, m))
    PROVE  IInv'
<1>1. DiskOK /\ BlocksInv'  BY DiskSame
<1>2. OwesOK(p, w, m)  BY OwesSame
<1> QED  BY <1>1, <1>2, CallStep

(* To give up: put the inodes s and return.                                 *)
LEMMA GiveUp ==
    ASSUME IInv, NEW p \in Procs, NEW s \in Seq(Inums), Return(p, s), s # <<>>, Len(s) <= 2,
           UNCHANGED <<disk, fds>>, LockOK(p, Nil), CacheOK,
           \A m : m.at = Nil /\ m.ip = Nil /\ m.puts = s =>
              \A i \in Inums : icache'[i].ref = icache[i].ref + Own(m, i) - Own(loc[p], i)
    PROVE  IInv'
<1> DEFINE m == WithPuts(NoLoc, s, "user")
<1>1. /\ MoveOK(p, "put", m) /\ Then("put", m) = "user"
      /\ m.at = Nil /\ m.ip = Nil /\ m.puts = s
      /\ HeldAt(m, "user") = Nil /\ LocTyped(m, "user") /\ \A i \in Inums : OweAt(m, "user", i) = 0
  BY ReturnMoves
<1> HIDE DEF m
<1>2. \A i \in Inums : icache'[i].ref = icache[i].ref + Own(m, i) - Own(loc[p], i)  BY <1>1
<1>3. \A i \in Inums : OweAt(m, Then("put", m), i) <= OweAt(loc[p], After(p), i)  BY <1>1 DEF OweAt
<1> QED  BY <1>1, <1>2, <1>3, NameStep

-----------------------------------------------------------------------------
(* Paths.                                                                   *)
LEMMA PathNames ==
    ASSUME NEW s, IsPath(s), NEW names, names = IF Head(s) = "/" THEN Tail(s) ELSE s
    PROVE  names \in Seq(Names) /\ (HasLast(s) => names # <<>>)
<1>1. s \in Seq(Names \union {"/"}) /\ s # <<>> /\ Tail(s) \in Seq(Names)  BY DEF IsPath
<1>2. CASE Head(s) = "/"
  <2>1. names = Tail(s)  BY <1>2
  <2>2. ASSUME HasLast(s), Tail(s) = <<>> PROVE FALSE
    <3>1. Len(s) = 1
      <4>1. Len(Tail(s)) = Len(s) - 1 /\ Len(s) \in Nat  BY <1>1
      <4>2. Len(Tail(s)) = 0
        <5> DEFINE t == Tail(s)
        <5>1. t = <<>>  BY <2>2
        <5> HIDE DEF t
        <5>2. Len(t) = 0  BY <5>1
        <5> QED  BY <5>2 DEF t
      <4> QED  BY <4>1, <4>2
    <3>2. s = <<"/">>  BY <1>1, <1>2, <3>1
    <3> QED  BY <2>2, <3>2 DEF HasLast
  <2> QED  BY <1>1, <2>1, <2>2
<1>3. CASE Head(s) # "/"
  <2>1. names = s  BY <1>3
  <2>2. Len(s) \in Nat /\ Len(s) > 0 /\ s[1] \in Names  BY <1>1, <1>3
  <2>3. \A k \in 1 .. Len(s) : s[k] \in Names
    <3> TAKE k \in 1 .. Len(s)
    <3>1. CASE k = 1  BY <2>2, <3>1
    <3>2. CASE k > 1
      <4>1. Len(Tail(s)) = Len(s) - 1 /\ k - 1 \in 1 .. Len(s) - 1  BY <1>1, <2>2, <3>2
      <4>2. Tail(s)[k - 1] \in Names  BY <1>1, <4>1
      <4>3. Tail(s)[k - 1] = s[k]  BY <1>1, <3>2, <4>1
      <4> QED  BY <4>2, <4>3
    <3> QED  BY <3>1, <3>2
  <2>4. s \in Seq(Names)
    <3>1. s = [k \in 1 .. Len(s) |-> s[k]]  BY <1>1
    <3>2. [k \in 1 .. Len(s) |-> s[k]] \in Seq(Names)  BY <2>2, <2>3
    <3> QED  BY <3>1, <3>2
  <2> QED  BY <1>1, <2>1, <2>4
<1> QED  BY <1>2, <1>3

OnPath(l, s, a) == [l EXCEPT !.path = s, !.at = a]
LEMMA ResolveMoves ==
    ASSUME IInv, NEW p \in Procs, NEW s, NEW l \in Local, NEW c, Resolve(p, s, l, c), IsPath(s),
           l.puts = <<>>, l.then = "user", l.f = Nil, l.call \in CallNames, l.call = "link" => HasLast(l.new),
           Parent(l) => HasLast(s), l.ip # Nil => l.call = "link"
    PROVE  \E w, m, start : /\ w # "write" /\ start \in Inums /\ MoveOK(p, w, m) /\ icache' = Iget(c, start)
                            /\ Then(w, m) = w /\ HeldAt(m, w) = Nil /\ m.call = l.call
                            /\ m.at = start /\ m.ip = l.ip /\ m.puts = <<>>
                            /\ w \in {"walk", "resolved"}
<1> DEFINE start == IF Head(s) = "/" THEN Root ELSE cwd[p]
           names == IF Head(s) = "/" THEN Tail(s) ELSE s
           w == IF names = <<>> THEN "resolved" ELSE "walk"
           m == OnPath(l, names, start)
<1>1. start \in Inums  BY Here, Constants
<1>2. names \in Seq(Names) /\ (HasLast(s) => names # <<>>)  BY PathNames
<1>3. /\ icache' = Iget(c, start) /\ pc' = [pc EXCEPT ![p] = w] /\ loc' = [loc EXCEPT ![p] = m]
  BY DEF Resolve, Goes, OnPath
<1> HIDE DEF start, names
<1>4. m \in Local  BY <1>1, <1>2 DEF Local, OnPath
<1>5. /\ m.call = l.call /\ m.path = names /\ m.new = l.new /\ m.at = start /\ m.ip = l.ip /\ m.f = l.f
      /\ m.puts = <<>> /\ m.then = "user"
  BY DEF Local, OnPath
<1> HIDE DEF m
<1>6. w \in {"walk", "resolved"} /\ w \in Places /\ w # "write"  BY DEF Places, Waits
<1>7. start # Nil  BY <1>1, Constants
<1>8. ASSUME names = <<>> PROVE Inodes(m, w) /\ Args(m, w) /\ Making(m, w)
  <2>1. w = "resolved"  BY <1>8
  <2>2. l.ip = Nil /\ l.call \in {"open", "openw", "chdir", "link"}
    BY <1>2, <1>8 DEF Parent, CallNames
  <2>3. Inodes(m, w)  BY <1>5, <1>7, <2>1, <2>2 DEF Inodes
  <2>4. Args(m, w)  BY <1>5, <2>1 DEF Args
  <2>5. Making(m, w)  BY <1>5, <2>1, <2>2 DEF Making
  <2> QED  BY <2>3, <2>4, <2>5
<1>9. ASSUME names # <<>> PROVE Inodes(m, w) /\ Args(m, w) /\ Making(m, w)
  <2>1. w = "walk"  BY <1>9
  <2>2. Inodes(m, w)  BY <1>5, <1>7, <2>1 DEF Inodes
  <2>3. Args(m, w)  BY <1>5, <1>9, <2>1 DEF Args
  <2>4. Making(m, w)  BY <1>5, <2>1 DEF Making, CallNames
  <2> QED  BY <2>2, <2>3, <2>4
<1> HIDE DEF w
<1>10. Then(w, m) = w  BY <1>6 DEF Then, Putting2
<1>11. Shaped(m, w)
  <2>1. w \notin Putting2  BY <1>6 DEF Putting2
  <2> QED  BY <1>5, <1>8, <1>9, <1>10, <2>1 DEF Shaped, Puttings
<1>12. MoveOK(p, w, m)  BY <1>3, <1>4, <1>5, <1>6, <1>11 DEF MoveOK
<1>13. HeldAt(m, w) = Nil  BY <1>6 DEF HeldAt
<1> QED  BY <1>1, <1>3, <1>5, <1>6, <1>10, <1>12, <1>13

LEMMA KeepsCall ==
    ASSUME IInv, NEW p \in Procs, NEW c \in Calls(p), Len(c) > 1, Call(p, c)
    PROVE  IInv'
<1>1. pc[p] = "user" /\ UNCHANGED <<disk, lock, fds>> /\ lock' = lock  BY DEF Call, At
<1>2. After(p) = "user" /\ loc[p].puts = <<>>  BY <1>1, Here DEF After, Then, Putting2, Puttings
<1>3. loc[p].at = Nil /\ loc[p].ip = Nil  BY <1>2, Here DEF Inodes
<1> DEFINE l == [NoLoc EXCEPT !.call = c[1], !.new = IF Len(c) = 3 THEN c[3] ELSE <<>>]
<1>4. Resolve(p, c[2], l, icache)  BY DEF Call
<1>5. /\ c[1] \in CallNames
      /\ IF c[1] \in {"creat", "mkdir", "mknod", "unlink"} THEN HasLast(c[2]) ELSE IsPath(c[2])
      /\ c[1] = "link" <=> Len(c) = 3
      /\ c[1] = "link" => HasLast(c[3])
  BY CallsAssumption DEF CallNames
<1>6. IsPath(c[2])  BY <1>5 DEF HasLast
<1> DEFINE new == IF Len(c) = 3 THEN c[3] ELSE <<>>
<1>7. new \in Seq(Names \union {"/"})
  <2>1. CASE Len(c) = 3  BY <1>5, <2>1 DEF HasLast, IsPath
  <2>2. CASE Len(c) # 3  BY <2>2
  <2> QED  BY <2>1, <2>2
<1>8. /\ l.call = c[1] /\ l.new = new /\ l.at = Nil /\ l.ip = Nil /\ l.f = Nil
      /\ l.puts = <<>> /\ l.then = "user"
  BY DEF NoLoc
<1>9. l \in Local
  <2> HIDE DEF new
  <2> DEFINE k == [NoLoc EXCEPT !.call = c[1], !.new = new]
  <2>1. k \in Local  BY <1>5, <1>7, NoLocFields DEF Local
  <2> QED  BY <2>1 DEF new
<1>10. l.call = "link" => HasLast(l.new)  BY <1>5, <1>8
<1> HIDE DEF l, new
<1>11. Parent(l) => HasLast(c[2])  BY <1>5, <1>8 DEF Parent
<1> PICK w, m, start : /\ w # "write" /\ start \in Inums /\ MoveOK(p, w, m) /\ icache' = Iget(icache, start)
                       /\ Then(w, m) = w /\ HeldAt(m, w) = Nil /\ m.call = l.call
                       /\ m.at = start /\ m.ip = l.ip /\ m.puts = <<>>
                       /\ w \in {"walk", "resolved"}
  <2>1. l.ip # Nil => l.call = "link"  BY <1>8
  <2> QED  BY <1>4, <1>5, <1>6, <1>8, <1>9, <1>10, <1>11, <2>1, ResolveMoves
<1>12. Held(p) = Nil  BY <1>2 DEF Held, HeldAt
<1>13. LockOK(p, HeldAt(m, Then(w, m)))  BY <1>1, <1>12, LockSame
<1>14. CacheOK /\ \A i \in Inums : icache'[i].ref = icache[i].ref + One(start, i)  BY CacheGet
<1>15. \A i \in Inums : icache'[i].ref = icache[i].ref + Own(m, i) - Own(loc[p], i)
  <2> TAKE i \in Inums
  <2>1. Own(m, i) = One(start, i) + One(Nil, i)  BY <1>8, OwnNone
  <2>2. Own(loc[p], i) = One(Nil, i) + One(Nil, i)  BY <1>2, <1>3, OwnNone
  <2>3. One(Nil, i) = 0 /\ One(start, i) \in Int  BY Constants DEF One
  <2>4. icache[i].ref \in Int /\ icache'[i].ref = icache[i].ref + One(start, i)
    BY <1>14 DEF IInv, TypeOK
  <2> QED  BY <2>1, <2>2, <2>3, <2>4
<1>16. \A i \in Inums : OweAt(m, Then(w, m), i) <= OweAt(loc[p], After(p), i)
  BY <1>8, Constants DEF OweAt, Owes
<1>17. LocTyped(m, Then(w, m))  BY <1>8 DEF LocTyped
<1> QED  BY <1>1, <1>13, <1>14, <1>15, <1>16, <1>17, NameStep

-----------------------------------------------------------------------------
LEMMA Ones ==
    /\ \A x, i : One(x, i) \in Int
    /\ \A i \in Inums : One(Nil, i) = 0
    /\ \A i \in Inums : IInv => icache[i].ref \in Int
BY Constants DEF One, IInv, TypeOK

(* To put inode a and go on.                                                *)
LEMMA PutStep ==
    ASSUME IInv, NEW p \in Procs, NEW l \in Local, NEW a \in Inums, NEW then \in Places, Puts(p, <<a>>, then, l),
           UNCHANGED <<disk, fds>>, then \notin {"put", "drop", "parent", "victim", "write"},
           Inodes(l, then), Args(l, then), Making(l, then), LocTyped(l, then),
           LockOK(p, HeldAt(l, then)), CacheOK,
           \A i \in Inums : icache'[i].ref = icache[i].ref + One(l.at, i) + One(l.ip, i) + One(a, i) - Own(loc[p], i),
           \A i \in Inums : dinode[i].type # "free" => OweAt(l, then, i) <= OweAt(loc[p], After(p), i)
    PROVE  IInv'
<1> DEFINE s == <<a>>
           m == WithPuts(l, s, then)
<1>1. s \in Seq(Inums) /\ s # <<>> /\ Len(s) <= 2  OBVIOUS
<1>2. Puts(p, s, then, l)  OBVIOUS
<1>3. s = <<a>>  OBVIOUS
<1> HIDE DEF s
<1>4. /\ MoveOK(p, "put", m) /\ Then("put", m) = then
      /\ m.at = l.at /\ m.ip = l.ip /\ m.puts = s
      /\ \A v : HeldAt(m, v) = HeldAt(l, v) /\ (LocTyped(m, v) <=> LocTyped(l, v))
      /\ \A v, i : OweAt(m, v, i) = OweAt(l, v, i)
  BY <1>1, <1>2, PutsMoves
<1> HIDE DEF m
<1>5. \A i \in Inums : icache'[i].ref = icache[i].ref + Own(m, i) - Own(loc[p], i)
  <2> TAKE i \in Inums
  <2>1. Own(m, i) = One(l.at, i) + One(l.ip, i) + One(a, i)  BY <1>3, <1>4, OwnOne
  <2>2. icache[i].ref \in Int /\ One(l.at, i) \in Int /\ One(l.ip, i) \in Int /\ One(a, i) \in Int
    BY Ones
  <2>3. Own(loc[p], i) \in Int  BY Ones DEF Own, PutAt
  <2>4. icache'[i].ref = icache[i].ref + One(l.at, i) + One(l.ip, i) + One(a, i) - Own(loc[p], i)  OBVIOUS
  <2> QED  BY <2>1, <2>2, <2>3, <2>4
<1>6. LocTyped(m, Then("put", m))  BY <1>4
<1>7. LockOK(p, HeldAt(m, Then("put", m)))  BY <1>4
<1>8. \A i \in Inums : dinode[i].type # "free" => OweAt(m, Then("put", m), i) <= OweAt(loc[p], After(p), i)
  BY <1>4
<1> QED  BY <1>4, <1>5, <1>6, <1>7, <1>8, NameStep

(* To put inode a and return.                                               *)
LEMMA ReturnStep ==
    ASSUME IInv, NEW p \in Procs, NEW a \in Inums, Return(p, <<a>>), UNCHANGED <<disk, fds>>,
           LockOK(p, Nil), CacheOK,
           \A i \in Inums : icache'[i].ref = icache[i].ref + One(a, i) - Own(loc[p], i)
    PROVE  IInv'
<1> DEFINE s == <<a>>
<1>1. s \in Seq(Inums) /\ s # <<>> /\ Len(s) <= 2 /\ Return(p, s)  OBVIOUS
<1>2. s = <<a>>  OBVIOUS
<1> HIDE DEF s
<1>3. ASSUME NEW m, m.at = Nil /\ m.ip = Nil /\ m.puts = s, NEW i \in Inums
      PROVE  icache'[i].ref = icache[i].ref + Own(m, i) - Own(loc[p], i)
  <2>1. Own(m, i) = One(Nil, i) + One(Nil, i) + One(a, i)  BY <1>2, <1>3, OwnOne
  <2>2. One(Nil, i) = 0 /\ One(a, i) \in Int  BY Ones
  <2>3. Own(m, i) = One(a, i)  BY <2>1, <2>2
  <2> QED  BY <2>3
<1> QED  BY <1>1, <1>3, GiveUp

-----------------------------------------------------------------------------
(* A call that waits at w for the inode t.                                  *)
LEMMA WaitsAt ==
    ASSUME IInv, NEW p \in Procs, NEW w, w \notin {"put", "drop", "write", "victim"}, Locks(p, w),
           w \in {"walk", "parent", "resolved", "exists", "unlinkold"}
    PROVE  /\ pc[p] = w /\ After(p) = w /\ loc[p] \in Local /\ loc[p].puts = <<>> /\ loc[p].then = "user"
           /\ Inodes(loc[p], w) /\ Args(loc[p], w) /\ Making(loc[p], w) /\ LocTyped(loc[p], w)
           /\ Target(p) = (IF w \in {"walk", "parent", "resolved"} THEN loc[p].at ELSE loc[p].ip)
           /\ Target(p) \in Inums /\ lock[Target(p)] = NoProc /\ dinode[Target(p)].type # "free"
           /\ Held(p) = Nil /\ loc[p].f = Nil
           /\ \A i : Own(loc[p], i) = One(loc[p].at, i) + One(loc[p].ip, i)
<1>1. pc[p] = w  BY DEF Locks, At
<1>2. After(p) = w  BY <1>1 DEF After, Then, Putting2
<1>3. /\ loc[p] \in Local /\ Puttings(loc[p], w)
      /\ Inodes(loc[p], w) /\ Args(loc[p], w) /\ Making(loc[p], w) /\ LocTyped(loc[p], w)
  BY <1>1, <1>2, Here
<1>4. loc[p].puts = <<>> /\ loc[p].then = "user"  BY <1>3 DEF Puttings, Putting2
<1>5. Target(p) = IF w \in {"walk", "parent", "resolved"} THEN loc[p].at ELSE loc[p].ip
  BY <1>1 DEF Target
<1>6. loc[p].at \in Inums \union {Nil} /\ loc[p].ip \in Inums \union {Nil}  BY <1>3 DEF Local
<1>7. Target(p) \in Inums  BY <1>3, <1>5, <1>6 DEF Inodes
<1>8. lock[Target(p)] = NoProc /\ dinode[Target(p)].type # "free"  BY <1>7, Locked
<1>9. Held(p) = Nil  BY <1>2 DEF Held, HeldAt
<1>10. loc[p].f = Nil  BY <1>3 DEF Inodes
<1>11. \A i : Own(loc[p], i) = One(loc[p].at, i) + One(loc[p].ip, i)  BY <1>4, OwnNone
<1> QED  BY <1>1, <1>2, <1>3, <1>4, <1>5, <1>7, <1>8, <1>9, <1>10, <1>11

LEMMA KeepsWalk ==
    ASSUME IInv, NEW p \in Procs, Walk(p)
    PROVE  IInv'
<1> DEFINE l == loc[p]
           d == l.at
           next == Dirlookup(d, Head(l.path))
           last == Len(l.path) = 1
           stop == last /\ Parent(l)
<1>1. /\ Locks(p, "walk") /\ UNCHANGED <<disk, fds>> /\ lock' = lock
  BY DEF Walk
<1>2. /\ pc[p] = "walk" /\ After(p) = "walk" /\ l \in Local /\ l.puts = <<>> /\ l.then = "user"
      /\ Inodes(l, "walk") /\ Args(l, "walk") /\ Making(l, "walk") /\ LocTyped(l, "walk")
      /\ d \in Inums /\ dinode[d].type # "free" /\ Held(p) = Nil /\ l.f = Nil
      /\ \A i : Own(loc[p], i) = One(d, i) + One(l.ip, i)
  BY <1>1, WaitsAt
<1>3. LockOK(p, Nil)  BY <1>1, <1>2, LockSame
<1>4. l.path \in Seq(Names) /\ l.path # <<>>  BY <1>2 DEF Local, Args
<1>5. CASE dinode[d].type = "dir" /\ stop
  <2>1. icache' = Ilock(icache, d) /\ pc' = [pc EXCEPT ![p] = "parent"] /\ loc' = loc
    BY <1>5 DEF Walk, Goes
  <2>2. loc \in [Procs -> Local]  BY DEF IInv, LocalInv, LocType
  <2>3. Inodes(l, "parent") /\ Args(l, "parent") /\ Making(l, "parent")
    <3>1. Inodes(l, "parent")  BY <1>2 DEF Inodes
    <3>2. Args(l, "parent")  BY <1>2, <1>4, <1>5 DEF Args
    <3>3. Making(l, "parent")  BY <1>5 DEF Making
    <3> QED  BY <3>1, <3>2, <3>3
  <2>4. Then("parent", l) = "parent"  BY DEF Then, Putting2
  <2>5. Shaped(l, "parent")  BY <1>2, <2>3, <2>4 DEF Shaped, Puttings, Putting2
  <2>6. MoveOK(p, "parent", l)
    <3>1. loc' = [loc EXCEPT ![p] = l]  BY <2>1, <2>2
    <3>2. Len(l.puts) <= 2  BY <1>2, Here
    <3> HIDE DEF l
    <3> QED  BY <1>2, <2>1, <2>5, <3>1, <3>2 DEF MoveOK, Places, Waits
  <2>7. HeldAt(l, "parent") = Nil  BY DEF HeldAt
  <2>8. CacheOK /\ \A i \in Inums : icache'[i].ref = icache[i].ref  BY <1>2, <2>1, CacheLock
  <2>9. \A i \in Inums : icache'[i].ref = icache[i].ref + Own(l, i) - Own(loc[p], i)
    <3> TAKE i \in Inums
    <3>1. Own(l, i) \in Int /\ icache[i].ref \in Int  BY <1>2, Ones
    <3> QED  BY <2>8, <3>1
  <2>10. \A i \in Inums : OweAt(l, "parent", i) <= OweAt(loc[p], After(p), i)
    BY <1>2 DEF OweAt, Owes
  <2>11. LocTyped(l, "parent")  BY <1>2, <1>5 DEF LocTyped
  <2> HIDE DEF l
  <2> QED  BY <1>1, <1>3, <2>4, <2>6, <2>7, <2>8, <2>9, <2>10, <2>11, NameStep
<1>6. CASE dinode[d].type = "dir" /\ ~stop /\ next # Nil
  <2> DEFINE m == [l EXCEPT !.at = next, !.path = Tail(@)]
             then == IF last THEN "resolved" ELSE "walk"
  <2>1. icache' = Iget(Ilock(icache, d), next) /\ Puts(p, <<d>>, then, m)
    BY <1>6 DEF Walk
  <2>2. next \in Inums
    <3>1. Head(l.path) \in Names  BY <1>4
    <3>2. dinode[d].ents \in [Names -> Inums \union {Nil}]  BY <1>2 DEF IInv, TypeOK
    <3> QED  BY <1>6, <3>1, <3>2 DEF Dirlookup
  <2>3. CacheOK /\ \A i \in Inums : icache'[i].ref = icache[i].ref + One(next, i)
    BY <1>2, <2>1, <2>2, CacheGet
  <2> HIDE DEF next
  <2>4. Tail(l.path) \in Seq(Names) /\ (~last => Tail(l.path) # <<>>)
    <3> DEFINE s == l.path  t == Tail(s)
    <3>1. s \in Seq(Names) /\ s # <<>> /\ Len(s) \in Nat /\ Len(s) # 0  BY <1>4
    <3>2. t \in Seq(Names) /\ Len(t) = Len(s) - 1  BY <3>1
    <3> HIDE DEF t
    <3>3. t = <<>> => Len(t) = 0  OBVIOUS
    <3>4. t = <<>> => Len(s) = 1  BY <3>1, <3>2, <3>3
    <3> QED  BY <3>2, <3>4 DEF t
  <2>5. /\ m \in Local /\ m.call = l.call /\ m.path = Tail(l.path) /\ m.new = l.new /\ m.at = next
        /\ m.ip = l.ip /\ m.f = l.f
    BY <1>2, <2>2, <2>4 DEF Local
  <2>6. next # Nil  BY <2>2, Constants
  <2>7. then \in {"resolved", "walk"} /\ then \in Places  BY DEF Places, Waits
  <2>8. Inodes(m, then) /\ Args(m, then) /\ Making(m, then)
    <3> HIDE DEF m
    <3>1. CASE last
      <4>1. ~Parent(l)  BY <1>6, <3>1
      <4>2. l.ip = Nil /\ l.call \in {"open", "openw", "chdir", "link"}
        <5>1. l.ip # Nil => l.call = "link"  BY <1>2 DEF Inodes
        <5>2. l.call \in CallNames \union {"none"} /\ l.call # "none"  BY <1>2 DEF Making, Local
        <5> QED  BY <4>1, <5>1, <5>2 DEF Parent, CallNames
      <4>3. then = "resolved"  BY <3>1
      <4>4. Inodes(m, then)  BY <1>2, <2>5, <2>6, <4>2, <4>3 DEF Inodes
      <4>5. Args(m, then)  BY <1>2, <2>5, <4>3 DEF Args
      <4>6. Making(m, then)  BY <2>5, <4>2, <4>3 DEF Making
      <4> QED  BY <4>4, <4>5, <4>6
    <3>2. CASE ~last
      <4>1. then = "walk"  BY <3>2
      <4>2. Inodes(m, then)  BY <1>2, <2>5, <2>6, <4>1 DEF Inodes
      <4>3. Args(m, then)  BY <1>2, <2>4, <2>5, <3>2, <4>1 DEF Args
      <4>4. Making(m, then)  BY <1>2, <2>5, <4>1 DEF Making
      <4> QED  BY <4>2, <4>3, <4>4
    <3> QED  BY <3>1, <3>2
  <2> HIDE DEF then, m
  <2>9. HeldAt(m, then) = Nil  BY <2>7 DEF HeldAt
  <2>10. LocTyped(m, then)  BY <1>2, <2>5, <2>7 DEF LocTyped
  <2>11. \A i \in Inums : icache'[i].ref = icache[i].ref + One(m.at, i) + One(m.ip, i) + One(d, i) - Own(loc[p], i)
    <3> TAKE i \in Inums
    <3>1. Own(loc[p], i) = One(d, i) + One(l.ip, i)  BY <1>2
    <3>2. icache[i].ref \in Int /\ One(next, i) \in Int /\ One(l.ip, i) \in Int /\ One(d, i) \in Int
      BY Ones
    <3> QED  BY <2>3, <2>5, <3>1, <3>2
  <2>12. \A i \in Inums : OweAt(m, then, i) <= OweAt(loc[p], After(p), i)
    BY <1>2, <2>5, <2>7 DEF OweAt, Owes
  <2> QED  BY <1>1, <1>2, <1>3, <2>1, <2>3, <2>5, <2>7, <2>8, <2>9, <2>10, <2>11, <2>12, PutStep
<1>7. CASE ~(dinode[d].type = "dir" /\ stop) /\ ~(dinode[d].type = "dir" /\ ~stop /\ next # Nil)
  <2>1. /\ icache' = Ilock(icache, d)
        /\ IF l.ip = Nil THEN Return(p, <<d>>) ELSE Puts(p, <<d>>, "unlinkold", [l EXCEPT !.at = Nil])
    BY <1>7 DEF Walk
  <2>2. CacheOK /\ \A i \in Inums : icache'[i].ref = icache[i].ref  BY <1>2, <2>1, CacheLock
  <2>3. CASE l.ip = Nil
    <3>1. \A i \in Inums : icache'[i].ref = icache[i].ref + One(d, i) - Own(loc[p], i)
      <4> TAKE i \in Inums
      <4>1. Own(loc[p], i) = One(d, i) + One(Nil, i)  BY <1>2, <2>3
      <4>2. icache[i].ref \in Int /\ One(Nil, i) = 0 /\ One(d, i) \in Int  BY Ones
      <4> QED  BY <2>2, <4>1, <4>2
    <3> QED  BY <1>1, <1>2, <1>3, <2>1, <2>2, <2>3, <3>1, ReturnStep
  <2>4. CASE l.ip # Nil
    <3> DEFINE m == [l EXCEPT !.at = Nil]
    <3>1. m \in Local /\ m.call = l.call /\ m.new = l.new /\ m.at = Nil /\ m.ip = l.ip /\ m.f = l.f
      BY <1>2 DEF Local
    <3>2. Puts(p, <<d>>, "unlinkold", m)  BY <2>1, <2>4
    <3> HIDE DEF m
    <3>3. l.call = "link"  BY <1>2, <2>4 DEF Inodes
    <3>4. Inodes(m, "unlinkold") /\ Args(m, "unlinkold") /\ Making(m, "unlinkold")
      <4>1. Inodes(m, "unlinkold")  BY <1>2, <2>4, <3>1 DEF Inodes
      <4>2. Args(m, "unlinkold")  BY <1>2, <3>1 DEF Args
      <4>3. Making(m, "unlinkold")  BY <3>1, <3>3 DEF Making
      <4> QED  BY <4>1, <4>2, <4>3
    <3>5. HeldAt(m, "unlinkold") = Nil  BY DEF HeldAt
    <3>6. LocTyped(m, "unlinkold")  BY <1>2, <3>1 DEF LocTyped
    <3>7. \A i \in Inums : icache'[i].ref = icache[i].ref + One(m.at, i) + One(m.ip, i) + One(d, i) - Own(loc[p], i)
      <4> TAKE i \in Inums
      <4>1. Own(loc[p], i) = One(d, i) + One(l.ip, i)  BY <1>2
      <4>2. icache[i].ref \in Int /\ One(l.ip, i) \in Int /\ One(Nil, i) = 0 /\ One(d, i) \in Int
        BY Ones
      <4> QED  BY <2>2, <3>1, <4>1, <4>2
    <3>8. \A i \in Inums : OweAt(m, "unlinkold", i) <= OweAt(loc[p], After(p), i)
      BY <1>2, <3>1 DEF OweAt, Owes
    <3>9. "unlinkold" \in Places  BY DEF Places, Waits
    <3> QED  BY <1>1, <1>2, <1>3, <2>2, <3>1, <3>2, <3>4, <3>5, <3>6, <3>7, <3>8, <3>9, PutStep
  <2> QED  BY <2>3, <2>4
<1> QED  BY <1>5, <1>6, <1>7

-----------------------------------------------------------------------------
(* To go on without an inode to put.                                        *)
LEMMA GoMoves ==
    ASSUME IInv, NEW p \in Procs, NEW w \in Places, NEW m \in Local, w \notin Putting2,
           m.puts = <<>>, m.then = "user", Inodes(m, w), Args(m, w), Making(m, w),
           pc' = [pc EXCEPT ![p] = w], loc' = [loc EXCEPT ![p] = m]
    PROVE  MoveOK(p, w, m) /\ Then(w, m) = w
<1>1. Then(w, m) = w  BY DEF Then
<1>2. Shaped(m, w)  BY <1>1 DEF Shaped, Puttings
<1>3. Len(m.puts) <= 2
  <2> DEFINE s == m.puts
  <2>1. s = <<>>  OBVIOUS
  <2> HIDE DEF s
  <2>2. Len(s) = 0  BY <2>1
  <2> QED  BY <2>2 DEF s
<1> QED  BY <1>1, <1>2, <1>3 DEF MoveOK

LEMMA GoStep ==
    ASSUME IInv, NEW p \in Procs, NEW w \in Places, NEW m \in Local, w \notin Putting2, w # "write",
           m.puts = <<>>, m.then = "user", Inodes(m, w), Args(m, w), Making(m, w), LocTyped(m, w),
           pc' = [pc EXCEPT ![p] = w], loc' = [loc EXCEPT ![p] = m], UNCHANGED <<disk, fds>>,
           LockOK(p, HeldAt(m, w)), CacheOK,
           \A i \in Inums : icache'[i].ref = icache[i].ref + One(m.at, i) + One(m.ip, i) - Own(loc[p], i),
           \A i \in Inums : dinode[i].type # "free" => OweAt(m, w, i) <= OweAt(loc[p], After(p), i)
    PROVE  IInv'
<1>1. MoveOK(p, w, m) /\ Then(w, m) = w  BY GoMoves
<1>2. \A i \in Inums : icache'[i].ref = icache[i].ref + Own(m, i) - Own(loc[p], i)
  <2> TAKE i \in Inums
  <2>1. Own(m, i) = One(m.at, i) + One(m.ip, i)  BY OwnNone
  <2>2. icache[i].ref \in Int /\ One(m.at, i) \in Int /\ One(m.ip, i) \in Int  BY Ones
  <2>3. Own(loc[p], i) \in Int  BY Ones DEF Own, PutAt
  <2>4. icache'[i].ref = icache[i].ref + One(m.at, i) + One(m.ip, i) - Own(loc[p], i)  OBVIOUS
  <2> QED  BY <2>1, <2>2, <2>3, <2>4
<1>3. LockOK(p, HeldAt(m, Then(w, m))) /\ LocTyped(m, Then(w, m))  BY <1>1
<1>4. \A i \in Inums : dinode[i].type # "free" => OweAt(m, Then(w, m), i) <= OweAt(loc[p], After(p), i)
  BY <1>1
<1> QED  BY <1>1, <1>2, <1>3, <1>4, NameStep

(* A call with an inode locked.                                             *)
LEMMA HoldsAt ==
    ASSUME IInv, NEW p \in Procs, NEW w, At(p, w), w \in {"made", "opening", "unlinked", "unlockdir", "victim"}
    PROVE  /\ pc[p] = w /\ After(p) = w /\ loc[p] \in Local /\ loc[p].puts = <<>> /\ loc[p].then = "user"
           /\ Inodes(loc[p], w) /\ Args(loc[p], w) /\ Making(loc[p], w) /\ LocTyped(loc[p], w)
           /\ Held(p) = (IF w \in {"unlockdir", "victim"} THEN loc[p].at ELSE loc[p].ip)
           /\ Held(p) \in Inums /\ lock[Held(p)] = p /\ loc[p].f = Nil
           /\ \A i : Own(loc[p], i) = One(loc[p].at, i) + One(loc[p].ip, i)
<1>1. pc[p] = w  BY DEF At
<1>2. After(p) = w  BY <1>1 DEF After, Then, Putting2
<1>3. /\ loc[p] \in Local /\ Puttings(loc[p], w)
      /\ Inodes(loc[p], w) /\ Args(loc[p], w) /\ Making(loc[p], w) /\ LocTyped(loc[p], w)
  BY <1>1, <1>2, Here
<1>4. loc[p].puts = <<>> /\ loc[p].then = "user"  BY <1>3 DEF Puttings, Putting2
<1>5. Held(p) = IF w \in {"unlockdir", "victim"} THEN loc[p].at ELSE loc[p].ip
  BY <1>2 DEF Held, HeldAt
<1>6. loc[p].at \in Inums \union {Nil} /\ loc[p].ip \in Inums \union {Nil}  BY <1>3 DEF Local
<1>7. Held(p) \in Inums  BY <1>3, <1>5, <1>6 DEF Inodes
<1>8. lock[Held(p)] = p  BY <1>7, Here
<1>9. loc[p].f = Nil  BY <1>3 DEF Inodes
<1>10. \A i : Own(loc[p], i) = One(loc[p].at, i) + One(loc[p].ip, i)  BY <1>4, OwnNone
<1> QED  BY <1>1, <1>2, <1>3, <1>4, <1>5, <1>7, <1>8, <1>9, <1>10

-----------------------------------------------------------------------------
LEMMA KeepsExists ==
    ASSUME IInv, NEW p \in Procs, Exists(p)
    PROVE  IInv'
<1> DEFINE l == loc[p]
<1>1. /\ Locks(p, "exists") /\ UNCHANGED <<disk, fds>> /\ icache' = Ilock(icache, l.ip)
  BY DEF Exists
<1>2. /\ pc[p] = "exists" /\ After(p) = "exists" /\ l \in Local /\ l.puts = <<>> /\ l.then = "user"
      /\ Inodes(l, "exists") /\ Args(l, "exists") /\ Making(l, "exists") /\ LocTyped(l, "exists")
      /\ l.ip \in Inums /\ lock[l.ip] = NoProc /\ dinode[l.ip].type # "free" /\ Held(p) = Nil /\ l.f = Nil
      /\ \A i : Own(loc[p], i) = One(l.at, i) + One(l.ip, i)
  BY <1>1, WaitsAt
<1>3. CacheOK /\ \A i \in Inums : icache'[i].ref = icache[i].ref  BY <1>1, <1>2, CacheLock
<1>4. CASE l.call = "creat" /\ dinode[l.ip].type = "file"
  <2>1. lock' = [lock EXCEPT ![l.ip] = p] /\ pc' = [pc EXCEPT ![p] = "opening"] /\ loc' = loc
    BY <1>4 DEF Exists, Goes
  <2>2. loc' = [loc EXCEPT ![p] = l]  BY <2>1 DEF IInv, LocalInv, LocType
  <2>3. HeldAt(l, "opening") = l.ip  BY DEF HeldAt
  <2>4. LockOK(p, l.ip)  BY <1>2, <2>1, LockTake
  <2>5. Inodes(l, "opening") /\ Args(l, "opening") /\ Making(l, "opening")
    <3>1. Inodes(l, "opening")  BY <1>2 DEF Inodes
    <3>2. Args(l, "opening")  BY <1>2 DEF Args
    <3>3. Making(l, "opening")  BY <1>4 DEF Making
    <3> QED  BY <3>1, <3>2, <3>3
  <2>6. LocTyped(l, "opening")  BY <1>2, <1>4 DEF LocTyped
  <2>7. \A i \in Inums : icache'[i].ref = icache[i].ref + One(l.at, i) + One(l.ip, i) - Own(loc[p], i)
    <3> TAKE i \in Inums
    <3>1. icache[i].ref \in Int /\ One(l.at, i) \in Int /\ One(l.ip, i) \in Int  BY Ones
    <3> QED  BY <1>2, <1>3, <3>1
  <2>8. \A i \in Inums : OweAt(l, "opening", i) <= OweAt(loc[p], After(p), i)
    BY <1>2 DEF OweAt, Owes
  <2>9. "opening" \in Places /\ "opening" \notin Putting2  BY DEF Places, Waits, Putting2
  <2> HIDE DEF l
  <2> QED  BY <1>1, <1>2, <1>3, <2>1, <2>2, <2>3, <2>4, <2>5, <2>6, <2>7, <2>8, <2>9, GoStep
<1>5. CASE ~(l.call = "creat" /\ dinode[l.ip].type = "file")
  <2>1. Return(p, <<l.ip>>) /\ lock' = lock  BY <1>5 DEF Exists
  <2>2. LockOK(p, Nil)  BY <1>2, <2>1, LockSame
  <2>3. l.at = Nil  BY <1>2 DEF Inodes
  <2>4. \A i \in Inums : icache'[i].ref = icache[i].ref + One(l.ip, i) - Own(loc[p], i)
    <3> TAKE i \in Inums
    <3>1. icache[i].ref \in Int /\ One(Nil, i) = 0 /\ One(l.ip, i) \in Int  BY Ones
    <3> QED  BY <1>2, <1>3, <2>3, <3>1
  <2> QED  BY <1>1, <1>2, <1>3, <2>1, <2>2, <2>4, ReturnStep
<1> QED  BY <1>4, <1>5

LEMMA KeepsMade ==
    ASSUME IInv, NEW p \in Procs, Made(p)
    PROVE  IInv'
<1> DEFINE l == loc[p]
<1>1. /\ At(p, "made") /\ UNCHANGED <<disk, fds>> /\ icache' = icache /\ lock' = [lock EXCEPT ![l.ip] = NoProc]
      /\ Return(p, <<l.ip>>)
  BY DEF Made
<1>2. /\ Inodes(l, "made") /\ l.ip \in Inums /\ Held(p) = l.ip
      /\ \A i : Own(loc[p], i) = One(l.at, i) + One(l.ip, i)
  BY <1>1, HoldsAt
<1>3. CacheOK /\ \A i \in Inums : icache'[i].ref = icache[i].ref  BY <1>1, CacheSame
<1>4. LockOK(p, Nil)  BY <1>1, <1>2, LockDrop
<1>5. l.at = Nil  BY <1>2 DEF Inodes
<1>6. \A i \in Inums : icache'[i].ref = icache[i].ref + One(l.ip, i) - Own(loc[p], i)
  <2> TAKE i \in Inums
  <2>1. icache[i].ref \in Int /\ One(Nil, i) = 0 /\ One(l.ip, i) \in Int  BY Ones
  <2> QED  BY <1>2, <1>3, <1>5, <2>1
<1> QED  BY <1>1, <1>2, <1>3, <1>4, <1>6, ReturnStep

LEMMA KeepsOpen ==
    ASSUME IInv, NEW p \in Procs, Open(p)
    PROVE  IInv'
<1> DEFINE l == loc[p]
<1>1. /\ Locks(p, "resolved") /\ UNCHANGED <<disk, fds>> /\ icache' = Ilock(icache, l.at)
      /\ l.call \in {"open", "openw"}
  BY DEF Open
<1>2. /\ pc[p] = "resolved" /\ After(p) = "resolved" /\ l \in Local /\ l.puts = <<>> /\ l.then = "user"
      /\ Inodes(l, "resolved") /\ Args(l, "resolved") /\ Making(l, "resolved") /\ LocTyped(l, "resolved")
      /\ l.at \in Inums /\ lock[l.at] = NoProc /\ dinode[l.at].type # "free" /\ Held(p) = Nil /\ l.f = Nil
      /\ \A i : Own(loc[p], i) = One(l.at, i) + One(l.ip, i)
  BY <1>1, WaitsAt
<1>3. CacheOK /\ \A i \in Inums : icache'[i].ref = icache[i].ref  BY <1>1, <1>2, CacheLock
<1>4. l.ip = Nil  BY <1>2 DEF Inodes
<1>5. CASE dinode[l.at].type = "dir" /\ l.call = "openw"
  <2>1. Return(p, <<l.at>>) /\ lock' = lock  BY <1>5 DEF Open
  <2>2. LockOK(p, Nil)  BY <1>2, <2>1, LockSame
  <2>3. \A i \in Inums : icache'[i].ref = icache[i].ref + One(l.at, i) - Own(loc[p], i)
    <3> TAKE i \in Inums
    <3>1. icache[i].ref \in Int /\ One(Nil, i) = 0 /\ One(l.at, i) \in Int  BY Ones
    <3> QED  BY <1>2, <1>3, <1>4, <3>1
  <2> QED  BY <1>1, <1>2, <1>3, <2>1, <2>2, <2>3, ReturnStep
<1>6. CASE ~(dinode[l.at].type = "dir" /\ l.call = "openw")
  <2> DEFINE m == [l EXCEPT !.at = Nil, !.ip = l.at]
  <2>1. lock' = [lock EXCEPT ![l.at] = p] /\ pc' = [pc EXCEPT ![p] = "opening"]
        /\ loc' = [loc EXCEPT ![p].at = Nil, ![p].ip = l.at]
    BY <1>6 DEF Open, Goes
  <2>2. loc' = [loc EXCEPT ![p] = m]
    <3>1. loc \in [Procs -> Local]  BY DEF IInv, LocalInv, LocType
    <3> QED  BY <2>1, <3>1
  <2>3. /\ m \in Local /\ m.call = l.call /\ m.path = l.path /\ m.new = l.new /\ m.at = Nil /\ m.ip = l.at
        /\ m.f = Nil /\ m.puts = <<>> /\ m.then = "user"
    BY <1>2 DEF Local
  <2> HIDE DEF m
  <2>4. HeldAt(m, "opening") = l.at  BY <2>3 DEF HeldAt
  <2>5. LockOK(p, l.at)  BY <1>2, <2>1, LockTake
  <2>6. Inodes(m, "opening") /\ Args(m, "opening") /\ Making(m, "opening")
    <3>1. Inodes(m, "opening")  BY <1>2, <2>3, Constants DEF Inodes
    <3>2. Args(m, "opening")  BY <1>2, <2>3 DEF Args
    <3>3. Making(m, "opening")  BY <1>1, <2>3 DEF Making
    <3> QED  BY <3>1, <3>2, <3>3
  <2>7. LocTyped(m, "opening")  BY <1>1, <1>2, <2>3 DEF LocTyped
  <2>8. \A i \in Inums : icache'[i].ref = icache[i].ref + One(m.at, i) + One(m.ip, i) - Own(loc[p], i)
    <3> TAKE i \in Inums
    <3>1. icache[i].ref \in Int /\ One(Nil, i) = 0 /\ One(l.at, i) \in Int  BY Ones
    <3> QED  BY <1>2, <1>3, <1>4, <2>3, <3>1
  <2>9. \A i \in Inums : OweAt(m, "opening", i) <= OweAt(loc[p], After(p), i)
    BY <1>1, <2>3 DEF OweAt, Owes
  <2>10. "opening" \in Places /\ "opening" \notin Putting2  BY DEF Places, Waits, Putting2
  <2> QED  BY <1>1, <1>3, <2>1, <2>2, <2>3, <2>4, <2>5, <2>6, <2>7, <2>8, <2>9, <2>10, GoStep
<1> QED  BY <1>5, <1>6

-----------------------------------------------------------------------------
LEMMA FoundInum ==
    ASSUME IInv, NEW d \in Inums, NEW n \in Names, dinode[d].ents[n] # Nil
    PROVE  dinode[d].ents[n] \in Inums
<1>1. dinode[d].ents \in [Names -> Inums \union {Nil}]  BY DEF IInv, TypeOK
<1> QED  BY <1>1

LEMMA KeepsUnlink ==
    ASSUME IInv, NEW p \in Procs, Unlink(p)
    PROVE  IInv'
<1> DEFINE l == loc[p]
           dp == l.at
           found == Dirlookup(dp, Head(l.path))
<1>1. /\ Locks(p, "parent") /\ UNCHANGED <<disk, fds>> /\ l.call = "unlink"
  BY DEF Unlink
<1>2. /\ pc[p] = "parent" /\ After(p) = "parent" /\ l \in Local /\ l.puts = <<>> /\ l.then = "user"
      /\ Inodes(l, "parent") /\ Args(l, "parent") /\ Making(l, "parent") /\ LocTyped(l, "parent")
      /\ dp \in Inums /\ lock[dp] = NoProc /\ dinode[dp].type # "free" /\ Held(p) = Nil /\ l.f = Nil
      /\ \A i : Own(loc[p], i) = One(dp, i) + One(l.ip, i)
  BY <1>1, WaitsAt
<1>3. l.ip = Nil  BY <1>1, <1>2 DEF Inodes
<1>4. l.path # <<>> /\ l.path \in Seq(Names) /\ Head(l.path) \in Names  BY <1>2 DEF Args, Local
<1>5. CASE Head(l.path) \in {".", ".."} \/ found = Nil
  <2>1. Return(p, <<dp>>) /\ lock' = lock /\ icache' = Ilock(icache, dp)  BY <1>5 DEF Unlink
  <2>2. LockOK(p, Nil)  BY <1>2, <2>1, LockSame
  <2>3. CacheOK /\ \A i \in Inums : icache'[i].ref = icache[i].ref  BY <1>2, <2>1, CacheLock
  <2>4. \A i \in Inums : icache'[i].ref = icache[i].ref + One(dp, i) - Own(loc[p], i)
    <3> TAKE i \in Inums
    <3>1. icache[i].ref \in Int /\ One(Nil, i) = 0 /\ One(dp, i) \in Int  BY Ones
    <3> QED  BY <1>2, <1>3, <2>3, <3>1
  <2> QED  BY <1>1, <1>2, <2>1, <2>2, <2>3, <2>4, ReturnStep
<1>6. CASE ~(Head(l.path) \in {".", ".."} \/ found = Nil)
  <2> DEFINE m == [l EXCEPT !.ip = found]
  <2>1. /\ lock' = [lock EXCEPT ![dp] = p] /\ pc' = [pc EXCEPT ![p] = "victim"]
        /\ loc' = [loc EXCEPT ![p].ip = found] /\ icache' = Iget(Ilock(icache, dp), found)
    BY <1>6 DEF Unlink, Goes
  <2>2. loc' = [loc EXCEPT ![p] = m]
    <3>1. loc \in [Procs -> Local]  BY DEF IInv, LocalInv, LocType
    <3> QED  BY <2>1, <3>1
  <2>3. found \in Inums /\ found # Nil /\ found = dinode[dp].ents[Head(l.path)]
    BY <1>2, <1>4, <1>6, FoundInum DEF Dirlookup
  <2>4. CacheOK /\ \A i \in Inums : icache'[i].ref = icache[i].ref + One(found, i)
    BY <1>2, <2>1, <2>3, CacheGet
  <2> HIDE DEF found
  <2>5. /\ m \in Local /\ m.call = l.call /\ m.path = l.path /\ m.new = l.new /\ m.at = dp /\ m.ip = found
        /\ m.f = Nil /\ m.puts = <<>> /\ m.then = "user"
    BY <1>2, <2>3 DEF Local
  <2> HIDE DEF m
  <2>6. HeldAt(m, "victim") = dp  BY <2>5 DEF HeldAt
  <2>7. LockOK(p, dp)  BY <1>2, <2>1, LockTake
  <2>8. Inodes(m, "victim") /\ Args(m, "victim") /\ Making(m, "victim")
    <3>1. Inodes(m, "victim")  BY <1>2, <2>3, <2>5, Constants DEF Inodes
    <3>2. Args(m, "victim")  BY <1>2, <1>4, <1>6, <2>5 DEF Args
    <3>3. Making(m, "victim")  BY <1>1, <2>5 DEF Making
    <3> QED  BY <3>1, <3>2, <3>3
  <2>9. LocTyped(m, "victim")
    <3>1. Child(dp, Head(l.path), found)  BY <1>2, <1>6, <2>3 DEF Child, LocTyped
    <3>2. NamedWell(dp, Head(l.path), found)  BY <1>2, <1>4, <2>3, <3>1 DEF IInv, DiskInv, TreeInv
    <3>3. dinode[found].type # "free"  BY <3>2 DEF NamedWell
    <3>4. dinode[dp].type = "dir"  BY <1>2 DEF LocTyped
    <3> QED  BY <1>1, <2>3, <2>5, <3>3, <3>4 DEF LocTyped
  <2>10. \A i \in Inums : icache'[i].ref = icache[i].ref + One(m.at, i) + One(m.ip, i) - Own(loc[p], i)
    <3> TAKE i \in Inums
    <3>1. icache[i].ref \in Int /\ One(Nil, i) = 0 /\ One(dp, i) \in Int /\ One(found, i) \in Int
      BY Ones
    <3> QED  BY <1>2, <1>3, <2>4, <2>5, <3>1
  <2>11. \A i \in Inums : OweAt(m, "victim", i) <= OweAt(loc[p], After(p), i)
    BY <1>1, <2>5 DEF OweAt, Owes
  <2>12. "victim" \in Places /\ "victim" \notin Putting2  BY DEF Places, Waits, Putting2
  <2> QED  BY <1>1, <2>1, <2>2, <2>4, <2>5, <2>6, <2>7, <2>8, <2>9, <2>10, <2>11, <2>12, GoStep
<1> QED  BY <1>5, <1>6

LEMMA KeepsUnlockDir ==
    ASSUME IInv, NEW p \in Procs, UnlockDir(p)
    PROVE  IInv'
<1> DEFINE l == loc[p]
           dp == l.at
<1>1. /\ At(p, "unlockdir") /\ UNCHANGED <<disk, fds>> /\ icache' = icache /\ lock' = [lock EXCEPT ![dp] = NoProc]
      /\ IF l.call = "link" THEN Puts(p, <<dp>>, "unlinkold", [l EXCEPT !.at = Nil]) ELSE Return(p, <<dp>>)
  BY DEF UnlockDir
<1>2. /\ After(p) = "unlockdir" /\ l \in Local /\ l.f = Nil
      /\ Inodes(l, "unlockdir") /\ Args(l, "unlockdir") /\ Making(l, "unlockdir") /\ LocTyped(l, "unlockdir")
      /\ dp \in Inums /\ Held(p) = dp
      /\ \A i : Own(loc[p], i) = One(dp, i) + One(l.ip, i)
  BY <1>1, HoldsAt
<1>3. CacheOK /\ \A i \in Inums : icache'[i].ref = icache[i].ref  BY <1>1, CacheSame
<1>4. LockOK(p, Nil)  BY <1>1, <1>2, LockDrop
<1>5. CASE l.call # "link"
  <2>1. l.ip = Nil  BY <1>2, <1>5 DEF Making
  <2>2. \A i \in Inums : icache'[i].ref = icache[i].ref + One(dp, i) - Own(loc[p], i)
    <3> TAKE i \in Inums
    <3>1. icache[i].ref \in Int /\ One(Nil, i) = 0 /\ One(dp, i) \in Int  BY Ones
    <3> QED  BY <1>2, <1>3, <2>1, <3>1
  <2> QED  BY <1>1, <1>2, <1>3, <1>4, <1>5, <2>2, ReturnStep
<1>6. CASE l.call = "link"
  <2> DEFINE m == [l EXCEPT !.at = Nil]
  <2>1. m \in Local /\ m.call = l.call /\ m.new = l.new /\ m.at = Nil /\ m.ip = l.ip /\ m.f = l.f
    BY <1>2 DEF Local
  <2>2. Puts(p, <<dp>>, "unlinkold", m)  BY <1>1, <1>6
  <2> HIDE DEF m
  <2>3. l.ip # Nil  BY <1>2, <1>6 DEF Making
  <2>4. Inodes(m, "unlinkold") /\ Args(m, "unlinkold") /\ Making(m, "unlinkold")
    <3>1. Inodes(m, "unlinkold")  BY <1>2, <2>1, <2>3 DEF Inodes
    <3>2. Args(m, "unlinkold")  BY <1>2, <2>1 DEF Args
    <3>3. Making(m, "unlinkold")  BY <1>6, <2>1 DEF Making
    <3> QED  BY <3>1, <3>2, <3>3
  <2>5. HeldAt(m, "unlinkold") = Nil  BY DEF HeldAt
  <2>6. LocTyped(m, "unlinkold")  BY <1>2, <2>1 DEF LocTyped
  <2>7. \A i \in Inums : icache'[i].ref = icache[i].ref + One(m.at, i) + One(m.ip, i) + One(dp, i) - Own(loc[p], i)
    <3> TAKE i \in Inums
    <3>1. icache[i].ref \in Int /\ One(l.ip, i) \in Int /\ One(Nil, i) = 0 /\ One(dp, i) \in Int
      BY Ones
    <3> QED  BY <1>2, <1>3, <2>1, <3>1
  <2>8. \A i \in Inums : OweAt(m, "unlinkold", i) <= OweAt(loc[p], After(p), i)
    BY <1>6, <2>1 DEF OweAt, Owes
  <2>9. "unlinkold" \in Places  BY DEF Places, Waits
  <2> QED  BY <1>1, <1>2, <1>3, <1>4, <2>1, <2>2, <2>4, <2>5, <2>6, <2>7, <2>8, <2>9, PutStep
<1> QED  BY <1>5, <1>6

-----------------------------------------------------------------------------
(* A call that is putting inodes.                                           *)
LEMMA PuttingAt ==
    ASSUME IInv, NEW p \in Procs, pc[p] \in Putting2
    PROVE  /\ loc[p] \in Local /\ loc[p].puts \in Seq(Inums) /\ loc[p].puts # <<>> /\ Len(loc[p].puts) \in 1 .. 2
           /\ Head(loc[p].puts) \in Inums /\ Tail(loc[p].puts) \in Seq(Inums)
           /\ loc[p].then \in Places /\ loc[p].then \notin {"put", "drop", "parent", "victim", "write"}
           /\ After(p) = loc[p].then
           /\ Inodes(loc[p], loc[p].then) /\ Args(loc[p], loc[p].then) /\ Making(loc[p], loc[p].then)
           /\ LocTyped(loc[p], loc[p].then) /\ Held(p) = HeldAt(loc[p], loc[p].then)
<1>1. /\ loc[p] \in Local /\ Puttings(loc[p], pc[p]) /\ Len(loc[p].puts) <= 2
      /\ Inodes(loc[p], After(p)) /\ Args(loc[p], After(p)) /\ Making(loc[p], After(p))
      /\ LocTyped(loc[p], After(p))
  BY Here
<1>2. After(p) = loc[p].then  BY DEF After, Then
<1>3. loc[p].puts # <<>> /\ loc[p].then \notin {"put", "drop", "parent", "victim", "write"}
  BY <1>1 DEF Puttings
<1>4. loc[p].puts \in Seq(Inums) /\ loc[p].then \in Places  BY <1>1 DEF Local
<1> DEFINE s == loc[p].puts
<1>5. Len(s) \in Nat /\ Len(s) # 0 /\ Head(s) \in Inums /\ Tail(s) \in Seq(Inums)  BY <1>3, <1>4
<1>6. Len(s) \in 1 .. 2
  <2> DEFINE n == Len(s)
  <2>1. n <= 2  BY <1>1
  <2>2. n \in Nat /\ n # 0  BY <1>5
  <2> HIDE DEF n
  <2>3. n \in 1 .. 2  BY <2>1, <2>2
  <2> QED  BY <2>3 DEF n
<1>7. /\ Inodes(loc[p], loc[p].then) /\ Args(loc[p], loc[p].then) /\ Making(loc[p], loc[p].then)
      /\ LocTyped(loc[p], loc[p].then)
  BY <1>1, <1>2
<1>8. Held(p) = HeldAt(loc[p], loc[p].then)  BY <1>2 DEF Held
<1> QED  BY <1>1, <1>2, <1>3, <1>4, <1>5, <1>6, <1>7, <1>8

LEMMA RefHeld ==
    ASSUME IInv, NEW p \in Procs, NEW i \in Inums,
           loc[p].at = i \/ loc[p].ip = i \/ Putting(p, 1, i) \/ Putting(p, 2, i) \/ cwd[p] = i
    PROVE  icache[i].ref >= 1
<1>1. IsFiniteSet(Procs)  BY Finite
<1>2. loc[p].at = i => AtN(i) >= 1
  <2> DEFINE A == {q \in Procs : loc[q].at = i}
  <2>1. A \in SUBSET Procs /\ AtN(i) = Cardinality(A) /\ (loc[p].at = i => p \in A)  BY DEF AtN
  <2> HIDE DEF A
  <2> QED  BY <1>1, <2>1, CardSome
<1>3. loc[p].ip = i => IpN(i) >= 1
  <2> DEFINE A == {q \in Procs : loc[q].ip = i}
  <2>1. A \in SUBSET Procs /\ IpN(i) = Cardinality(A) /\ (loc[p].ip = i => p \in A)  BY DEF IpN
  <2> HIDE DEF A
  <2> QED  BY <1>1, <2>1, CardSome
<1>4. cwd[p] = i => CwdN(i) >= 1
  <2> DEFINE A == {q \in Procs : cwd[q] = i}
  <2>1. A \in SUBSET Procs /\ CwdN(i) = Cardinality(A) /\ (cwd[p] = i => p \in A)  BY DEF CwdN
  <2> HIDE DEF A
  <2> QED  BY <1>1, <2>1, CardSome
<1>5. \A k : Putting(p, k, i) => PutN(k, i) >= 1
  <2> TAKE k
  <2> DEFINE A == {q \in Procs : Putting(q, k, i)}
  <2>1. A \in SUBSET Procs /\ PutN(k, i) = Cardinality(A) /\ (Putting(p, k, i) => p \in A)
    BY DEF PutN
  <2> HIDE DEF A
  <2> QED  BY <1>1, <2>1, CardSome
<1>6. icache[i].ref = Refs(i)  BY DEF IInv, CountInv, RefsInv
<1>7. /\ CwdN(i) \in Nat /\ FileN(i) \in Nat /\ AtN(i) \in Nat /\ IpN(i) \in Nat
      /\ PutN(1, i) \in Nat /\ PutN(2, i) \in Nat
      /\ Refs(i) = CwdN(i) + FileN(i) + AtN(i) + IpN(i) + PutN(1, i) + PutN(2, i)
  BY RefParts
<1>8. (Putting(p, 1, i) => PutN(1, i) >= 1) /\ (Putting(p, 2, i) => PutN(2, i) >= 1)  BY <1>5
<1> QED  BY <1>2, <1>3, <1>4, <1>6, <1>7, <1>8

LEMMA KeepsDrop ==
    ASSUME IInv, NEW p \in Procs, Drop(p)
    PROVE  IInv'
<1> DEFINE l == loc[p]
           s == l.puts
           h == Head(s)
           rest == Tail(s)
           w == IF rest = <<>> THEN l.then ELSE "put"
           then == IF rest = <<>> THEN "user" ELSE l.then
           m == WithPuts(l, rest, then)
<1>1. /\ pc[p] = "drop" /\ UNCHANGED <<disk, fds>> /\ lock' = lock
      /\ icache' = [icache EXCEPT ![h].ref = @ - 1] /\ pc' = [pc EXCEPT ![p] = w]
  BY DEF Drop, At, Goes
<1>2. /\ l \in Local /\ s \in Seq(Inums) /\ s # <<>> /\ Len(s) \in 1 .. 2
      /\ h \in Inums /\ rest \in Seq(Inums)
      /\ l.then \in Places /\ l.then \notin {"put", "drop", "parent", "victim", "write"}
      /\ After(p) = l.then
      /\ Inodes(l, l.then) /\ Args(l, l.then) /\ Making(l, l.then)
      /\ LocTyped(l, l.then) /\ Held(p) = HeldAt(l, l.then)
  BY <1>1, PuttingAt DEF Putting2
<1>3. loc' = [loc EXCEPT ![p] = m]
  <2>1. loc' = [loc EXCEPT ![p].puts = rest, ![p].then = IF rest = <<>> THEN "user" ELSE @]
    BY DEF Drop
  <2>2. loc \in [Procs -> Local]  BY DEF IInv, LocalInv, LocType
  <2> QED  BY <2>1, <2>2 DEF WithPuts
<1>4. Len(rest) = Len(s) - 1 /\ \A k \in 1 .. Len(rest) : rest[k] = s[k + 1]  BY <1>2
<1>5. s[1] = h  BY <1>2
<1> HIDE DEF rest, h
<1>6. then \in Places  BY <1>2 DEF Places
<1>7. /\ m \in Local /\ m.puts = rest /\ m.then = then
      /\ m.call = l.call /\ m.path = l.path /\ m.new = l.new /\ m.at = l.at /\ m.ip = l.ip /\ m.f = l.f
  BY <1>2, <1>6 DEF Local, WithPuts
<1> HIDE DEF m
<1>8. Then(w, m) = l.then
  <2>1. CASE rest = <<>>  BY <1>2, <2>1 DEF Then, Putting2
  <2>2. CASE rest # <<>>  BY <1>7, <2>2 DEF Then, Putting2
  <2> QED  BY <2>1, <2>2
<1>9. Inodes(m, l.then) /\ Args(m, l.then) /\ Making(m, l.then)
  <2>1. Inodes(m, l.then)  BY <1>2, <1>7 DEF Inodes
  <2>2. Args(m, l.then)  BY <1>2, <1>7 DEF Args
  <2>3. Making(m, l.then)  BY <1>2, <1>7 DEF Making, Parent
  <2> QED  BY <2>1, <2>2, <2>3
<1>10. Puttings(m, w)
  <2>1. CASE rest = <<>>  BY <1>2, <1>7, <2>1 DEF Puttings, Putting2
  <2>2. CASE rest # <<>>  BY <1>2, <1>7, <2>2 DEF Puttings, Putting2
  <2> QED  BY <2>1, <2>2
<1>11. w \in Places /\ w # "write"  BY <1>2 DEF Places, Waits
<1>12. MoveOK(p, w, m)
  <2>1. Len(m.puts) <= 2  BY <1>2, <1>4, <1>7
  <2> QED  BY <1>1, <1>3, <1>7, <1>8, <1>9, <1>10, <1>11, <2>1 DEF MoveOK, Shaped
<1>13. HeldAt(m, l.then) = Held(p)  BY <1>2, <1>7 DEF HeldAt
<1>14. LockOK(p, HeldAt(m, Then(w, m)))  BY <1>1, <1>8, <1>13, LockSame
<1>15. LocTyped(m, Then(w, m))  BY <1>2, <1>7, <1>8 DEF LocTyped
<1>16. \A i \in Inums : OweAt(m, Then(w, m), i) <= OweAt(loc[p], After(p), i)
  BY <1>2, <1>7, <1>8 DEF OweAt, Owes
<1>17. CacheOK /\ \A i \in Inums : icache'[i].ref = icache[i].ref - One(h, i)
  <2>1. icache \in [Inums -> [ref : Nat, valid : BOOLEAN]]  BY DEF IInv, TypeOK
  <2>2. icache[h].ref >= 1
    <3>1. Putting(p, 1, h)  BY <1>2, <1>5 DEF Putting
    <3> QED  BY <1>2, <3>1, RefHeld
  <2> DEFINE r == [icache[h] EXCEPT !.ref = icache[h].ref - 1]
  <2>3. icache' = [icache EXCEPT ![h] = r]  BY <1>1
  <2>4. icache[h] \in [ref : Nat, valid : BOOLEAN]  BY <1>2, <2>1
  <2>5. r \in [ref : Nat, valid : BOOLEAN] /\ r.ref = icache[h].ref - 1 /\ r.valid = icache[h].valid
    BY <2>2, <2>4
  <2> HIDE DEF r
  <2>6. icache' \in [Inums -> [ref : Nat, valid : BOOLEAN]]  BY <2>1, <2>3, <2>5
  <2>7. icache'[h] = r /\ \A i \in Inums : i # h => icache'[i] = icache[i]  BY <1>2, <2>1, <2>3
  <2>8. CacheOK  BY <2>5, <2>6, <2>7 DEF CacheOK
  <2>9. \A i \in Inums : icache'[i].ref = icache[i].ref - One(h, i)
    <3> TAKE i \in Inums
    <3>1. icache[i].ref \in Int  BY <2>1
    <3>2. CASE i = h  BY <2>5, <2>7, <3>2 DEF One
    <3>3. CASE i # h  BY <2>7, <3>1, <3>3 DEF One
    <3> QED  BY <3>2, <3>3
  <2> QED  BY <2>8, <2>9
<1>18. \A i \in Inums : icache'[i].ref = icache[i].ref + Own(m, i) - Own(loc[p], i)
  <2> TAKE i \in Inums
  <2>1. PutAt(loc[p], 1, i) = One(h, i)  BY <1>2, <1>5 DEF PutAt, One
  <2>2. PutAt(m, 1, i) = PutAt(loc[p], 2, i)
    <3>1. DOMAIN rest = 1 .. Len(rest) /\ DOMAIN s = 1 .. Len(s)  BY <1>2
    <3>2. CASE Len(s) = 1  BY <1>4, <1>7, <3>1, <3>2 DEF PutAt
    <3>3. CASE Len(s) = 2
      <4>1. rest[1] = s[2]  BY <1>4, <3>3
      <4> QED  BY <1>4, <1>7, <3>1, <3>3, <4>1 DEF PutAt
    <3> QED  BY <1>2, <3>2, <3>3
  <2>3. PutAt(m, 2, i) = 0
    <3>1. DOMAIN rest = 1 .. Len(rest)  BY <1>2
    <3>2. Len(rest) <= 1  BY <1>2, <1>4
    <3> QED  BY <1>7, <3>1, <3>2 DEF PutAt
  <2>4. /\ One(l.at, i) \in Int /\ One(l.ip, i) \in Int /\ One(h, i) \in Int /\ icache[i].ref \in Int
        /\ PutAt(loc[p], 2, i) \in Int
    BY Ones DEF PutAt
  <2>5. Own(loc[p], i) = One(l.at, i) + One(l.ip, i) + One(h, i) + PutAt(loc[p], 2, i)
    BY <2>1 DEF Own
  <2>6. Own(m, i) = One(l.at, i) + One(l.ip, i) + PutAt(loc[p], 2, i)
    BY <1>7, <2>2, <2>3, <2>4 DEF Own
  <2> QED  BY <1>17, <2>4, <2>5, <2>6
<1> HIDE DEF w
<1> QED  BY <1>1, <1>11, <1>12, <1>14, <1>15, <1>16, <1>17, <1>18, NameStep

LEMMA DropMoves ==
    ASSUME IInv, NEW p \in Procs, pc[p] = "put", Goes(p, "drop"), loc' = loc, lock' = lock
    PROVE  /\ MoveOK(p, "drop", loc[p]) /\ Then("drop", loc[p]) = After(p)
           /\ LockOK(p, HeldAt(loc[p], Then("drop", loc[p])))
<1> DEFINE l == loc[p]
<1>1. /\ l \in Local /\ l.puts # <<>> /\ After(p) = l.then /\ Len(l.puts) <= 2
      /\ Inodes(l, l.then) /\ Args(l, l.then) /\ Making(l, l.then)
      /\ Held(p) = HeldAt(l, l.then)
      /\ l.then \notin {"put", "drop", "parent", "victim", "write"}
  BY PuttingAt, Here DEF Putting2
<1>2. pc' = [pc EXCEPT ![p] = "drop"] /\ loc' = [loc EXCEPT ![p] = l]
  BY DEF Goes, IInv, LocalInv, LocType
<1>3. Then("drop", l) = l.then  BY DEF Then, Putting2
<1>4. Shaped(l, "drop")  BY <1>1, <1>3 DEF Shaped, Puttings, Putting2
<1>5. MoveOK(p, "drop", l)  BY <1>1, <1>2, <1>4 DEF MoveOK, Places
<1>6. LockOK(p, HeldAt(l, Then("drop", l)))  BY <1>1, <1>3, LockSame
<1> QED  BY <1>1, <1>3, <1>5, <1>6

LEMMA KeepsPutStill ==
    ASSUME IInv, NEW p \in Procs, pc[p] = "put", Goes(p, "drop"), UNCHANGED <<disk, icache, lock, fds, loc>>
    PROVE  IInv'
<1> DEFINE l == loc[p]
<1>1. /\ MoveOK(p, "drop", l) /\ Then("drop", l) = After(p) /\ LockOK(p, HeldAt(l, Then("drop", l)))
      /\ LocTyped(l, After(p))
  BY DropMoves, Here
<1>2. CacheOK /\ \A i \in Inums : icache'[i].ref = icache[i].ref  BY CacheSame
<1>3. \A i \in Inums : icache'[i].ref = icache[i].ref + Own(l, i) - Own(loc[p], i)
  <2> TAKE i \in Inums
  <2>1. Own(l, i) \in Int /\ icache[i].ref \in Int  BY Ones DEF Own, PutAt
  <2> QED  BY <1>2, <2>1
<1>4. \A i \in Inums : OweAt(l, Then("drop", l), i) <= OweAt(loc[p], After(p), i)
  BY <1>1 DEF OweAt
<1>5. LocTyped(l, Then("drop", l))  BY <1>1
<1> HIDE DEF l
<1> QED  BY <1>1, <1>2, <1>3, <1>4, <1>5, NameStep

-----------------------------------------------------------------------------
LEMMA KeepsCreateFound ==
    ASSUME IInv, NEW p \in Procs, Create(p), Dirlookup(loc[p].at, Head(loc[p].path)) # Nil
    PROVE  IInv'
<1> DEFINE l == loc[p]
           dp == l.at
           found == Dirlookup(dp, Head(l.path))
           m == [l EXCEPT !.at = Nil, !.ip = found]
<1>1. /\ Locks(p, "parent") /\ UNCHANGED <<disk, fds>> /\ lock' = lock /\ l.call \in {"creat", "mkdir", "mknod"}
      /\ icache' = Iget(Ilock(icache, dp), found) /\ Puts(p, <<dp>>, "exists", m)
  BY DEF Create
<1>2. /\ pc[p] = "parent" /\ After(p) = "parent" /\ l \in Local
      /\ Inodes(l, "parent") /\ Args(l, "parent") /\ Making(l, "parent") /\ LocTyped(l, "parent")
      /\ dp \in Inums /\ lock[dp] = NoProc /\ dinode[dp].type # "free" /\ Held(p) = Nil /\ l.f = Nil
      /\ \A i : Own(loc[p], i) = One(dp, i) + One(l.ip, i)
  BY <1>1, WaitsAt
<1>3. l.ip = Nil  BY <1>1, <1>2 DEF Inodes
<1>4. l.path # <<>> /\ l.path \in Seq(Names) /\ Head(l.path) \in Names  BY <1>2 DEF Args, Local
<1>5. found \in Inums /\ found # Nil  BY <1>2, <1>4, FoundInum DEF Dirlookup
<1>6. CacheOK /\ \A i \in Inums : icache'[i].ref = icache[i].ref + One(found, i)
  BY <1>1, <1>2, <1>5, CacheGet
<1> HIDE DEF found
<1>7. /\ m \in Local /\ m.call = l.call /\ m.path = l.path /\ m.new = l.new /\ m.at = Nil /\ m.ip = found
      /\ m.f = Nil
  BY <1>2, <1>5 DEF Local
<1> HIDE DEF m
<1>8. Inodes(m, "exists") /\ Args(m, "exists") /\ Making(m, "exists")
  <2>1. Inodes(m, "exists")  BY <1>5, <1>7 DEF Inodes
  <2>2. Args(m, "exists")  BY <1>2, <1>7 DEF Args
  <2>3. Making(m, "exists")  BY <1>1, <1>7 DEF Making, Makes
  <2> QED  BY <2>1, <2>2, <2>3
<1>9. HeldAt(m, "exists") = Nil  BY DEF HeldAt
<1>10. LockOK(p, Nil)  BY <1>1, <1>2, LockSame
<1>11. LocTyped(m, "exists")  BY <1>1, <1>7 DEF LocTyped
<1>12. \A i \in Inums : icache'[i].ref = icache[i].ref + One(m.at, i) + One(m.ip, i) + One(dp, i) - Own(loc[p], i)
  <2> TAKE i \in Inums
  <2>1. icache[i].ref \in Int /\ One(found, i) \in Int /\ One(Nil, i) = 0 /\ One(dp, i) \in Int
    BY Ones
  <2> QED  BY <1>2, <1>3, <1>6, <1>7, <2>1
<1>13. \A i \in Inums : OweAt(m, "exists", i) <= OweAt(loc[p], After(p), i)
  BY <1>1, <1>7 DEF OweAt, Owes
<1>14. "exists" \in Places  BY DEF Places, Waits
<1> QED  BY <1>1, <1>2, <1>6, <1>7, <1>8, <1>9, <1>10, <1>11, <1>12, <1>13, <1>14, PutStep

LEMMA KeepsLinkFound ==
    ASSUME IInv, NEW p \in Procs, LinkNew(p), Dirlookup(loc[p].at, Head(loc[p].path)) # Nil
    PROVE  IInv'
<1> DEFINE l == loc[p]
           dp == l.at
           found == Dirlookup(dp, Head(l.path))
<1>1. /\ Locks(p, "parent") /\ UNCHANGED <<disk, fds>> /\ lock' = [lock EXCEPT ![dp] = p] /\ l.call = "link"
      /\ icache' = Iget(Ilock(icache, dp), found) /\ Puts(p, <<found>>, "unlockdir", l)
  BY DEF LinkNew, disk
<1>2. /\ pc[p] = "parent" /\ After(p) = "parent" /\ l \in Local
      /\ Inodes(l, "parent") /\ Args(l, "parent") /\ Making(l, "parent") /\ LocTyped(l, "parent")
      /\ dp \in Inums /\ lock[dp] = NoProc /\ dinode[dp].type # "free" /\ Held(p) = Nil /\ l.f = Nil
      /\ \A i : Own(loc[p], i) = One(dp, i) + One(l.ip, i)
  BY <1>1, WaitsAt
<1>3. l.ip # Nil  BY <1>1, <1>2 DEF Making, Parent
<1>4. l.path # <<>> /\ l.path \in Seq(Names) /\ Head(l.path) \in Names  BY <1>2 DEF Args, Local
<1>5. found \in Inums /\ found # Nil  BY <1>2, <1>4, FoundInum DEF Dirlookup
<1>6. CacheOK /\ \A i \in Inums : icache'[i].ref = icache[i].ref + One(found, i)
  BY <1>1, <1>2, <1>5, CacheGet
<1> HIDE DEF found
<1>7. Inodes(l, "unlockdir") /\ Args(l, "unlockdir") /\ Making(l, "unlockdir")
  <2>1. Inodes(l, "unlockdir")  BY <1>2, <1>3 DEF Inodes
  <2>2. Args(l, "unlockdir")  BY <1>2 DEF Args
  <2>3. Making(l, "unlockdir")  BY <1>1, <1>3 DEF Making
  <2> QED  BY <2>1, <2>2, <2>3
<1>8. HeldAt(l, "unlockdir") = dp  BY DEF HeldAt
<1>9. LockOK(p, dp)  BY <1>1, <1>2, LockTake
<1>10. LocTyped(l, "unlockdir")  BY <1>1, <1>2 DEF LocTyped
<1>11. \A i \in Inums : icache'[i].ref = icache[i].ref + One(l.at, i) + One(l.ip, i) + One(found, i) - Own(loc[p], i)
  <2> TAKE i \in Inums
  <2>1. icache[i].ref \in Int /\ One(found, i) \in Int /\ One(l.ip, i) \in Int /\ One(dp, i) \in Int
    BY Ones
  <2> QED  BY <1>2, <1>6, <2>1
<1>12. \A i \in Inums : OweAt(l, "unlockdir", i) <= OweAt(loc[p], After(p), i)
  BY <1>2 DEF OweAt, Owes
<1>13. "unlockdir" \in Places  BY DEF Places, Waits
<1> HIDE DEF l
<1> QED  BY <1>1, <1>2, <1>5, <1>6, <1>7, <1>8, <1>9, <1>10, <1>11, <1>12, <1>13, PutStep

LEMMA VictimAt ==
    ASSUME IInv, NEW p \in Procs, Locks(p, "victim")
    PROVE  /\ loc[p].at \in Inums /\ loc[p].ip \in Inums /\ loc[p].ip # loc[p].at /\ loc[p].call = "unlink"
           /\ Target(p) = loc[p].ip /\ lock[loc[p].ip] = NoProc
           /\ loc[p].path # <<>> /\ Head(loc[p].path) \in Names
           /\ Child(loc[p].at, Head(loc[p].path), loc[p].ip) /\ NamedWell(loc[p].at, Head(loc[p].path), loc[p].ip)
           /\ dinode[loc[p].ip].type # "free"
<1> DEFINE l == loc[p]
<1>1. pc[p] = "victim" /\ At(p, "victim")  BY DEF Locks, At
<1>2. l \in Local /\ Inodes(l, "victim") /\ Args(l, "victim") /\ Making(l, "victim") /\ LocTyped(l, "victim")
  BY <1>1, HoldsAt
<1>3. l.at \in Inums /\ l.ip \in Inums  BY <1>2 DEF Local, Inodes
<1>4. Target(p) = l.ip /\ lock[l.ip] = NoProc  BY <1>1 DEF Target, Locks, CanLock
<1>5. l.path # <<>> /\ Head(l.path) \in Names  BY <1>2 DEF Args, Local
<1>6. Child(l.at, Head(l.path), l.ip)  BY <1>2, <1>3, Constants DEF Child, LocTyped, Args
<1>7. NamedWell(l.at, Head(l.path), l.ip)  BY <1>3, <1>5, <1>6 DEF IInv, DiskInv, TreeInv
<1>8. l.ip # l.at  BY <1>5, <1>6, <1>7 DEF NamedWell
<1>9. dinode[l.ip].type # "free"  BY <1>7 DEF NamedWell
<1> QED  BY <1>2, <1>3, <1>4, <1>5, <1>6, <1>7, <1>8, <1>9 DEF Making

(* unlink of a directory with names in it.                                  *)
LEMMA KeepsVictimFull ==
    ASSUME IInv, NEW p \in Procs, Victim(p), dinode[loc[p].ip].nlink >= 1,
           dinode[loc[p].ip].type = "dir" /\ ~IsDirEmpty(loc[p].ip)
    PROVE  IInv'
<1> DEFINE l == loc[p]
           dp == l.at
           ip == l.ip
           m == [l EXCEPT !.ip = Nil]
<1>1. Locks(p, "victim") /\ At(p, "victim") /\ UNCHANGED fds  BY DEF Victim, Locks
<1>2. /\ l.at \in Inums /\ l.ip \in Inums /\ l.call = "unlink"
      /\ lock[l.ip] = NoProc /\ dinode[l.ip].type # "free"
  BY <1>1, VictimAt
<1>3. /\ After(p) = "victim" /\ l \in Local /\ Held(p) = dp
      /\ Inodes(l, "victim") /\ Args(l, "victim") /\ Making(l, "victim") /\ LocTyped(l, "victim")
      /\ l.f = Nil /\ \A i : Own(loc[p], i) = One(dp, i) + One(ip, i)
  BY <1>1, HoldsAt
<1>4. ~(dinode[ip].nlink < 1)
  <2>1. dinode[ip].nlink \in Int  BY <1>2 DEF IInv, TypeOK
  <2> QED  BY <2>1
<1>5. /\ icache' = Ilock(icache, ip) /\ Puts(p, <<ip>>, "unlockdir", m) /\ lock' = lock /\ UNCHANGED disk
  BY <1>4 DEF Victim, disk
<1>6. CacheOK /\ \A i \in Inums : icache'[i].ref = icache[i].ref  BY <1>2, <1>5, CacheLock
<1>7. /\ m \in Local /\ m.call = l.call /\ m.path = l.path /\ m.new = l.new /\ m.at = dp /\ m.ip = Nil
      /\ m.f = Nil
  BY <1>3 DEF Local
<1> HIDE DEF m
<1>8. Inodes(m, "unlockdir") /\ Args(m, "unlockdir") /\ Making(m, "unlockdir")
  <2>1. Inodes(m, "unlockdir")  BY <1>2, <1>7, Constants DEF Inodes
  <2>2. Args(m, "unlockdir")  BY <1>3, <1>7 DEF Args
  <2>3. Making(m, "unlockdir")  BY <1>2, <1>7 DEF Making
  <2> QED  BY <2>1, <2>2, <2>3
<1>9. HeldAt(m, "unlockdir") = dp  BY <1>7 DEF HeldAt
<1>10. LockOK(p, dp)  BY <1>3, <1>5, LockSame
<1>11. LocTyped(m, "unlockdir")  BY <1>3, <1>7 DEF LocTyped
<1>12. \A i \in Inums : icache'[i].ref = icache[i].ref + One(m.at, i) + One(m.ip, i) + One(ip, i) - Own(loc[p], i)
  <2> TAKE i \in Inums
  <2>1. icache[i].ref \in Int /\ One(ip, i) \in Int /\ One(Nil, i) = 0 /\ One(dp, i) \in Int
    BY Ones
  <2> QED  BY <1>3, <1>6, <1>7, <2>1
<1>13. \A i \in Inums : OweAt(m, "unlockdir", i) <= OweAt(loc[p], After(p), i)
  BY <1>2, <1>7 DEF OweAt, Owes
<1>14. "unlockdir" \in Places  BY DEF Places, Waits
<1> HIDE DEF ip
<1>15. ip \in Inums /\ Puts(p, <<ip>>, "unlockdir", m)  BY <1>2, <1>5 DEF ip
<1> QED  BY <1>1, <1>5, <1>6, <1>7, <1>8, <1>9, <1>10, <1>11, <1>12, <1>13, <1>14, <1>15, PutStep

-----------------------------------------------------------------------------
(* Actions that count links.                                                *)
LEMMA NlinkOK ==
    ASSUME IInv, NEW i \in Inums, NEW x \in Int, dinode[i].type # "free",
           dinode' = [dinode EXCEPT ![i].nlink = x], bitmap' = bitmap
    PROVE  /\ DiskOK /\ BlocksInv'
           /\ \A j \in Inums : j # i => dinode'[j].nlink = dinode[j].nlink
           /\ dinode'[i].nlink = x
<1> DEFINE Ino == [type : Types, nlink : Int, ents : [Names -> Inums \union {Nil}], len : Nat, blks : SUBSET Blocks]
           r == [dinode[i] EXCEPT !.nlink = x]
<1>1. dinode \in [Inums -> Ino] /\ bitmap \in SUBSET Blocks  BY DEF IInv, TypeOK
<1>2. dinode' = [dinode EXCEPT ![i] = r]  OBVIOUS
<1>3. dinode[i] \in Ino  BY <1>1
<1>4. r \in Ino /\ r.nlink = x /\ r.type = dinode[i].type /\ r.ents = dinode[i].ents /\ r.blks = dinode[i].blks
  BY <1>3
<1> HIDE DEF r, Ino
<1>5. dinode' \in [Inums -> Ino] /\ dinode'[i] = r /\ \A j \in Inums : j # i => dinode'[j] = dinode[j]
  BY <1>1, <1>2, <1>4
<1>6. \A j \in Inums : dinode'[j].blks = dinode[j].blks  BY <1>4, <1>5
<1>7. DiskOK
  <2>1. \A j \in Inums : /\ dinode'[j].type = dinode[j].type /\ dinode'[j].ents = dinode[j].ents
                         /\ dinode[j].type = "free" => dinode'[j] = dinode[j]
    BY <1>4, <1>5
  <2> QED  BY <1>1, <1>5, <2>1 DEF DiskOK, Ino
<1>8. BlocksInv'  BY <1>6 DEF IInv, CountInv, BlocksInv
<1> QED  BY <1>4, <1>5, <1>7, <1>8

LEMMA KeepsUnlinkOld ==
    ASSUME IInv, NEW p \in Procs, UnlinkOld(p)
    PROVE  IInv'
<1> DEFINE l == loc[p]
           ip == l.ip
           s == <<ip>>
           m == WithPuts(NoLoc, s, "user")
<1>1. /\ Locks(p, "unlinkold") /\ UNCHANGED fds /\ lock' = lock /\ bitmap' = bitmap
      /\ dinode' = [dinode EXCEPT ![ip].nlink = @ - 1] /\ icache' = Ilock(icache, ip) /\ Return(p, s)
  BY DEF UnlinkOld
<1>2. /\ After(p) = "unlinkold" /\ l \in Local /\ ip \in Inums /\ dinode[ip].type # "free" /\ Held(p) = Nil
      /\ Inodes(l, "unlinkold") /\ Making(l, "unlinkold")
      /\ \A i : Own(loc[p], i) = One(l.at, i) + One(ip, i)
  BY <1>1, WaitsAt
<1>3. CacheOK /\ \A i \in Inums : icache'[i].ref = icache[i].ref  BY <1>1, <1>2, CacheLock
<1>4. LockOK(p, Nil)  BY <1>1, <1>2, LockSame
<1>5. s \in Seq(Inums) /\ s # <<>> /\ Len(s) <= 2  BY <1>2
<1>6. s = <<ip>>  OBVIOUS
<1> HIDE DEF s
<1>7. /\ MoveOK(p, "put", m) /\ Then("put", m) = "user"
      /\ m.at = Nil /\ m.ip = Nil /\ m.puts = s
      /\ HeldAt(m, "user") = Nil /\ LocTyped(m, "user") /\ \A i \in Inums : OweAt(m, "user", i) = 0
  BY <1>1, <1>5, ReturnMoves
<1> HIDE DEF m
<1>8. dinode[ip].nlink \in Int  BY <1>2 DEF IInv, TypeOK
<1>9. /\ DiskOK /\ BlocksInv' /\ dinode'[ip].nlink = dinode[ip].nlink - 1
      /\ \A j \in Inums : j # ip => dinode'[j].nlink = dinode[j].nlink
  <2> DEFINE x == dinode[ip].nlink - 1
  <2>1. x \in Int  BY <1>8
  <2>2. dinode' = [dinode EXCEPT ![ip].nlink = x]  BY <1>1
  <2> HIDE DEF x
  <2>3. DiskOK /\ BlocksInv' /\ dinode'[ip].nlink = x /\ \A j \in Inums : j # ip => dinode'[j].nlink = dinode[j].nlink
    BY <1>1, <1>2, <2>1, <2>2, NlinkOK
  <2> QED  BY <2>3 DEF x
<1>10. OwesOK(p, "put", m)
  <2> SUFFICES ASSUME NEW i \in Inums
               PROVE  dinode'[i].nlink >= dinode[i].nlink + OweAt(m, Then("put", m), i) - OweAt(l, After(p), i)
    BY DEF OwesOK
  <2>1. OweAt(m, Then("put", m), i) = 0  BY <1>7
  <2>2. dinode[i].nlink \in Int  BY DEF IInv, TypeOK
  <2>3. OweAt(l, After(p), i) \in {0, 1}  BY DEF OweAt
  <2>4. i = ip => OweAt(l, After(p), i) = 1  BY <1>2 DEF OweAt, Owes, Making
  <2> QED  BY <1>9, <2>1, <2>2, <2>3, <2>4
<1>11. \A i \in Inums : icache'[i].ref = icache[i].ref + Own(m, i) - Own(loc[p], i)
  <2> TAKE i \in Inums
  <2>1. Own(m, i) = One(Nil, i) + One(Nil, i) + One(ip, i)  BY <1>6, <1>7, OwnOne
  <2>2. Own(loc[p], i) = One(Nil, i) + One(ip, i)  BY <1>2 DEF Inodes
  <2>3. One(Nil, i) = 0 /\ One(ip, i) \in Int /\ icache[i].ref \in Int  BY Ones
  <2> QED  BY <1>3, <2>1, <2>2, <2>3
<1> QED  BY <1>1, <1>3, <1>4, <1>7, <1>9, <1>10, <1>11, CallStep

LEMMA KeepsUnlinked ==
    ASSUME IInv, NEW p \in Procs, Unlinked(p)
    PROVE  IInv'
<1> DEFINE l == loc[p]
           ip == l.ip
           s == <<ip>>
           m == WithPuts(NoLoc, s, "user")
<1>1. /\ At(p, "unlinked") /\ UNCHANGED fds /\ lock' = [lock EXCEPT ![ip] = NoProc] /\ bitmap' = bitmap
      /\ dinode' = [dinode EXCEPT ![ip].nlink = @ - 1] /\ icache' = icache /\ Return(p, s)
  BY DEF Unlinked
<1>2. /\ After(p) = "unlinked" /\ l \in Local /\ ip \in Inums /\ Held(p) = ip
      /\ Inodes(l, "unlinked") /\ LocTyped(l, "unlinked")
      /\ \A i : Own(loc[p], i) = One(l.at, i) + One(ip, i)
  BY <1>1, HoldsAt
<1>3. CacheOK /\ \A i \in Inums : icache'[i].ref = icache[i].ref  BY <1>1, CacheSame
<1>4. LockOK(p, Nil)  BY <1>1, <1>2, LockDrop
<1>5. s \in Seq(Inums) /\ s # <<>> /\ Len(s) <= 2  BY <1>2
<1>6. s = <<ip>>  OBVIOUS
<1> HIDE DEF s
<1>7. /\ MoveOK(p, "put", m) /\ Then("put", m) = "user"
      /\ m.at = Nil /\ m.ip = Nil /\ m.puts = s
      /\ HeldAt(m, "user") = Nil /\ LocTyped(m, "user") /\ \A i \in Inums : OweAt(m, "user", i) = 0
  BY <1>1, <1>5, ReturnMoves
<1> HIDE DEF m
<1>8. dinode[ip].nlink \in Int /\ dinode[ip].type # "free"
  <2>1. dinode[ip].type # "free"  BY <1>2, Constants DEF LocTyped
  <2> QED  BY <1>2, <2>1 DEF IInv, TypeOK
<1>9. /\ DiskOK /\ BlocksInv' /\ dinode'[ip].nlink = dinode[ip].nlink - 1
      /\ \A j \in Inums : j # ip => dinode'[j].nlink = dinode[j].nlink
  <2> DEFINE x == dinode[ip].nlink - 1
  <2>1. x \in Int  BY <1>8
  <2>2. dinode' = [dinode EXCEPT ![ip].nlink = x]  BY <1>1
  <2> HIDE DEF x
  <2>3. DiskOK /\ BlocksInv' /\ dinode'[ip].nlink = x /\ \A j \in Inums : j # ip => dinode'[j].nlink = dinode[j].nlink
    BY <1>1, <1>2, <1>8, <2>1, <2>2, NlinkOK
  <2> QED  BY <2>3 DEF x
<1>10. OwesOK(p, "put", m)
  <2> SUFFICES ASSUME NEW i \in Inums
               PROVE  dinode'[i].nlink >= dinode[i].nlink + OweAt(m, Then("put", m), i) - OweAt(l, After(p), i)
    BY DEF OwesOK
  <2>1. OweAt(m, Then("put", m), i) = 0  BY <1>7
  <2>2. dinode[i].nlink \in Int  BY DEF IInv, TypeOK
  <2>3. OweAt(l, After(p), i) \in {0, 1}  BY DEF OweAt
  <2>4. i = ip => OweAt(l, After(p), i) = 1  BY <1>2 DEF OweAt, Owes
  <2> QED  BY <1>9, <2>1, <2>2, <2>3, <2>4
<1>11. \A i \in Inums : icache'[i].ref = icache[i].ref + Own(m, i) - Own(loc[p], i)
  <2> TAKE i \in Inums
  <2>1. Own(m, i) = One(Nil, i) + One(Nil, i) + One(ip, i)  BY <1>6, <1>7, OwnOne
  <2>2. Own(loc[p], i) = One(Nil, i) + One(ip, i)  BY <1>2 DEF Inodes
  <2>3. One(Nil, i) = 0 /\ One(ip, i) \in Int /\ icache[i].ref \in Int  BY Ones
  <2> QED  BY <1>3, <2>1, <2>2, <2>3
<1> QED  BY <1>1, <1>3, <1>4, <1>7, <1>9, <1>10, <1>11, CallStep

LEMMA KeepsLinkOld ==
    ASSUME IInv, NEW p \in Procs, LinkOld(p)
    PROVE  IInv'
<1> DEFINE l == loc[p]
           ip == l.at
<1>1. /\ Locks(p, "resolved") /\ UNCHANGED fds /\ lock' = lock /\ bitmap' = bitmap /\ l.call = "link"
  BY DEF LinkOld
<1>2. /\ After(p) = "resolved" /\ l \in Local /\ l.puts = <<>> /\ l.then = "user" /\ l.f = Nil
      /\ Inodes(l, "resolved") /\ Args(l, "resolved")
      /\ ip \in Inums /\ dinode[ip].type # "free" /\ Held(p) = Nil
      /\ \A i : Own(loc[p], i) = One(ip, i) + One(l.ip, i)
  BY <1>1, WaitsAt
<1>3. l.ip = Nil  BY <1>2 DEF Inodes
<1>4. LockOK(p, Nil)  BY <1>1, <1>2, LockSame
<1>5. CASE dinode[ip].type = "dir"
  <2>1. Return(p, <<ip>>) /\ icache' = Ilock(icache, ip) /\ dinode' = dinode  BY <1>5 DEF LinkOld
  <2>2. UNCHANGED disk  BY <1>1, <2>1 DEF disk
  <2>3. CacheOK /\ \A i \in Inums : icache'[i].ref = icache[i].ref  BY <1>2, <2>1, CacheLock
  <2>4. \A i \in Inums : icache'[i].ref = icache[i].ref + One(ip, i) - Own(loc[p], i)
    <3> TAKE i \in Inums
    <3>1. icache[i].ref \in Int /\ One(Nil, i) = 0 /\ One(ip, i) \in Int  BY Ones
    <3> QED  BY <1>2, <1>3, <2>3, <3>1
  <2> QED  BY <1>1, <1>2, <1>4, <2>1, <2>2, <2>3, <2>4, ReturnStep
<1>6. CASE dinode[ip].type # "dir"
  <2> DEFINE k == [l EXCEPT !.ip = ip]
             c == Ilock(icache, ip)
  <2>1. dinode' = [dinode EXCEPT ![ip].nlink = @ + 1] /\ Resolve(p, l.new, k, c)
    BY <1>6 DEF LinkOld
  <2>2. /\ k \in Local /\ k.puts = <<>> /\ k.then = "user" /\ k.f = Nil /\ k.call = "link" /\ k.new = l.new
        /\ k.ip = ip
    BY <1>1, <1>2 DEF Local
  <2> HIDE DEF k
  <2>3. HasLast(l.new)  BY <1>1, <1>2 DEF Args
  <2>4. IsPath(l.new)  BY <2>3 DEF HasLast
  <2> PICK w, m, start : /\ w # "write" /\ start \in Inums /\ MoveOK(p, w, m) /\ icache' = Iget(c, start)
                         /\ Then(w, m) = w /\ HeldAt(m, w) = Nil /\ m.call = k.call
                         /\ m.at = start /\ m.ip = k.ip /\ m.puts = <<>>
                         /\ w \in {"walk", "resolved"}
    <3>1. k.call \in CallNames  BY <2>2 DEF CallNames
    <3> HIDE DEF c
    <3> QED  BY <2>1, <2>2, <2>3, <2>4, <3>1, ResolveMoves
  <2>5. CacheOK /\ \A i \in Inums : icache'[i].ref = icache[i].ref + One(start, i)
    <3>1. \E t \in Inums : dinode[t].type # "free" /\ c = Ilock(icache, t)  BY <1>2
    <3> HIDE DEF c
    <3> QED  BY <3>1, CacheGet
  <2>6. dinode[ip].nlink \in Int  BY <1>2 DEF IInv, TypeOK
  <2>7. /\ DiskOK /\ BlocksInv' /\ dinode'[ip].nlink = dinode[ip].nlink + 1
        /\ \A j \in Inums : j # ip => dinode'[j].nlink = dinode[j].nlink
    <3> DEFINE x == dinode[ip].nlink + 1
    <3>1. x \in Int  BY <2>6
    <3>2. dinode' = [dinode EXCEPT ![ip].nlink = x]  BY <2>1
    <3> HIDE DEF x
    <3>3. DiskOK /\ BlocksInv' /\ dinode'[ip].nlink = x /\ \A j \in Inums : j # ip => dinode'[j].nlink = dinode[j].nlink
      BY <1>1, <1>2, <3>1, <3>2, NlinkOK
    <3> QED  BY <3>3 DEF x
  <2>8. OwesOK(p, w, m)
    <3> SUFFICES ASSUME NEW i \in Inums
                 PROVE  dinode'[i].nlink >= dinode[i].nlink + OweAt(m, Then(w, m), i) - OweAt(l, After(p), i)
      BY DEF OwesOK
    <3>1. OweAt(m, Then(w, m), i) = IF i = ip THEN 1 ELSE 0  BY <2>2 DEF OweAt, Owes
    <3>2. dinode[i].nlink \in Int  BY DEF IInv, TypeOK
    <3>3. OweAt(l, After(p), i) = 0  BY <1>3, Constants DEF OweAt, Owes
    <3> QED  BY <2>7, <3>1, <3>2, <3>3
  <2>9. \A i \in Inums : icache'[i].ref = icache[i].ref + Own(m, i) - Own(loc[p], i)
    <3> TAKE i \in Inums
    <3>1. Own(m, i) = One(start, i) + One(ip, i)  BY <2>2, OwnNone
    <3>2. Own(loc[p], i) = One(ip, i) + One(Nil, i)  BY <1>2, <1>3
    <3>3. One(Nil, i) = 0 /\ One(ip, i) \in Int /\ One(start, i) \in Int /\ icache[i].ref \in Int
      BY Ones
    <3> QED  BY <2>5, <3>1, <3>2, <3>3
  <2>10. LocTyped(m, Then(w, m))  BY <1>2, <1>6, <2>2 DEF LocTyped
  <2>11. LockOK(p, HeldAt(m, Then(w, m)))  BY <1>4
  <2> QED  BY <1>1, <2>5, <2>7, <2>8, <2>9, <2>10, <2>11, CallStep
<1> QED  BY <1>5, <1>6

-----------------------------------------------------------------------------
LEMMA Least ==
    ASSUME NEW T, T \subseteq Nat, T # {}
    PROVE  Lowest(T) \in T
<1> DEFINE R == {ss \in Nat \X Nat : ss[1] < ss[2]}
<1>1. R = OpToRel(<, Nat)  BY DEF OpToRel
<1>2. \A x, y \in Nat : y < x => <<y, x>> \in R  OBVIOUS
<1> HIDE DEF R
<1>3. IsWellFoundedOn(R, Nat)  BY <1>1, NatLessThanWellFounded
<1>4. PICK x \in T : \A y \in T : ~(<<y, x>> \in R)  BY <1>3, WFMin
<1>5. \A y \in T : ~(y < x)  BY <1>2, <1>4
<1>6. x \in T /\ \A y \in T : x <= y  BY <1>5
<1> QED  BY <1>6 DEF Lowest

(* Descriptors.                                                             *)
FdsOf(o, f) == {pd \in Procs \X Fds : o[pd[1]][pd[2]] = f}
SetsFd(p, d, y) == ofile' = [ofile EXCEPT ![p][d] = y]
LEMMA FdMove ==
    ASSUME IInv, NEW p \in Procs, NEW d \in Fds, NEW y \in Files \union {Nil}, SetsFd(p, d, y)
    PROVE  /\ ofile' \in [Procs -> [Fds -> Files \union {Nil}]]
           /\ \A q \in Procs : q # p => ofile'[q] = ofile[q]
           /\ ofile'[p][d] = y /\ \A e \in Fds : e # d => ofile'[p][e] = ofile[p][e]
           /\ \A f \in Files : /\ Cardinality(FdSet(f)) = file[f].ref /\ file[f].ref \in Nat
                               /\ Cardinality(FdsOf(ofile', f)) = file[f].ref + One(y, f) - One(ofile[p][d], f)
<1>1. ofile \in [Procs -> [Fds -> Files \union {Nil}]]  BY DEF IInv, TypeOK
<1>2. ofile' \in [Procs -> [Fds -> Files \union {Nil}]]
  <2> DEFINE r == [ofile[p] EXCEPT ![d] = y]
  <2>1. r \in [Fds -> Files \union {Nil}] /\ ofile' = [ofile EXCEPT ![p] = r]  BY <1>1 DEF SetsFd
  <2> HIDE DEF r
  <2> QED  BY <1>1, <2>1
<1>3. \A q \in Procs : q # p => ofile'[q] = ofile[q]  BY <1>1 DEF SetsFd
<1>4. ofile'[p][d] = y /\ \A e \in Fds : e # d => ofile'[p][e] = ofile[p][e]  BY <1>1 DEF SetsFd
<1>5. ASSUME NEW f \in Files
      PROVE  /\ Cardinality(FdSet(f)) = file[f].ref /\ file[f].ref \in Nat
             /\ Cardinality(FdsOf(ofile', f)) = file[f].ref + One(y, f) - One(ofile[p][d], f)
  <2> DEFINE S == Procs \X Fds
             A == {pd \in S : ofile[pd[1]][pd[2]] = f}
             B == {pd \in S : ofile'[pd[1]][pd[2]] = f}
             x == <<p, d>>
  <2>1. A = FdSet(f) /\ B = FdsOf(ofile', f)  BY DEF FdSet, FdsOf
  <2>2. A \in SUBSET S /\ B \in SUBSET S  OBVIOUS
  <2>3. \A s \in S : s # x => (s \in A <=> s \in B)  BY <1>3, <1>4
  <2>4. (x \in A <=> ofile[p][d] = f) /\ (x \in B <=> y = f)  BY <1>4
  <2>5. file[f].ref = Cardinality(A)  BY <2>1 DEF IInv, CountInv, FdsInv
  <2>6. file[f].ref \in Nat  BY DEF IInv, TypeOK
  <2> HIDE DEF A, B, S, x
  <2>7. IsFiniteSet(S)  BY Finite DEF S
  <2>8. Cardinality(B) = Cardinality(A) + One(y, f) - One(ofile[p][d], f)
    BY <2>2, <2>3, <2>4, <2>7, Recount
  <2> QED  BY <2>1, <2>5, <2>6, <2>8
<1> QED  BY <1>2, <1>3, <1>4, <1>5

(* An action that changes the files alone.                                  *)
LEMMA FileStep ==
    ASSUME IInv, NEW p \in Procs, NEW w, NEW m, NEW g, UNCHANGED disk, w # "write",
           MoveOK(p, w, m), LockOK(p, HeldAt(m, Then(w, m))), CacheOK, FdsOK(p, g), RefsOK(p, m, g),
           \A i \in Inums : dinode[i].type # "free" => OweAt(m, Then(w, m), i) <= OweAt(loc[p], After(p), i),
           FilesInv', FdsInv', dinode[cwd'[p]].type = "dir", LocTyped(m, Then(w, m))
    PROVE  IInv'
<1>1. DiskOK /\ BlocksInv'  BY DiskSame
<1>2. OwesOK(p, w, m)  BY OwesSame
<1>3. Writing(p)'
  <2>1. pc'[p] = w  BY Here DEF MoveOK, IInv, TypeOK
  <2> QED  BY <2>1 DEF Writing
<1> QED  BY <1>1, <1>2, <1>3, Quiet

(* A process between two calls.                                             *)
LEMMA UserAt ==
    ASSUME IInv, NEW p \in Procs, pc[p] = "user"
    PROVE  /\ After(p) = "user" /\ loc[p] \in Local /\ loc[p].puts = <<>> /\ loc[p].then = "user"
           /\ Inodes(loc[p], "user") /\ Args(loc[p], "user") /\ Making(loc[p], "user")
           /\ LocTyped(loc[p], "user") /\ Held(p) = Nil
           /\ loc[p].at = Nil /\ loc[p].ip = Nil /\ loc[p].f = Nil
           /\ \A i \in Inums : Own(loc[p], i) = 0 /\ OweAt(loc[p], "user", i) = 0
           /\ LockOK(p, Nil) \/ lock' # lock
<1>1. After(p) = "user"  BY DEF After, Then, Putting2
<1>2. /\ loc[p] \in Local /\ loc[p].puts = <<>> /\ loc[p].then = "user"
  BY Here DEF Puttings, Putting2
<1>3. Inodes(loc[p], "user") /\ Args(loc[p], "user") /\ Making(loc[p], "user") /\ LocTyped(loc[p], "user")
  BY <1>1, Here
<1>4. loc[p].at = Nil /\ loc[p].ip = Nil /\ loc[p].f = Nil  BY <1>3 DEF Inodes
<1>5. Held(p) = Nil  BY <1>1 DEF Held, HeldAt
<1>6. ASSUME NEW i \in Inums PROVE Own(loc[p], i) = 0 /\ OweAt(loc[p], "user", i) = 0
  <2>1. Own(loc[p], i) = One(Nil, i) + One(Nil, i)  BY <1>2, <1>4, OwnNone
  <2>2. One(Nil, i) = 0  BY Ones
  <2>3. OweAt(loc[p], "user", i) = 0  BY <1>4, Constants DEF OweAt, Owes
  <2> QED  BY <2>1, <2>2, <2>3
<1>7. lock' = lock => LockOK(p, Nil)  BY <1>5, LockSame
<1> QED  BY <1>1, <1>2, <1>3, <1>4, <1>5, <1>6, <1>7

LEMMA NoLocMoves ==
    ASSUME IInv, NEW p \in Procs, Goes(p, "user"), loc' = [loc EXCEPT ![p] = NoLoc]
    PROVE  /\ MoveOK(p, "user", NoLoc) /\ Then("user", NoLoc) = "user" /\ HeldAt(NoLoc, "user") = Nil
           /\ LocTyped(NoLoc, "user") /\ \A i \in Inums : Own(NoLoc, i) = 0 /\ OweAt(NoLoc, "user", i) = 0
<1>1. "user" \in Places /\ "user" \notin Putting2  BY DEF Places, Putting2
<1>2. pc' = [pc EXCEPT ![p] = "user"]  BY DEF Goes
<1>3. MoveOK(p, "user", NoLoc) /\ Then("user", NoLoc) = "user"
  BY <1>1, <1>2, NoLocFields, GoMoves
<1>4. HeldAt(NoLoc, "user") = Nil  BY DEF HeldAt
<1>5. LocTyped(NoLoc, "user")  BY NoLocFields DEF LocTyped
<1>6. ASSUME NEW i \in Inums PROVE Own(NoLoc, i) = 0 /\ OweAt(NoLoc, "user", i) = 0
  <2>1. Own(NoLoc, i) = One(Nil, i) + One(Nil, i)  BY NoLocFields, OwnNone
  <2>2. One(Nil, i) = 0  BY Ones
  <2>3. OweAt(NoLoc, "user", i) = 0  BY NoLocFields, Constants DEF OweAt, Owes
  <2> QED  BY <2>1, <2>2, <2>3
<1> QED  BY <1>3, <1>4, <1>5, <1>6

LEMMA KeepsChdir ==
    ASSUME IInv, NEW p \in Procs, Chdir(p)
    PROVE  IInv'
<1> DEFINE l == loc[p]
           ip == l.at
<1>1. /\ Locks(p, "resolved") /\ UNCHANGED disk /\ lock' = lock /\ file' = file /\ ofile' = ofile
      /\ icache' = Ilock(icache, ip)
  BY DEF Chdir
<1>2. /\ After(p) = "resolved" /\ l \in Local
      /\ Inodes(l, "resolved") /\ Args(l, "resolved")
      /\ ip \in Inums /\ dinode[ip].type # "free" /\ Held(p) = Nil
      /\ \A i : Own(loc[p], i) = One(ip, i) + One(l.ip, i)
  BY <1>1, WaitsAt
<1>3. l.ip = Nil  BY <1>2 DEF Inodes
<1>4. LockOK(p, Nil)  BY <1>1, <1>2, LockSame
<1>5. CacheOK /\ \A i \in Inums : icache'[i].ref = icache[i].ref  BY <1>1, <1>2, CacheLock
<1>6. CASE dinode[ip].type # "dir"
  <2>1. Return(p, <<ip>>) /\ UNCHANGED <<disk, fds>>  BY <1>1, <1>6 DEF Chdir, fds
  <2>2. \A i \in Inums : icache'[i].ref = icache[i].ref + One(ip, i) - Own(loc[p], i)
    <3> TAKE i \in Inums
    <3>1. icache[i].ref \in Int /\ One(Nil, i) = 0 /\ One(ip, i) \in Int  BY Ones
    <3> QED  BY <1>2, <1>3, <1>5, <3>1
  <2> QED  BY <1>2, <1>4, <1>5, <2>1, <2>2, ReturnStep
<1>7. CASE dinode[ip].type = "dir"
  <2> DEFINE s == <<cwd[p]>>
             m == WithPuts(NoLoc, s, "user")
  <2>1. Return(p, s) /\ cwd' = [cwd EXCEPT ![p] = ip]  BY <1>7 DEF Chdir
  <2>2. s \in Seq(Inums) /\ s # <<>> /\ Len(s) <= 2  BY Here
  <2>3. s = <<cwd[p]>>  OBVIOUS
  <2> HIDE DEF s
  <2>4. /\ MoveOK(p, "put", m) /\ Then("put", m) = "user"
        /\ m.at = Nil /\ m.ip = Nil /\ m.puts = s
        /\ HeldAt(m, "user") = Nil /\ LocTyped(m, "user") /\ \A i \in Inums : OweAt(m, "user", i) = 0
    BY <2>1, <2>2, ReturnMoves
  <2> HIDE DEF m
  <2>5. cwd' \in [Procs -> Inums] /\ cwd'[p] = ip /\ \A q \in Procs : q # p => cwd'[q] = cwd[q]
    BY <1>2, <2>1 DEF IInv, TypeOK
  <2>6. FdsOK(p, 1)
    <3>1. 1 \in Files  BY FsAssumption DEF Files
    <3> QED  BY <1>1, <2>5, <3>1 DEF FdsOK, IInv, TypeOK
  <2>7. FilesInv' /\ FdsInv'
    <3>1. dinode' = dinode  BY <1>1 DEF disk
    <3> QED  BY <1>1, <3>1 DEF IInv, CountInv, FilesInv, FdsInv, FdSet
  <2>8. RefsOK(p, m, 1)
    <3> SUFFICES ASSUME NEW i \in Inums
                 PROVE  icache'[i].ref = icache[i].ref + Own(m, i) - Own(loc[p], i)
                        + One(cwd'[p], i) - One(cwd[p], i) + RowN(file'[1], i) - RowN(file[1], i)
      BY DEF RefsOK
    <3>1. Own(m, i) = One(Nil, i) + One(Nil, i) + One(cwd[p], i)  BY <2>3, <2>4, OwnOne
    <3>2. Own(loc[p], i) = One(ip, i) + One(Nil, i)  BY <1>2, <1>3
    <3>3. RowN(file'[1], i) = RowN(file[1], i) /\ RowN(file[1], i) \in Int  BY <1>1 DEF RowN
    <3>4. One(Nil, i) = 0 /\ One(cwd[p], i) \in Int /\ One(ip, i) \in Int /\ icache[i].ref \in Int
      BY Ones
    <3>5. One(cwd'[p], i) = One(ip, i)  BY <2>5
    <3> QED  BY <1>5, <3>1, <3>2, <3>3, <3>4, <3>5
  <2>9. \A i \in Inums : OweAt(m, Then("put", m), i) <= OweAt(loc[p], After(p), i)
    BY <2>4 DEF OweAt
  <2>10. dinode[cwd'[p]].type = "dir"  BY <1>7, <2>5
  <2> QED  BY <1>1, <1>4, <1>5, <2>4, <2>6, <2>7, <2>8, <2>9, <2>10, FileStep
<1> QED  BY <1>6, <1>7

LEMMA KeepsOpening ==
    ASSUME IInv, NEW p \in Procs, Opening(p)
    PROVE  IInv'
<1> DEFINE l == loc[p]
           ip == l.ip
           freefiles == {f \in Files : file[f].ref = 0}
           freefds == {e \in Fds : ofile[p][e] = Nil}
<1>1. At(p, "opening") /\ UNCHANGED disk /\ icache' = icache /\ lock' = [lock EXCEPT ![ip] = NoProc]
  BY DEF Opening
<1>2. /\ After(p) = "opening" /\ Inodes(l, "opening") /\ LocTyped(l, "opening") /\ ip \in Inums /\ Held(p) = ip
      /\ \A i : Own(loc[p], i) = One(l.at, i) + One(ip, i)
  BY <1>1, HoldsAt
<1>3. l.at = Nil  BY <1>2 DEF Inodes
<1>4. LockOK(p, Nil)  BY <1>1, <1>2, LockDrop
<1>5. CacheOK /\ \A i \in Inums : icache'[i].ref = icache[i].ref  BY <1>1, CacheSame
<1>6. CASE freefiles = {} \/ freefds = {}
  <2>1. Return(p, <<ip>>) /\ UNCHANGED fds  BY <1>6 DEF Opening
  <2>2. \A i \in Inums : icache'[i].ref = icache[i].ref + One(ip, i) - Own(loc[p], i)
    <3> TAKE i \in Inums
    <3>1. icache[i].ref \in Int /\ One(Nil, i) = 0 /\ One(ip, i) \in Int  BY Ones
    <3> QED  BY <1>2, <1>3, <1>5, <3>1
  <2> QED  BY <1>1, <1>2, <1>4, <1>5, <2>1, <2>2, ReturnStep
<1>7. CASE freefiles # {} /\ freefds # {}
  <2> DEFINE g == Lowest(freefiles)
             d == Lowest(freefds)
             r == [ref |-> 1, ip |-> ip, writable |-> l.call # "open"]
  <2>1. /\ file' = [file EXCEPT ![g] = r] /\ ofile' = [ofile EXCEPT ![p][d] = g]
        /\ Goes(p, "user") /\ loc' = [loc EXCEPT ![p] = NoLoc] /\ cwd' = cwd
    BY <1>7 DEF Opening
  <2>2. g \in Files /\ file[g].ref = 0
    <3>1. freefiles \subseteq Nat  BY DEF Files
    <3>2. g \in freefiles  BY <1>7, <3>1, Least
    <3> QED  BY <3>2
  <2>3. d \in Fds /\ ofile[p][d] = Nil
    <3>1. freefds \subseteq Nat  BY DEF Fds
    <3>2. d \in freefds  BY <1>7, <3>1, Least
    <3> QED  BY <3>2
  <2>4. r \in [ref : Nat, ip : Inums \union {Nil}, writable : BOOLEAN] /\ r.ref = 1 /\ r.ip = ip
    BY <1>2
  <2> HIDE DEF g, d, r
  <2>5. /\ file' \in [Files -> [ref : Nat, ip : Inums \union {Nil}, writable : BOOLEAN]]
        /\ file'[g] = r /\ \A f \in Files : f # g => file'[f] = file[f]
    BY <2>1, <2>2, <2>4 DEF IInv, TypeOK
  <2>6. /\ ofile' \in [Procs -> [Fds -> Files \union {Nil}]]
        /\ \A q \in Procs : q # p => ofile'[q] = ofile[q]
        /\ \A f \in Files : /\ file[f].ref \in Nat
                            /\ Cardinality(FdsOf(ofile', f)) = file[f].ref + One(g, f) - One(Nil, f)
    <3>1. g \in Files \union {Nil}  BY <2>2
    <3>2. SetsFd(p, d, g)  BY <2>1 DEF SetsFd
    <3>3. /\ ofile' \in [Procs -> [Fds -> Files \union {Nil}]]
          /\ \A q \in Procs : q # p => ofile'[q] = ofile[q]
          /\ \A f \in Files : /\ file[f].ref \in Nat
                              /\ Cardinality(FdsOf(ofile', f)) = file[f].ref + One(g, f) - One(ofile[p][d], f)
      BY <2>3, <3>1, <3>2, FdMove
    <3> QED  BY <2>3, <3>3
  <2>7. \A q \in Procs, e \in Fds : ofile[q][e] # g
    <3>1. \A q \in Procs, e \in Fds : ofile[q][e] # Nil => file[ofile[q][e]].ref > 0
      BY FdRef DEF IInv, CountInv
    <3> QED  BY <2>2, <3>1, Constants
  <2>8. FdsOK(p, g)
    <3>1. cwd \in [Procs -> Inums]  BY DEF IInv, TypeOK
    <3> QED  BY <2>1, <2>2, <2>5, <2>6, <2>7, <3>1 DEF FdsOK
  <2>9. FdsInv'
    <3> SUFFICES ASSUME NEW f \in Files PROVE file'[f].ref = Cardinality(FdsOf(ofile', f))
      BY DEF FdsInv, FdSet, FdsOf
    <3>1. Cardinality(FdsOf(ofile', f)) = file[f].ref + One(g, f) - One(Nil, f) /\ file[f].ref \in Nat
      BY <2>6
    <3>2. One(Nil, f) = 0  BY Constants DEF One
    <3>3. CASE f = g  BY <2>2, <2>4, <2>5, <3>1, <3>2, <3>3 DEF One
    <3>4. CASE f # g  BY <2>5, <3>1, <3>2, <3>4 DEF One
    <3> QED  BY <3>3, <3>4
  <2>10. FilesInv'
    <3>1. dinode' = dinode  BY <1>1 DEF disk
    <3>2. ip # Nil /\ dinode[ip].type # "free"  BY <1>2, Constants DEF LocTyped
    <3> SUFFICES ASSUME NEW f \in Files
                 PROVE  /\ file'[f].ref = 0 => file'[f] = NoFile
                        /\ file'[f].ref > 0 => file'[f].ip # Nil /\ dinode[file'[f].ip].type # "free"
      BY <3>1 DEF FilesInv, NoFile
    <3>3. CASE f = g  BY <2>4, <2>5, <3>2, <3>3
    <3>4. CASE f # g  BY <2>5, <3>4 DEF IInv, FilesInv
    <3> QED  BY <3>3, <3>4
  <2>11. /\ MoveOK(p, "user", NoLoc) /\ Then("user", NoLoc) = "user" /\ HeldAt(NoLoc, "user") = Nil
         /\ LocTyped(NoLoc, "user") /\ \A i \in Inums : Own(NoLoc, i) = 0 /\ OweAt(NoLoc, "user", i) = 0
    BY <2>1, NoLocMoves
  <2>12. RefsOK(p, NoLoc, g)
    <3> SUFFICES ASSUME NEW i \in Inums
                 PROVE  icache'[i].ref = icache[i].ref + Own(NoLoc, i) - Own(loc[p], i)
                        + One(cwd'[p], i) - One(cwd[p], i) + RowN(file'[g], i) - RowN(file[g], i)
      BY DEF RefsOK
    <3>1. Own(loc[p], i) = One(Nil, i) + One(ip, i)  BY <1>2, <1>3
    <3>2. RowN(file'[g], i) = One(ip, i) /\ RowN(file[g], i) = 0  BY <2>2, <2>4, <2>5 DEF RowN, One
    <3>3. One(Nil, i) = 0 /\ One(cwd[p], i) \in Int /\ One(ip, i) \in Int /\ icache[i].ref \in Int
      BY Ones
    <3>4. One(cwd'[p], i) = One(cwd[p], i)  BY <2>1
    <3>5. Own(NoLoc, i) = 0  BY <2>11
    <3> QED  BY <1>5, <3>1, <3>2, <3>3, <3>4, <3>5
  <2>13. \A i \in Inums : OweAt(NoLoc, Then("user", NoLoc), i) <= OweAt(loc[p], After(p), i)
    BY <2>11 DEF OweAt
  <2>14. dinode[cwd'[p]].type = "dir"  BY <2>1, Here
  <2> QED  BY <1>1, <1>4, <1>5, <2>8, <2>9, <2>10, <2>11, <2>12, <2>13, <2>14, FileStep
<1> QED  BY <1>6, <1>7

-----------------------------------------------------------------------------
LEMMA KeepsDup ==
    ASSUME IInv, NEW p \in Procs, NEW d \in Fds, Dup(p, d)
    PROVE  IInv'
<1> DEFINE free == {x \in Fds : ofile[p][x] = Nil}
           e == Lowest(free)
           g == ofile[p][d]
           r == [file[g] EXCEPT !.ref = file[g].ref + 1]
<1>1. /\ pc[p] = "user" /\ UNCHANGED disk /\ icache' = icache /\ lock' = lock /\ cwd' = cwd /\ pc' = pc /\ loc' = loc
      /\ g # Nil /\ free # {} /\ ofile' = [ofile EXCEPT ![p][e] = g] /\ file' = [file EXCEPT ![g] = r]
  BY DEF Dup, At
<1>2. e \in Fds /\ ofile[p][e] = Nil
  <2>1. free \subseteq Nat  BY DEF Fds
  <2>2. e \in free  BY <1>1, <2>1, Least
  <2> QED  BY <2>2
<1>3. g \in Files /\ file[g].ref > 0 /\ \A q \in Procs, x \in Fds : ofile[q][x] = Nil \/ ofile[q][x] \in Files
  BY <1>1, FdRef DEF IInv, CountInv
<1>4. file[g] \in [ref : Nat, ip : Inums \union {Nil}, writable : BOOLEAN]  BY <1>3 DEF IInv, TypeOK
<1>5. /\ r \in [ref : Nat, ip : Inums \union {Nil}, writable : BOOLEAN]
      /\ r.ref = file[g].ref + 1 /\ r.ip = file[g].ip
  BY <1>4
<1> HIDE DEF e, g, r, free
<1>6. /\ file' \in [Files -> [ref : Nat, ip : Inums \union {Nil}, writable : BOOLEAN]]
      /\ file'[g] = r /\ \A f \in Files : f # g => file'[f] = file[f]
  BY <1>1, <1>3, <1>5 DEF IInv, TypeOK
<1>7. /\ ofile' \in [Procs -> [Fds -> Files \union {Nil}]]
      /\ \A q \in Procs : q # p => ofile'[q] = ofile[q]
      /\ \A f \in Files : /\ file[f].ref \in Nat
                          /\ Cardinality(FdsOf(ofile', f)) = file[f].ref + One(g, f) - One(Nil, f)
  <2>1. g \in Files \union {Nil}  BY <1>3
  <2>2. SetsFd(p, e, g)  BY <1>1 DEF SetsFd
  <2>3. /\ ofile' \in [Procs -> [Fds -> Files \union {Nil}]]
        /\ \A q \in Procs : q # p => ofile'[q] = ofile[q]
        /\ \A f \in Files : /\ file[f].ref \in Nat
                            /\ Cardinality(FdsOf(ofile', f)) = file[f].ref + One(g, f) - One(ofile[p][e], f)
    BY <1>2, <2>1, <2>2, FdMove
  <2> QED  BY <1>2, <2>3
<1>8. FdsOK(p, g)
  <2>1. cwd \in [Procs -> Inums]  BY DEF IInv, TypeOK
  <2> QED  BY <1>1, <1>3, <1>5, <1>6, <1>7, <2>1 DEF FdsOK
<1>9. FdsInv'
  <2> SUFFICES ASSUME NEW f \in Files PROVE file'[f].ref = Cardinality(FdsOf(ofile', f))
    BY DEF FdsInv, FdSet, FdsOf
  <2>1. Cardinality(FdsOf(ofile', f)) = file[f].ref + One(g, f) - One(Nil, f) /\ file[f].ref \in Nat
    BY <1>7
  <2>2. One(Nil, f) = 0  BY Constants DEF One
  <2>3. CASE f = g  BY <1>5, <1>6, <2>1, <2>2, <2>3 DEF One
  <2>4. CASE f # g  BY <1>6, <2>1, <2>2, <2>4 DEF One
  <2> QED  BY <2>3, <2>4
<1>10. FilesInv'
  <2>1. dinode' = dinode  BY <1>1 DEF disk
  <2> SUFFICES ASSUME NEW f \in Files
               PROVE  /\ file'[f].ref = 0 => file'[f] = NoFile
                      /\ file'[f].ref > 0 => file'[f].ip # Nil /\ dinode[file'[f].ip].type # "free"
    BY <2>1 DEF FilesInv, NoFile
  <2>2. file[f].ref > 0 => file[f].ip # Nil /\ dinode[file[f].ip].type # "free"
    BY DEF IInv, FilesInv
  <2>3. CASE f = g
    <3>1. file'[f].ip = file[f].ip /\ file[f].ref > 0 /\ file'[f].ref = file[f].ref + 1 /\ file[f].ref \in Nat
      BY <1>3, <1>4, <1>5, <1>6, <2>3
    <3> QED  BY <2>2, <3>1
  <2>4. CASE f # g  BY <1>6, <2>4 DEF IInv, FilesInv
  <2> QED  BY <2>3, <2>4
<1> DEFINE l == loc[p]
<1>11. /\ After(p) = "user" /\ l \in Local /\ l.puts = <<>> /\ l.then = "user"
       /\ Inodes(l, "user") /\ Args(l, "user") /\ Making(l, "user")
       /\ LocTyped(l, "user") /\ \A i \in Inums : Own(l, i) = 0
       /\ LockOK(p, Nil)
  BY <1>1, UserAt
<1>12. MoveOK(p, "user", l) /\ Then("user", l) = "user"
  <2>1. pc' = [pc EXCEPT ![p] = "user"] /\ loc' = [loc EXCEPT ![p] = l]
    BY <1>1 DEF IInv, TypeOK, LocalInv, LocType
  <2>2. "user" \in Places /\ "user" \notin Putting2  BY DEF Places, Putting2
  <2> HIDE DEF l
  <2> QED  BY <1>11, <2>1, <2>2, GoMoves
<1>13. HeldAt(l, "user") = Nil  BY DEF HeldAt
<1>14. RefsOK(p, l, g)
  <2> SUFFICES ASSUME NEW i \in Inums
               PROVE  icache'[i].ref = icache[i].ref + Own(l, i) - Own(loc[p], i)
                      + One(cwd'[p], i) - One(cwd[p], i) + RowN(file'[g], i) - RowN(file[g], i)
    BY DEF RefsOK
  <2>1. RowN(file'[g], i) = RowN(file[g], i) /\ RowN(file[g], i) \in Int
    <3>1. file[g].ref \in Nat /\ file[g].ref + 1 > 0  BY <1>3, <1>4
    <3> QED  BY <1>3, <1>5, <1>6, <3>1 DEF RowN
  <2>2. Own(l, i) = 0  BY <1>11
  <2>3. One(cwd'[p], i) = One(cwd[p], i) /\ One(cwd[p], i) \in Int /\ icache[i].ref \in Int
    BY <1>1, Ones
  <2> QED  BY <1>1, <2>1, <2>2, <2>3
<1>15. \A i \in Inums : OweAt(l, Then("user", l), i) <= OweAt(loc[p], After(p), i)
  BY <1>11, <1>12 DEF OweAt
<1>16. CacheOK  BY <1>1, CacheSame
<1>17. dinode[cwd'[p]].type = "dir"  BY <1>1, Here
<1>18. LockOK(p, HeldAt(l, Then("user", l))) /\ LocTyped(l, Then("user", l))  BY <1>11, <1>12, <1>13
<1> HIDE DEF l
<1> QED  BY <1>1, <1>8, <1>9, <1>10, <1>12, <1>14, <1>15, <1>16, <1>17, <1>18, FileStep

LEMMA KeepsClose ==
    ASSUME IInv, NEW p \in Procs, NEW d \in Fds, Close(p, d)
    PROVE  IInv'
<1> DEFINE g == ofile[p][d]
<1>1. /\ pc[p] = "user" /\ UNCHANGED disk /\ icache' = icache /\ lock' = lock /\ cwd' = cwd
      /\ g # Nil /\ ofile' = [ofile EXCEPT ![p][d] = Nil]
      /\ IF file[g].ref > 1
         THEN file' = [file EXCEPT ![g].ref = @ - 1] /\ pc' = pc /\ loc' = loc
         ELSE file' = [file EXCEPT ![g] = NoFile] /\ Return(p, <<file[g].ip>>)
  BY DEF Close, At
<1>2. /\ g \in Files /\ file[g].ref > 0
      /\ \A q \in Procs, e \in Fds : ofile[q][e] = g /\ <<q, e>> # <<p, d>> => file[g].ref > 1
  BY <1>1, FdRef DEF IInv, CountInv
<1>3. file[g] \in [ref : Nat, ip : Inums \union {Nil}, writable : BOOLEAN]  BY <1>2 DEF IInv, TypeOK
<1>4. file[g].ip \in Inums /\ dinode[file[g].ip].type # "free"  BY <1>2, <1>3 DEF IInv, FilesInv
<1>5. /\ ofile' \in [Procs -> [Fds -> Files \union {Nil}]]
      /\ \A q \in Procs : q # p => ofile'[q] = ofile[q]
      /\ \A f \in Files : /\ file[f].ref \in Nat
                          /\ Cardinality(FdsOf(ofile', f)) = file[f].ref - One(g, f)
  <2>1. SetsFd(p, d, Nil)  BY <1>1 DEF SetsFd
  <2>2. /\ ofile' \in [Procs -> [Fds -> Files \union {Nil}]]
        /\ \A q \in Procs : q # p => ofile'[q] = ofile[q]
        /\ \A f \in Files : /\ file[f].ref \in Nat
                            /\ Cardinality(FdsOf(ofile', f)) = file[f].ref + One(Nil, f) - One(g, f)
    BY <2>1, FdMove
  <2>3. \A f \in Files : One(Nil, f) = 0 /\ One(g, f) \in Int  BY Constants DEF One
  <2> QED  BY <2>2, <2>3
<1>6. ASSUME NEW r, r \in [ref : Nat, ip : Inums \union {Nil}, writable : BOOLEAN],
             file' = [file EXCEPT ![g] = r], r.ref = file[g].ref - 1,
             r.ref = 0 => r = NoFile, r.ref > 0 => r.ip = file[g].ip
      PROVE  FdsOK(p, g) /\ FdsInv' /\ FilesInv' /\ file'[g] = r
  <2> HIDE DEF g
  <2>1. /\ file' \in [Files -> [ref : Nat, ip : Inums \union {Nil}, writable : BOOLEAN]]
        /\ file'[g] = r /\ \A f \in Files : f # g => file'[f] = file[f]
    BY <1>2, <1>6 DEF IInv, TypeOK
  <2>2. FdsOK(p, g)
    <3>1. cwd \in [Procs -> Inums]  BY DEF IInv, TypeOK
    <3>2. file'[g].ip = file[g].ip \/ \A q \in Procs, x \in Fds : q # p => ofile[q][x] # g
      <4>1. CASE file[g].ref > 1
        <5>1. r.ref > 0  BY <1>3, <1>6, <4>1
        <5> QED  BY <1>6, <2>1, <5>1
      <4>2. CASE ~(file[g].ref > 1)  BY <1>2, <4>2
      <4> QED  BY <4>1, <4>2
    <3> QED  BY <1>1, <1>2, <1>5, <2>1, <3>1, <3>2 DEF FdsOK
  <2>3. FdsInv'
    <3> SUFFICES ASSUME NEW f \in Files PROVE file'[f].ref = Cardinality(FdsOf(ofile', f))
      BY DEF FdsInv, FdSet, FdsOf
    <3>1. Cardinality(FdsOf(ofile', f)) = file[f].ref - One(g, f) /\ file[f].ref \in Nat  BY <1>5
    <3>2. CASE f = g  BY <1>6, <2>1, <3>1, <3>2 DEF One
    <3>3. CASE f # g  BY <2>1, <3>1, <3>3 DEF One
    <3> QED  BY <3>2, <3>3
  <2>4. FilesInv'
    <3>1. dinode' = dinode  BY <1>1 DEF disk
    <3> SUFFICES ASSUME NEW f \in Files
                 PROVE  /\ file'[f].ref = 0 => file'[f] = NoFile
                        /\ file'[f].ref > 0 => file'[f].ip # Nil /\ dinode[file'[f].ip].type # "free"
      BY <3>1 DEF FilesInv, NoFile
    <3>2. CASE f = g  BY <1>4, <1>6, <2>1, <3>2, Constants
    <3>3. CASE f # g  BY <2>1, <3>3 DEF IInv, FilesInv
    <3> QED  BY <3>2, <3>3
  <2> QED  BY <2>1, <2>2, <2>3, <2>4
<1>7. /\ After(p) = "user" /\ loc[p] \in Local /\ loc[p].puts = <<>> /\ loc[p].then = "user"
      /\ Inodes(loc[p], "user") /\ Args(loc[p], "user") /\ Making(loc[p], "user")
      /\ LocTyped(loc[p], "user") /\ \A i \in Inums : Own(loc[p], i) = 0 /\ OweAt(loc[p], "user", i) = 0
      /\ LockOK(p, Nil)
  BY <1>1, UserAt
<1>8. CacheOK  BY <1>1, CacheSame
<1>9. dinode[cwd'[p]].type = "dir"  BY <1>1, Here
<1>10. CASE file[g].ref > 1
  <2> DEFINE r == [file[g] EXCEPT !.ref = file[g].ref - 1]
             l == loc[p]
  <2>1. file' = [file EXCEPT ![g] = r] /\ pc' = pc /\ loc' = loc  BY <1>1, <1>10
  <2>2. /\ r \in [ref : Nat, ip : Inums \union {Nil}, writable : BOOLEAN]
        /\ r.ref = file[g].ref - 1 /\ r.ip = file[g].ip
    BY <1>3, <1>10
  <2>3. r.ref > 0 /\ r.ref # 0  BY <1>3, <1>10, <2>2
  <2> HIDE DEF r
  <2>4. FdsOK(p, g) /\ FdsInv' /\ FilesInv' /\ file'[g] = r
    BY <1>6, <2>1, <2>2, <2>3
  <2> HIDE DEF g
  <2>5. MoveOK(p, "user", l) /\ Then("user", l) = "user"
    <3>1. pc' = [pc EXCEPT ![p] = "user"] /\ loc' = [loc EXCEPT ![p] = l]
      BY <1>1, <2>1 DEF IInv, TypeOK, LocalInv, LocType
    <3>2. "user" \in Places /\ "user" \notin Putting2  BY DEF Places, Putting2
    <3> QED  BY <1>7, <3>1, <3>2, GoMoves
  <2>6. HeldAt(l, "user") = Nil  BY DEF HeldAt
  <2>7. RefsOK(p, l, g)
    <3> SUFFICES ASSUME NEW i \in Inums
                 PROVE  icache'[i].ref = icache[i].ref + Own(l, i) - Own(loc[p], i)
                        + One(cwd'[p], i) - One(cwd[p], i) + RowN(file'[g], i) - RowN(file[g], i)
      BY DEF RefsOK
    <3>1. RowN(file'[g], i) = RowN(file[g], i) /\ RowN(file[g], i) \in Int
      BY <1>2, <2>2, <2>3, <2>4 DEF RowN
    <3>2. Own(l, i) = 0  BY <1>7
    <3>3. One(cwd'[p], i) = One(cwd[p], i) /\ One(cwd[p], i) \in Int /\ icache[i].ref \in Int
      BY <1>1, Ones
    <3> QED  BY <1>1, <3>1, <3>2, <3>3
  <2>8. \A i \in Inums : OweAt(l, Then("user", l), i) <= OweAt(loc[p], After(p), i)
    BY <1>7, <2>5 DEF OweAt
  <2>9. LockOK(p, HeldAt(l, Then("user", l))) /\ LocTyped(l, Then("user", l))  BY <1>7, <2>5, <2>6
  <2> HIDE DEF l
  <2> QED  BY <1>1, <1>8, <1>9, <2>4, <2>5, <2>7, <2>8, <2>9, FileStep
<1>11. CASE ~(file[g].ref > 1)
  <2> DEFINE ip == file[g].ip
             s == <<ip>>
             m == WithPuts(NoLoc, s, "user")
  <2>1. file' = [file EXCEPT ![g] = NoFile] /\ Return(p, s)  BY <1>1, <1>11
  <2>2. s \in Seq(Inums) /\ s # <<>> /\ Len(s) <= 2  BY <1>4
  <2>3. s = <<ip>>  OBVIOUS
  <2> HIDE DEF s
  <2>4. /\ MoveOK(p, "put", m) /\ Then("put", m) = "user"
        /\ m.at = Nil /\ m.ip = Nil /\ m.puts = s
        /\ HeldAt(m, "user") = Nil /\ LocTyped(m, "user") /\ \A i \in Inums : OweAt(m, "user", i) = 0
    BY <2>1, <2>2, ReturnMoves
  <2> HIDE DEF m
  <2>5. /\ NoFile \in [ref : Nat, ip : Inums \union {Nil}, writable : BOOLEAN] /\ NoFile.ref = 0
        /\ file[g].ref = 1
    BY <1>2, <1>3, <1>11 DEF NoFile
  <2>6. FdsOK(p, g) /\ FdsInv' /\ FilesInv' /\ file'[g] = NoFile
    <3>1. NoFile.ref = file[g].ref - 1 /\ ~(NoFile.ref > 0)  BY <2>5
    <3> HIDE DEF g
    <3> QED  BY <1>6, <2>1, <2>5, <3>1
  <2>7. RefsOK(p, m, g)
    <3> SUFFICES ASSUME NEW i \in Inums
                 PROVE  icache'[i].ref = icache[i].ref + Own(m, i) - Own(loc[p], i)
                        + One(cwd'[p], i) - One(cwd[p], i) + RowN(file'[g], i) - RowN(file[g], i)
      BY DEF RefsOK
    <3>1. RowN(file'[g], i) = 0 /\ RowN(file[g], i) = One(ip, i)  BY <2>5, <2>6 DEF RowN, One
    <3>2. Own(m, i) = One(Nil, i) + One(Nil, i) + One(ip, i)  BY <2>3, <2>4, OwnOne
    <3>3. Own(loc[p], i) = 0  BY <1>7
    <3>4. One(Nil, i) = 0 /\ One(ip, i) \in Int /\ One(cwd[p], i) \in Int /\ icache[i].ref \in Int
      BY Ones
    <3>5. One(cwd'[p], i) = One(cwd[p], i)  BY <1>1
    <3> QED  BY <1>1, <3>1, <3>2, <3>3, <3>4, <3>5
  <2>8. \A i \in Inums : OweAt(m, Then("put", m), i) <= OweAt(loc[p], After(p), i)
    BY <2>4 DEF OweAt
  <2> QED  BY <1>1, <1>7, <1>8, <1>9, <2>4, <2>6, <2>7, <2>8, FileStep
<1> QED  BY <1>10, <1>11

LEMMA KeepsWrite ==
    ASSUME IInv, NEW p \in Procs, NEW d \in Fds, Write(p, d)
    PROVE  IInv'
<1> DEFINE g == ofile[p][d]
           l == loc[p]
           m == [l EXCEPT !.f = g]
<1>1. /\ pc[p] = "user" /\ UNCHANGED <<disk, fds>> /\ icache' = icache /\ lock' = lock
      /\ g # Nil /\ dinode[file[g].ip].type = "file" /\ pc' = [pc EXCEPT ![p] = "write"]
      /\ loc' = [loc EXCEPT ![p].f = g]
  BY DEF Write, At, Goes
<1>2. g \in Files  BY <1>1, FdRef DEF IInv, CountInv
<1>3. /\ After(p) = "user" /\ l \in Local /\ l.puts = <<>> /\ l.then = "user"
      /\ l.at = Nil /\ l.ip = Nil /\ Args(l, "user")
      /\ \A i \in Inums : Own(l, i) = 0 /\ OweAt(l, "user", i) = 0
      /\ LockOK(p, Nil)
  BY <1>1, UserAt
<1>4. loc' = [loc EXCEPT ![p] = m]
  <2>1. loc \in [Procs -> Local]  BY DEF IInv, LocalInv, LocType
  <2> QED  BY <1>1, <2>1
<1>5. /\ m \in Local /\ m.call = l.call /\ m.new = l.new /\ m.at = Nil /\ m.ip = Nil /\ m.f = g
      /\ m.puts = <<>> /\ m.then = "user"
  BY <1>2, <1>3 DEF Local
<1> HIDE DEF m
<1>6. Inodes(m, "write") /\ Args(m, "write") /\ Making(m, "write")
  <2>1. Inodes(m, "write")  BY <1>1, <1>5 DEF Inodes
  <2>2. Args(m, "write")  BY <1>3, <1>5 DEF Args
  <2>3. Making(m, "write")  BY DEF Making
  <2> QED  BY <2>1, <2>2, <2>3
<1>7. MoveOK(p, "write", m) /\ Then("write", m) = "write"
  <2>1. "write" \in Places /\ "write" \notin Putting2  BY DEF Places, Waits, Putting2
  <2> QED  BY <1>1, <1>4, <1>5, <1>6, <2>1, GoMoves
<1>8. HeldAt(m, "write") = Nil  BY DEF HeldAt
<1>9. LocTyped(m, "write")  BY <1>5 DEF LocTyped
<1>10. DiskOK /\ BlocksInv'  BY <1>1, DiskSame
<1>11. /\ FdsOK(p, 1) /\ FdsInv' /\ FilesInv' /\ dinode[cwd'[p]].type = "dir"
       /\ \A i : RowN(file'[1], i) - RowN(file[1], i) = 0
  BY <1>1, <1>10, FdsSame
<1>12. \A i \in Inums : Own(m, i) = 0
  <2> TAKE i \in Inums
  <2>1. Own(m, i) = One(Nil, i) + One(Nil, i)  BY <1>5, OwnNone
  <2> QED  BY <2>1, Ones
<1>13. RefsOK(p, m, 1)
  <2> SUFFICES ASSUME NEW i \in Inums
               PROVE  icache'[i].ref = icache[i].ref + Own(m, i) - Own(loc[p], i)
                      + One(cwd'[p], i) - One(cwd[p], i) + RowN(file'[1], i) - RowN(file[1], i)
    BY DEF RefsOK
  <2>1. Own(m, i) = 0 /\ Own(loc[p], i) = 0  BY <1>3, <1>12
  <2>2. cwd' = cwd /\ file' = file  BY <1>1 DEF fds
  <2>3. One(cwd[p], i) \in Int /\ icache[i].ref \in Int /\ RowN(file[1], i) \in Int
    BY Ones DEF RowN
  <2> QED  BY <1>1, <2>1, <2>2, <2>3
<1>14. \A i \in Inums : OweAt(m, Then("write", m), i) <= OweAt(loc[p], After(p), i)
  <2> TAKE i \in Inums
  <2>1. OweAt(loc[p], After(p), i) = 0  BY <1>3
  <2>2. OweAt(m, Then("write", m), i) = 0  BY <1>5, Constants DEF OweAt, Owes
  <2> QED  BY <2>1, <2>2
<1>15. OwesOK(p, "write", m)  BY <1>1, <1>14, OwesSame
<1>16. CacheOK  BY <1>1, CacheSame
<1>17. Writing(p)'
  <2>1. loc'[p].f = g
    <3>1. loc \in [Procs -> Local]  BY DEF IInv, LocalInv, LocType
    <3>2. loc'[p] = m  BY <1>4, <3>1
    <3> QED  BY <1>5, <3>2
  <2>2. cwd' = cwd /\ file' = file /\ ofile' = ofile /\ dinode' = dinode  BY <1>1 DEF fds, disk
  <2> QED  BY <1>1, <2>1, <2>2 DEF Writing
<1>18. LockOK(p, HeldAt(m, Then("write", m))) /\ LocTyped(m, Then("write", m))
  BY <1>3, <1>7, <1>8, <1>9
<1> QED  BY <1>7, <1>10, <1>11, <1>13, <1>15, <1>16, <1>17, <1>18, Quiet

LEMMA WriteAt ==
    ASSUME IInv, NEW p \in Procs, pc[p] = "write"
    PROVE  /\ After(p) = "write" /\ Target(p) \in Inums /\ dinode[Target(p)].type = "file"
           /\ Held(p) = Nil /\ loc[p].ip = Nil
           /\ \A i \in Inums : Own(loc[p], i) = 0 /\ OweAt(loc[p], "write", i) = 0
<1> DEFINE l == loc[p]
<1>1. After(p) = "write"  BY DEF After, Then, Putting2
<1>2. l \in Local /\ Inodes(l, "write") /\ Puttings(l, "write")  BY <1>1, Here
<1>3. l.at = Nil /\ l.ip = Nil /\ l.f \in Files /\ l.puts = <<>>
  BY <1>2 DEF Inodes, Local, Puttings, Putting2
<1>4. Target(p) = file[l.f].ip  BY DEF Target
<1>5. dinode[file[l.f].ip].type = "file" /\ \E d \in Fds : ofile[p][d] = l.f
  BY DEF IInv, Typed, Writing
<1>6. file[l.f].ref > 0
  <2> PICK d \in Fds : ofile[p][d] = l.f  BY <1>5
  <2> QED  BY <1>3, FdRef, Constants DEF IInv, CountInv
<1>7. file[l.f].ip \in Inums
  <2>1. file[l.f].ip \in Inums \union {Nil}  BY <1>3 DEF IInv, TypeOK
  <2> QED  BY <1>3, <1>6, <2>1 DEF IInv, FilesInv
<1>8. Held(p) = Nil  BY <1>1 DEF Held, HeldAt
<1>9. ASSUME NEW i \in Inums PROVE Own(l, i) = 0 /\ OweAt(l, "write", i) = 0
  <2>1. Own(l, i) = One(Nil, i) + One(Nil, i)  BY <1>3, OwnNone
  <2>2. OweAt(l, "write", i) = 0  BY <1>3, Constants DEF OweAt, Owes
  <2> QED  BY <2>1, <2>2, Ones
<1> QED  BY <1>1, <1>3, <1>4, <1>5, <1>7, <1>8, <1>9

LEMMA BallocFree ==
    ASSUME NEW n
    PROVE  Balloc(n) \subseteq Blocks /\ Balloc(n) \cap bitmap = {}
BY DEF Balloc, FreeBlocks

(* Blocks that were free come to one inode.                                 *)
LEMMA BlocksGrow ==
    ASSUME IInv, NEW t \in Inums, NEW new \in SUBSET Blocks, new \cap bitmap = {},
           bitmap' = bitmap \union new,
           dinode'[t].blks = dinode[t].blks \union new,
           \A j \in Inums : j # t => dinode'[j].blks = dinode[j].blks
    PROVE  BlocksInv' /\ bitmap' \in SUBSET Blocks
<1>1. /\ bitmap = UNION {dinode[i].blks : i \in Inums}
      /\ \A i, j \in Inums : i # j => dinode[i].blks \cap dinode[j].blks = {}
  BY DEF IInv, CountInv, BlocksInv
<1>2. \A i \in Inums : dinode[i].blks \subseteq bitmap  BY <1>1
<1>3. bitmap' = UNION {dinode'[i].blks : i \in Inums}
  <2>1. ASSUME NEW b \in bitmap' PROVE \E i \in Inums : b \in dinode'[i].blks
    <3>1. CASE b \in new  BY <3>1
    <3>2. CASE b \in bitmap
      <4> PICK i \in Inums : b \in dinode[i].blks  BY <1>1, <3>2
      <4> QED  OBVIOUS
    <3> QED  BY <2>1, <3>1, <3>2
  <2>2. ASSUME NEW i \in Inums, NEW b \in dinode'[i].blks PROVE b \in bitmap'
    BY <1>2, <2>2
  <2> QED  BY <2>1, <2>2
<1>4. ASSUME NEW i \in Inums, NEW j \in Inums, i # j PROVE dinode'[i].blks \cap dinode'[j].blks = {}
  <2>1. dinode[i].blks \cap dinode[j].blks = {}  BY <1>1, <1>4
  <2>2. dinode[i].blks \cap new = {} /\ dinode[j].blks \cap new = {}  BY <1>2
  <2> QED  BY <1>4, <2>1, <2>2
<1>5. bitmap \in SUBSET Blocks  BY DEF IInv, TypeOK
<1> QED  BY <1>3, <1>4, <1>5 DEF BlocksInv

LEMMA KeepsWritei ==
    ASSUME IInv, NEW p \in Procs, Writei(p)
    PROVE  IInv'
<1> DEFINE ip == Target(p)
           n == NewBlocks(dinode[ip].len)
           new == Balloc(n)
<1>1. Locks(p, "write") /\ pc[p] = "write" /\ UNCHANGED fds /\ lock' = lock
  BY DEF Writei, Locks, At
<1>2. CASE Cardinality(FreeBlocks) < n
  BY <1>1, <1>2, Still DEF Writei
<1>3. CASE ~(Cardinality(FreeBlocks) < n)
  <2>1. /\ dinode' = [dinode EXCEPT ![ip].len = @ + 1, ![ip].blks = @ \union new]
        /\ bitmap' = bitmap \union new /\ icache' = Ilock(icache, ip)
        /\ Goes(p, "user") /\ loc' = [loc EXCEPT ![p] = NoLoc]
    BY <1>3 DEF Writei
  <2>2. /\ After(p) = "write" /\ ip \in Inums /\ dinode[ip].type = "file" /\ Held(p) = Nil
        /\ \A i \in Inums : Own(loc[p], i) = 0 /\ OweAt(loc[p], "write", i) = 0
    BY <1>1, WriteAt
  <2>3. new \in SUBSET Blocks /\ new \cap bitmap = {}  BY BallocFree
  <2> HIDE DEF new, ip
  <2> DEFINE Ino == [type : Types, nlink : Int, ents : [Names -> Inums \union {Nil}], len : Nat, blks : SUBSET Blocks]
             r == [dinode[ip] EXCEPT !.len = dinode[ip].len + 1, !.blks = dinode[ip].blks \union new]
  <2>4. dinode \in [Inums -> Ino]  BY DEF IInv, TypeOK
  <2>5. dinode' = [dinode EXCEPT ![ip] = r]  BY <2>1, <2>2, <2>4
  <2>6. dinode[ip] \in Ino  BY <2>2, <2>4
  <2>7. /\ r \in Ino /\ r.type = dinode[ip].type /\ r.ents = dinode[ip].ents /\ r.nlink = dinode[ip].nlink
        /\ r.blks = dinode[ip].blks \union new
    <3> DEFINE b == dinode[ip].blks \union new
               n1 == dinode[ip].len + 1
    <3>1. b \in SUBSET Blocks /\ n1 \in Nat  BY <2>3, <2>6
    <3> HIDE DEF b, n1
    <3>2. r = [dinode[ip] EXCEPT !.len = n1, !.blks = b]  BY DEF b, n1
    <3> HIDE DEF r
    <3>3. /\ r \in Ino /\ r.type = dinode[ip].type /\ r.ents = dinode[ip].ents /\ r.nlink = dinode[ip].nlink
          /\ r.blks = b
      BY <2>6, <3>1, <3>2
    <3> QED  BY <3>3 DEF b
  <2> HIDE DEF r, Ino
  <2>8. dinode' \in [Inums -> Ino] /\ dinode'[ip] = r /\ \A j \in Inums : j # ip => dinode'[j] = dinode[j]
    BY <2>2, <2>4, <2>5, <2>7
  <2>9. BlocksInv' /\ bitmap' \in SUBSET Blocks
    BY <2>1, <2>2, <2>3, <2>7, <2>8, BlocksGrow
  <2>10. DiskOK
    <3>1. \A j \in Inums : /\ dinode'[j].type = dinode[j].type /\ dinode'[j].ents = dinode[j].ents
                           /\ dinode[j].type = "free" => dinode'[j] = dinode[j]
      BY <2>2, <2>7, <2>8
    <3> QED  BY <2>8, <2>9, <3>1 DEF DiskOK, Ino
  <2>11. /\ MoveOK(p, "user", NoLoc) /\ Then("user", NoLoc) = "user" /\ HeldAt(NoLoc, "user") = Nil
         /\ LocTyped(NoLoc, "user") /\ \A i \in Inums : Own(NoLoc, i) = 0 /\ OweAt(NoLoc, "user", i) = 0
    BY <2>1, NoLocMoves
  <2>12. OwesOK(p, "user", NoLoc)
    <3> SUFFICES ASSUME NEW i \in Inums
                 PROVE  dinode'[i].nlink >= dinode[i].nlink + OweAt(NoLoc, Then("user", NoLoc), i) - OweAt(loc[p], After(p), i)
      BY DEF OwesOK
    <3>1. dinode'[i].nlink = dinode[i].nlink  BY <2>7, <2>8
    <3>2. dinode[i].nlink \in Int  BY DEF IInv, TypeOK
    <3>3. OweAt(NoLoc, Then("user", NoLoc), i) = 0 /\ OweAt(loc[p], After(p), i) = 0  BY <2>2, <2>11
    <3> QED  BY <3>1, <3>2, <3>3
  <2>13. CacheOK /\ \A i \in Inums : icache'[i].ref = icache[i].ref  BY <2>1, <2>2, CacheLock
  <2>14. \A i \in Inums : icache'[i].ref = icache[i].ref + Own(NoLoc, i) - Own(loc[p], i)
    <3> TAKE i \in Inums
    <3>1. Own(NoLoc, i) = 0 /\ Own(loc[p], i) = 0 /\ icache[i].ref \in Int  BY <2>2, <2>11, Ones
    <3> QED  BY <2>13, <3>1
  <2>15. LockOK(p, HeldAt(NoLoc, Then("user", NoLoc)))
    BY <1>1, <2>2, <2>11, LockSame
  <2> QED  BY <1>1, <2>9, <2>10, <2>11, <2>12, <2>13, <2>14, <2>15, CallStep
<1> QED  BY <1>2, <1>3

-----------------------------------------------------------------------------
(* Actions that change the tree.                                            *)
Ino == [type : Types, nlink : Int, ents : [Names -> Inums \union {Nil}], len : Nat, blks : SUBSET Blocks]

SetEnt(r0, n, y, z) == [r0 EXCEPT !.ents = [r0.ents EXCEPT ![n] = y], !.nlink = z]
LEMMA RowEnt ==
    ASSUME NEW r0 \in Ino, NEW n \in Names, NEW y \in Inums \union {Nil}, NEW z \in Int,
           NEW r, r = SetEnt(r0, n, y, z)
    PROVE  /\ r \in Ino /\ r.type = r0.type /\ r.nlink = z /\ r.blks = r0.blks
           /\ r.ents[n] = y /\ \A m \in Names : m # n => r.ents[m] = r0.ents[m]
<1> DEFINE e == [r0.ents EXCEPT ![n] = y]
<1>1. r0.ents \in [Names -> Inums \union {Nil}]  BY DEF Ino
<1>2. e \in [Names -> Inums \union {Nil}] /\ e[n] = y /\ \A m \in Names : m # n => e[m] = r0.ents[m]
  BY <1>1
<1> HIDE DEF e
<1>3. r = [r0 EXCEPT !.ents = e, !.nlink = z]  BY DEF e, SetEnt
<1>4. r \in Ino /\ r.type = r0.type /\ r.nlink = z /\ r.blks = r0.blks /\ r.ents = e
  BY <1>2, <1>3 DEF Ino
<1> QED  BY <1>2, <1>4

(* Links by entries.                                                        *)
NameOf(i) == {e \in Inums \X Names : Child(e[1], e[2], i)}
UpOf(i) == {d \in Inums : /\ dinode[d].type = "dir" /\ dinode[d].ents[".."] = i
                          /\ \E e \in Inums, n \in Names : Child(e, n, d)}
LEMMA LinkedIs ==
    ASSUME NEW c \in Inums
    PROVE  /\ c \in Linked <=> \E e \in Inums, n \in Names : Child(e, n, c)
           /\ c \in Linked' <=> \E e \in Inums, n \in Names : Child(e, n, c)'
<1>1. Nil \notin Inums  BY Constants
<1>2. ASSUME c \in Linked PROVE \E e \in Inums, n \in Names : Child(e, n, c)
  <2>1. PICK e \in Entries : Named(e) = c  BY <1>2 DEF Linked
  <2> QED  BY <1>1, <2>1 DEF Entries, Named, Dirs, Child
<1>3. ASSUME NEW e \in Inums, NEW n \in Names, Child(e, n, c) PROVE c \in Linked
  <2>1. <<e, n>> \in Entries /\ Named(<<e, n>>) = c  BY <1>3 DEF Entries, Named, Dirs, Child
  <2> QED  BY <2>1 DEF Linked
<1>4. ASSUME c \in Linked' PROVE \E e \in Inums, n \in Names : Child(e, n, c)'
  <2>1. PICK e \in Entries' : Named(e)' = c  BY <1>4 DEF Linked
  <2> QED  BY <1>1, <2>1 DEF Entries, Named, Dirs, Child
<1>5. ASSUME NEW e \in Inums, NEW n \in Names, Child(e, n, c)' PROVE c \in Linked'
  <2>1. <<e, n>> \in Entries' /\ Named(<<e, n>>)' = c  BY <1>5 DEF Entries, Named, Dirs, Child
  <2> QED  BY <2>1 DEF Linked
<1> QED  BY <1>2, <1>3, <1>4, <1>5

LEMMA NameUp ==
    ASSUME NEW i \in Inums
    PROVE  /\ NameSet(i) = NameOf(i) /\ UpSet(i) = UpOf(i)
           /\ NameSet(i)' = NameOf(i)' /\ UpSet(i)' = UpOf(i)'
<1>1. Nil \notin Inums  BY Constants
<1>2. NameSet(i) = NameOf(i)
  BY <1>1 DEF NameSet, NameOf, Entries, Dirs, Named, Child
<1>3. NameSet(i)' = NameOf(i)'
  BY <1>1 DEF NameSet, NameOf, Entries, Dirs, Named, Child
<1>4. UpSet(i) = UpOf(i)  BY LinkedIs DEF UpSet, UpOf, Dirs
<1>5. UpSet(i)' = UpOf(i)'  BY LinkedIs DEF UpSet, UpOf, Dirs
<1> QED  BY <1>2, <1>3, <1>4, <1>5

LEMMA LinkNumbers ==
    ASSUME NEW i \in Inums
    PROVE  /\ NameN(i) = Cardinality(NameOf(i)) /\ UpN(i) = Cardinality(UpOf(i))
           /\ NameN(i)' = Cardinality(NameOf(i)') /\ UpN(i)' = Cardinality(UpOf(i)')
           /\ NameOf(i) \in SUBSET (Inums \X Names) /\ UpOf(i) \in SUBSET Inums
           /\ NameOf(i)' \in SUBSET (Inums \X Names) /\ UpOf(i)' \in SUBSET Inums
           /\ NameN(i) \in Nat /\ UpN(i) \in Nat /\ NameN(i)' \in Nat /\ UpN(i)' \in Nat
<1>1. NameSet(i) = NameOf(i) /\ UpSet(i) = UpOf(i) /\ NameSet(i)' = NameOf(i)' /\ UpSet(i)' = UpOf(i)'
  BY NameUp
<1>2. /\ NameN(i) = Cardinality(NameOf(i)) /\ UpN(i) = Cardinality(UpOf(i))
      /\ NameN(i)' = Cardinality(NameOf(i)') /\ UpN(i)' = Cardinality(UpOf(i)')
  BY <1>1 DEF NameN, UpN
<1>3. /\ NameOf(i) \in SUBSET (Inums \X Names) /\ UpOf(i) \in SUBSET Inums
      /\ NameOf(i)' \in SUBSET (Inums \X Names) /\ UpOf(i)' \in SUBSET Inums
  BY DEF NameOf, UpOf
<1>4. IsFiniteSet(Inums \X Names) /\ IsFiniteSet(Inums)  BY Finite
<1>5. \A A : A \subseteq Inums \X Names => Cardinality(A) \in Nat  BY <1>4, CardNat
<1>6. \A A : A \subseteq Inums => Cardinality(A) \in Nat  BY <1>4, CardNat
<1>7. NameN(i) \in Nat /\ NameN(i)' \in Nat  BY <1>2, <1>3, <1>5
<1>8. UpN(i) \in Nat /\ UpN(i)' \in Nat  BY <1>2, <1>3, <1>6
<1> QED  BY <1>2, <1>3, <1>7, <1>8

(* More or fewer entries.                                                   *)
LEMMA NamesShrink ==
    ASSUME NEW i \in Inums, \A d \in Inums, n \in Names : Child(d, n, i)' => Child(d, n, i)
    PROVE  /\ NameN(i)' <= NameN(i)
           /\ \A d \in Inums, n \in Names : Child(d, n, i) /\ ~Child(d, n, i)' => NameN(i)' <= NameN(i) - 1
<1> DEFINE A == NameOf(i)  B == NameOf(i)'  S == Inums \X Names
<1>1. A \in SUBSET S /\ B \in SUBSET S /\ NameN(i) = Cardinality(A) /\ NameN(i)' = Cardinality(B)
      /\ NameN(i) \in Nat /\ NameN(i)' \in Nat
  BY LinkNumbers
<1>2. B \subseteq A  BY DEF NameOf
<1>3. \A d \in Inums, n \in Names : Child(d, n, i) /\ ~Child(d, n, i)' => <<d, n>> \in A \ B
  BY DEF NameOf
<1>4. IsFiniteSet(S)  BY Finite
<1> HIDE DEF A, B, S
<1>5. Cardinality(B) <= Cardinality(A)  BY <1>1, <1>2, <1>4, CardLess
<1>6. ASSUME NEW x \in A \ B PROVE Cardinality(B) <= Cardinality(A) - 1
  <2>1. IsFiniteSet(A)  BY <1>1, <1>4, CardNat
  <2>2. Cardinality(A \ {x}) = Cardinality(A) - 1 /\ IsFiniteSet(A \ {x})
    BY <1>6, <2>1, FS_RemoveElement
  <2>3. B \in SUBSET (A \ {x}) /\ A \ {x} \in SUBSET S  BY <1>1, <1>2, <1>6
  <2>4. Cardinality(B) <= Cardinality(A \ {x})  BY <1>4, <2>3, CardLess
  <2> QED  BY <2>2, <2>4
<1> QED  BY <1>1, <1>3, <1>5, <1>6

LEMMA UpsShrink ==
    ASSUME NEW i \in Inums, UpOf(i)' \subseteq UpOf(i)
    PROVE  UpN(i)' <= UpN(i) /\ \A x : x \in UpOf(i) /\ x \notin UpOf(i)' => UpN(i)' <= UpN(i) - 1
<1> DEFINE A == UpOf(i)  B == UpOf(i)'
<1>1. A \in SUBSET Inums /\ B \in SUBSET Inums /\ UpN(i) = Cardinality(A) /\ UpN(i)' = Cardinality(B)
      /\ UpN(i) \in Nat /\ UpN(i)' \in Nat
  BY LinkNumbers
<1>2. B \subseteq A  OBVIOUS
<1>3. \A x : x \in UpOf(i) /\ x \notin UpOf(i)' => x \in A \ B  OBVIOUS
<1>4. IsFiniteSet(Inums)  BY Finite
<1> HIDE DEF A, B
<1>5. Cardinality(B) <= Cardinality(A)  BY <1>1, <1>2, <1>4, CardLess
<1>6. ASSUME NEW x \in A \ B PROVE Cardinality(B) <= Cardinality(A) - 1
  <2>1. IsFiniteSet(A)  BY <1>1, <1>4, CardNat
  <2>2. Cardinality(A \ {x}) = Cardinality(A) - 1 /\ IsFiniteSet(A \ {x})
    BY <1>6, <2>1, FS_RemoveElement
  <2>3. B \in SUBSET (A \ {x}) /\ A \ {x} \in SUBSET Inums  BY <1>1, <1>2, <1>6
  <2>4. Cardinality(B) <= Cardinality(A \ {x})  BY <1>4, <2>3, CardLess
  <2> QED  BY <2>2, <2>4
<1> QED  BY <1>1, <1>3, <1>5, <1>6

LEMMA NamesGrow ==
    ASSUME NEW i \in Inums, NEW d \in Inums, NEW n \in Names,
           \A e \in Inums, m \in Names : Child(e, m, i)' => Child(e, m, i) \/ (e = d /\ m = n)
    PROVE  NameN(i)' <= NameN(i) + 1
<1> DEFINE A == NameOf(i)  B == NameOf(i)'  S == Inums \X Names  x == <<d, n>>
<1>1. A \in SUBSET S /\ B \in SUBSET S /\ NameN(i) = Cardinality(A) /\ NameN(i)' = Cardinality(B)
      /\ NameN(i) \in Nat /\ NameN(i)' \in Nat
  BY LinkNumbers
<1>2. B \subseteq A \union {x}  BY DEF NameOf
<1>3. IsFiniteSet(S) /\ x \in S  BY Finite
<1> HIDE DEF A, B, S, x
<1>4. IsFiniteSet(A)  BY <1>1, <1>3, CardNat
<1>5. Cardinality(A \union {x}) <= Cardinality(A) + 1
  <2>1. Cardinality(A \union {x}) = IF x \in A THEN Cardinality(A) ELSE Cardinality(A) + 1
    BY <1>4, FS_AddElement
  <2>2. Cardinality(A) \in Nat  BY <1>1, <1>3, CardNat
  <2> QED  BY <2>1, <2>2
<1>6. A \union {x} \in SUBSET S /\ B \in SUBSET (A \union {x})  BY <1>1, <1>2, <1>3
<1>7. Cardinality(B) <= Cardinality(A \union {x}) /\ Cardinality(A \union {x}) \in Nat
  BY <1>3, <1>6, CardLess, CardNat
<1> QED  BY <1>1, <1>5, <1>7

LEMMA UpsGrow ==
    ASSUME NEW i \in Inums, NEW x \in Inums, UpOf(i)' \subseteq UpOf(i) \union {x}
    PROVE  UpN(i)' <= UpN(i) + 1
<1> DEFINE A == UpOf(i)  B == UpOf(i)'
<1>1. A \in SUBSET Inums /\ B \in SUBSET Inums /\ UpN(i) = Cardinality(A) /\ UpN(i)' = Cardinality(B)
      /\ UpN(i) \in Nat /\ UpN(i)' \in Nat
  BY LinkNumbers
<1>2. B \subseteq A \union {x}  OBVIOUS
<1>3. IsFiniteSet(Inums)  BY Finite
<1> HIDE DEF A, B
<1>4. IsFiniteSet(A)  BY <1>1, <1>3, CardNat
<1>5. Cardinality(A \union {x}) <= Cardinality(A) + 1
  <2>1. Cardinality(A \union {x}) = IF x \in A THEN Cardinality(A) ELSE Cardinality(A) + 1
    BY <1>4, FS_AddElement
  <2>2. Cardinality(A) \in Nat  BY <1>1, <1>3, CardNat
  <2> QED  BY <2>1, <2>2
<1>6. A \union {x} \in SUBSET Inums /\ B \in SUBSET (A \union {x})  BY <1>1, <1>2
<1>7. Cardinality(B) <= Cardinality(A \union {x}) /\ Cardinality(A \union {x}) \in Nat
  BY <1>3, <1>6, CardLess, CardNat
<1> QED  BY <1>1, <1>5, <1>7

-----------------------------------------------------------------------------
LEMMA FdsStill ==
    ASSUME IInv, NEW p \in Procs, UNCHANGED fds
    PROVE  /\ FdsOK(p, 1) /\ FdsInv' /\ file' = file /\ ofile' = ofile /\ cwd' = cwd
           /\ \A i : RowN(file'[1], i) = RowN(file[1], i) /\ RowN(file[1], i) \in Int
<1>1. file' = file /\ ofile' = ofile /\ cwd' = cwd  BY DEF fds
<1>2. 1 \in Files  BY FsAssumption DEF Files
<1>3. FdsOK(p, 1)  BY <1>1, <1>2 DEF IInv, TypeOK, FdsOK
<1>4. FdsInv'  BY <1>1 DEF IInv, CountInv, FdsInv, FdSet
<1>5. \A i : RowN(file'[1], i) = RowN(file[1], i) /\ RowN(file[1], i) \in Int  BY <1>1 DEF RowN
<1> QED  BY <1>1, <1>3, <1>4, <1>5

LEMMA TreeStep ==
    ASSUME IInv, NEW p \in Procs, NEW w, NEW m, UNCHANGED fds,
           MoveOK(p, w, m), LockOK(p, HeldAt(m, Then(w, m))),
           icache' \in [Inums -> [ref : Nat, valid : BOOLEAN]],
           \A i \in Inums : icache'[i].ref = icache[i].ref + Own(m, i) - Own(loc[p], i),
           dinode' \in [Inums -> Ino], bitmap' \in SUBSET Blocks,
           ValidInv', Typed', FilesInv', DiskInv', LinkInv', BlocksInv'
    PROVE  IInv'
<1>1. /\ LocalInv' /\ pc' \in [Procs -> Places] /\ \A q \in Procs : Len(loc'[q].puts) <= 2
  BY LocalKept DEF IInv
<1>2. /\ FdsOK(p, 1) /\ FdsInv' /\ file' = file /\ ofile' = ofile /\ cwd' = cwd
      /\ \A i : RowN(file'[1], i) = RowN(file[1], i) /\ RowN(file[1], i) \in Int
  BY FdsStill
<1>3. TypeOK'  BY <1>1, <1>2 DEF TypeOK, LockOK, FdsOK, Ino
<1>4. RefsOK(p, m, 1)
  <2> SUFFICES ASSUME NEW i \in Inums
               PROVE  icache'[i].ref = icache[i].ref + Own(m, i) - Own(loc[p], i)
                      + One(cwd'[p], i) - One(cwd[p], i) + RowN(file'[1], i) - RowN(file[1], i)
    BY DEF RefsOK
  <2>1. Own(m, i) \in Int /\ Own(loc[p], i) \in Int /\ One(cwd[p], i) \in Int /\ icache[i].ref \in Int
    BY Ones DEF Own, PutAt
  <2>2. icache'[i].ref = icache[i].ref + Own(m, i) - Own(loc[p], i)  OBVIOUS
  <2> QED  BY <1>2, <2>1, <2>2
<1>5. RefsInv'  BY <1>2, <1>4, RefsKept DEF IInv, CountInv
<1> QED  BY <1>1, <1>2, <1>3, <1>5 DEF IInv, CountInv

(* What the others know, when types of inodes in use stay but for x, which  *)
(* nobody refers to, and the entries of directories that others have locked. *)
LEMMA TypedTree ==
    ASSUME IInv, NEW p \in Procs, NEW w, NEW m, UNCHANGED fds, w # "write",
           MoveOK(p, w, m), LockOK(p, HeldAt(m, Then(w, m))), NEW x \in Inums \union {Nil},
           \A i \in Inums : i # x /\ dinode[i].type # "free" => dinode'[i].type = dinode[i].type,
           x # Nil => /\ \A q \in Procs : cwd[q] # x
                      /\ \A q \in Procs : q # p => loc[q].at # x /\ loc[q].ip # x
                      /\ \A f \in Files : file[f].ref > 0 => file[f].ip # x,
           \A q \in Procs : q # p /\ After(q) = "victim" => dinode'[loc[q].at].ents = dinode[loc[q].at].ents,
           LocTyped(loc[p], After(p))'
    PROVE  Typed' /\ FilesInv'
<1>1. /\ LocalInv' /\ loc'[p] = m /\ After(p)' = Then(w, m)
      /\ \A q \in Procs : q # p => loc'[q] = loc[q] /\ pc'[q] = pc[q] /\ After(q)' = After(q)
  BY LocalKept DEF IInv
<1>2. /\ FdsOK(p, 1) /\ FdsInv' /\ file' = file /\ ofile' = ofile /\ cwd' = cwd  BY FdsStill
<1>3. pc'[p] = w  BY Here DEF MoveOK, IInv, TypeOK
<1>4. \A i \in Inums : i # x /\ dinode[i].type # "free" => dinode'[i].type = dinode[i].type  OBVIOUS
<1>5. x # Nil => /\ \A q \in Procs : cwd[q] # x
                 /\ \A q \in Procs : q # p => loc[q].at # x /\ loc[q].ip # x
                 /\ \A f \in Files : file[f].ref > 0 => file[f].ip # x
  OBVIOUS
<1>6. FilesInv'
  <2> SUFFICES ASSUME NEW f \in Files
               PROVE  /\ file[f].ref = 0 => file[f] = NoFile
                      /\ file[f].ref > 0 => file[f].ip # Nil /\ dinode'[file[f].ip].type # "free"
    BY <1>2 DEF FilesInv, NoFile
  <2>1. /\ file[f].ref = 0 => file[f] = NoFile
        /\ file[f].ref > 0 => file[f].ip # Nil /\ dinode[file[f].ip].type # "free"
    BY DEF IInv, FilesInv
  <2>2. file[f].ip \in Inums \union {Nil}  BY DEF IInv, TypeOK
  <2> QED  BY <1>4, <1>5, <2>1, <2>2
<1>7. Typed'
  <2> SUFFICES ASSUME NEW q \in Procs
               PROVE  dinode'[cwd'[q]].type = "dir" /\ LocTyped(loc[q], After(q))' /\ Writing(q)'
    BY DEF Typed
  <2>1. dinode'[cwd'[q]].type = "dir"
    <3>1. dinode[cwd[q]].type = "dir" /\ cwd[q] \in Inums  BY Here
    <3>2. cwd[q] # x  BY <1>5, <3>1, Constants
    <3> QED  BY <1>2, <1>4, <3>1, <3>2
  <2>2. Writing(q)'
    <3>1. CASE q = p  BY <1>3, <3>1 DEF Writing
    <3>2. CASE q # p
      <4> SUFFICES ASSUME pc[q] = "write"
                   PROVE  /\ dinode'[file[loc[q].f].ip].type = "file"
                          /\ \E d \in Fds : ofile[q][d] = loc[q].f
        BY <1>1, <1>2, <3>2 DEF Writing
      <4>1. dinode[file[loc[q].f].ip].type = "file" /\ \E d \in Fds : ofile[q][d] = loc[q].f
        BY DEF IInv, Typed, Writing
      <4>2. Target(q) \in Inums /\ Target(q) = file[loc[q].f].ip
        <5>1. Target(q) \in Inums  BY WriteAt
        <5> QED  BY <5>1 DEF Target
      <4>3. loc[q].f \in Files /\ file[loc[q].f].ref > 0
        <5>1. After(q) = "write"  BY DEF After, Then, Putting2
        <5>2. loc[q] \in Local /\ Inodes(loc[q], "write")  BY <5>1, Here
        <5>3. loc[q].f \in Files  BY <5>2 DEF Local, Inodes
        <5> PICK d \in Fds : ofile[q][d] = loc[q].f  BY <4>1
        <5> QED  BY <5>3, FdRef, Constants DEF IInv, CountInv
      <4>4. file[loc[q].f].ip # x  BY <1>5, <4>2, <4>3, Constants
      <4>5. file[loc[q].f].ip \in Inums  BY <4>2
      <4>6. dinode'[file[loc[q].f].ip].type = "file"  BY <1>4, <4>1, <4>4, <4>5
      <4> QED  BY <4>1, <4>6
    <3> QED  BY <3>1, <3>2
  <2>3. LocTyped(loc[q], After(q))'
    <3>1. CASE q = p  BY <3>1
    <3>2. CASE q # p
      <4> DEFINE l == loc[q]  v == After(q)
      <4>1. l \in Local /\ Inodes(l, v) /\ Making(l, v) /\ LocTyped(l, v)  BY Here
      <4>2. l.at \in Inums \union {Nil} /\ l.ip \in Inums \union {Nil}  BY <4>1 DEF Local
      <4>3. l.at # x \/ l.at = Nil  BY <1>5, <3>2
      <4>4. l.ip # x \/ l.ip = Nil  BY <1>5, <3>2
      <4>5. v = "victim" => dinode'[l.at].ents = dinode[l.at].ents  BY <3>2
      <4>6. loc'[q] = l /\ After(q)' = v  BY <1>1, <3>2
      <4> HIDE DEF l, v
      <4>7. v \in {"parent", "victim", "unlockdir"} => dinode'[l.at].type = "dir"
        <5>1. v \in {"parent", "victim", "unlockdir"} => l.at # Nil  BY <4>1 DEF Inodes
        <5>2. v \in {"parent", "victim", "unlockdir"} => dinode[l.at].type = "dir"
          BY <4>1 DEF LocTyped
        <5> QED  BY <1>4, <4>2, <4>3, <5>1, <5>2
      <4>8. v # "exists" /\ l.ip # Nil => dinode'[l.ip].type # "free" /\ dinode'[l.ip].type = dinode[l.ip].type
        <5>1. v # "exists" /\ l.ip # Nil => dinode[l.ip].type # "free"  BY <4>1 DEF LocTyped
        <5> QED  BY <1>4, <4>2, <4>4, <5>1
      <4>9. l.call = "link" /\ l.ip # Nil => dinode'[l.ip].type # "dir"
        <5>1. v = "exists" => l.call # "link"  BY <4>1 DEF Making, Makes
        <5>2. l.call = "link" /\ l.ip # Nil => dinode[l.ip].type # "dir"  BY <4>1 DEF LocTyped
        <5> QED  BY <4>8, <5>1, <5>2
      <4>10. v = "victim" => dinode'[l.at].ents[Head(l.path)] = l.ip  BY <4>1, <4>5 DEF LocTyped
      <4> QED  BY <4>6, <4>7, <4>8, <4>9, <4>10 DEF LocTyped
    <3> QED  BY <3>1, <3>2
  <2> QED  BY <2>1, <2>2, <2>3
<1> QED  BY <1>6, <1>7

-----------------------------------------------------------------------------
(* Name n of directory dp comes to stand for y.                             *)
WithIno(d, r) == [dinode EXCEPT ![d] = r]
LEMMA EntrySet ==
    ASSUME IInv, NEW dp \in Inums, dinode[dp].type = "dir", NEW n \in Names, n \notin {".", ".."},
           NEW y \in Inums \union {Nil}, NEW z \in Int,
           NEW r, r = SetEnt(dinode[dp], n, y, z),
           dinode' = WithIno(dp, r), bitmap' = bitmap
    PROVE  /\ dinode' \in [Inums -> Ino] /\ bitmap' \in SUBSET Blocks /\ BlocksInv' /\ EntInv' /\ RootInv'
           /\ \A i \in Inums : dinode'[i].type = dinode[i].type /\ dinode'[i].ents[".."] = dinode[i].ents[".."]
           /\ \A i \in Inums : dinode'[i].nlink = IF i = dp THEN z ELSE dinode[i].nlink
           /\ \A i \in Inums : i # dp => dinode'[i] = dinode[i]
           /\ \A d, c \in Inums, k \in Names :
                 Child(d, k, c)' <=> IF d = dp /\ k = n THEN c = y ELSE Child(d, k, c)
<1>1. dinode \in [Inums -> Ino] /\ bitmap \in SUBSET Blocks  BY DEF IInv, TypeOK, Ino
<1>2. dinode[dp] \in Ino  BY <1>1
<1>3. /\ r \in Ino /\ r.type = "dir" /\ r.nlink = z /\ r.blks = dinode[dp].blks
      /\ r.ents[n] = y /\ \A k \in Names : k # n => r.ents[k] = dinode[dp].ents[k]
  <2> DEFINE r0 == dinode[dp]
  <2>1. r0 \in Ino /\ r = SetEnt(r0, n, y, z)  BY <1>2
  <2> HIDE DEF r0
  <2>2. /\ r \in Ino /\ r.type = r0.type /\ r.nlink = z /\ r.blks = r0.blks
        /\ r.ents[n] = y /\ \A k \in Names : k # n => r.ents[k] = r0.ents[k]
    BY <2>1, RowEnt
  <2> QED  BY <2>2 DEF r0
<1>4. dinode' \in [Inums -> Ino] /\ dinode'[dp] = r /\ \A i \in Inums : i # dp => dinode'[i] = dinode[i]
  BY <1>1, <1>3 DEF WithIno
<1>5. \A i \in Inums : dinode'[i].type = dinode[i].type  BY <1>3, <1>4
<1>6. \A i \in Inums : dinode'[i].ents[".."] = dinode[i].ents[".."] /\ dinode'[i].ents["."] = dinode[i].ents["."]
  BY <1>3, <1>4, Constants
<1>7. \A i \in Inums : dinode'[i].nlink = IF i = dp THEN z ELSE dinode[i].nlink  BY <1>3, <1>4
<1>8. BlocksInv'
  <2>1. \A i \in Inums : dinode'[i].blks = dinode[i].blks  BY <1>3, <1>4
  <2> QED  BY <2>1 DEF IInv, CountInv, BlocksInv
<1>9. EntInv'
  <2> SUFFICES ASSUME NEW i \in Inums
               PROVE  /\ dinode'[i].type = "free" => dinode'[i] = FreeIno
                      /\ dinode'[i].type # "dir" => dinode'[i].ents = NoEnts
                      /\ dinode'[i].type = "dir" => dinode'[i].ents["."] = i /\ dinode'[i].ents[".."] # Nil
    BY DEF EntInv, FreeIno, NoEnts
  <2>1. /\ dinode[i].type = "free" => dinode[i] = FreeIno
        /\ dinode[i].type # "dir" => dinode[i].ents = NoEnts
        /\ dinode[i].type = "dir" => dinode[i].ents["."] = i /\ dinode[i].ents[".."] # Nil
    BY DEF IInv, DiskInv, EntInv
  <2>2. CASE i = dp  BY <1>3, <1>4, <1>6, <2>1, <2>2
  <2>3. CASE i # dp  BY <1>4, <2>1, <2>3
  <2> QED  BY <2>2, <2>3
<1>10. RootInv'  BY <1>5, <1>6, Constants DEF IInv, DiskInv, RootInv, Root
<1>11. ASSUME NEW d \in Inums, NEW c \in Inums, NEW k \in Names
       PROVE  Child(d, k, c)' <=> IF d = dp /\ k = n THEN c = y ELSE Child(d, k, c)
  <2>1. c # Nil  BY Constants
  <2>2. CASE d = dp /\ k = n  BY <1>3, <1>4, <2>1, <2>2 DEF Child
  <2>3. CASE d = dp /\ k # n  BY <1>3, <1>4, <2>3 DEF Child
  <2>4. CASE d # dp  BY <1>4, <2>4 DEF Child
  <2> QED  BY <2>2, <2>3, <2>4
<1> QED  BY <1>1, <1>4, <1>5, <1>6, <1>7, <1>8, <1>9, <1>10, <1>11

(* What another call found in a directory stays, for it has that locked.    *)
LEMMA VictimOther ==
    ASSUME IInv, NEW p \in Procs, NEW q \in Procs, q # p, After(q) = "victim",
           NEW d \in Inums, lock[d] \in {NoProc, p}
    PROVE  loc[q].at # d
<1>1. Held(q) = loc[q].at  BY DEF Held, HeldAt
<1>2. lock[d] = q <=> Held(q) = d  BY Here
<1> QED  BY <1>1, <1>2, Constants

LEMMA LinkTree ==
    ASSUME \A i \in Inums : dinode'[i].type # "free" =>
              /\ dinode'[i].nlink \in Int
              /\ \E a \in Int, b \in Int, c \in Int :
                    /\ NameN(i)' <= a /\ UpN(i)' <= b /\ OweN(i)' <= c
                    /\ dinode'[i].nlink >= a + b + c + One(i, Root)
    PROVE  LinkInv'
<1> SUFFICES ASSUME NEW i \in Inums, dinode'[i].type # "free"
             PROVE  dinode'[i].nlink >= NameN(i)' + UpN(i)' + OweN(i)' + One(i, Root)
  BY DEF LinkInv, One, Root
<1>1. PICK a \in Int, b \in Int, c \in Int :
         /\ NameN(i)' <= a /\ UpN(i)' <= b /\ OweN(i)' <= c
         /\ dinode'[i].nlink >= a + b + c + One(i, Root)
  OBVIOUS
<1>2. NameN(i)' \in Nat /\ UpN(i)' \in Nat  BY LinkNumbers
<1>3. OweN(i)' \in Nat
  <2> DEFINE B == {q \in Procs : Owes(loc[q], After(q), i)'}
  <2>1. B \in SUBSET Procs /\ OweN(i)' = Cardinality(B)  BY DEF OweN, OweSet
  <2> HIDE DEF B
  <2> QED  BY <2>1, Finite, CardNat
<1>4. dinode'[i].nlink \in Int /\ One(i, Root) \in Int  BY DEF One
<1> QED  BY <1>1, <1>2, <1>3, <1>4

-----------------------------------------------------------------------------
(* link makes the name.                                                     *)
LEMMA KeepsLinkNew ==
    ASSUME IInv, NEW p \in Procs, LinkNew(p), Dirlookup(loc[p].at, Head(loc[p].path)) = Nil
    PROVE  IInv'
<1> DEFINE l == loc[p]
           dp == l.at
           ip == l.ip
           n == Head(l.path)
           s == <<dp, ip>>
           m == WithPuts(NoLoc, s, "user")
           r == SetEnt(dinode[dp], n, ip, dinode[dp].nlink)
<1>1. /\ Locks(p, "parent") /\ UNCHANGED fds /\ bitmap' = bitmap /\ lock' = lock /\ l.call = "link"
      /\ dinode' = [dinode EXCEPT ![dp].ents[n] = ip] /\ icache' = Ilock(icache, dp) /\ Return(p, s)
  BY DEF LinkNew
<1>2. /\ pc[p] = "parent" /\ After(p) = "parent" /\ l \in Local
      /\ Inodes(l, "parent") /\ Args(l, "parent") /\ Making(l, "parent") /\ LocTyped(l, "parent")
      /\ dp \in Inums /\ lock[dp] = NoProc /\ dinode[dp].type # "free" /\ Held(p) = Nil
      /\ \A i : Own(loc[p], i) = One(dp, i) + One(ip, i)
  BY <1>1, WaitsAt
<1>3. ip # Nil /\ ip \in Inums  BY <1>1, <1>2 DEF Making, Parent, Local
<1>4. n \in Names  BY <1>2 DEF Args, Local
<1>5. dinode[dp].type = "dir" /\ dinode[ip].type \notin {"free", "dir"}
  BY <1>1, <1>2, <1>3 DEF LocTyped
<1>6. dinode[dp].ents[n] = Nil  BY DEF Dirlookup
<1>7. n \notin {".", ".."}
  <2>1. dinode[dp].ents["."] = dp /\ dinode[dp].ents[".."] # Nil
    BY <1>2, <1>5 DEF IInv, DiskInv, EntInv
  <2> QED  BY <1>2, <1>6, <2>1, Constants
<1>8. s \in Seq(Inums) /\ s # <<>> /\ Len(s) <= 2  BY <1>2, <1>3
<1>9. s = <<dp, ip>>  OBVIOUS
<1> HIDE DEF s
<1>10. /\ MoveOK(p, "put", m) /\ Then("put", m) = "user"
       /\ m.at = Nil /\ m.ip = Nil /\ m.puts = s /\ m.call = "none"
       /\ HeldAt(m, "user") = Nil /\ LocTyped(m, "user") /\ \A i \in Inums : OweAt(m, "user", i) = 0
  BY <1>1, <1>8, ReturnMoves
<1> HIDE DEF m
<1>11. dinode \in [Inums -> Ino] /\ dinode[dp] \in Ino /\ dinode[dp].nlink \in Int
  BY <1>2 DEF IInv, TypeOK, Ino
<1>12. dinode' = WithIno(dp, r)
  <2> DEFINE e == [dinode[dp].ents EXCEPT ![n] = ip]
             r1 == [dinode[dp] EXCEPT !.ents = e]
  <2>1. dinode' = [dinode EXCEPT ![dp] = r1]  BY <1>1
  <2>2. r1 = r
    <3> HIDE DEF e
    <3>1. r1 = [dinode[dp] EXCEPT !.ents = e, !.nlink = dinode[dp].nlink]  BY <1>11 DEF Ino
    <3> QED  BY <3>1 DEF e, SetEnt
  <2> QED  BY <2>1, <2>2 DEF WithIno
<1> DEFINE z == dinode[dp].nlink
<1>13. /\ dinode' \in [Inums -> Ino] /\ bitmap' \in SUBSET Blocks /\ BlocksInv' /\ EntInv' /\ RootInv'
       /\ \A i \in Inums : dinode'[i].type = dinode[i].type /\ dinode'[i].ents[".."] = dinode[i].ents[".."]
       /\ \A i \in Inums : dinode'[i].nlink = IF i = dp THEN z ELSE dinode[i].nlink
       /\ \A i \in Inums : i # dp => dinode'[i] = dinode[i]
       /\ \A d, c \in Inums, k \in Names :
             Child(d, k, c)' <=> IF d = dp /\ k = n THEN c = ip ELSE Child(d, k, c)
  <2>1. z \in Int /\ r = SetEnt(dinode[dp], n, ip, z)  BY <1>11
  <2>2. dp \in Inums /\ dinode[dp].type = "dir" /\ n \in Names /\ n \notin {".", ".."} /\ ip \in Inums \union {Nil}
        /\ dinode' = WithIno(dp, r) /\ bitmap' = bitmap
    BY <1>1, <1>2, <1>3, <1>4, <1>5, <1>7, <1>12
  <2> HIDE DEF z, r, ip, n, dp, l
  <2>3. n \in Names /\ dp \in Inums /\ z \in Int  BY <2>1, <2>2
  <2> QED  BY <2>1, <2>2, <2>3, EntrySet
<1> HIDE DEF r
<1>14. \A d, c \in Inums, k \in Names : Child(d, k, c)' <=> Child(d, k, c) \/ (d = dp /\ k = n /\ c = ip)
  <2>1. \A c \in Inums : ~Child(dp, n, c)  BY <1>6, Constants DEF Child
  <2> QED  BY <1>13, <2>1
<1>15. TreeInv'
  <2> SUFFICES ASSUME NEW d \in Inums, NEW k \in Names, NEW c \in Inums, Child(d, k, c)'
               PROVE  NamedWell(d, k, c)'
    BY DEF TreeInv
  <2>1. dinode[d].type = "dir"  BY <1>13 DEF Child
  <2>2. CASE Child(d, k, c)
    <3>1. NamedWell(d, k, c)  BY <2>2 DEF IInv, DiskInv, TreeInv
    <3>2. dinode'[c].type # "free" /\ c # Root  BY <1>13, <3>1 DEF NamedWell
    <3>3. ASSUME dinode'[c].type = "dir"
          PROVE  /\ dinode'[c].ents[".."] = d
                 /\ \A e \in Inums, j \in Names : Child(e, j, c)' => e = d /\ j = k
      <4>1. dinode[c].type = "dir"  BY <1>13, <3>3
      <4>2. c # ip  BY <1>5, <4>1
      <4> QED  BY <1>13, <1>14, <3>1, <4>1, <4>2 DEF NamedWell
    <3>4. \A j \in Names : ~Child(c, j, d)'
      <4>1. d # ip  BY <1>5, <2>1
      <4> QED  BY <1>14, <3>1, <4>1 DEF NamedWell
    <3> QED  BY <3>2, <3>3, <3>4 DEF NamedWell, Root
  <2>3. CASE d = dp /\ k = n /\ c = ip
    <3>1. dinode'[c].type \notin {"free", "dir"}  BY <1>3, <1>5, <1>13, <2>3
    <3>2. c # Root
      <4>1. dinode[Root].type = "dir"  BY DEF IInv, DiskInv, RootInv
      <4> QED  BY <1>5, <2>3, <4>1
    <3>3. \A j \in Names : ~Child(c, j, d)'  BY <3>1 DEF Child
    <3> QED  BY <3>1, <3>2, <3>3 DEF NamedWell, Root
  <2> QED  BY <1>14, <2>2, <2>3
<1>16. LockOK(p, HeldAt(m, Then("put", m)))  BY <1>1, <1>2, <1>10, LockSame
<1>17. LinkInv'
  <2> SUFFICES ASSUME NEW i \in Inums, dinode'[i].type # "free"
               PROVE  /\ dinode'[i].nlink \in Int
                      /\ \E a \in Int, b \in Int, c \in Int :
                            /\ NameN(i)' <= a /\ UpN(i)' <= b /\ OweN(i)' <= c
                            /\ dinode'[i].nlink >= a + b + c + One(i, Root)
    BY LinkTree
  <2>1. dinode'[i].nlink = dinode[i].nlink /\ dinode[i].nlink \in Int /\ dinode[i].type # "free"
    BY <1>11, <1>13 DEF Ino
  <2>2. dinode[i].nlink >= NameN(i) + UpN(i) + OweN(i) + One(i, Root)  BY <2>1 DEF IInv, LinkInv
  <2>3. NameN(i) \in Nat /\ UpN(i) \in Nat  BY LinkNumbers
  <2>4. NameN(i)' <= NameN(i) + One(ip, i)
    <3>1. CASE i = ip
      <4>1. NameN(i)' <= NameN(i) + 1  BY <1>2, <1>4, <1>14, NamesGrow
      <4> QED  BY <3>1, <4>1 DEF One
    <3>2. CASE i # ip
      <4>1. \A d \in Inums, k \in Names : Child(d, k, i)' => Child(d, k, i)  BY <1>14, <3>2
      <4>2. NameN(i)' <= NameN(i)  BY <4>1, NamesShrink
      <4> QED  BY <2>3, <3>2, <4>2 DEF One
    <3> QED  BY <3>1, <3>2
  <2>5. UpN(i)' <= UpN(i)
    <3>1. UpOf(i)' \subseteq UpOf(i)
      <4> SUFFICES ASSUME NEW d \in Inums, dinode'[d].type = "dir", dinode'[d].ents[".."] = i,
                          \E e \in Inums, k \in Names : Child(e, k, d)'
                   PROVE  d \in UpOf(i)
        BY DEF UpOf
      <4>1. dinode[d].type = "dir" /\ dinode[d].ents[".."] = i  BY <1>13
      <4>2. d # ip  BY <1>5, <4>1
      <4> QED  BY <1>14, <4>1, <4>2 DEF UpOf
    <3> QED  BY <3>1, UpsShrink
  <2>6. OweN(i) \in Nat /\ OweN(i)' = OweN(i) + OweAt(m, Then("put", m), i) - OweAt(loc[p], After(p), i)
    BY <1>10, <1>16, OweKept DEF IInv
  <2>7. OweAt(m, Then("put", m), i) = 0  BY <1>10
  <2>8. OweAt(loc[p], After(p), i) = One(ip, i)  BY <1>1 DEF OweAt, Owes, One
  <2>9. One(ip, i) \in Int /\ One(i, Root) \in Int  BY Ones
  <2> DEFINE a == NameN(i) + One(ip, i)  b == UpN(i)  c == OweN(i) - One(ip, i)
  <2>10. a \in Int /\ b \in Int /\ c \in Int /\ dinode[i].nlink >= a + b + c + One(i, Root)
    BY <2>1, <2>2, <2>3, <2>6, <2>9
  <2>11. NameN(i)' <= a /\ UpN(i)' <= b /\ OweN(i)' <= c  BY <2>4, <2>5, <2>6, <2>7, <2>8, <2>9
  <2> HIDE DEF a, b, c
  <2> QED  BY <2>1, <2>10, <2>11
<1>18. CacheOK /\ \A i \in Inums : icache'[i].ref = icache[i].ref  BY <1>1, <1>2, CacheLock
<1>19. ValidInv'  BY <1>13, <1>18 DEF IInv, ValidInv, CacheOK
<1>20. Typed' /\ FilesInv'
  <2>1. \A q \in Procs : q # p /\ After(q) = "victim" => dinode'[loc[q].at].ents = dinode[loc[q].at].ents
    <3> TAKE q \in Procs
    <3> HAVE q # p /\ After(q) = "victim"
    <3>1. loc[q].at # dp  BY <1>2, VictimOther
    <3>2. loc[q].at \in Inums
      <4>1. loc[q] \in Local /\ Inodes(loc[q], "victim")  BY Here
      <4> QED  BY <4>1 DEF Local, Inodes
    <3> QED  BY <1>13, <3>1, <3>2
  <2>2. LocTyped(loc[p], After(p))'
    <3>1. loc'[p] = m /\ After(p)' = "user"  BY <1>10, <1>16, LocalKept DEF IInv
    <3> QED  BY <1>10, <3>1 DEF LocTyped
  <2>3. \A i \in Inums : i # Nil /\ dinode[i].type # "free" => dinode'[i].type = dinode[i].type
    BY <1>13
  <2>4. Nil \in Inums \union {Nil} /\ "put" # "write"  OBVIOUS
  <2> QED  BY <1>1, <1>10, <1>16, <2>1, <2>2, <2>3, <2>4, TypedTree
<1>21. \A i \in Inums : icache'[i].ref = icache[i].ref + Own(m, i) - Own(loc[p], i)
  <2> TAKE i \in Inums
  <2>1. Own(m, i) = One(Nil, i) + One(Nil, i) + One(dp, i) + One(ip, i)  BY <1>9, <1>10, OwnTwo
  <2>2. Own(loc[p], i) = One(dp, i) + One(ip, i)  BY <1>2
  <2>3. One(Nil, i) = 0 /\ One(dp, i) \in Int /\ One(ip, i) \in Int /\ icache[i].ref \in Int
    BY Ones
  <2> QED  BY <1>18, <2>1, <2>2, <2>3
<1>22. icache' \in [Inums -> [ref : Nat, valid : BOOLEAN]] /\ DiskInv'
  BY <1>13, <1>15, <1>18 DEF CacheOK, DiskInv
<1> QED  BY <1>1, <1>10, <1>13, <1>16, <1>17, <1>19, <1>20, <1>21, <1>22, TreeStep

-----------------------------------------------------------------------------
(* unlink takes the name out.                                               *)
LEMMA KeepsVictimGone ==
    ASSUME IInv, NEW p \in Procs, Victim(p), dinode[loc[p].ip].nlink >= 1,
           ~(dinode[loc[p].ip].type = "dir" /\ ~IsDirEmpty(loc[p].ip))
    PROVE  IInv'
<1> DEFINE l == loc[p]
           dp == l.at
           ip == l.ip
           isdir == dinode[ip].type = "dir"
           n == Head(l.path)
           s == <<dp>>
           k == [l EXCEPT !.at = Nil]
           m == WithPuts(k, s, "unlinked")
           z == IF isdir THEN dinode[dp].nlink - 1 ELSE dinode[dp].nlink
           r == SetEnt(dinode[dp], n, Nil, z)
<1>1. /\ Locks(p, "victim") /\ At(p, "victim") /\ UNCHANGED fds /\ bitmap' = bitmap
  BY DEF Victim, Locks
<1>2. /\ dp \in Inums /\ ip \in Inums /\ ip # dp /\ l.call = "unlink"
      /\ lock[ip] = NoProc /\ n \in Names
      /\ Child(dp, n, ip) /\ NamedWell(dp, n, ip) /\ dinode[ip].type # "free"
  BY <1>1, VictimAt
<1>3. /\ pc[p] = "victim" /\ After(p) = "victim" /\ l \in Local /\ Held(p) = dp /\ lock[dp] = p
      /\ Inodes(l, "victim") /\ Args(l, "victim") /\ Making(l, "victim") /\ LocTyped(l, "victim")
      /\ l.f = Nil /\ \A i : Own(loc[p], i) = One(dp, i) + One(ip, i)
  BY <1>1, HoldsAt
<1>4. dinode \in [Inums -> Ino] /\ dinode[dp] \in Ino /\ dinode[dp].nlink \in Int /\ dinode[ip].nlink \in Int
  BY <1>2 DEF IInv, TypeOK, Ino
<1>5. ~(dinode[ip].nlink < 1)  BY <1>4
<1>6. /\ icache' = Ilock(icache, ip) /\ Puts(p, s, "unlinked", k)
      /\ lock' = [lock EXCEPT ![dp] = NoProc, ![ip] = p]
      /\ dinode' = [dinode EXCEPT ![dp].ents[n] = Nil, ![dp].nlink = IF isdir THEN @ - 1 ELSE @]
  BY <1>5 DEF Victim
<1>7. s \in Seq(Inums) /\ s # <<>> /\ Len(s) <= 2  BY <1>2
<1>8. s = <<dp>>  OBVIOUS
<1> HIDE DEF s
<1>9. k \in Local /\ k.call = "unlink" /\ k.new = l.new /\ k.at = Nil /\ k.ip = ip /\ k.f = Nil
  BY <1>2, <1>3 DEF Local
<1> HIDE DEF k
<1>10. Inodes(k, "unlinked") /\ Args(k, "unlinked") /\ Making(k, "unlinked")
  <2>1. Inodes(k, "unlinked")  BY <1>2, <1>9, Constants DEF Inodes
  <2>2. Args(k, "unlinked")  BY <1>9 DEF Args
  <2>3. Making(k, "unlinked")  BY <1>9 DEF Making
  <2> QED  BY <2>1, <2>2, <2>3
<1>11. /\ MoveOK(p, "put", m) /\ Then("put", m) = "unlinked"
       /\ m.call = k.call /\ m.at = k.at /\ m.ip = k.ip /\ m.puts = s
       /\ \A v : HeldAt(m, v) = HeldAt(k, v)
       /\ \A v, i : OweAt(m, v, i) = OweAt(k, v, i)
  <2>1. "unlinked" \in Places  BY DEF Places
  <2> QED  BY <1>6, <1>7, <1>9, <1>10, <2>1, PutsMoves
<1> HIDE DEF m
<1>12. dinode' = WithIno(dp, r)
  <2> DEFINE e == [dinode[dp].ents EXCEPT ![n] = Nil]
             r1 == [dinode[dp] EXCEPT !.ents = e, !.nlink = z]
  <2>1. dinode' = [dinode EXCEPT ![dp] = r1]  BY <1>2, <1>4, <1>6 DEF Ino
  <2>2. r1 = r  BY DEF SetEnt
  <2> QED  BY <2>1, <2>2 DEF WithIno
<1>13. /\ dinode' \in [Inums -> Ino] /\ bitmap' \in SUBSET Blocks /\ BlocksInv' /\ EntInv' /\ RootInv'
       /\ \A i \in Inums : dinode'[i].type = dinode[i].type /\ dinode'[i].ents[".."] = dinode[i].ents[".."]
       /\ \A i \in Inums : dinode'[i].nlink = IF i = dp THEN z ELSE dinode[i].nlink
       /\ \A i \in Inums : i # dp => dinode'[i] = dinode[i]
       /\ \A d, c \in Inums, j \in Names :
             Child(d, j, c)' <=> IF d = dp /\ j = n THEN c = Nil ELSE Child(d, j, c)
  <2>1. z \in Int /\ r = SetEnt(dinode[dp], n, Nil, z)  BY <1>4
  <2>2. dp \in Inums /\ dinode[dp].type = "dir" /\ n \in Names /\ n \notin {".", ".."} /\ Nil \in Inums \union {Nil}
        /\ dinode' = WithIno(dp, r) /\ bitmap' = bitmap
    BY <1>1, <1>2, <1>12 DEF Child
  <2> HIDE DEF z, r, ip, n, dp
  <2> QED  BY <2>1, <2>2, EntrySet
<1> HIDE DEF r
<1>14. \A d, c \in Inums, j \in Names : Child(d, j, c)' <=> Child(d, j, c) /\ ~(d = dp /\ j = n)
  BY <1>13, Constants
<1>15. TreeInv'
  <2> SUFFICES ASSUME NEW d \in Inums, NEW j \in Names, NEW c \in Inums, Child(d, j, c)'
               PROVE  NamedWell(d, j, c)'
    BY DEF TreeInv
  <2>1. Child(d, j, c)  BY <1>14
  <2>2. NamedWell(d, j, c)  BY <2>1 DEF IInv, DiskInv, TreeInv
  <2>3. dinode'[c].type # "free" /\ c # Root  BY <1>13, <2>2 DEF NamedWell
  <2>4. ASSUME dinode'[c].type = "dir"
        PROVE  /\ dinode'[c].ents[".."] = d
               /\ \A e \in Inums, i \in Names : Child(e, i, c)' => e = d /\ i = j
    <3>1. dinode[c].type = "dir"  BY <1>13, <2>4
    <3> QED  BY <1>13, <1>14, <2>2, <3>1 DEF NamedWell
  <2>5. \A i \in Names : ~Child(c, i, d)'  BY <1>14, <2>2 DEF NamedWell
  <2> QED  BY <2>3, <2>4, <2>5 DEF NamedWell, Root
<1>16. HeldAt(m, Then("put", m)) = ip  BY <1>9, <1>11 DEF HeldAt
<1>17. LockOK(p, HeldAt(m, Then("put", m)))
  <2>1. lock \in [Inums -> Procs \union {NoProc}]  BY DEF IInv, TypeOK
  <2>2. LockOK(p, ip)  BY <1>2, <1>3, <1>6, <2>1 DEF LockOK
  <2> QED  BY <1>16, <2>2
<1>18. LinkInv'
  <2> SUFFICES ASSUME NEW i \in Inums, dinode'[i].type # "free"
               PROVE  /\ dinode'[i].nlink \in Int
                      /\ \E a \in Int, b \in Int, c \in Int :
                            /\ NameN(i)' <= a /\ UpN(i)' <= b /\ OweN(i)' <= c
                            /\ dinode'[i].nlink >= a + b + c + One(i, Root)
    BY LinkTree
  <2>1. /\ dinode'[i].nlink = (IF i = dp THEN z ELSE dinode[i].nlink) /\ dinode'[i].nlink \in Int
        /\ dinode[i].nlink \in Int /\ dinode[i].type # "free"
    BY <1>4, <1>13 DEF Ino
  <2>2. dinode[i].nlink >= NameN(i) + UpN(i) + OweN(i) + One(i, Root)  BY <2>1 DEF IInv, LinkInv
  <2>3. NameN(i) \in Nat /\ UpN(i) \in Nat  BY LinkNumbers
  <2>4. NameN(i)' <= NameN(i) - One(ip, i)
    <3>1. \A d \in Inums, j \in Names : Child(d, j, i)' => Child(d, j, i)  BY <1>14
    <3>2. /\ NameN(i)' <= NameN(i)
          /\ \A d \in Inums, j \in Names : Child(d, j, i) /\ ~Child(d, j, i)' => NameN(i)' <= NameN(i) - 1
      BY <3>1, NamesShrink
    <3>3. CASE i = ip
      <4>1. PICK d \in Inums, j \in Names : d = dp /\ j = n  BY <1>2
      <4>2. Child(d, j, i) /\ ~Child(d, j, i)'  BY <1>2, <1>14, <3>3, <4>1
      <4>3. NameN(i)' <= NameN(i) - 1  BY <3>2, <4>2
      <4> QED  BY <3>3, <4>3 DEF One
    <3>4. CASE i # ip
      <4>1. One(ip, i) = 0  BY <3>4 DEF One
      <4> QED  BY <2>3, <3>2, <4>1
    <3> QED  BY <3>3, <3>4
  <2> DEFINE u == IF i = dp /\ isdir THEN 1 ELSE 0
  <2>5. UpN(i)' <= UpN(i) - u
    <3>1. UpOf(i)' \subseteq UpOf(i)
      <4> SUFFICES ASSUME NEW d \in Inums, dinode'[d].type = "dir", dinode'[d].ents[".."] = i,
                          \E e \in Inums, j \in Names : Child(e, j, d)'
                   PROVE  d \in UpOf(i)
        BY DEF UpOf
      <4>1. dinode[d].type = "dir" /\ dinode[d].ents[".."] = i  BY <1>13
      <4> QED  BY <1>14, <4>1 DEF UpOf
    <3>2. UpN(i)' <= UpN(i) /\ \A x : x \in UpOf(i) /\ x \notin UpOf(i)' => UpN(i)' <= UpN(i) - 1
      BY <3>1, UpsShrink
    <3>3. CASE i = dp /\ isdir
      <4>1. dinode[ip].ents[".."] = dp /\ \A e \in Inums, j \in Names : Child(e, j, ip) => e = dp /\ j = n
        BY <1>2, <3>3 DEF NamedWell
      <4>2. ip \in UpOf(i)  BY <1>2, <3>3, <4>1 DEF UpOf
      <4>3. ip \notin UpOf(i)'
        <5>1. \A c \in Inums : c = ip => \A e \in Inums, j \in Names : ~Child(e, j, c)'
          BY <1>2, <1>14, <4>1
        <5> QED  BY <1>2, <5>1 DEF UpOf
      <4>4. UpN(i)' <= UpN(i) - 1  BY <3>2, <4>2, <4>3
      <4> QED  BY <3>3, <4>4
    <3>4. CASE ~(i = dp /\ isdir)
      <4>1. u = 0  BY <3>4
      <4> HIDE DEF u
      <4> QED  BY <2>3, <3>2, <4>1
    <3> QED  BY <3>3, <3>4
  <2>6. OweN(i) \in Nat /\ OweN(i)' = OweN(i) + OweAt(m, Then("put", m), i) - OweAt(loc[p], After(p), i)
    BY <1>11, <1>17, OweKept DEF IInv
  <2>7. OweAt(m, Then("put", m), i) = One(ip, i)  BY <1>9, <1>11 DEF OweAt, Owes, One
  <2>8. OweAt(loc[p], After(p), i) = 0  BY <1>2, <1>3 DEF OweAt, Owes
  <2>9. One(ip, i) \in Int /\ One(i, Root) \in Int  BY Ones
  <2>10. dinode'[i].nlink = dinode[i].nlink - u
    <3>1. CASE i = dp  BY <2>1, <3>1
    <3>2. CASE i # dp  BY <2>1, <3>2
    <3> QED  BY <3>1, <3>2
  <2>11. u \in Int  OBVIOUS
  <2> HIDE DEF u
  <2> DEFINE a == NameN(i) - One(ip, i)  b == UpN(i) - u  c == OweN(i) + One(ip, i)
  <2>12. a \in Int /\ b \in Int /\ c \in Int /\ dinode'[i].nlink >= a + b + c + One(i, Root)
    BY <2>1, <2>2, <2>3, <2>6, <2>9, <2>10, <2>11
  <2>13. NameN(i)' <= a /\ UpN(i)' <= b /\ OweN(i)' <= c  BY <2>4, <2>5, <2>6, <2>7, <2>8, <2>9
  <2> HIDE DEF a, b, c
  <2> QED  BY <2>1, <2>12, <2>13
<1>19. CacheOK /\ \A i \in Inums : icache'[i].ref = icache[i].ref  BY <1>2, <1>6, CacheLock
<1>20. ValidInv'  BY <1>13, <1>19 DEF IInv, ValidInv, CacheOK
<1>21. Typed' /\ FilesInv'
  <2>1. \A q \in Procs : q # p /\ After(q) = "victim" => dinode'[loc[q].at].ents = dinode[loc[q].at].ents
    <3> TAKE q \in Procs
    <3> HAVE q # p /\ After(q) = "victim"
    <3>1. loc[q].at # dp  BY <1>2, <1>3, VictimOther
    <3>2. loc[q].at \in Inums
      <4>1. loc[q] \in Local /\ Inodes(loc[q], "victim")  BY Here
      <4> QED  BY <4>1 DEF Local, Inodes
    <3> QED  BY <1>13, <3>1, <3>2
  <2>2. LocTyped(loc[p], After(p))'
    <3>1. loc'[p] = m /\ After(p)' = "unlinked"  BY <1>11, <1>17, LocalKept DEF IInv
    <3> QED  BY <1>2, <1>9, <1>11, <1>13, <3>1 DEF LocTyped
  <2>3. \A i \in Inums : i # Nil /\ dinode[i].type # "free" => dinode'[i].type = dinode[i].type
    BY <1>13
  <2>4. Nil \in Inums \union {Nil} /\ "put" # "write"  OBVIOUS
  <2> QED  BY <1>1, <1>11, <1>17, <2>1, <2>2, <2>3, <2>4, TypedTree
<1>22. \A i \in Inums : icache'[i].ref = icache[i].ref + Own(m, i) - Own(loc[p], i)
  <2> TAKE i \in Inums
  <2>1. Own(m, i) = One(Nil, i) + One(ip, i) + One(dp, i)  BY <1>8, <1>9, <1>11, OwnOne
  <2>2. Own(loc[p], i) = One(dp, i) + One(ip, i)  BY <1>3
  <2>3. One(Nil, i) = 0 /\ One(dp, i) \in Int /\ One(ip, i) \in Int /\ icache[i].ref \in Int
    BY Ones
  <2> QED  BY <1>19, <2>1, <2>2, <2>3
<1>23. icache' \in [Inums -> [ref : Nat, valid : BOOLEAN]] /\ DiskInv'
  BY <1>13, <1>15, <1>19 DEF CacheOK, DiskInv
<1> QED  BY <1>1, <1>11, <1>13, <1>17, <1>18, <1>20, <1>21, <1>22, <1>23, TreeStep

-----------------------------------------------------------------------------
(* The only reference to an inode is the one a call is putting.             *)
LEMMA Sole ==
    ASSUME IInv, NEW p \in Procs, NEW i \in Inums, Putting(p, 1, i), icache[i].ref = 1
    PROVE  /\ \A q \in Procs : cwd[q] # i /\ loc[q].at # i /\ loc[q].ip # i
           /\ \A f \in Files : file[f].ref > 0 => file[f].ip # i
<1>1. IsFiniteSet(Procs) /\ IsFiniteSet(Files)  BY Finite
<1>2. PutN(1, i) >= 1
  <2> DEFINE A == {q \in Procs : Putting(q, 1, i)}
  <2>1. A \in SUBSET Procs /\ PutN(1, i) = Cardinality(A) /\ p \in A  BY DEF PutN
  <2> HIDE DEF A
  <2> QED  BY <1>1, <2>1, CardSome
<1>3. icache[i].ref = Refs(i)  BY DEF IInv, CountInv, RefsInv
<1>4. /\ CwdN(i) \in Nat /\ FileN(i) \in Nat /\ AtN(i) \in Nat /\ IpN(i) \in Nat
      /\ PutN(1, i) \in Nat /\ PutN(2, i) \in Nat
      /\ Refs(i) = CwdN(i) + FileN(i) + AtN(i) + IpN(i) + PutN(1, i) + PutN(2, i)
  BY RefParts
<1>5. CwdN(i) = 0 /\ FileN(i) = 0 /\ AtN(i) = 0 /\ IpN(i) = 0  BY <1>2, <1>3, <1>4
<1>6. {q \in Procs : cwd[q] = i} = {}
  <2> DEFINE A == {q \in Procs : cwd[q] = i}
  <2>1. A \in SUBSET Procs /\ Cardinality(A) = 0  BY <1>5 DEF CwdN
  <2> HIDE DEF A
  <2>2. A = {}  BY <1>1, <2>1, CardNone
  <2> QED  BY <2>2 DEF A
<1>7. {q \in Procs : loc[q].at = i} = {}
  <2> DEFINE A == {q \in Procs : loc[q].at = i}
  <2>1. A \in SUBSET Procs /\ Cardinality(A) = 0  BY <1>5 DEF AtN
  <2> HIDE DEF A
  <2>2. A = {}  BY <1>1, <2>1, CardNone
  <2> QED  BY <2>2 DEF A
<1>8. {q \in Procs : loc[q].ip = i} = {}
  <2> DEFINE A == {q \in Procs : loc[q].ip = i}
  <2>1. A \in SUBSET Procs /\ Cardinality(A) = 0  BY <1>5 DEF IpN
  <2> HIDE DEF A
  <2>2. A = {}  BY <1>1, <2>1, CardNone
  <2> QED  BY <2>2 DEF A
<1>9. {f \in Files : file[f].ref > 0 /\ file[f].ip = i} = {}
  <2> DEFINE A == {f \in Files : file[f].ref > 0 /\ file[f].ip = i}
  <2>1. A \in SUBSET Files /\ Cardinality(A) = 0  BY <1>5 DEF FileN
  <2> HIDE DEF A
  <2>2. A = {}  BY <1>1, <2>1, CardNone
  <2> QED  BY <2>2 DEF A
<1> QED  BY <1>6, <1>7, <1>8, <1>9

(* Nothing links to an inode without links.                                 *)
LEMMA NoLinks ==
    ASSUME IInv, NEW i \in Inums, dinode[i].type # "free", dinode[i].nlink < 1
    PROVE  /\ i # Root
           /\ \A d \in Inums, n \in Names : ~Child(d, n, i)
           /\ \A d \in Inums, e \in Inums, n \in Names :
                 dinode[d].type = "dir" /\ dinode[d].ents[".."] = i => ~Child(e, n, d)
<1>1. dinode[i].nlink >= NameN(i) + UpN(i) + OweN(i) + One(i, Root) /\ dinode[i].nlink \in Int
  BY DEF IInv, LinkInv, TypeOK
<1>2. NameN(i) \in Nat /\ UpN(i) \in Nat /\ NameN(i) = Cardinality(NameOf(i)) /\ UpN(i) = Cardinality(UpOf(i))
      /\ NameOf(i) \in SUBSET (Inums \X Names) /\ UpOf(i) \in SUBSET Inums
  BY LinkNumbers
<1>3. OweN(i) \in Nat  BY LinkCards
<1>4. One(i, Root) \in {0, 1} /\ (One(i, Root) = 0 => i # Root)  BY DEF One
<1>5. NameN(i) = 0 /\ UpN(i) = 0 /\ i # Root  BY <1>1, <1>2, <1>3, <1>4
<1>6. NameOf(i) = {} /\ UpOf(i) = {}  BY <1>2, <1>5, Finite, CardNone
<1>7. \A d \in Inums, n \in Names : ~Child(d, n, i)
  <2> SUFFICES ASSUME NEW d \in Inums, NEW n \in Names, Child(d, n, i) PROVE FALSE
    OBVIOUS
  <2>1. <<d, n>> \in NameOf(i)  BY DEF NameOf
  <2> QED  BY <1>6, <2>1
<1>8. \A d \in Inums, e \in Inums, n \in Names :
         dinode[d].type = "dir" /\ dinode[d].ents[".."] = i => ~Child(e, n, d)
  BY <1>6 DEF UpOf
<1> QED  BY <1>5, <1>7, <1>8

(* iput frees the inode.                                                    *)
LEMMA KeepsFree ==
    ASSUME IInv, NEW p \in Procs, Put(p), icache[Head(loc[p].puts)].valid, dinode[Head(loc[p].puts)].nlink = 0,
           icache[Head(loc[p].puts)].ref = 1, CanTrunc(Head(loc[p].puts))
    PROVE  IInv'
<1> DEFINE l == loc[p]
           i == Head(l.puts)
<1>1. /\ pc[p] = "put" /\ UNCHANGED fds /\ lock' = lock /\ loc' = loc /\ Goes(p, "drop")
      /\ dinode' = WithIno(i, FreeIno) /\ bitmap' = bitmap \ dinode[i].blks
      /\ icache' = [icache EXCEPT ![i].valid = FALSE]
  BY DEF Put, At, Itrunc, WithIno
<1>2. /\ l \in Local /\ l.puts \in Seq(Inums) /\ l.puts # <<>> /\ i \in Inums
      /\ l.then \notin {"put", "drop", "parent", "victim", "write"}
      /\ After(p) = l.then /\ Inodes(l, l.then) /\ LocTyped(l, l.then)
  BY <1>1, PuttingAt DEF Putting2
<1>3. Putting(p, 1, i)  BY <1>2 DEF Putting
<1>4. dinode[i].type # "free"  BY <1>2 DEF IInv, ValidInv
<1> HIDE DEF i
<1>5. i \in Inums /\ icache[i].valid /\ dinode[i].nlink < 1 /\ icache[i].ref = 1  BY <1>2 DEF i
<1>6. /\ \A q \in Procs : cwd[q] # i /\ loc[q].at # i /\ loc[q].ip # i
      /\ \A f \in Files : file[f].ref > 0 => file[f].ip # i
  BY <1>3, <1>5, Sole
<1>7. /\ i # Root
      /\ \A d \in Inums, n \in Names : ~Child(d, n, i)
      /\ \A d \in Inums, e \in Inums, n \in Names :
            dinode[d].type = "dir" /\ dinode[d].ents[".."] = i => ~Child(e, n, d)
  BY <1>4, <1>5, NoLinks
<1>8. dinode \in [Inums -> Ino] /\ bitmap \in SUBSET Blocks  BY DEF IInv, TypeOK, Ino
<1>9. FreeIno \in Ino /\ FreeIno.type = "free" /\ FreeIno.blks = {} /\ FreeIno.ents = NoEnts
  <2>1. NoEnts \in [Names -> Inums \union {Nil}]  BY DEF NoEnts
  <2> HIDE DEF NoEnts
  <2> QED  BY <2>1 DEF FreeIno, Ino, Types
<1>10. dinode' \in [Inums -> Ino] /\ dinode'[i] = FreeIno /\ \A j \in Inums : j # i => dinode'[j] = dinode[j]
  <2> HIDE DEF FreeIno
  <2> QED  BY <1>1, <1>5, <1>8, <1>9 DEF WithIno
<1>11. \A d, c \in Inums, n \in Names : Child(d, n, c)' <=> Child(d, n, c) /\ d # i
  <2> TAKE d, c \in Inums, n \in Names
  <2>1. CASE d = i
    <3>1. dinode'[d].type # "dir"  BY <1>9, <1>10, <2>1
    <3> QED  BY <2>1, <3>1 DEF Child
  <2>2. CASE d # i
    <3>1. dinode'[d] = dinode[d]  BY <1>10, <2>2
    <3> QED  BY <2>2, <3>1 DEF Child
  <2> QED  BY <2>1, <2>2
<1>12. EntInv'
  <2> SUFFICES ASSUME NEW j \in Inums
               PROVE  /\ dinode'[j].type = "free" => dinode'[j] = FreeIno
                      /\ dinode'[j].type # "dir" => dinode'[j].ents = NoEnts
                      /\ dinode'[j].type = "dir" => dinode'[j].ents["."] = j /\ dinode'[j].ents[".."] # Nil
    BY DEF EntInv, FreeIno, NoEnts
  <2>1. CASE j = i  BY <1>9, <1>10, <2>1
  <2>2. CASE j # i
    <3>1. dinode'[j] = dinode[j]  BY <1>10, <2>2
    <3> QED  BY <3>1 DEF IInv, DiskInv, EntInv
  <2> QED  BY <2>1, <2>2
<1>13. RootInv'
  <2>1. dinode'[Root] = dinode[Root]  BY <1>7, <1>10, Constants
  <2> QED  BY <2>1 DEF IInv, DiskInv, RootInv, Root
<1>14. TreeInv'
  <2> SUFFICES ASSUME NEW d \in Inums, NEW n \in Names, NEW c \in Inums, Child(d, n, c)'
               PROVE  NamedWell(d, n, c)'
    BY DEF TreeInv
  <2>1. Child(d, n, c)  BY <1>11
  <2>2. NamedWell(d, n, c)  BY <2>1 DEF IInv, DiskInv, TreeInv
  <2>3. dinode'[c] = dinode[c]  BY <1>7, <1>10, <2>1
  <2>4. ASSUME dinode'[c].type = "dir"
        PROVE  /\ dinode'[c].ents[".."] = d
               /\ \A e \in Inums, j \in Names : Child(e, j, c)' => e = d /\ j = n
    BY <1>11, <2>2, <2>3, <2>4 DEF NamedWell
  <2>5. \A j \in Names : ~Child(c, j, d)'  BY <1>11, <2>2 DEF NamedWell
  <2>6. dinode'[c].type # "free" /\ c # Root  BY <2>2, <2>3 DEF NamedWell
  <2> QED  BY <2>4, <2>5, <2>6 DEF NamedWell, Root
<1>15. BlocksInv'
  <2>1. /\ bitmap = UNION {dinode[j].blks : j \in Inums}
        /\ \A j, h \in Inums : j # h => dinode[j].blks \cap dinode[h].blks = {}
    BY DEF IInv, CountInv, BlocksInv
  <2>2. dinode'[i].blks = {} /\ \A j \in Inums : j # i => dinode'[j].blks = dinode[j].blks
    BY <1>9, <1>10
  <2>3. \A j, h \in Inums : j # h => dinode'[j].blks \cap dinode'[h].blks = {}
    <3> TAKE j, h \in Inums
    <3> HAVE j # h
    <3>1. dinode[j].blks \cap dinode[h].blks = {}  BY <2>1
    <3>2. dinode'[j].blks \subseteq dinode[j].blks /\ dinode'[h].blks \subseteq dinode[h].blks
      <4>1. CASE j = i  BY <2>2, <4>1
      <4>2. CASE h = i  BY <2>2, <4>2
      <4>3. CASE j # i /\ h # i  BY <2>2, <4>3
      <4> QED  BY <4>1, <4>2, <4>3
    <3> QED  BY <3>1, <3>2
  <2>4. bitmap' = UNION {dinode'[j].blks : j \in Inums}
    <3>1. ASSUME NEW b \in bitmap' PROVE \E j \in Inums : b \in dinode'[j].blks
      <4>1. b \in bitmap /\ b \notin dinode[i].blks  BY <1>1, <3>1
      <4> PICK j \in Inums : b \in dinode[j].blks  BY <2>1, <4>1
      <4>2. j # i  BY <4>1
      <4> QED  BY <2>2, <4>2
    <3>2. ASSUME NEW j \in Inums, NEW b \in dinode'[j].blks PROVE b \in bitmap'
      <4>1. j # i /\ b \in dinode[j].blks  BY <2>2, <3>2
      <4>2. b \in bitmap  BY <2>1, <4>1
      <4>3. b \notin dinode[i].blks  BY <1>5, <2>1, <4>1
      <4> QED  BY <1>1, <4>2, <4>3
    <3> QED  BY <3>1, <3>2
  <2> QED  BY <2>3, <2>4 DEF BlocksInv
<1>16. /\ MoveOK(p, "drop", l) /\ Then("drop", l) = After(p) /\ LockOK(p, HeldAt(l, Then("drop", l)))
  BY <1>1, DropMoves
<1>17. LinkInv'
  <2> SUFFICES ASSUME NEW j \in Inums, dinode'[j].type # "free"
               PROVE  /\ dinode'[j].nlink \in Int
                      /\ \E a \in Int, b \in Int, c \in Int :
                            /\ NameN(j)' <= a /\ UpN(j)' <= b /\ OweN(j)' <= c
                            /\ dinode'[j].nlink >= a + b + c + One(j, Root)
    BY LinkTree
  <2>1. j # i /\ dinode'[j] = dinode[j]  BY <1>9, <1>10
  <2>2. dinode[j].nlink \in Int  BY <1>8 DEF Ino
  <2>3. dinode[j].nlink >= NameN(j) + UpN(j) + OweN(j) + One(j, Root)  BY <2>1 DEF IInv, LinkInv
  <2>4. NameN(j) \in Nat /\ UpN(j) \in Nat  BY LinkNumbers
  <2>5. NameN(j)' <= NameN(j)
    <3>1. \A d \in Inums, n \in Names : Child(d, n, j)' => Child(d, n, j)  BY <1>11
    <3> QED  BY <3>1, NamesShrink
  <2>6. UpN(j)' <= UpN(j)
    <3>1. UpOf(j)' \subseteq UpOf(j)
      <4> SUFFICES ASSUME NEW d \in Inums, dinode'[d].type = "dir", dinode'[d].ents[".."] = j,
                          \E e \in Inums, n \in Names : Child(e, n, d)'
                   PROVE  d \in UpOf(j)
        BY DEF UpOf
      <4>1. dinode'[d] = dinode[d]  BY <1>9, <1>10
      <4> QED  BY <1>11, <4>1 DEF UpOf
    <3> QED  BY <3>1, UpsShrink
  <2>7. OweN(j) \in Nat /\ OweN(j)' = OweN(j) + OweAt(l, Then("drop", l), j) - OweAt(loc[p], After(p), j)
    BY <1>16, OweKept DEF IInv
  <2>8. OweAt(l, Then("drop", l), j) = OweAt(loc[p], After(p), j) /\ OweAt(loc[p], After(p), j) \in Int
    BY <1>16 DEF OweAt
  <2>9. OweN(j)' <= OweN(j)  BY <2>7, <2>8
  <2>10. NameN(j) \in Int /\ UpN(j) \in Int /\ OweN(j) \in Int  BY <2>4, <2>7
  <2> QED  BY <2>1, <2>2, <2>3, <2>5, <2>6, <2>9, <2>10
<1>18. icache' \in [Inums -> [ref : Nat, valid : BOOLEAN]] /\ icache'[i].valid = FALSE
       /\ \A j \in Inums : icache'[j].ref = icache[j].ref /\ (j # i => icache'[j] = icache[j])
  <2>1. icache \in [Inums -> [ref : Nat, valid : BOOLEAN]]  BY DEF IInv, TypeOK
  <2> DEFINE r == [icache[i] EXCEPT !.valid = FALSE]
  <2>2. icache' = [icache EXCEPT ![i] = r]  BY <1>1
  <2>3. icache[i] \in [ref : Nat, valid : BOOLEAN]  BY <1>5, <2>1
  <2>4. r \in [ref : Nat, valid : BOOLEAN] /\ r.ref = icache[i].ref /\ r.valid = FALSE  BY <2>3
  <2> HIDE DEF r
  <2> QED  BY <1>5, <2>1, <2>2, <2>4
<1>19. ValidInv'
  <2> SUFFICES ASSUME NEW j \in Inums, icache'[j].valid PROVE dinode'[j].type # "free"
    BY DEF ValidInv
  <2>1. j # i  BY <1>18
  <2> QED  BY <1>10, <1>18, <2>1 DEF IInv, ValidInv
<1>20. Typed' /\ FilesInv'
  <2>1. \A q \in Procs : q # p /\ After(q) = "victim" => dinode'[loc[q].at].ents = dinode[loc[q].at].ents
    <3> TAKE q \in Procs
    <3> HAVE q # p /\ After(q) = "victim"
    <3>1. loc[q].at \in Inums
      <4>1. loc[q] \in Local /\ Inodes(loc[q], "victim")  BY Here
      <4> QED  BY <4>1 DEF Local, Inodes
    <3> QED  BY <1>6, <1>10, <3>1
  <2>2. LocTyped(loc[p], After(p))'
    <3>1. loc'[p] = l /\ After(p)' = l.then  BY <1>2, <1>16, LocalKept DEF IInv
    <3>2. l.at \in Inums => dinode'[l.at] = dinode[l.at]  BY <1>6, <1>10
    <3>3. l.ip \in Inums => dinode'[l.ip] = dinode[l.ip]  BY <1>6, <1>10
    <3>4. l.at \in Inums \union {Nil} /\ l.ip \in Inums \union {Nil}  BY <1>2 DEF Local
    <3>5. l.then = "unlockdir" => l.at # Nil  BY <1>2 DEF Inodes
    <3> QED  BY <1>2, <3>1, <3>2, <3>3, <3>4, <3>5 DEF LocTyped
  <2>3. \A j \in Inums : j # i /\ dinode[j].type # "free" => dinode'[j].type = dinode[j].type
    BY <1>10
  <2>4. i \in Inums \union {Nil} /\ "drop" # "write"  BY <1>5
  <2>5. i # Nil => /\ \A q \in Procs : cwd[q] # i
                   /\ \A q \in Procs : q # p => loc[q].at # i /\ loc[q].ip # i
                   /\ \A f \in Files : file[f].ref > 0 => file[f].ip # i
    BY <1>6
  <2> QED  BY <1>1, <1>16, <2>1, <2>2, <2>3, <2>4, <2>5, TypedTree
<1>21. \A j \in Inums : icache'[j].ref = icache[j].ref + Own(l, j) - Own(loc[p], j)
  <2> TAKE j \in Inums
  <2>1. Own(l, j) \in Int /\ icache[j].ref \in Int  BY Ones DEF Own, PutAt
  <2> QED  BY <1>18, <2>1
<1>22. DiskInv' /\ bitmap' \in SUBSET Blocks  BY <1>1, <1>8, <1>12, <1>13, <1>14 DEF DiskInv
<1> HIDE DEF l
<1> QED  BY <1>1, <1>10, <1>15, <1>16, <1>17, <1>18, <1>19, <1>20, <1>21, <1>22, TreeStep

-----------------------------------------------------------------------------
(* A free inode is in no directory, and no call counts on it.               *)
LEMMA FreeAlone ==
    ASSUME IInv, NEW x \in Inums, dinode[x].type = "free"
    PROVE  /\ x # Root /\ dinode[x] = FreeIno /\ lock[x] = NoProc
           /\ \A d, c \in Inums, n \in Names : ~Child(d, n, x) /\ ~Child(x, n, c)
           /\ UpOf(x) = {}
           /\ OweN(x) = 0
<1>1. x # Root  BY DEF IInv, DiskInv, RootInv
<1>2. dinode[x] = FreeIno  BY DEF IInv, DiskInv, EntInv
<1>3. ASSUME NEW d \in Inums, NEW n \in Names PROVE ~Child(d, n, x)
  <2> SUFFICES ASSUME Child(d, n, x) PROVE FALSE
    OBVIOUS
  <2>1. NamedWell(d, n, x)  BY DEF IInv, DiskInv, TreeInv
  <2> QED  BY <2>1 DEF NamedWell
<1>4. \A c \in Inums, n \in Names : ~Child(x, n, c)  BY DEF Child
<1>5. UpOf(x) = {}
  <2> SUFFICES ASSUME NEW d \in Inums, dinode[d].type = "dir", dinode[d].ents[".."] = x,
                      NEW e \in Inums, NEW n \in Names, Child(e, n, d)
               PROVE  FALSE
    BY DEF UpOf
  <2>1. NamedWell(e, n, d)  BY DEF IInv, DiskInv, TreeInv
  <2>2. e = x  BY <2>1 DEF NamedWell
  <2> QED  BY <1>4, <2>2
<1>6. ASSUME NEW q \in Procs PROVE Held(q) # x /\ ~Owes(loc[q], After(q), x)
  <2> DEFINE l == loc[q]  v == After(q)
  <2>1. l \in Local /\ Inodes(l, v) /\ Making(l, v) /\ LocTyped(l, v) /\ Held(q) = HeldAt(l, v)
    BY Here DEF Held
  <2> HIDE DEF l, v
  <2>2. x # Nil  BY Constants
  <2>3. v \in {"victim", "unlockdir"} => l.at # x  BY <2>1 DEF LocTyped
  <2>4. v # "exists" => l.ip # x  BY <2>1, <2>2 DEF LocTyped
  <2>5. HeldAt(l, v) # x  BY <2>2, <2>3, <2>4 DEF HeldAt
  <2>6. ~Owes(l, v, x)
    <3>1. v = "exists" => l.call # "link"  BY <2>1 DEF Making, Makes
    <3> QED  BY <2>4, <3>1 DEF Owes
  <2> QED  BY <2>1, <2>5, <2>6 DEF l, v
<1>7. lock[x] = NoProc
  <2>1. lock[x] \in Procs \union {NoProc}  BY DEF IInv, TypeOK
  <2>2. \A q \in Procs : lock[x] # q  BY <1>6, Here
  <2> QED  BY <2>1, <2>2
<1>8. OweN(x) = 0
  <2>1. OweSet(x) = {}  BY <1>6 DEF OweSet
  <2> QED  BY <2>1, FS_EmptySet DEF OweN
<1> QED  BY <1>1, <1>2, <1>3, <1>4, <1>5, <1>7, <1>8

LEMMA CacheNew ==
    ASSUME IInv, NEW d \in Inums, NEW x \in Inums, icache' = Ilock(Iget(Ilock(icache, d), x), x)
    PROVE  /\ icache' \in [Inums -> [ref : Nat, valid : BOOLEAN]]
           /\ \A i \in Inums : /\ icache'[i].ref = icache[i].ref + One(x, i)
                               /\ icache'[i].valid => icache[i].valid \/ i = d \/ i = x
<1> DEFINE R == [ref : Nat, valid : BOOLEAN]
           c == Ilock(icache, d)
           g == Iget(c, x)
<1>1. ASSUME NEW b \in [Inums -> R], NEW j \in Inums
      PROVE  /\ Ilock(b, j) \in [Inums -> R]
             /\ \A i \in Inums : Ilock(b, j)[i].ref = b[i].ref /\ (Ilock(b, j)[i].valid => b[i].valid \/ i = j)
  <2> DEFINE r == [b[j] EXCEPT !.valid = TRUE]
  <2>1. Ilock(b, j) = [b EXCEPT ![j] = r]  BY DEF Ilock
  <2>2. b[j] \in R  OBVIOUS
  <2>3. r \in R /\ r.ref = b[j].ref  BY <2>2
  <2> HIDE DEF r, R
  <2>4. [b EXCEPT ![j] = r] \in [Inums -> R]  BY <2>3
  <2>5. \A i \in Inums : [b EXCEPT ![j] = r][i] = IF i = j THEN r ELSE b[i]  OBVIOUS
  <2> QED  BY <2>1, <2>3, <2>4, <2>5
<1>2. icache \in [Inums -> R]  BY DEF IInv, TypeOK
<1>3. /\ c \in [Inums -> R]
      /\ \A i \in Inums : c[i].ref = icache[i].ref /\ (c[i].valid => icache[i].valid \/ i = d)
  BY <1>1, <1>2
<1> HIDE DEF c
<1>4. /\ g \in [Inums -> R]
      /\ \A i \in Inums : g[i].ref = c[i].ref + One(x, i) /\ (g[i].valid => c[i].valid)
  <2> DEFINE r == [ref |-> c[x].ref + 1, valid |-> c[x].ref > 0 /\ c[x].valid]
  <2>1. g = [c EXCEPT ![x] = r]  BY DEF Iget
  <2>2. c[x].ref \in Nat /\ c[x].valid \in BOOLEAN  BY <1>3
  <2>3. r \in R /\ r.ref = c[x].ref + 1 /\ (r.valid => c[x].valid)  BY <2>2
  <2>4. \A i \in Inums : c[i].ref \in Nat  BY <1>3
  <2> HIDE DEF r, R, g
  <2>5. g \in [Inums -> R]  BY <1>3, <2>1, <2>3
  <2>6. \A i \in Inums : g[i] = IF i = x THEN r ELSE c[i]  BY <1>3, <2>1
  <2>7. \A i \in Inums : g[i].ref = c[i].ref + One(x, i)
    <3> TAKE i \in Inums
    <3>1. CASE i = x  BY <2>3, <2>6, <3>1 DEF One
    <3>2. CASE i # x  BY <2>4, <2>6, <3>2 DEF One
    <3> QED  BY <3>1, <3>2
  <2>8. \A i \in Inums : g[i].valid => c[i].valid  BY <2>3, <2>6
  <2> QED  BY <2>5, <2>7, <2>8
<1> HIDE DEF g
<1>5. icache' = Ilock(g, x)  BY DEF g, c
<1>6. /\ icache' \in [Inums -> R]
      /\ \A i \in Inums : icache'[i].ref = g[i].ref /\ (icache'[i].valid => g[i].valid \/ i = x)
  <2> HIDE DEF R
  <2> QED  BY <1>1, <1>4, <1>5
<1> QED  BY <1>3, <1>4, <1>6

(* What create writes: inode x of type t in directory d.                    *)
NewIno(x, d, t, new) ==
    [type  |-> t, nlink |-> 1,
     ents  |-> IF t = "dir" THEN [NoEnts EXCEPT !["."] = x, ![".."] = d] ELSE NoEnts,
     len   |-> Cardinality(new), blks  |-> new]
LEMMA NewInoFields ==
    ASSUME NEW x \in Inums, NEW d \in Inums, NEW t \in {"dir", "dev", "file"}, NEW new \in SUBSET Blocks,
           NEW r, r = NewIno(x, d, t, new)
    PROVE  /\ r \in Ino /\ r.type = t /\ r.nlink = 1 /\ r.blks = new
           /\ t # "dir" => r.ents = NoEnts
           /\ t = "dir" => r.ents["."] = x /\ r.ents[".."] = d
<1> DEFINE e == IF t = "dir" THEN [NoEnts EXCEPT !["."] = x, ![".."] = d] ELSE NoEnts
           len == Cardinality(new)
<1>1. len \in Nat  BY Finite, CardNat
<1>2. NoEnts \in [Names -> Inums \union {Nil}]  BY DEF NoEnts
<1>3. /\ e \in [Names -> Inums \union {Nil}] /\ (t # "dir" => e = NoEnts)
      /\ t = "dir" => e["."] = x /\ e[".."] = d
  <2> HIDE DEF NoEnts
  <2> QED  BY <1>2, Constants
<1> HIDE DEF e, len
<1>4. r = [type |-> t, nlink |-> 1, ents |-> e, len |-> len, blks |-> new]  BY DEF NewIno, e, len
<1>5. r \in Ino /\ r.type = t /\ r.nlink = 1 /\ r.ents = e /\ r.blks = new
  BY <1>1, <1>3, <1>4 DEF Ino, Types
<1> QED  BY <1>3, <1>5

-----------------------------------------------------------------------------
(* The tree with the new inode x, named n in directory dp.                  *)
WithTwo(x, a, d, b) == [dinode EXCEPT ![x] = a, ![d] = b]
Plus(t) == IF t = "dir" THEN 1 ELSE 0
LEMMA NewEntry ==
    ASSUME IInv, NEW dp \in Inums, dinode[dp].type = "dir", NEW n \in Names, n \notin {".", ".."},
           dinode[dp].ents[n] = Nil, NEW x \in Inums, dinode[x].type = "free",
           NEW t \in {"dir", "dev", "file"}, NEW new \in SUBSET Blocks, new \cap bitmap = {},
           NEW z \in Int, z = dinode[dp].nlink + Plus(t),
           dinode' = WithTwo(x, NewIno(x, dp, t, new), dp, SetEnt(dinode[dp], n, x, z)),
           bitmap' = bitmap \union new
    PROVE  /\ dinode' \in [Inums -> Ino] /\ bitmap' \in SUBSET Blocks /\ BlocksInv' /\ DiskInv'
           /\ dinode'[x].type = t /\ dinode'[dp].type = "dir"
           /\ \A i \in Inums : i # x => dinode'[i].type = dinode[i].type
           /\ \A i \in Inums : i # x /\ i # dp => dinode'[i] = dinode[i]
           /\ dinode'[x].nlink = 1 /\ dinode'[dp].nlink = z
           /\ \A j \in Inums : NameN(j)' <= NameN(j) + One(x, j)
           /\ \A j \in Inums : UpN(j)' <= UpN(j) + (IF j = dp THEN Plus(t) ELSE 0)
           /\ \A i \in Inums : i # x => dinode'[i].ents[".."] = dinode[i].ents[".."]
           /\ \A d, c \in Inums, k \in Names : Child(d, k, c)' => Child(d, k, c) \/ c = x
<1> DEFINE r0 == dinode[dp]
           a == NewIno(x, dp, t, new)
           b == SetEnt(r0, n, x, z)
<1>1. dinode \in [Inums -> Ino] /\ bitmap \in SUBSET Blocks  BY DEF IInv, TypeOK, Ino
<1>2. x # dp  OBVIOUS
<1>3. /\ a \in Ino /\ a.type = t /\ a.nlink = 1 /\ a.blks = new
      /\ t # "dir" => a.ents = NoEnts
      /\ t = "dir" => a.ents["."] = x /\ a.ents[".."] = dp
  BY NewInoFields
<1>4. r0 \in Ino /\ r0.type = "dir"  BY <1>1
<1>5. /\ b \in Ino /\ b.type = r0.type /\ b.nlink = z /\ b.blks = r0.blks
      /\ b.ents[n] = x /\ \A k \in Names : k # n => b.ents[k] = r0.ents[k]
  <2> HIDE DEF r0
  <2> QED  BY <1>4, RowEnt
<1>6. dinode' = WithTwo(x, a, dp, b)  OBVIOUS
<1> HIDE DEF a, b
<1>7. /\ dinode' \in [Inums -> Ino] /\ dinode'[x] = a /\ dinode'[dp] = b
      /\ \A i \in Inums : i # x /\ i # dp => dinode'[i] = dinode[i]
  BY <1>1, <1>2, <1>3, <1>5, <1>6 DEF WithTwo
<1>8. /\ x # Root /\ dinode[x] = FreeIno
      /\ \A d, c \in Inums, k \in Names : ~Child(d, k, x) /\ ~Child(x, k, c)
      /\ UpOf(x) = {}
  BY FreeAlone
<1>9. \A i \in Inums : i # x => dinode'[i].type = dinode[i].type /\ dinode'[i].ents[".."] = dinode[i].ents[".."]
                                /\ dinode'[i].ents["."] = dinode[i].ents["."]
  <2> TAKE i \in Inums
  <2> HAVE i # x
  <2>1. CASE i = dp  BY <1>4, <1>5, <1>7, <2>1, Constants
  <2>2. CASE i # dp  BY <1>7, <2>2
  <2> QED  BY <2>1, <2>2
<1>10. \A d, c \in Inums, k \in Names : Child(d, k, c)' <=> Child(d, k, c) \/ (d = dp /\ k = n /\ c = x)
  <2> TAKE d, c \in Inums, k \in Names
  <2>1. c # Nil  BY Constants
  <2>2. CASE d = dp /\ k = n  BY <1>4, <1>5, <1>7, <2>1, <2>2 DEF Child
  <2>3. CASE d = dp /\ k # n  BY <1>4, <1>5, <1>7, <2>3 DEF Child
  <2>4. CASE d = x
    <3>1. ~Child(d, k, c) /\ d # dp  BY <1>2, <1>8, <2>4
    <3>2. dinode'[d] = a  BY <1>7, <2>4
    <3>3. t # "dir" \/ \A j \in Names : j \notin {".", ".."} => a.ents[j] = Nil
      <4> SUFFICES ASSUME t = "dir", NEW j \in Names, j \notin {".", ".."} PROVE a.ents[j] = Nil
        OBVIOUS
      <4>1. a.ents = [NoEnts EXCEPT !["."] = x, ![".."] = dp]  BY DEF a, NewIno
      <4> QED  BY <4>1 DEF NoEnts
    <3> QED  BY <1>3, <2>1, <3>1, <3>2, <3>3 DEF Child
  <2>5. CASE d # dp /\ d # x  BY <1>7, <2>5 DEF Child
  <2> QED  BY <2>2, <2>3, <2>4, <2>5
<1>11. EntInv'
  <2> SUFFICES ASSUME NEW i \in Inums
               PROVE  /\ dinode'[i].type = "free" => dinode'[i] = FreeIno
                      /\ dinode'[i].type # "dir" => dinode'[i].ents = NoEnts
                      /\ dinode'[i].type = "dir" => dinode'[i].ents["."] = i /\ dinode'[i].ents[".."] # Nil
    BY DEF EntInv, FreeIno, NoEnts
  <2>1. CASE i = x  BY <1>3, <1>7, <2>1, Constants
  <2>2. CASE i = dp
    <3>1. dinode[i].ents["."] = i /\ dinode[i].ents[".."] # Nil  BY <2>2 DEF IInv, DiskInv, EntInv
    <3>2. dinode'[i].type = "dir"  BY <1>4, <1>5, <1>7, <2>2
    <3> QED  BY <1>2, <1>9, <2>2, <3>1, <3>2
  <2>3. CASE i # x /\ i # dp
    <3>1. dinode'[i] = dinode[i]  BY <1>7, <2>3
    <3> QED  BY <3>1 DEF IInv, DiskInv, EntInv
  <2> QED  BY <2>1, <2>2, <2>3
<1>12. RootInv'
  BY <1>8, <1>9, Constants DEF IInv, DiskInv, RootInv, Root
<1>13. TreeInv'
  <2> SUFFICES ASSUME NEW d \in Inums, NEW k \in Names, NEW c \in Inums, Child(d, k, c)'
               PROVE  NamedWell(d, k, c)'
    BY DEF TreeInv
  <2>1. CASE Child(d, k, c)
    <3>1. NamedWell(d, k, c)  BY <2>1 DEF IInv, DiskInv, TreeInv
    <3>2. c # x /\ d # x  BY <1>8, <2>1
    <3>3. dinode'[c].type = dinode[c].type /\ dinode'[c].ents[".."] = dinode[c].ents[".."]
      BY <1>9, <3>2
    <3>4. dinode'[c].type # "free" /\ c # Root  BY <3>1, <3>3 DEF NamedWell
    <3>5. ASSUME dinode'[c].type = "dir"
          PROVE  /\ dinode'[c].ents[".."] = d
                 /\ \A e \in Inums, j \in Names : Child(e, j, c)' => e = d /\ j = k
      BY <1>10, <3>1, <3>2, <3>3, <3>5 DEF NamedWell
    <3>6. \A j \in Names : ~Child(c, j, d)'  BY <1>10, <3>1, <3>2 DEF NamedWell
    <3> QED  BY <3>4, <3>5, <3>6 DEF NamedWell, Root
  <2>2. CASE d = dp /\ k = n /\ c = x
    <3>1. dinode'[c].type # "free" /\ c # Root  BY <1>3, <1>7, <1>8, <2>2
    <3>2. ASSUME dinode'[c].type = "dir"
          PROVE  /\ dinode'[c].ents[".."] = d
                 /\ \A e \in Inums, j \in Names : Child(e, j, c)' => e = d /\ j = k
      BY <1>3, <1>7, <1>8, <1>10, <2>2, <3>2
    <3>3. \A j \in Names : ~Child(c, j, d)'  BY <1>2, <1>8, <1>10, <2>2
    <3> QED  BY <3>1, <3>2, <3>3 DEF NamedWell, Root
  <2> QED  BY <1>10, <2>1, <2>2
<1>14. BlocksInv' /\ bitmap' \in SUBSET Blocks
  <2>1. dinode[x].blks = {}  BY <1>8 DEF FreeIno
  <2>2. dinode'[x].blks = dinode[x].blks \union new  BY <1>3, <1>7, <2>1
  <2>3. \A j \in Inums : j # x => dinode'[j].blks = dinode[j].blks
    <3> TAKE j \in Inums
    <3> HAVE j # x
    <3>1. CASE j = dp  BY <1>5, <1>7, <3>1
    <3>2. CASE j # dp  BY <1>7, <3>2
    <3> QED  BY <3>1, <3>2
  <2> QED  BY <2>2, <2>3, BlocksGrow
<1>15. ASSUME NEW j \in Inums PROVE NameN(j)' <= NameN(j) + One(x, j)
  <2>1. NameN(j) \in Nat  BY LinkNumbers
  <2>2. CASE j = x
    <3>1. NameN(j)' <= NameN(j) + 1  BY <1>10, NamesGrow
    <3> QED  BY <2>2, <3>1 DEF One
  <2>3. CASE j # x
    <3>1. \A d \in Inums, k \in Names : Child(d, k, j)' => Child(d, k, j)  BY <1>10, <2>3
    <3>2. NameN(j)' <= NameN(j)  BY <3>1, NamesShrink
    <3> QED  BY <2>1, <2>3, <3>2 DEF One
  <2> QED  BY <2>2, <2>3
<1>16. ASSUME NEW j \in Inums PROVE UpN(j)' <= UpN(j) + (IF j = dp THEN Plus(t) ELSE 0)
  <2>1. UpN(j) \in Nat  BY LinkNumbers
  <2>2. \A d \in UpOf(j)' : d # x => d \in UpOf(j)
    <3> SUFFICES ASSUME NEW d \in Inums, d # x, dinode'[d].type = "dir", dinode'[d].ents[".."] = j,
                        \E e \in Inums, k \in Names : Child(e, k, d)'
                 PROVE  d \in UpOf(j)
      BY DEF UpOf
    <3>1. dinode[d].type = "dir" /\ dinode[d].ents[".."] = j  BY <1>9
    <3> QED  BY <1>10, <3>1 DEF UpOf
  <2>3. x \in UpOf(j)' => j = dp /\ t = "dir"  BY <1>3, <1>7 DEF UpOf
  <2>4. CASE j = dp /\ t = "dir"
    <3>1. UpOf(j)' \subseteq UpOf(j) \union {x}  BY <2>2
    <3>2. UpN(j)' <= UpN(j) + 1  BY <3>1, UpsGrow
    <3> QED  BY <2>4, <3>2 DEF Plus
  <2>5. CASE ~(j = dp /\ t = "dir")
    <3>1. UpOf(j)' \subseteq UpOf(j)  BY <2>2, <2>3, <2>5
    <3>2. UpN(j)' <= UpN(j)  BY <3>1, UpsShrink
    <3> QED  BY <2>1, <2>5, <3>2 DEF Plus
  <2> QED  BY <2>4, <2>5
<1>17. dinode'[x].type = t /\ dinode'[dp].type = "dir" /\ dinode'[x].nlink = 1 /\ dinode'[dp].nlink = z
  BY <1>3, <1>4, <1>5, <1>7
<1>18. DiskInv'  BY <1>11, <1>12, <1>13 DEF DiskInv
<1> QED  BY <1>7, <1>9, <1>10, <1>14, <1>15, <1>16, <1>17, <1>18

-----------------------------------------------------------------------------
(* create makes an inode.                                                   *)
TypeOf(call) == IF call = "mkdir" THEN "dir" ELSE IF call = "mknod" THEN "dev" ELSE "file"
FreeInodes == {i \in Inums \ {Root} : dinode[i].type = "free"}
NewWith(p, dp, n, t, x, new, z) ==
    /\ dinode[x].type = "free" /\ new \cap bitmap = {} /\ z = dinode[dp].nlink + Plus(t)
    /\ dinode' = WithTwo(x, NewIno(x, dp, t, new), dp, SetEnt(dinode[dp], n, x, z))
    /\ bitmap' = bitmap \union new
    /\ icache' = Ilock(Iget(Ilock(icache, dp), x), x)
    /\ lock' = [lock EXCEPT ![x] = p]
    /\ Puts(p, <<dp>>, IF loc[p].call = "creat" THEN "opening" ELSE "made",
            [loc[p] EXCEPT !.at = Nil, !.ip = x])
WritesNew(p, dp, n, t) ==
    \E x \in Inums, new \in SUBSET Blocks, z \in Int : NewWith(p, dp, n, t, x, new, z)
LEMMA CreateWrites ==
    ASSUME IInv, NEW p \in Procs, Create(p), Dirlookup(loc[p].at, Head(loc[p].path)) = Nil,
           FreeInodes # {}, ~(loc[p].call = "mkdir" /\ FreeBlocks = {}),
           NEW dp, dp = loc[p].at, NEW n, n = Head(loc[p].path), NEW t, t = TypeOf(loc[p].call)
    PROVE  /\ t \in {"dir", "dev", "file"} /\ dp \in Inums /\ dinode[dp].type = "dir"
           /\ n \in Names /\ n \notin {".", ".."} /\ dinode[dp].ents[n] = Nil
           /\ WritesNew(p, dp, n, t)
<1> DEFINE l == loc[p]
           isdir == l.call = "mkdir"
           x == Lowest(FreeInodes)
           new == IF isdir THEN Balloc(1) ELSE {}
           z == IF isdir THEN dinode[dp].nlink + 1 ELSE dinode[dp].nlink
           r0 == dinode[dp]
<1>1. Locks(p, "parent") /\ l.call \in {"creat", "mkdir", "mknod"}  BY DEF Create
<1>2. /\ l \in Local /\ Inodes(l, "parent") /\ Args(l, "parent") /\ LocTyped(l, "parent") /\ dp \in Inums
  BY <1>1, WaitsAt
<1>3. dinode[dp].type = "dir"  BY <1>2 DEF LocTyped
<1>4. n \in Names  BY <1>2 DEF Args, Local
<1>5. dinode[dp].ents[n] = Nil  BY DEF Dirlookup
<1>6. n \notin {".", ".."}
  <2>1. dinode[dp].ents["."] = dp /\ dinode[dp].ents[".."] # Nil
    BY <1>2, <1>3 DEF IInv, DiskInv, EntInv
  <2> QED  BY <1>2, <1>5, <2>1, Constants
<1>7. x \in Inums /\ dinode[x].type = "free" /\ x # dp
  <2>1. FreeInodes \subseteq Nat  BY Constants DEF FreeInodes
  <2>2. x \in FreeInodes  BY <2>1, Least
  <2> QED  BY <1>3, <2>2 DEF FreeInodes
<1>8. /\ dinode' = [dinode EXCEPT
             ![x] = [type  |-> CASE isdir -> "dir" [] l.call = "mknod" -> "dev" [] OTHER -> "file",
                      nlink |-> 1,
                      ents  |-> IF isdir THEN [NoEnts EXCEPT !["."] = x, ![".."] = dp] ELSE NoEnts,
                      len   |-> Cardinality(new),
                      blks  |-> new],
             ![dp].nlink = IF isdir THEN @ + 1 ELSE @,
             ![dp].ents[n] = x]
      /\ bitmap' = bitmap \union new
      /\ icache' = Ilock(Iget(Ilock(icache, dp), x), x)
      /\ lock'   = [lock EXCEPT ![x] = p]
      /\ Puts(p, <<dp>>, IF l.call = "creat" THEN "opening" ELSE "made",
              [l EXCEPT !.at = Nil, !.ip = x])
  BY DEF Create, FreeInodes
<1>9. new \in SUBSET Blocks /\ new \cap bitmap = {}  BY BallocFree
<1>10. /\ t \in {"dir", "dev", "file"} /\ (t = "dir" <=> isdir)
       /\ t = CASE isdir -> "dir" [] l.call = "mknod" -> "dev" [] OTHER -> "file"
  BY <1>1 DEF TypeOf
<1>11. dinode \in [Inums -> Ino] /\ r0 \in Ino /\ r0.nlink \in Int  BY <1>2 DEF IInv, TypeOK, Ino
<1>12. z \in Int /\ z = dinode[dp].nlink + Plus(t)
  <2>1. CASE isdir  BY <1>10, <1>11, <2>1 DEF Plus
  <2>2. CASE ~isdir  BY <1>10, <1>11, <2>2 DEF Plus
  <2> QED  BY <2>1, <2>2
<1> DEFINE a == [type  |-> CASE isdir -> "dir" [] l.call = "mknod" -> "dev" [] OTHER -> "file",
                 nlink |-> 1,
                 ents  |-> IF isdir THEN [NoEnts EXCEPT !["."] = x, ![".."] = dp] ELSE NoEnts,
                 len   |-> Cardinality(new),
                 blks  |-> new]
           e == [r0.ents EXCEPT ![n] = x]
           b == [r0 EXCEPT !.nlink = z, !.ents = e]
<1>13. a = NewIno(x, dp, t, new)
  <2> HIDE DEF new, x, isdir
  <2> QED  BY <1>10 DEF NewIno
<1>14. b = SetEnt(r0, n, x, z)
  <2> HIDE DEF x, z, r0
  <2>1. b = [r0 EXCEPT !.ents = e, !.nlink = z]  BY <1>11 DEF Ino
  <2> QED  BY <2>1 DEF SetEnt
<1>15. dinode' = WithTwo(x, a, dp, b)
  <2> HIDE DEF a, x, new
  <2>1. dinode' = [dinode EXCEPT ![x] = a, ![dp].nlink = IF isdir THEN @ + 1 ELSE @, ![dp].ents[n] = x]
    BY <1>8 DEF a
  <2>2. [dinode EXCEPT ![x] = a, ![dp].nlink = IF isdir THEN @ + 1 ELSE @, ![dp].ents[n] = x]
        = [dinode EXCEPT ![x] = a, ![dp] = b]
    BY <1>2, <1>7, <1>11 DEF Ino
  <2> QED  BY <2>1, <2>2 DEF WithTwo
<1> HIDE DEF a, b, x, new, z
<1>16. NewWith(p, dp, n, t, x, new, z)
  BY <1>7, <1>8, <1>9, <1>12, <1>13, <1>14, <1>15 DEF NewWith
<1>17. WritesNew(p, dp, n, t)  BY <1>7, <1>9, <1>12, <1>16 DEF WritesNew
<1> QED  BY <1>2, <1>3, <1>4, <1>5, <1>6, <1>10, <1>17

LEMMA KeepsCreateNew ==
    ASSUME IInv, NEW p \in Procs, Create(p), Dirlookup(loc[p].at, Head(loc[p].path)) = Nil,
           FreeInodes # {}, ~(loc[p].call = "mkdir" /\ FreeBlocks = {})
    PROVE  IInv'
<1> DEFINE l == loc[p]
           dp == l.at
           n == Head(l.path)
           t == TypeOf(l.call)
           v == IF l.call = "creat" THEN "opening" ELSE "made"
           s == <<dp>>
<1>1. /\ t \in {"dir", "dev", "file"} /\ dp \in Inums /\ dinode[dp].type = "dir"
      /\ n \in Names /\ n \notin {".", ".."} /\ dinode[dp].ents[n] = Nil
      /\ WritesNew(p, dp, n, t)
  BY CreateWrites
<1>2. Locks(p, "parent") /\ l.call \in {"creat", "mkdir", "mknod"} /\ UNCHANGED fds  BY DEF Create
<1>3. /\ pc[p] = "parent" /\ After(p) = "parent" /\ l \in Local
      /\ Inodes(l, "parent") /\ Args(l, "parent") /\ Making(l, "parent") /\ LocTyped(l, "parent")
      /\ lock[dp] = NoProc /\ Held(p) = Nil /\ l.f = Nil
      /\ \A i : Own(loc[p], i) = One(dp, i) + One(l.ip, i)
  BY <1>2, WaitsAt
<1>4. l.ip = Nil  BY <1>2, <1>3 DEF Inodes
<1> PICK x \in Inums, new \in SUBSET Blocks, z \in Int : NewWith(p, dp, n, t, x, new, z)
  BY <1>1 DEF WritesNew
<1>5. /\ dinode[x].type = "free" /\ new \cap bitmap = {} /\ z = dinode[dp].nlink + Plus(t)
      /\ dinode' = WithTwo(x, NewIno(x, dp, t, new), dp, SetEnt(dinode[dp], n, x, z))
      /\ bitmap' = bitmap \union new
      /\ icache' = Ilock(Iget(Ilock(icache, dp), x), x)
      /\ lock' = [lock EXCEPT ![x] = p]
      /\ Puts(p, s, v, [l EXCEPT !.at = Nil, !.ip = x])
  BY DEF NewWith
<1>6. dinode \in [Inums -> Ino] /\ dinode[dp].nlink \in Int  BY <1>1 DEF IInv, TypeOK, Ino
<1>7. /\ dinode' \in [Inums -> Ino] /\ bitmap' \in SUBSET Blocks /\ BlocksInv' /\ DiskInv'
      /\ dinode'[x].type = t /\ dinode'[dp].type = "dir"
      /\ \A i \in Inums : i # x => dinode'[i].type = dinode[i].type
      /\ \A i \in Inums : i # x /\ i # dp => dinode'[i] = dinode[i]
      /\ dinode'[x].nlink = 1 /\ dinode'[dp].nlink = z
      /\ \A j \in Inums : NameN(j)' <= NameN(j) + One(x, j)
      /\ \A j \in Inums : UpN(j)' <= UpN(j) + (IF j = dp THEN Plus(t) ELSE 0)
  <2> HIDE DEF n, dp, t
  <2> QED  BY <1>1, <1>5, NewEntry
<1>8. /\ x # Root /\ lock[x] = NoProc
      /\ \A d, c \in Inums, k \in Names : ~Child(d, k, x) /\ ~Child(x, k, c)
      /\ UpOf(x) = {} /\ OweN(x) = 0
  BY <1>5, FreeAlone
<1>9. s \in Seq(Inums) /\ s # <<>> /\ Len(s) <= 2  BY <1>1
<1>10. s = <<dp>>  OBVIOUS
<1> HIDE DEF s
<1> DEFINE k == [l EXCEPT !.at = Nil, !.ip = x]
           m == WithPuts(k, s, v)
<1>11. k \in Local /\ k.call = l.call /\ k.new = l.new /\ k.at = Nil /\ k.ip = x /\ k.f = Nil
  BY <1>3 DEF Local
<1>12. Puts(p, s, v, k)  BY <1>5
<1> HIDE DEF k
<1>13. v \in {"opening", "made"} /\ (v = "opening" => l.call = "creat") /\ v \in Places
  BY DEF Places
<1>14. Inodes(k, v) /\ Args(k, v) /\ Making(k, v)
  <2>1. x # Nil  BY Constants
  <2> HIDE DEF v
  <2>2. Inodes(k, v)  BY <1>11, <1>13, <2>1 DEF Inodes
  <2>3. Args(k, v)  BY <1>2, <1>11, <1>13 DEF Args
  <2>4. Making(k, v)  BY <1>2, <1>11, <1>13 DEF Making, Makes
  <2> QED  BY <2>2, <2>3, <2>4
<1> HIDE DEF v
<1>15. /\ MoveOK(p, "put", m) /\ Then("put", m) = v
       /\ m.call = k.call /\ m.at = k.at /\ m.ip = k.ip /\ m.puts = s
       /\ \A u : HeldAt(m, u) = HeldAt(k, u)
       /\ \A u, i : OweAt(m, u, i) = OweAt(k, u, i)
  BY <1>9, <1>11, <1>12, <1>13, <1>14, PutsMoves
<1> HIDE DEF m
<1>16. LockOK(p, HeldAt(m, Then("put", m)))
  <2>1. HeldAt(m, Then("put", m)) = x  BY <1>11, <1>13, <1>15 DEF HeldAt
  <2>2. LockOK(p, x)  BY <1>3, <1>5, <1>8, LockTake
  <2> QED  BY <2>1, <2>2
<1>17. /\ icache' \in [Inums -> [ref : Nat, valid : BOOLEAN]]
       /\ \A i \in Inums : /\ icache'[i].ref = icache[i].ref + One(x, i)
                           /\ icache'[i].valid => icache[i].valid \/ i = dp \/ i = x
  BY <1>1, <1>5, CacheNew
<1>18. ValidInv'
  <2>1. ASSUME NEW i \in Inums, icache'[i].valid PROVE dinode'[i].type # "free"
    <3>1. CASE i = x  BY <1>1, <1>7, <3>1
    <3>2. CASE i = dp  BY <1>7, <3>2
    <3>3. CASE i # x /\ i # dp
      <4>1. icache[i].valid  BY <1>17, <2>1, <3>3
      <4> QED  BY <1>7, <3>3, <4>1 DEF IInv, ValidInv
    <3> QED  BY <3>1, <3>2, <3>3
  <2> QED  BY <2>1 DEF ValidInv
<1>19. \A i \in Inums : OweAt(m, Then("put", m), i) = 0 /\ OweAt(loc[p], After(p), i) = 0
  <2>1. \A i \in Inums : OweAt(m, Then("put", m), i) = 0
    BY <1>2, <1>11, <1>13, <1>15 DEF OweAt, Owes
  <2>2. \A i \in Inums : OweAt(loc[p], After(p), i) = 0  BY <1>2, <1>3 DEF OweAt, Owes
  <2> QED  BY <2>1, <2>2
<1>20. LinkInv'
  <2> SUFFICES ASSUME NEW i \in Inums, dinode'[i].type # "free"
               PROVE  /\ dinode'[i].nlink \in Int
                      /\ \E a \in Int, b \in Int, c \in Int :
                            /\ NameN(i)' <= a /\ UpN(i)' <= b /\ OweN(i)' <= c
                            /\ dinode'[i].nlink >= a + b + c + One(i, Root)
    BY LinkTree
  <2>1. dinode'[i].nlink \in Int /\ dinode[i].nlink \in Int  BY <1>6, <1>7 DEF Ino
  <2>2. NameN(i) \in Nat /\ UpN(i) \in Nat  BY LinkNumbers
  <2>3. OweN(i) \in Nat /\ OweN(i)' = OweN(i)
    <3>1. OweN(i) \in Nat /\ OweN(i)' = OweN(i) + OweAt(m, Then("put", m), i) - OweAt(loc[p], After(p), i)
      BY <1>15, <1>16, OweKept DEF IInv
    <3> QED  BY <1>19, <3>1
  <2> DEFINE y == IF i = dp THEN Plus(t) ELSE 0
  <2>4. NameN(i)' <= NameN(i) + One(x, i) /\ UpN(i)' <= UpN(i) + y  BY <1>7
  <2>5. y \in Int /\ One(x, i) \in Int /\ One(i, Root) \in Int  BY Ones DEF Plus
  <2>6. dinode'[i].nlink >= NameN(i) + One(x, i) + UpN(i) + y + OweN(i) + One(i, Root)
    <3>1. CASE i = x
      <4>1. NameN(x) = 0
        <5>1. NameN(x) = Cardinality(NameOf(x))  BY LinkNumbers
        <5>2. NameOf(x) = {}  BY <1>8 DEF NameOf
        <5> QED  BY <5>1, <5>2, FS_EmptySet
      <4>2. UpN(x) = 0
        <5>1. UpN(x) = Cardinality(UpOf(x))  BY LinkNumbers
        <5> QED  BY <1>8, <5>1, FS_EmptySet
      <4>3. x # dp  BY <1>1, <1>5
      <4>4. y = 0 /\ One(x, i) = 1 /\ One(i, Root) = 0  BY <1>8, <3>1, <4>3 DEF One
      <4>5. dinode'[i].nlink = 1 /\ NameN(i) = 0 /\ UpN(i) = 0 /\ OweN(i) = 0
        BY <1>7, <1>8, <3>1, <4>1, <4>2
      <4> HIDE DEF y
      <4> QED  BY <4>4, <4>5
    <3>2. CASE i # x
      <4>1. One(x, i) = 0  BY <3>2 DEF One
      <4>2. dinode[i].type # "free"  BY <1>7, <3>2
      <4>3. dinode[i].nlink >= NameN(i) + UpN(i) + OweN(i) + One(i, Root)  BY <4>2 DEF IInv, LinkInv
      <4>4. dinode'[i].nlink = dinode[i].nlink + y
        <5>1. CASE i = dp  BY <1>5, <1>7, <5>1
        <5>2. CASE i # dp  BY <1>7, <2>1, <3>2, <5>2
        <5> QED  BY <5>1, <5>2
      <4> HIDE DEF y
      <4> QED  BY <2>1, <2>2, <2>3, <2>5, <4>1, <4>3, <4>4
    <3> QED  BY <3>1, <3>2
  <2> HIDE DEF y
  <2> DEFINE a == NameN(i) + One(x, i)  b == UpN(i) + y  c == OweN(i)
  <2>7. a \in Int /\ b \in Int /\ c \in Int /\ dinode'[i].nlink >= a + b + c + One(i, Root)
    BY <2>1, <2>2, <2>3, <2>5, <2>6
  <2>8. NameN(i)' <= a /\ UpN(i)' <= b /\ OweN(i)' <= c  BY <2>3, <2>4
  <2> HIDE DEF a, b, c
  <2> QED  BY <2>1, <2>7, <2>8
<1>21. Typed' /\ FilesInv'
  <2>1. \A q \in Procs : q # p /\ After(q) = "victim" => dinode'[loc[q].at].ents = dinode[loc[q].at].ents
    <3> TAKE q \in Procs
    <3> HAVE q # p /\ After(q) = "victim"
    <3>1. loc[q].at # dp  BY <1>1, <1>3, VictimOther
    <3>2. loc[q].at \in Inums
      <4>1. loc[q] \in Local /\ Inodes(loc[q], "victim")  BY Here
      <4> QED  BY <4>1 DEF Local, Inodes
    <3>3. loc[q].at # x
      <4>1. LocTyped(loc[q], "victim")  BY Here
      <4> QED  BY <1>5, <4>1 DEF LocTyped
    <3> QED  BY <1>7, <3>1, <3>2, <3>3
  <2>2. LocTyped(loc[p], After(p))'
    <3>1. loc'[p] = m /\ After(p)' = v  BY <1>15, <1>16, LocalKept DEF IInv
    <3>2. dinode'[x].type # "free"  BY <1>1, <1>7
    <3> QED  BY <1>2, <1>11, <1>13, <1>15, <3>1, <3>2 DEF LocTyped
  <2>3. \A i \in Inums : i # Nil /\ dinode[i].type # "free" => dinode'[i].type = dinode[i].type
    BY <1>5, <1>7
  <2>4. Nil \in Inums \union {Nil} /\ "put" # "write"  OBVIOUS
  <2> QED  BY <1>2, <1>15, <1>16, <2>1, <2>2, <2>3, <2>4, TypedTree
<1>22. \A i \in Inums : icache'[i].ref = icache[i].ref + Own(m, i) - Own(loc[p], i)
  <2> TAKE i \in Inums
  <2>1. Own(m, i) = One(Nil, i) + One(x, i) + One(dp, i)  BY <1>10, <1>11, <1>15, OwnOne
  <2>2. Own(loc[p], i) = One(dp, i) + One(Nil, i)  BY <1>3, <1>4
  <2>3. One(Nil, i) = 0 /\ One(dp, i) \in Int /\ One(x, i) \in Int /\ icache[i].ref \in Int  BY Ones
  <2> QED  BY <1>17, <2>1, <2>2, <2>3
<1> QED  BY <1>2, <1>7, <1>15, <1>16, <1>17, <1>18, <1>20, <1>21, <1>22, TreeStep

-----------------------------------------------------------------------------
LEMMA KeepsCreate ==
    ASSUME IInv, NEW p \in Procs, Create(p)
    PROVE  IInv'
<1>1. CASE Dirlookup(loc[p].at, Head(loc[p].path)) # Nil  BY <1>1, KeepsCreateFound
<1>2. CASE Dirlookup(loc[p].at, Head(loc[p].path)) = Nil
  <2>1. CASE FreeInodes = {}
    <3>1. UNCHANGED <<disk, icache, lock, fds, pc, loc>>  BY <1>2, <2>1 DEF Create, FreeInodes
    <3> QED  BY <3>1, Still
  <2>2. CASE FreeInodes # {} /\ loc[p].call = "mkdir" /\ FreeBlocks = {}
    <3>1. UNCHANGED <<disk, icache, lock, fds, pc, loc>>  BY <1>2, <2>2 DEF Create, FreeInodes
    <3> QED  BY <3>1, Still
  <2>3. CASE FreeInodes # {} /\ ~(loc[p].call = "mkdir" /\ FreeBlocks = {})
    BY <1>2, <2>3, KeepsCreateNew
  <2> QED  BY <2>1, <2>2, <2>3
<1> QED  BY <1>1, <1>2

LEMMA KeepsLink ==
    ASSUME IInv, NEW p \in Procs, LinkNew(p)
    PROVE  IInv'
BY KeepsLinkNew, KeepsLinkFound

LEMMA KeepsVictim ==
    ASSUME IInv, NEW p \in Procs, Victim(p)
    PROVE  IInv'
<1>1. CASE dinode[loc[p].ip].nlink < 1
  <2>1. UNCHANGED <<disk, icache, lock, fds, pc, loc>>  BY <1>1 DEF Victim, disk
  <2> QED  BY <2>1, Still
<1>2. CASE ~(dinode[loc[p].ip].nlink < 1)
  <2>1. Locks(p, "victim")  BY DEF Victim
  <2>2. At(p, "victim")  BY <2>1 DEF Locks
  <2>3. loc[p].ip \in Inums  BY <2>1, <2>2, VictimAt
  <2>4. dinode[loc[p].ip].nlink \in Int  BY <2>3 DEF IInv, TypeOK
  <2>5. dinode[loc[p].ip].nlink >= 1  BY <1>2, <2>4
  <2> QED  BY <2>5, KeepsVictimFull, KeepsVictimGone
<1> QED  BY <1>1, <1>2

LEMMA KeepsPut ==
    ASSUME IInv, NEW p \in Procs, Put(p)
    PROVE  IInv'
<1> DEFINE i == Head(loc[p].puts)
           goes == icache[i].valid /\ dinode[i].nlink = 0 /\ icache[i].ref = 1
<1>1. CASE ~goes
  <2>1. pc[p] = "put" /\ Goes(p, "drop") /\ UNCHANGED <<disk, icache, lock, fds, loc>>
    BY <1>1 DEF Put, At
  <2> QED  BY <2>1, KeepsPutStill
<1>2. CASE goes /\ CanTrunc(i)  BY <1>2, KeepsFree
<1>3. CASE goes /\ ~CanTrunc(i)
  <2>1. UNCHANGED <<disk, icache, lock, fds, pc, loc>>  BY <1>3 DEF Put, Panic
  <2> QED  BY <2>1, Still
<1> QED  BY <1>1, <1>2, <1>3

LEMMA KeepsInv ==
    ASSUME IInv, [Next]_vars
    PROVE  IInv'
<1>1. CASE UNCHANGED vars
  <2>1. UNCHANGED <<disk, icache, lock, fds, pc, loc>>  BY <1>1 DEF vars
  <2> QED  BY <2>1, Still
<1>2. CASE Next
  <2> PICK p \in Procs :
         \/ Step(p)
         \/ \E c \in Calls(p) : Len(c) > 1 /\ Call(p, c)
         \/ \E d \in Fds : Dup(p, d) \/ Close(p, d) \/ Write(p, d)
    BY <1>2 DEF Next
  <2>1. CASE IlockPanics(p)
    <3>1. UNCHANGED <<disk, icache, lock, fds, pc, loc>>  BY <2>1 DEF IlockPanics, Panic
    <3> QED  BY <3>1, Still
  <2>2. CASE Walk(p)  BY <2>2, KeepsWalk
  <2>3. CASE Put(p)  BY <2>3, KeepsPut
  <2>4. CASE Drop(p)  BY <2>4, KeepsDrop
  <2>5. CASE Create(p)  BY <2>5, KeepsCreate
  <2>6. CASE Exists(p)  BY <2>6, KeepsExists
  <2>7. CASE Made(p)  BY <2>7, KeepsMade
  <2>8. CASE Open(p)  BY <2>8, KeepsOpen
  <2>9. CASE Opening(p)  BY <2>9, KeepsOpening
  <2>10. CASE Chdir(p)  BY <2>10, KeepsChdir
  <2>11. CASE LinkOld(p)  BY <2>11, KeepsLinkOld
  <2>12. CASE LinkNew(p)  BY <2>12, KeepsLink
  <2>13. CASE UnlockDir(p)  BY <2>13, KeepsUnlockDir
  <2>14. CASE UnlinkOld(p)  BY <2>14, KeepsUnlinkOld
  <2>15. CASE Unlink(p)  BY <2>15, KeepsUnlink
  <2>16. CASE Victim(p)  BY <2>16, KeepsVictim
  <2>17. CASE Unlinked(p)  BY <2>17, KeepsUnlinked
  <2>18. CASE Writei(p)  BY <2>18, KeepsWritei
  <2>19. CASE \E c \in Calls(p) : Len(c) > 1 /\ Call(p, c)  BY <2>19, KeepsCall
  <2>20. CASE \E d \in Fds : Dup(p, d) \/ Close(p, d) \/ Write(p, d)
    BY <2>20, KeepsDup, KeepsClose, KeepsWrite
  <2> QED
    BY <2>1, <2>2, <2>3, <2>4, <2>5, <2>6, <2>7, <2>8, <2>9, <2>10, <2>11, <2>12, <2>13, <2>14,
       <2>15, <2>16, <2>17, <2>18, <2>19, <2>20 DEF Step
<1> QED  BY <1>1, <1>2

-----------------------------------------------------------------------------
LEMMA InitInv == Init => IInv
<1> SUFFICES ASSUME Init PROVE IInv
  OBVIOUS
<1>1. /\ dinode = [i \in Inums |-> IF i = Root THEN RootIno ELSE FreeIno] /\ bitmap = {1}
      /\ icache = [i \in Inums |-> [ref |-> IF i = Root THEN Cardinality(Procs) ELSE 0, valid |-> FALSE]]
      /\ lock = [i \in Inums |-> NoProc]
      /\ file = [f \in Files |-> NoFile] /\ ofile = [p \in Procs |-> [d \in Fds |-> Nil]]
      /\ cwd = [p \in Procs |-> Root] /\ pc = [p \in Procs |-> "user"] /\ loc = [p \in Procs |-> NoLoc]
  BY DEF Init
<1>2. Root \in Inums /\ 1 \in Blocks /\ Cardinality(Procs) \in Nat
  BY FsAssumption, Constants, Finite, CardNat DEF Blocks
<1>3. NoEnts \in [Names -> Inums \union {Nil}]  BY DEF NoEnts
<1>4. FreeIno \in Ino /\ FreeIno.type = "free" /\ FreeIno.ents = NoEnts /\ FreeIno.blks = {}
  BY <1>3 DEF FreeIno, Ino, Types
<1>5. /\ RootIno \in Ino /\ RootIno.type = "dir" /\ RootIno.nlink = 1 /\ RootIno.blks = {1}
      /\ RootIno.ents["."] = Root /\ RootIno.ents[".."] = Root
      /\ \A n \in Names : n \notin {".", ".."} => RootIno.ents[n] = Nil
  <2> DEFINE e == [NoEnts EXCEPT !["."] = Root, ![".."] = Root]
  <2>1. e \in [Names -> Inums \union {Nil}] /\ e["."] = Root /\ e[".."] = Root
    <3> HIDE DEF NoEnts
    <3> QED  BY <1>2, <1>3, Constants
  <2>2. \A n \in Names : n \notin {".", ".."} => e[n] = Nil  BY DEF NoEnts
  <2> HIDE DEF e
  <2>3. RootIno = [type |-> "dir", nlink |-> 1, ents |-> e, len |-> 1, blks |-> {1}]
    BY DEF RootIno, e
  <2> QED  BY <1>2, <2>1, <2>2, <2>3 DEF Ino, Types
<1>6. dinode \in [Inums -> Ino] /\ dinode[Root] = RootIno /\ \A i \in Inums : i # Root => dinode[i] = FreeIno
  <2> HIDE DEF Root
  <2> QED  BY <1>1, <1>2, <1>4, <1>5
<1>7. \A p \in Procs : loc[p] = NoLoc /\ pc[p] = "user" /\ cwd[p] = Root /\ After(p) = "user"
  BY <1>1 DEF After, Then, Putting2
<1>8. TypeOK
  <2>1. icache \in [Inums -> [ref : Nat, valid : BOOLEAN]]  BY <1>1, <1>2
  <2>2. file \in [Files -> [ref : Nat, ip : Inums \union {Nil}, writable : BOOLEAN]]
    BY <1>1 DEF NoFile
  <2>3. ofile \in [Procs -> [Fds -> Files \union {Nil}]] /\ cwd \in [Procs -> Inums]  BY <1>1, <1>2
  <2>4. pc \in [Procs -> Places]  BY <1>1 DEF Places
  <2>5. \A p \in Procs : Len(loc[p].puts) <= 2
    <3> SUFFICES ASSUME NEW p \in Procs PROVE Len(loc[p].puts) <= 2
      OBVIOUS
    <3>1. loc[p].puts = <<>>  BY <1>7, NoLocFields
    <3> QED  BY <3>1
  <2>6. lock \in [Inums -> Procs \union {NoProc}] /\ bitmap \in SUBSET Blocks  BY <1>1, <1>2
  <2> QED  BY <1>6, <2>1, <2>2, <2>3, <2>4, <2>5, <2>6 DEF TypeOK, Ino
<1>9. LocalInv
  <2>1. LocType  BY <1>1, NoLocFields DEF LocType
  <2>2. Shapes
    <3>1. Shaped(NoLoc, "user")  BY NoLocFields DEF Shaped, Then, Putting2, Puttings
    <3> QED  BY <1>7, <3>1 DEF Shapes
  <2>3. LockInv
    <3>1. \A p \in Procs : Held(p) = Nil  BY <1>7 DEF Held, HeldAt
    <3> QED  BY <1>1, <3>1, Constants DEF LockInv
  <2> QED  BY <2>1, <2>2, <2>3 DEF LocalInv
<1>10. Typed
  <2> SUFFICES ASSUME NEW p \in Procs
               PROVE  dinode[cwd[p]].type = "dir" /\ LocTyped(loc[p], After(p)) /\ Writing(p)
    BY DEF Typed
  <2>1. dinode[cwd[p]].type = "dir"  BY <1>5, <1>6, <1>7
  <2>2. LocTyped(NoLoc, "user")  BY NoLocFields DEF LocTyped
  <2>3. Writing(p)  BY <1>7 DEF Writing
  <2> QED  BY <1>7, <2>1, <2>2, <2>3
<1>11. FilesInv  BY <1>1 DEF FilesInv, NoFile
<1>12. ValidInv  BY <1>1 DEF ValidInv
<1>13. \A d, c \in Inums, n \in Names : ~Child(d, n, c)
  <2> TAKE d, c \in Inums, n \in Names
  <2>1. CASE d = Root  BY <1>5, <1>6, <2>1 DEF Child
  <2>2. CASE d # Root  BY <1>4, <1>6, <2>2 DEF Child
  <2> QED  BY <2>1, <2>2
<1>14. DiskInv
  <2>1. EntInv
    <3> SUFFICES ASSUME NEW i \in Inums
                 PROVE  /\ dinode[i].type = "free" => dinode[i] = FreeIno
                        /\ dinode[i].type # "dir" => dinode[i].ents = NoEnts
                        /\ dinode[i].type = "dir" => dinode[i].ents["."] = i /\ dinode[i].ents[".."] # Nil
      BY DEF EntInv
    <3>1. CASE i = Root  BY <1>2, <1>5, <1>6, <3>1, Constants
    <3>2. CASE i # Root  BY <1>4, <1>6, <3>2
    <3> QED  BY <3>1, <3>2
  <2>2. RootInv  BY <1>5, <1>6 DEF RootInv
  <2>3. TreeInv  BY <1>13 DEF TreeInv
  <2> QED  BY <2>1, <2>2, <2>3 DEF DiskInv
<1>15. LinkInv
  <2> SUFFICES ASSUME NEW i \in Inums, dinode[i].type # "free"
               PROVE  dinode[i].nlink >= NameN(i) + UpN(i) + OweN(i) + One(i, Root)
    BY DEF LinkInv
  <2>1. i = Root /\ dinode[i].nlink = 1  BY <1>4, <1>5, <1>6
  <2>2. NameOf(i) = {} /\ UpOf(i) = {}  BY <1>13 DEF NameOf, UpOf
  <2>3. NameN(i) = 0 /\ UpN(i) = 0  BY <2>2, LinkNumbers, FS_EmptySet
  <2>4. OweSet(i) = {}
    <3>1. ~Owes(NoLoc, "user", i)  BY NoLocFields DEF Owes
    <3> QED  BY <1>7, <3>1 DEF OweSet
  <2>5. OweN(i) = 0  BY <2>4, FS_EmptySet DEF OweN
  <2> QED  BY <2>1, <2>3, <2>5 DEF One
<1>16. CountInv
  <2>1. RefsInv
    <3> SUFFICES ASSUME NEW i \in Inums PROVE icache[i].ref = Refs(i)
      BY DEF RefsInv
    <3>1. icache[i].ref = IF i = Root THEN Cardinality(Procs) ELSE 0  BY <1>1
    <3>2. CwdN(i) = IF i = Root THEN Cardinality(Procs) ELSE 0
      <4>1. CASE i = Root
        <5>1. {p \in Procs : cwd[p] = i} = Procs  BY <1>7, <4>1
        <5> QED  BY <4>1, <5>1 DEF CwdN
      <4>2. CASE i # Root
        <5>1. {p \in Procs : cwd[p] = i} = {}  BY <1>7, <4>2
        <5> QED  BY <4>2, <5>1, FS_EmptySet DEF CwdN
      <4> QED  BY <4>1, <4>2
    <3>3. FileN(i) = 0
      <4>1. {f \in Files : file[f].ref > 0 /\ file[f].ip = i} = {}  BY <1>1 DEF NoFile
      <4> QED  BY <4>1, FS_EmptySet DEF FileN
    <3>4. i # Nil  BY Constants
    <3>5. AtN(i) = 0
      <4>1. {p \in Procs : loc[p].at = i} = {}  BY <1>7, <3>4, NoLocFields
      <4> QED  BY <4>1, FS_EmptySet DEF AtN
    <3>6. IpN(i) = 0
      <4>1. {p \in Procs : loc[p].ip = i} = {}  BY <1>7, <3>4, NoLocFields
      <4> QED  BY <4>1, FS_EmptySet DEF IpN
    <3>7. ASSUME NEW k PROVE PutN(k, i) = 0
      <4>1. \A p \in Procs : ~Putting(p, k, i)
        <5> SUFFICES ASSUME NEW p \in Procs PROVE ~Putting(p, k, i)
          OBVIOUS
        <5>1. loc[p].puts = <<>>  BY <1>7, NoLocFields
        <5> QED  BY <5>1 DEF Putting
      <4>2. {p \in Procs : Putting(p, k, i)} = {}  BY <4>1
      <4> QED  BY <4>2, FS_EmptySet DEF PutN
    <3>8. PutN(1, i) = 0 /\ PutN(2, i) = 0  BY <3>7
    <3>9. Refs(i) = CwdN(i) + FileN(i) + AtN(i) + IpN(i) + PutN(1, i) + PutN(2, i) /\ CwdN(i) \in Nat
      BY RefParts
    <3> QED  BY <3>1, <3>2, <3>3, <3>5, <3>6, <3>8, <3>9
  <2>2. FdsInv
    <3> SUFFICES ASSUME NEW f \in Files PROVE file[f].ref = Cardinality(FdSet(f))
      BY DEF FdsInv
    <3>1. f # Nil  BY Constants
    <3>2. FdSet(f) = {}  BY <1>1, <3>1 DEF FdSet
    <3>3. file[f].ref = 0  BY <1>1 DEF NoFile
    <3> QED  BY <3>2, <3>3, FS_EmptySet
  <2>3. BlocksInv
    <3>1. dinode[Root].blks = {1} /\ \A i \in Inums : i # Root => dinode[i].blks = {}
      BY <1>4, <1>5, <1>6
    <3>2. bitmap = {1} /\ Root \in Inums  BY <1>1, <1>2
    <3> HIDE DEF Root
    <3> QED  BY <3>1, <3>2 DEF BlocksInv
  <2> QED  BY <2>1, <2>2, <2>3 DEF CountInv
<1> QED  BY <1>8, <1>9, <1>10, <1>11, <1>12, <1>14, <1>15, <1>16 DEF IInv

(* IInv holds in every state of every behaviour: each of the calls on names *)
(* and descriptors preserves it, however they interleave.                   *)
THEOREM Inductive == Spec => []IInv
<1>1. Init => IInv  BY InitInv
<1>2. IInv /\ [Next]_vars => IInv'  BY KeepsInv
<1> QED  BY <1>1, <1>2, PTL DEF Spec

-----------------------------------------------------------------------------
(* Every variable keeps its type, and no call ever has more than two inodes *)
(* to put.                                                                  *)
THEOREM TypeCorrect == Spec => []TypeOK
<1>1. IInv => TypeOK  BY DEF IInv
<1> QED  BY <1>1, Inductive, PTL

(* Counts are exact: each exit of each call, its error exits included, puts *)
(* the inodes it took, unlocks what it locked and frees the blocks of the   *)
(* inode that goes, so icache's and ftable's ref are the references there   *)
(* are and the bitmap is the blocks of the inodes.                          *)
THEOREM CountsCorrect == Spec => []CountsExact
<1>1. IInv => CountsExact
  <2> SUFFICES ASSUME IInv PROVE CountsExact
    OBVIOUS
  <2>1. ASSUME NEW i \in Inums PROVE icache[i].ref = Refs(i) /\ (lock[i] # NoProc => Has(lock[i], i))
    <3>1. icache[i].ref = Refs(i)  BY DEF IInv, CountInv, RefsInv
    <3>2. ASSUME lock[i] # NoProc PROVE Has(lock[i], i)
      <4> DEFINE q == lock[i]
      <4>1. q \in Procs  BY <3>2 DEF IInv, TypeOK
      <4>2. Held(q) = i  BY <4>1 DEF IInv, LocalInv, LockInv
      <4> HIDE DEF q
      <4>3. i # Nil  BY Constants
      <4>4. loc[q].at = i \/ loc[q].ip = i  BY <4>2, <4>3 DEF Held, HeldAt
      <4> QED  BY <4>4 DEF Has, q
    <3> QED  BY <3>1, <3>2
  <2>2. BlocksInv /\ FdsInv  BY DEF IInv, CountInv
  <2> QED  BY <2>1, <2>2 DEF CountsExact, BlocksInv, FdsInv, FdSet
<1> QED  BY <1>1, Inductive, PTL

LEMMA Linked2 ==
    ASSUME IInv, NEW i \in Linked
    PROVE  i \in Inums /\ dinode[i].type # "free" /\ \E d \in Inums, n \in Names : Child(d, n, i)
<1>1. PICK e \in Entries : Named(e) = i  BY DEF Linked
<1>2. /\ e[1] \in Inums /\ e[2] \in Names /\ e[2] \notin {".", ".."}
      /\ dinode[e[1]].type = "dir" /\ dinode[e[1]].ents[e[2]] = i /\ i # Nil
  BY <1>1 DEF Entries, Dirs, Named
<1>3. dinode[e[1]].ents[e[2]] \in Inums \union {Nil}  BY <1>2 DEF IInv, TypeOK
<1>4. i \in Inums /\ Child(e[1], e[2], i)  BY <1>2, <1>3 DEF Child
<1>5. NamedWell(e[1], e[2], i)  BY <1>2, <1>4 DEF IInv, DiskInv, TreeInv
<1> QED  BY <1>2, <1>4, <1>5 DEF NamedWell

(* An inode has the links that directories have to it: link, unlink, create *)
(* and iput never free what still has a name.                               *)
THEOREM LinksCorrect == Spec => []LinksCover
<1>1. IInv => LinksCover
  <2> SUFFICES ASSUME IInv, NEW i \in Linked \union {Root}
               PROVE  /\ dinode[i].type # "free"
                      /\ dinode[i].nlink >= Cardinality({e \in Entries : Named(e) = i})
                                           + Cardinality({d \in Dirs \cap Linked : dinode[d].ents[".."] = i})
    BY DEF LinksCover
  <2>1. i \in Inums /\ dinode[i].type # "free"
    <3>1. CASE i = Root  BY <3>1, Constants DEF IInv, DiskInv, RootInv
    <3>2. CASE i \in Linked  BY <3>2, Linked2
    <3> QED  BY <3>1, <3>2
  <2>2. dinode[i].nlink >= NameN(i) + UpN(i) + OweN(i) + One(i, Root)  BY <2>1 DEF IInv, LinkInv
  <2>3. NameN(i) \in Nat /\ UpN(i) \in Nat /\ OweN(i) \in Nat /\ dinode[i].nlink \in Int
    BY <2>1, LinkCards DEF IInv, TypeOK
  <2>4. One(i, Root) \in Nat  BY DEF One
  <2>5. dinode[i].nlink >= NameN(i) + UpN(i)  BY <2>2, <2>3, <2>4
  <2> QED  BY <2>1, <2>5 DEF NameN, UpN, NameSet, UpSet
<1> QED  BY <1>1, Inductive, PTL

-----------------------------------------------------------------------------
(* Who waits with a lock held, but in iput, is unlink for its victim.       *)
LEMMA WaitsHolding ==
    ASSUME IInv, NEW p \in Procs, NEW q \in Procs, WaitsFor(p, q), pc[p] # "put", pc[q] \in Waits \ {"put"}
    PROVE  pc[q] = "victim" /\ loc[q].at = Target(p)
<1>1. pc[p] \in Waits /\ lock[Target(p)] = q  BY DEF WaitsFor
<1>2. Target(p) \in Inums
  <2> DEFINE l == loc[p]
  <2>1. pc[p] \in {"walk", "parent", "resolved", "exists", "victim", "unlinkold", "write"}
    BY <1>1 DEF Waits
  <2>2. After(p) = pc[p]  BY <2>1, NotPutting DEF Putting2
  <2>3. l \in Local /\ Inodes(l, pc[p])  BY <2>2, Here
  <2>4. l.at \in Inums \union {Nil} /\ l.ip \in Inums \union {Nil}  BY <2>3 DEF Local
  <2>5. CASE pc[p] = "write"  BY <2>5, WriteAt
  <2>6. CASE pc[p] \in {"walk", "parent", "resolved"}
    <3>1. Target(p) = l.at  BY <2>6 DEF Target
    <3> QED  BY <2>3, <2>4, <2>6, <3>1 DEF Inodes
  <2>7. CASE pc[p] \in {"exists", "victim", "unlinkold"}
    <3>1. Target(p) = l.ip  BY <2>7 DEF Target
    <3> QED  BY <2>3, <2>4, <2>7, <3>1 DEF Inodes
  <2> QED  BY <2>1, <2>5, <2>6, <2>7
<1>3. Held(q) = Target(p) /\ Target(p) # Nil  BY <1>1, <1>2, Constants DEF IInv, LocalInv, LockInv
<1>4. After(q) = pc[q]  BY NotPutting DEF Putting2, Waits
<1> QED  BY <1>3, <1>4 DEF Held, HeldAt, Waits

LEMMA VictimChild ==
    ASSUME IInv, NEW p \in Procs, pc[p] = "victim"
    PROVE  /\ loc[p].at \in Inums /\ loc[p].ip \in Inums /\ Target(p) = loc[p].ip
           /\ Head(loc[p].path) \in Names
           /\ Child(loc[p].at, Head(loc[p].path), loc[p].ip) /\ NamedWell(loc[p].at, Head(loc[p].path), loc[p].ip)
<1> DEFINE l == loc[p]
<1>1. After(p) = "victim" /\ Target(p) = l.ip  BY DEF After, Then, Putting2, Target
<1>2. l \in Local /\ Inodes(l, "victim") /\ Args(l, "victim") /\ LocTyped(l, "victim")
  BY <1>1, Here
<1>3. l.at \in Inums /\ l.ip \in Inums /\ l.ip # Nil  BY <1>2 DEF Local, Inodes
<1>4. Head(l.path) \in Names  BY <1>2 DEF Args, Local
<1>5. Child(l.at, Head(l.path), l.ip)  BY <1>2, <1>3 DEF Child, LocTyped, Args
<1>6. NamedWell(l.at, Head(l.path), l.ip)  BY <1>3, <1>4, <1>5 DEF IInv, DiskInv, TreeInv
<1> QED  BY <1>1, <1>3, <1>4, <1>5, <1>6

(* The order of sleep locks: two calls that wait for each other are not both *)
(* on their way down the tree; one of them is in iput.                      *)
THEOREM CirclesCorrect == Spec => []CirclesNeedIput
<1>1. IInv => CirclesNeedIput
  <2> SUFFICES ASSUME IInv, NEW p \in Procs, NEW q \in Procs, WaitsFor(p, q), WaitsFor(q, p),
                      pc[p] # "put", pc[q] # "put"
               PROVE  FALSE
    BY DEF CirclesNeedIput
  <2>1. pc[p] \in Waits \ {"put"} /\ pc[q] \in Waits \ {"put"}  BY DEF WaitsFor
  <2>2. pc[q] = "victim" /\ loc[q].at = Target(p) /\ pc[p] = "victim" /\ loc[p].at = Target(q)
    BY <2>1, WaitsHolding
  <2>3. /\ loc[p].at \in Inums /\ loc[p].ip \in Inums /\ Target(p) = loc[p].ip
        /\ NamedWell(loc[p].at, Head(loc[p].path), loc[p].ip)
    BY <2>2, VictimChild
  <2>4. /\ Target(q) = loc[q].ip /\ Head(loc[q].path) \in Names
        /\ Child(loc[q].at, Head(loc[q].path), loc[q].ip)
    BY <2>2, VictimChild
  <2>5. Child(loc[p].ip, Head(loc[q].path), loc[p].at)  BY <2>2, <2>3, <2>4
  <2> QED  BY <2>3, <2>4, <2>5 DEF NamedWell
<1> QED  BY <1>1, Inductive, PTL

-----------------------------------------------------------------------------
(* What a step writes: a row that keeps its type, its blocks and its place   *)
(* in the tree, a freed inode that nobody refers to, or a new one.          *)
Fits(d, r) ==
    /\ r.type = dinode[d].type /\ dinode[d].blks \subseteq r.blks /\ r.ents[".."] = dinode[d].ents[".."]
    /\ \A k \in Names : r.ents[k] = dinode[d].ents[k] \/ r.ents[k] = Nil \/ dinode[r.ents[k]].type # "dir"
Rewrites(d) == \E r : dinode' = [dinode EXCEPT ![d] = r] /\ Fits(d, r)
Frees(j) ==
    /\ dinode' = [dinode EXCEPT ![j] = FreeIno]
    /\ \A q \in Procs : cwd[q] # j /\ loc[q].at # j /\ loc[q].ip # j
    /\ \A f \in Files : file[f].ref > 0 => file[f].ip # j
Fresh(x) ==
    /\ dinode[x].type = "free" /\ dinode'[x].type # "free"
    /\ \A i \in Inums : i # x => /\ dinode'[i].type = dinode[i].type /\ dinode'[i].blks = dinode[i].blks
                                 /\ dinode'[i].ents[".."] = dinode[i].ents[".."]
    /\ \A d, c \in Inums, k \in Names : Child(d, k, c)' => Child(d, k, c) \/ c = x

LEMMA RowFits ==
    ASSUME NEW d, NEW r, r.type = dinode[d].type, r.ents = dinode[d].ents, dinode[d].blks \subseteq r.blks
    PROVE  Fits(d, r)
BY DEF Fits

LEMMA CreateFresh ==
    ASSUME IInv, NEW p \in Procs, Create(p), Dirlookup(loc[p].at, Head(loc[p].path)) = Nil,
           FreeInodes # {}, ~(loc[p].call = "mkdir" /\ FreeBlocks = {})
    PROVE  \E x \in Inums : Fresh(x)
<1> DEFINE dp == loc[p].at  n == Head(loc[p].path)  t == TypeOf(loc[p].call)
<1>1. dinode \in [Inums -> Ino]  BY DEF IInv, TypeOK, Ino
<1>2. /\ t \in {"dir", "dev", "file"} /\ dp \in Inums /\ dinode[dp].type = "dir"
      /\ n \in Names /\ n \notin {".", ".."} /\ dinode[dp].ents[n] = Nil /\ WritesNew(p, dp, n, t)
  BY CreateWrites
<1>3. PICK x \in Inums, new \in SUBSET Blocks, z \in Int : NewWith(p, dp, n, t, x, new, z)
  BY <1>2 DEF WritesNew
<1>4. /\ dinode[x].type = "free" /\ new \cap bitmap = {} /\ z = dinode[dp].nlink + Plus(t)
      /\ dinode' = WithTwo(x, NewIno(x, dp, t, new), dp, SetEnt(dinode[dp], n, x, z))
      /\ bitmap' = bitmap \union new
  BY <1>3 DEF NewWith
<1>5. /\ dinode'[x].type = t
      /\ \A i \in Inums : i # x => dinode'[i].type = dinode[i].type
      /\ \A i \in Inums : i # x /\ i # dp => dinode'[i] = dinode[i]
      /\ \A i \in Inums : i # x => dinode'[i].ents[".."] = dinode[i].ents[".."]
      /\ \A d, c \in Inums, k \in Names : Child(d, k, c)' => Child(d, k, c) \/ c = x
  <2> HIDE DEF n, dp, t
  <2> QED  BY <1>2, <1>3, <1>4, NewEntry
<1>6. dinode'[dp].blks = dinode[dp].blks
  <2> DEFINE a == NewIno(x, dp, t, new)
             r0 == dinode[dp]
             b == SetEnt(r0, n, x, z)
  <2>1. r0 \in Ino /\ b = SetEnt(r0, n, x, z)  BY <1>1, <1>2
  <2>2. b.blks = r0.blks
    <3> HIDE DEF r0, b, n
    <3> QED  BY <1>2, <1>3, <2>1, RowEnt
  <2>3. dinode'[dp] = b
    <3>1. dinode' = [dinode EXCEPT ![x] = a, ![dp] = b]  BY <1>4 DEF WithTwo
    <3> HIDE DEF a, b, dp
    <3> QED  BY <1>1, <1>2, <3>1
  <2> QED  BY <2>2, <2>3
<1>7. Fresh(x)
  <2>1. \A i \in Inums : i # x => dinode'[i].blks = dinode[i].blks  BY <1>5, <1>6
  <2>2. dinode'[x].type # "free"  BY <1>2, <1>5
  <2> HIDE DEF dp, n, t
  <2> QED  BY <1>4, <1>5, <2>1, <2>2 DEF Fresh
<1> QED  BY <1>3, <1>7

LEMMA StepWrites ==
    ASSUME IInv, NEW p \in Procs, Step(p)
    PROVE  \/ UNCHANGED dinode
           \/ \E d \in Inums : Rewrites(d) \/ Frees(d)
           \/ \E x \in Inums : Fresh(x)
<1> DEFINE l == loc[p]
<1>1. dinode \in [Inums -> Ino] /\ ".." \in Names  BY Constants DEF IInv, TypeOK, Ino
<1>2. CASE Put(p)
  <2> DEFINE j == Head(l.puts)
  <2>1. CASE icache[j].valid /\ dinode[j].nlink = 0 /\ icache[j].ref = 1 /\ CanTrunc(j)
    <3>1. dinode' = [dinode EXCEPT ![j] = FreeIno]  BY <1>2, <2>1 DEF Put
    <3>2. At(p, "put")  BY <1>2 DEF Put
    <3>3. l.puts # <<>> /\ l \in Local  BY <3>2, Here DEF At, Putting2, Puttings
    <3>4. Putting(p, 1, j) /\ j \in Inums  BY <3>3 DEF Putting, Local
    <3>5. \A q \in Procs : cwd[q] # j /\ loc[q].at # j /\ loc[q].ip # j  BY <2>1, <3>4, Sole
    <3>6. \A f \in Files : file[f].ref > 0 => file[f].ip # j  BY <2>1, <3>4, Sole
    <3>7. Frees(j)  BY <3>1, <3>5, <3>6 DEF Frees
    <3> QED  BY <3>4, <3>7
  <2>2. CASE ~(icache[j].valid /\ dinode[j].nlink = 0 /\ icache[j].ref = 1 /\ CanTrunc(j))
    BY <1>2, <2>2 DEF Put, Panic, disk
  <2> QED  BY <2>1, <2>2
<1>3. CASE Create(p)
  <2> DEFINE dp == l.at  n == Head(l.path)
  <2>1. CASE Dirlookup(dp, n) # Nil \/ FreeInodes = {} \/ (l.call = "mkdir" /\ FreeBlocks = {})
    BY <1>3, <2>1 DEF Create, FreeInodes, disk
  <2>2. CASE Dirlookup(dp, n) = Nil /\ FreeInodes # {} /\ ~(l.call = "mkdir" /\ FreeBlocks = {})
    BY <1>3, <2>2, CreateFresh
  <2> QED  BY <2>1, <2>2
<1>4. CASE LinkOld(p)
  <2> DEFINE d == l.at
             r == [dinode[d] EXCEPT !.nlink = dinode[d].nlink + 1]
  <2>1. CASE dinode[d].type = "dir"  BY <1>4, <2>1 DEF LinkOld
  <2>2. CASE dinode[d].type # "dir"
    <3>1. dinode' = [dinode EXCEPT ![d] = r]  BY <1>4, <2>2 DEF LinkOld
    <3>2. Locks(p, "resolved")  BY <1>4 DEF LinkOld
    <3>3. d \in Inums  BY <3>2, WaitsAt
    <3>4. r.type = dinode[d].type /\ r.ents = dinode[d].ents /\ r.blks = dinode[d].blks
      BY <1>1, <3>3 DEF Ino
    <3> HIDE DEF r
    <3>5. Fits(d, r)  BY <3>4, RowFits
    <3> QED  BY <3>1, <3>3, <3>5 DEF Rewrites
  <2> QED  BY <2>1, <2>2
<1>5. CASE LinkNew(p)
  <2> DEFINE d == l.at
             n == Head(l.path)
             e == [dinode[d].ents EXCEPT ![n] = l.ip]
             r == [dinode[d] EXCEPT !.ents = e]
  <2>1. CASE Dirlookup(d, n) # Nil  BY <1>5, <2>1 DEF LinkNew
  <2>2. CASE Dirlookup(d, n) = Nil
    <3>1. dinode' = [dinode EXCEPT ![d] = r]  BY <1>5, <2>2 DEF LinkNew
    <3>2. Locks(p, "parent") /\ l.call = "link"  BY <1>5 DEF LinkNew
    <3>3. d \in Inums /\ LocTyped(l, "parent") /\ Inodes(l, "parent") /\ Making(l, "parent") /\ l \in Local
      BY <3>2, WaitsAt
    <3>4. dinode[d] \in Ino /\ dinode[d].ents \in [Names -> Inums \union {Nil}]
      BY <1>1, <3>3 DEF Ino
    <3>5. r.type = dinode[d].type /\ r.ents = e /\ r.blks = dinode[d].blks
      <4> HIDE DEF e
      <4> QED  BY <3>4 DEF Ino
    <3>6. dinode[l.ip].type # "dir" /\ dinode[d].type = "dir"
      BY <3>2, <3>3 DEF LocTyped, Making, Parent
    <3>7. n # ".."
      <4>1. dinode[d].ents[".."] # Nil  BY <3>3, <3>6 DEF IInv, DiskInv, EntInv
      <4> QED  BY <2>2, <4>1 DEF Dirlookup
    <3>8. \A k \in Names : e[k] = IF k = n THEN l.ip ELSE dinode[d].ents[k]
      <4> HIDE DEF n
      <4> QED  BY <3>4
    <3>9. e[".."] = dinode[d].ents[".."]  BY <3>7, <3>8, Constants
    <3> HIDE DEF r, e
    <3>10. \A k \in Names : r.ents[k] = dinode[d].ents[k] \/ r.ents[k] = Nil \/ dinode[r.ents[k]].type # "dir"
      BY <3>5, <3>6, <3>8
    <3>11. Fits(d, r)  BY <3>5, <3>9, <3>10 DEF Fits
    <3> HIDE DEF d
    <3> QED  BY <3>1, <3>3, <3>11 DEF Rewrites
  <2> QED  BY <2>1, <2>2
<1>6. CASE UnlinkOld(p)
  <2> DEFINE d == l.ip
             r == [dinode[d] EXCEPT !.nlink = dinode[d].nlink - 1]
  <2>1. dinode' = [dinode EXCEPT ![d] = r] /\ Locks(p, "unlinkold")  BY <1>6 DEF UnlinkOld
  <2>2. d \in Inums  BY <2>1, WaitsAt
  <2>3. r.type = dinode[d].type /\ r.ents = dinode[d].ents /\ r.blks = dinode[d].blks
    BY <1>1, <2>2 DEF Ino
  <2> HIDE DEF r
  <2>4. Fits(d, r)  BY <2>3, RowFits
  <2> QED  BY <2>1, <2>2, <2>4 DEF Rewrites
<1>7. CASE Victim(p)
  <2> DEFINE d == l.at
             n == Head(l.path)
             isdir == dinode[l.ip].type = "dir"
             e == [dinode[d].ents EXCEPT ![n] = Nil]
             z == IF isdir THEN dinode[d].nlink - 1 ELSE dinode[d].nlink
             r == [dinode[d] EXCEPT !.ents = e, !.nlink = z]
  <2>1. CASE dinode[l.ip].nlink < 1 \/ (isdir /\ ~IsDirEmpty(l.ip))  BY <1>7, <2>1 DEF Victim
  <2>2. CASE ~(dinode[l.ip].nlink < 1) /\ ~(isdir /\ ~IsDirEmpty(l.ip))
    <3>1. Locks(p, "victim")  BY <1>7 DEF Victim
    <3>2. d \in Inums /\ n \in Names /\ n \notin {".", ".."}  BY <3>1, VictimAt DEF Child
    <3>3. dinode' = [dinode EXCEPT ![d].ents[n] = Nil, ![d].nlink = IF isdir THEN @ - 1 ELSE @]
      BY <1>7, <2>2 DEF Victim
    <3>4. dinode[d] \in Ino /\ dinode[d].ents \in [Names -> Inums \union {Nil}]
      BY <1>1, <3>2 DEF Ino
    <3>5. dinode' = [dinode EXCEPT ![d] = r]  BY <1>1, <3>2, <3>3, <3>4 DEF Ino
    <3>6. r.type = dinode[d].type /\ r.ents = e /\ r.blks = dinode[d].blks
      <4> HIDE DEF e, z
      <4> QED  BY <3>4 DEF Ino
    <3>7. \A k \in Names : e[k] = IF k = n THEN Nil ELSE dinode[d].ents[k]
      <4> HIDE DEF n
      <4> QED  BY <3>4
    <3>8. e[".."] = dinode[d].ents[".."]  BY <3>2, <3>7, Constants
    <3> HIDE DEF r, e
    <3>9. \A k \in Names : r.ents[k] = dinode[d].ents[k] \/ r.ents[k] = Nil \/ dinode[r.ents[k]].type # "dir"
      BY <3>6, <3>7
    <3>10. Fits(d, r)  BY <3>6, <3>8, <3>9 DEF Fits
    <3> HIDE DEF d
    <3> QED  BY <3>2, <3>5, <3>10 DEF Rewrites
  <2> QED  BY <2>1, <2>2
<1>8. CASE Unlinked(p)
  <2> DEFINE d == l.ip
             r == [dinode[d] EXCEPT !.nlink = dinode[d].nlink - 1]
  <2>1. dinode' = [dinode EXCEPT ![d] = r] /\ At(p, "unlinked")  BY <1>8 DEF Unlinked
  <2>2. d \in Inums
    <3>1. After(p) = "unlinked"  BY <2>1 DEF At, After, Then, Putting2
    <3>2. l \in Local /\ Inodes(l, "unlinked")  BY <3>1, Here
    <3> QED  BY <3>2 DEF Local, Inodes
  <2>3. r.type = dinode[d].type /\ r.ents = dinode[d].ents /\ r.blks = dinode[d].blks
    BY <1>1, <2>2 DEF Ino
  <2> HIDE DEF r
  <2>4. Fits(d, r)  BY <2>3, RowFits
  <2> QED  BY <2>1, <2>2, <2>4 DEF Rewrites
<1>9. CASE Writei(p)
  <2> DEFINE d == Target(p)
             new == Balloc(NewBlocks(dinode[d].len))
             r == [dinode[d] EXCEPT !.len = dinode[d].len + 1, !.blks = dinode[d].blks \union new]
  <2>1. CASE Cardinality(FreeBlocks) < NewBlocks(dinode[d].len)  BY <1>9, <2>1 DEF Writei, disk
  <2>2. CASE ~(Cardinality(FreeBlocks) < NewBlocks(dinode[d].len))
    <3>1. Locks(p, "write") /\ pc[p] = "write"  BY <1>9 DEF Writei, Locks, At
    <3>2. d \in Inums  BY <3>1, WriteAt
    <3>3. dinode[d] \in Ino  BY <1>1, <3>2
    <3>4. dinode' = [dinode EXCEPT ![d] = r]
      <4>1. dinode' = [dinode EXCEPT ![d].len = @ + 1, ![d].blks = @ \union new]
        BY <1>9, <2>2 DEF Writei
      <4> HIDE DEF new, d
      <4> QED  BY <1>1, <3>2, <3>3, <4>1 DEF Ino
    <3>5. r.type = dinode[d].type /\ r.ents = dinode[d].ents /\ r.blks = dinode[d].blks \union new
      <4> HIDE DEF new, d
      <4> QED  BY <3>3 DEF Ino
    <3> HIDE DEF r
    <3>6. Fits(d, r)  BY <3>5, RowFits
    <3> QED  BY <3>2, <3>4, <3>6 DEF Rewrites
  <2> QED  BY <2>1, <2>2
<1>10. CASE ~(Put(p) \/ Create(p) \/ LinkOld(p) \/ LinkNew(p) \/ UnlinkOld(p) \/ Victim(p) \/ Unlinked(p) \/ Writei(p))
  BY <1>10 DEF Step, IlockPanics, Panic, Walk, Drop, Exists, Made, Open, Opening, Chdir,
     UnlockDir, Unlink, disk
<1> QED  BY <1>2, <1>3, <1>4, <1>5, <1>6, <1>7, <1>8, <1>9, <1>10

LEMMA UsedTyped ==
    ASSUME IInv, NEW i \in Inums, InUse(i)
    PROVE  dinode[i].type # "free"
<1>1. CASE \E p \in Procs : cwd[p] = i  BY <1>1, Here
<1>2. CASE \E f \in Files : file[f].ref > 0 /\ file[f].ip = i  BY <1>2 DEF IInv, FilesInv
<1> QED  BY <1>1, <1>2 DEF InUse

Keeps(i) == dinode'[i].type = dinode[i].type /\ dinode[i].blks \subseteq dinode'[i].blks
LEMMA KeepsUsed ==
    ASSUME IInv, NEW p \in Procs, Step(p), NEW i \in Inums, InUse(i)
    PROVE  Keeps(i)
<1>1. dinode \in [Inums -> Ino]  BY DEF IInv, TypeOK, Ino
<1>2. CASE UNCHANGED dinode  BY <1>2 DEF Keeps
<1>3. ASSUME NEW d \in Inums, Rewrites(d) PROVE Keeps(i)
  <2>1. PICK r : dinode' = [dinode EXCEPT ![d] = r] /\ Fits(d, r)  BY <1>3 DEF Rewrites
  <2>2. dinode'[i] = IF i = d THEN r ELSE dinode[i]  BY <1>1, <2>1
  <2> QED  BY <2>1, <2>2 DEF Keeps, Fits
<1>4. ASSUME NEW j \in Inums, Frees(j) PROVE Keeps(i)
  <2>1. i # j  BY <1>4 DEF Frees, InUse
  <2>2. dinode'[i] = dinode[i]  BY <1>1, <1>4, <2>1 DEF Frees
  <2> QED  BY <2>2 DEF Keeps
<1>5. ASSUME NEW x \in Inums, Fresh(x) PROVE Keeps(i)
  <2>1. i # x  BY <1>5, UsedTyped DEF Fresh
  <2> QED  BY <1>5, <2>1 DEF Keeps, Fresh
<1> QED  BY <1>2, <1>3, <1>4, <1>5, StepWrites

(* An open file and a current directory keep their type and their blocks    *)
(* whatever is unlinked and put meanwhile: iput frees an inode only with    *)
(* the last reference to it.                                                *)
THEOREM OpenCorrect == Spec => OpenStays
<1>1. IInv /\ [Next]_vars =>
        [\A i \in Inums : InUse(i) /\ InUse(i)' =>
            dinode'[i].type = dinode[i].type /\ dinode[i].blks \subseteq dinode'[i].blks]_vars
  <2> SUFFICES ASSUME IInv, Next, NEW i \in Inums, InUse(i) PROVE Keeps(i)
    BY DEF Keeps
  <2> PICK p \in Procs :
         \/ Step(p)
         \/ \E c \in Calls(p) : Len(c) > 1 /\ Call(p, c)
         \/ \E d \in Fds : Dup(p, d) \/ Close(p, d) \/ Write(p, d)
    BY DEF Next
  <2>1. CASE Step(p)  BY <2>1, KeepsUsed
  <2>2. CASE ~Step(p)
    BY <2>2 DEF Call, Dup, Close, Write, disk, Keeps
  <2> QED  BY <2>1, <2>2
<1> QED  BY <1>1, Inductive, PTL DEF Spec, OpenStays

-----------------------------------------------------------------------------
(* A call comes to a free inode only out of a removed current directory c.  *)
FromUp(c, i) == dinode[i].type = "free" => dinode[c].ents[".."] = i /\ c \notin Linked
Climbs(l, c) == UpFirst(l.call, l.path) /\ (l.at # c => Refused(l.call, l.path, 1))
Soft(l, v, c) ==
    /\ l.at # Nil => FromUp(c, l.at)
    /\ v = "exists" => FromUp(c, l.ip)
    /\ v \in {"walk", "parent"} => Climbs(l, c)
    /\ l.call = "link" => UpFirst("link", l.new)
SoftInv == \A p \in Procs : Soft(loc[p], After(p), cwd[p])
PanicInv == NoInternalPanic /\ (panic = "none" => SoftInv)

Frame(p) == \A q \in Procs : q # p => loc'[q] = loc[q] /\ After(q)' = After(q) /\ cwd'[q] = cwd[q]
(* No inode goes but j, no directory is moved and none comes to have a name. *)
TreeSoft(j) ==
    /\ \A i \in Inums : i # j /\ dinode'[i].type = "free" => dinode[i].type = "free"
    /\ \A c \in Inums : c # j /\ dinode[c].type = "dir" =>
          dinode'[c].ents[".."] = dinode[c].ents[".."] /\ (c \in Linked' => c \in Linked)

Referred(i) == \E q \in Procs : cwd[q] = i \/ loc[q].at = i \/ loc[q].ip = i
LEMMA StepSoft ==
    ASSUME IInv, NEW p \in Procs, Step(p)
    PROVE  \E j \in Inums \union {Nil} : TreeSoft(j) /\ (j # Nil => ~Referred(j))
<1>1. dinode \in [Inums -> Ino] /\ Nil \in Inums \union {Nil}  BY DEF IInv, TypeOK, Ino
<1>2. CASE UNCHANGED dinode
  <2>1. TreeSoft(Nil)  BY <1>2 DEF TreeSoft, Linked, Named, Entries, Dirs
  <2> QED  BY <1>1, <2>1
<1>3. ASSUME NEW d \in Inums, Rewrites(d) PROVE TreeSoft(Nil)
  <2>1. PICK r : dinode' = [dinode EXCEPT ![d] = r] /\ Fits(d, r)  BY <1>3 DEF Rewrites
  <2>2. \A i \in Inums : dinode'[i] = IF i = d THEN r ELSE dinode[i]  BY <1>1, <2>1
  <2>3. \A i \in Inums : dinode'[i].type = dinode[i].type /\ dinode'[i].ents[".."] = dinode[i].ents[".."]
    BY <2>1, <2>2 DEF Fits
  <2>4. ASSUME NEW c \in Inums, dinode[c].type = "dir", c \in Linked' PROVE c \in Linked
    <3>1. PICK e \in Inums, n \in Names : Child(e, n, c)'  BY <2>4, LinkedIs
    <3>2. dinode'[e].type = "dir" /\ n \notin {".", ".."} /\ dinode'[e].ents[n] = c /\ c # Nil
      BY <3>1 DEF Child
    <3>3. Child(e, n, c)
      <4>1. CASE e = d  BY <2>1, <2>2, <2>3, <2>4, <3>2, <4>1 DEF Child, Fits
      <4>2. CASE e # d  BY <2>2, <3>2, <4>2 DEF Child
      <4> QED  BY <4>1, <4>2
    <3> QED  BY <3>3, LinkedIs
  <2> QED  BY <2>3, <2>4 DEF TreeSoft
<1>4. ASSUME NEW j \in Inums, Frees(j) PROVE TreeSoft(j) /\ ~Referred(j)
  <2>1. \A i \in Inums : dinode'[i] = IF i = j THEN FreeIno ELSE dinode[i]  BY <1>1, <1>4 DEF Frees
  <2>2. ASSUME NEW c \in Inums, c # j, c \in Linked' PROVE c \in Linked
    <3>1. PICK e \in Inums, n \in Names : Child(e, n, c)'  BY <2>2, LinkedIs
    <3>2. e # j  BY <2>1, <3>1 DEF Child, FreeIno
    <3>3. Child(e, n, c)  BY <2>1, <3>1, <3>2 DEF Child
    <3> QED  BY <3>3, LinkedIs
  <2>3. ~Referred(j)  BY <1>4 DEF Frees, Referred
  <2> QED  BY <2>1, <2>2, <2>3 DEF TreeSoft
<1>5. ASSUME NEW x \in Inums, Fresh(x) PROVE TreeSoft(Nil)
  <2>1. ASSUME NEW c \in Inums, dinode[c].type = "dir", c \in Linked' PROVE c \in Linked
    <3>1. c # x  BY <1>5, <2>1 DEF Fresh
    <3>2. \E d \in Inums, k \in Names : Child(d, k, c)'  BY <2>1, LinkedIs
    <3> QED  BY <1>5, <3>1, <3>2, LinkedIs DEF Fresh
  <2> QED  BY <1>5, <2>1 DEF TreeSoft, Fresh
<1> QED  BY <1>1, <1>2, <1>3, <1>4, <1>5, StepWrites

-----------------------------------------------------------------------------
(* Who makes the step.                                                      *)
LEMMA StepFrame ==
    ASSUME IInv, NEW p \in Procs, Step(p)
    PROVE  Frame(p)
<1>1. loc \in [Procs -> Local] /\ pc \in [Procs -> Places] /\ cwd \in [Procs -> Inums]
  BY DEF IInv, TypeOK, LocalInv, LocType
<1>2. SUFFICES ASSUME NEW q \in Procs, q # p
               PROVE  loc'[q] = loc[q] /\ pc'[q] = pc[q] /\ cwd'[q] = cwd[q]
  BY DEF Frame, After
<1>3. ASSUME NEW s, NEW then, NEW l, Puts(p, s, then, l) PROVE loc'[q] = loc[q] /\ pc'[q] = pc[q]
  BY <1>1, <1>2, <1>3 DEF Puts, Goes
<1>4. ASSUME NEW s, Return(p, s) PROVE loc'[q] = loc[q] /\ pc'[q] = pc[q]
  BY <1>3, <1>4 DEF Return
<1>5. ASSUME NEW w, Goes(p, w) PROVE pc'[q] = pc[q]
  BY <1>1, <1>2, <1>5 DEF Goes
<1>6. ASSUME NEW path, NEW l, NEW c, Resolve(p, path, l, c) PROVE loc'[q] = loc[q] /\ pc'[q] = pc[q]
  BY <1>1, <1>2, <1>6 DEF Resolve, Goes
<1>7. CASE Chdir(p)  BY <1>1, <1>2, <1>4, <1>7 DEF Chdir
<1>8. CASE UNCHANGED fds
  <2>1. cwd' = cwd  BY <1>8 DEF fds
  <2>2. CASE IlockPanics(p)  BY <2>1, <2>2 DEF IlockPanics, Panic
  <2>3. CASE Walk(p)  BY <1>3, <1>4, <1>5, <2>1, <2>3 DEF Walk
  <2>4. CASE Put(p)  BY <1>5, <2>1, <2>4 DEF Put, Panic
  <2>5. CASE Drop(p)  BY <1>1, <1>2, <1>5, <2>1, <2>5 DEF Drop
  <2>6. CASE Create(p)  BY <1>3, <2>1, <2>6 DEF Create
  <2>7. CASE Exists(p)  BY <1>4, <1>5, <2>1, <2>7 DEF Exists
  <2>8. CASE Made(p)  BY <1>4, <2>1, <2>8 DEF Made
  <2>9. CASE Open(p)  BY <1>1, <1>2, <1>4, <1>5, <2>1, <2>9 DEF Open
  <2>10. CASE LinkOld(p)  BY <1>4, <1>6, <2>1, <2>10 DEF LinkOld
  <2>11. CASE LinkNew(p)  BY <1>3, <1>4, <2>1, <2>11 DEF LinkNew
  <2>12. CASE UnlockDir(p)  BY <1>3, <1>4, <2>1, <2>12 DEF UnlockDir
  <2>13. CASE UnlinkOld(p)  BY <1>4, <2>1, <2>13 DEF UnlinkOld
  <2>14. CASE Unlink(p)  BY <1>1, <1>2, <1>4, <1>5, <2>1, <2>14 DEF Unlink
  <2>15. CASE Victim(p)  BY <1>3, <2>1, <2>15 DEF Victim
  <2>16. CASE Unlinked(p)  BY <1>4, <2>1, <2>16 DEF Unlinked
  <2>17. CASE Writei(p)  BY <1>1, <1>2, <1>5, <2>1, <2>17 DEF Writei
  <2>18. CASE Opening(p) \/ Chdir(p)  BY <1>1, <1>2, <1>4, <1>5, <1>7, <2>1, <2>18 DEF Opening
  <2> QED
    BY <2>2, <2>3, <2>4, <2>5, <2>6, <2>7, <2>8, <2>9, <2>10, <2>11, <2>12, <2>13, <2>14, <2>15,
       <2>16, <2>17, <2>18 DEF Step
<1>9. CASE Opening(p)  BY <1>1, <1>2, <1>4, <1>5, <1>9 DEF Opening, fds
<1>10. ~Chdir(p) /\ ~Opening(p) => UNCHANGED fds
  BY DEF Step, IlockPanics, Panic, Walk, Put, Drop, Create, Exists, Made, Open, LinkOld,
     LinkNew, UnlockDir,
         UnlinkOld, Unlink, Victim, Unlinked, Writei, fds
<1> QED  BY <1>7, <1>8, <1>9, <1>10

(* A call that stays where it is ...                                        *)
LEMMA SoftKeeps ==
    ASSUME IInv, SoftInv, NEW j, TreeSoft(j), j # Nil => ~Referred(j), NEW q \in Procs, cwd'[q] = cwd[q],
           After(q)' = After(q), loc'[q].call = loc[q].call, loc'[q].path = loc[q].path, loc'[q].new = loc[q].new,
           loc'[q].at = loc[q].at, loc'[q].ip = loc[q].ip
    PROVE  Soft(loc[q], After(q), cwd[q])'
<1> DEFINE l == loc[q]  v == After(q)  c == cwd[q]
<1>1. Soft(l, v, c)  BY DEF SoftInv
<1>2. l \in Local /\ Inodes(l, v) /\ dinode[c].type = "dir" /\ c \in Inums  BY Here
<1>3. c # j  BY <1>2, Constants DEF Referred
<1>4. ASSUME NEW i \in Inums, l.at = i \/ l.ip = i, FromUp(c, i) PROVE FromUp(cwd[q], i)'
  <2>1. i # j  BY <1>4, Constants DEF Referred
  <2> SUFFICES ASSUME dinode'[i].type = "free" PROVE dinode'[cwd'[q]].ents[".."] = i /\ cwd'[q] \notin Linked'
    BY DEF FromUp
  <2>2. dinode[i].type = "free"  BY <2>1 DEF TreeSoft
  <2>3. dinode[c].ents[".."] = i /\ c \notin Linked  BY <1>4, <2>2 DEF FromUp
  <2>4. dinode'[c].ents[".."] = dinode[c].ents[".."] /\ (c \in Linked' => c \in Linked)
    BY <1>2, <1>3 DEF TreeSoft
  <2> QED  BY <2>3, <2>4
<1>5. l.at \in Inums \union {Nil} /\ l.ip \in Inums \union {Nil} /\ (v = "exists" => l.ip # Nil)
  BY <1>2 DEF Local, Inodes
<1>6. loc'[q].at # Nil => FromUp(cwd[q], loc[q].at)'
  <2> SUFFICES ASSUME l.at # Nil PROVE FromUp(cwd[q], loc[q].at)'
    OBVIOUS
  <2>1. PICK i \in Inums : l.at = i  BY <1>5
  <2>2. FromUp(cwd[q], i)'  BY <1>1, <1>4, <2>1 DEF Soft
  <2> QED  BY <2>1, <2>2 DEF FromUp
<1>7. After(q)' = "exists" => FromUp(cwd[q], loc[q].ip)'
  <2> SUFFICES ASSUME v = "exists" PROVE FromUp(cwd[q], loc[q].ip)'
    OBVIOUS
  <2>1. PICK i \in Inums : l.ip = i  BY <1>5
  <2>2. FromUp(cwd[q], i)'  BY <1>1, <1>4, <2>1 DEF Soft
  <2> QED  BY <2>1, <2>2 DEF FromUp
<1>8. After(q)' \in {"walk", "parent"} => Climbs(loc[q], cwd[q])'
  BY <1>1 DEF Soft, Climbs, UpFirst, Refused
<1>9. loc'[q].call = "link" => UpFirst("link", loc'[q].new)  BY <1>1 DEF Soft
<1> QED  BY <1>6, <1>7, <1>8, <1>9 DEF Soft, UpFirst, Refused

(* ... or gets to a place where it has only inodes with types.              *)
LEMMA SoftCalm ==
    ASSUME IInv, SoftInv, IInv', NEW p \in Procs, After(p)' \notin {"walk", "parent", "resolved", "exists"},
           loc'[p].call = "link" => loc[p].call = "link" /\ loc'[p].new = loc[p].new
    PROVE  Soft(loc[p], After(p), cwd[p])'
<1>1. loc'[p].at # Nil => After(p)' \in {"victim", "unlockdir"}
  BY DEF IInv, LocalInv, Shapes, Shaped, Inodes, After
<1>2. After(p)' \in {"victim", "unlockdir"} => dinode'[loc'[p].at].type = "dir"
  BY DEF IInv, Typed, LocTyped
<1>3. loc'[p].at # Nil => FromUp(cwd[p], loc[p].at)'  BY <1>1, <1>2 DEF FromUp
<1>4. loc'[p].call = "link" => UpFirst("link", loc'[p].new)  BY DEF SoftInv, Soft
<1> QED  BY <1>3, <1>4 DEF Soft, UpFirst, Refused

LEMMA PutsAfter ==
    ASSUME IInv, NEW p \in Procs, NEW s, NEW then, NEW l \in Local, Puts(p, s, then, l), then \notin Putting2
    PROVE  /\ After(p)' = then /\ loc'[p].call = l.call /\ loc'[p].new = l.new /\ loc'[p].path = l.path
           /\ loc'[p].at = l.at /\ loc'[p].ip = l.ip
<1> DEFINE m == [l EXCEPT !.puts = s, !.then = then]
<1>1. loc \in [Procs -> Local] /\ pc \in [Procs -> Places]  BY DEF IInv, TypeOK, LocalInv, LocType
<1>2. /\ m.call = l.call /\ m.new = l.new /\ m.path = l.path /\ m.at = l.at /\ m.ip = l.ip /\ m.then = then
  BY DEF Local
<1>3. loc' = [loc EXCEPT ![p] = m] /\ pc' = [pc EXCEPT ![p] = "put"]  BY DEF Puts, Goes
<1> HIDE DEF m
<1>4. loc'[p] = m /\ pc'[p] = "put"  BY <1>1, <1>3
<1> QED  BY <1>2, <1>4 DEF After, Then, Putting2

LEMMA ReturnAfter ==
    ASSUME IInv, NEW p \in Procs, NEW s, Return(p, s)
    PROVE  After(p)' = "user" /\ loc'[p].call = "none"
BY PutsAfter, NoLocFields DEF Return, Putting2

(* Paths start at the root or where the process is.                         *)
LEMMA ResolveSoft ==
    ASSUME IInv, SoftInv, IInv', NEW p \in Procs, NEW path, NEW l \in Local, NEW c, Resolve(p, path, l, c),
           IsPath(path), cwd' = cwd, UpFirst(l.call, path), l.call = "link" => UpFirst("link", l.new)
    PROVE  Soft(loc[p], After(p), cwd[p])'
<1> DEFINE abs == Head(path) = "/"
           start == IF abs THEN Root ELSE cwd[p]
           names == IF abs THEN Tail(path) ELSE path
           m == [l EXCEPT !.path = names, !.at = start]
           w == IF names = <<>> THEN "resolved" ELSE "walk"
<1>1. loc \in [Procs -> Local] /\ pc \in [Procs -> Places]  BY DEF IInv, TypeOK, LocalInv, LocType
<1>2. loc' = [loc EXCEPT ![p] = m] /\ pc' = [pc EXCEPT ![p] = w]  BY DEF Resolve, Goes
<1>3. m.call = l.call /\ m.new = l.new /\ m.path = names /\ m.at = start
  <2> HIDE DEF names, start
  <2> QED  BY DEF Local
<1>4. loc'[p] = m /\ pc'[p] = w
  <2> HIDE DEF m, w
  <2> QED  BY <1>1, <1>2
<1> HIDE DEF m
<1>5. After(p)' = w  BY <1>4 DEF After, Then, Putting2
<1>6. dinode'[start].type = "dir"
  <2>1. dinode'[Root].type = "dir" /\ dinode'[cwd'[p]].type = "dir"
    BY DEF IInv, DiskInv, RootInv, Typed, Root
  <2> QED  BY <2>1
<1>7. UpFirst(l.call, names) /\ (abs /\ names # <<>> => Refused(l.call, names, 1))
  <2>1. CASE ~abs  BY <2>1
  <2>2. CASE abs
    <3>1. names = Tail(path) /\ path \in Seq(Names \union {"/"}) /\ path # <<>>  BY <2>2 DEF IsPath
    <3> HIDE DEF names
    <3>2. Len(names) = Len(path) - 1 /\ Len(path) \in Nat /\ \A k \in 1 .. Len(names) : names[k] = path[k + 1]
      BY <3>1
    <3>3. \A k \in 1 .. Len(names) : k + 1 \in 2 .. Len(path)  BY <3>2
    <3>4. \A k \in 1 .. Len(names) : Refused(l.call, names, k)
      <4> TAKE k \in 1 .. Len(names)
      <4>1. Refused(l.call, path, k + 1) /\ names[k] = path[k + 1]  BY <3>2, <3>3 DEF UpFirst
      <4>2. k + 1 = Len(path) => k = Len(names)  BY <3>2
      <4> QED  BY <4>1, <4>2 DEF Refused
    <3>5. \A k \in 2 .. Len(names) : k \in 1 .. Len(names)  BY <3>2
    <3>6. names # <<>> => 1 \in 1 .. Len(names)  BY <3>1, <3>2
    <3> QED  BY <3>4, <3>5, <3>6 DEF UpFirst
  <2> QED  BY <2>1, <2>2
<1>8. FromUp(cwd[p], loc[p].at)'  BY <1>3, <1>4, <1>6 DEF FromUp
<1>9. After(p)' \in {"walk", "parent"} => Climbs(loc[p], cwd[p])'
  <2>1. After(p)' \in {"walk", "parent"} => names # <<>>  BY <1>5
  <2>2. start # cwd'[p] => abs  OBVIOUS
  <2> HIDE DEF names, start, abs
  <2> QED  BY <1>3, <1>4, <1>7, <2>1, <2>2 DEF Climbs, UpFirst, Refused
<1> QED  BY <1>3, <1>4, <1>5, <1>8, <1>9 DEF Soft, UpFirst, Refused

(* What a directory names has a type, but for the parent of a removed one.  *)
LEMMA UpNext ==
    ASSUME IInv, NEW c \in Inums, dinode[c].type = "dir", NEW d \in Inums, dinode[d].type = "dir", NEW n \in Names,
           dinode[d].ents[n] # Nil, n = ".." => d = c
    PROVE  FromUp(c, dinode[d].ents[n])
<1> DEFINE i == dinode[d].ents[n]
<1>1. i \in Inums  BY DEF IInv, TypeOK
<1>2. SUFFICES ASSUME dinode[i].type = "free" PROVE dinode[c].ents[".."] = i /\ c \notin Linked
  BY DEF FromUp
<1>3. n # "."
  <2>1. dinode[d].ents["."] = d  BY DEF IInv, DiskInv, EntInv
  <2> QED  BY <1>2, <2>1
<1>4. n = ".."
  <2> SUFFICES ASSUME n # ".." PROVE FALSE
    OBVIOUS
  <2>1. Child(d, n, i)  BY <1>3 DEF Child
  <2>2. NamedWell(d, n, i)  BY <1>1, <2>1 DEF IInv, DiskInv, TreeInv
  <2> QED  BY <1>2, <2>2 DEF NamedWell
<1>5. c \notin Linked
  <2> SUFFICES ASSUME c \in Linked PROVE FALSE
    OBVIOUS
  <2>1. PICK e \in Inums, k \in Names : Child(e, k, c)  BY LinkedIs
  <2>2. NamedWell(e, k, c)  BY <2>1 DEF IInv, DiskInv, TreeInv
  <2>3. e = i /\ dinode[e].type = "dir"  BY <1>4, <2>1, <2>2 DEF NamedWell, Child
  <2> QED  BY <1>2, <2>3
<1> QED  BY <1>4, <1>5

-----------------------------------------------------------------------------
LEMMA GoesAfter ==
    ASSUME IInv, NEW p \in Procs, NEW w, Goes(p, w), w \notin Putting2
    PROVE  After(p)' = w
<1>1. pc'[p] = w  BY DEF Goes, IInv, TypeOK
<1> QED  BY <1>1 DEF After, Then

(* Steps to a place where a call has only inodes with types.                *)
Calm(p) ==
    \/ Exists(p) \/ Made(p) \/ Open(p) \/ Opening(p) \/ Chdir(p) \/ LinkNew(p) \/ UnlockDir(p)
    \/ UnlinkOld(p) \/ Unlink(p) \/ Victim(p) \/ Unlinked(p) \/ Writei(p)
Rough == {"walk", "parent", "resolved", "exists"}

LEMMA SoftCalmStep ==
    ASSUME IInv, SoftInv, IInv', NEW p \in Procs, panic' = "none", Calm(p)
    PROVE  Soft(loc[p], After(p), cwd[p])'
<1> DEFINE l == loc[p]
           calm == After(p)' \notin Rough /\ (loc'[p].call = "link" => l.call = "link" /\ loc'[p].new = l.new)
<1>1. loc \in [Procs -> Local] /\ pc \in [Procs -> Places] /\ l \in Local
  BY DEF IInv, TypeOK, LocalInv, LocType
<1>2. calm => Soft(loc[p], After(p), cwd[p])'  BY SoftCalm DEF Rough
<1>3. ASSUME NEW s, Return(p, s) PROVE calm  BY <1>3, ReturnAfter DEF Rough
<1>4. ASSUME NEW s, NEW then, NEW m \in Local, m.call = l.call, m.new = l.new, Puts(p, s, then, m),
             then \notin Putting2 \union Rough
      PROVE  calm
  BY <1>4, PutsAfter
<1>5. ASSUME NEW w, Goes(p, w), w \notin Putting2 \union Rough, loc'[p].call = l.call, loc'[p].new = l.new PROVE calm
  BY <1>5, GoesAfter
<1>6. ASSUME NEW m, m = [l EXCEPT !.at = Nil] PROVE m \in Local /\ m.call = l.call /\ m.new = l.new
  BY <1>1, <1>6 DEF Local
<1>7. ASSUME NEW m, m = [l EXCEPT !.ip = Nil] PROVE m \in Local /\ m.call = l.call /\ m.new = l.new
  BY <1>1, <1>7 DEF Local
<1>8. ASSUME NEW m, m = [l EXCEPT !.at = Nil] \/ m = [l EXCEPT !.ip = Nil] \/ m = l
      PROVE  m \in Local /\ m.call = l.call /\ m.new = l.new
  BY <1>1, <1>6, <1>7, <1>8
<1>9. ASSUME NEW m, loc' = [loc EXCEPT ![p] = m] PROVE loc'[p] = m  BY <1>1, <1>9
<1> HIDE DEF calm
<1>10. CASE Exists(p)
  <2>1. CASE Return(p, <<l.ip>>)  BY <1>2, <1>3, <2>1
  <2>2. CASE Goes(p, "opening") /\ UNCHANGED loc  BY <1>2, <1>5, <2>2 DEF Putting2, Rough
  <2> QED  BY <1>10, <2>1, <2>2 DEF Exists
<1>11. CASE Made(p)  BY <1>2, <1>3, <1>11 DEF Made
<1>12. CASE Open(p)
  <2>1. CASE Return(p, <<l.at>>)  BY <1>2, <1>3, <2>1
  <2>2. CASE Goes(p, "opening") /\ loc' = [loc EXCEPT ![p].at = Nil, ![p].ip = l.at]
    <3>1. loc'[p].call = l.call /\ loc'[p].new = l.new  BY <1>1, <2>2 DEF Local
    <3> QED  BY <1>2, <1>5, <2>2, <3>1 DEF Putting2, Rough
  <2> QED  BY <1>12, <2>1, <2>2 DEF Open
<1>13. CASE Opening(p)
  <2>1. CASE Return(p, <<l.ip>>)  BY <1>2, <1>3, <2>1
  <2>2. CASE Goes(p, "user") /\ loc' = [loc EXCEPT ![p] = NoLoc]
    <3>1. loc'[p].call = "none"  BY <1>9, <2>2, NoLocFields
    <3>2. After(p)' = "user"  BY <2>2, GoesAfter DEF Putting2
    <3> QED  BY <1>2, <3>1, <3>2 DEF calm, Rough
  <2> QED  BY <1>13, <2>1, <2>2 DEF Opening
<1>14. CASE Chdir(p)  BY <1>2, <1>3, <1>14 DEF Chdir
<1>15. CASE LinkNew(p)
  <2>1. CASE Return(p, <<l.at, l.ip>>)  BY <1>2, <1>3, <2>1
  <2>2. ASSUME NEW s, Puts(p, s, "unlockdir", l) PROVE calm  BY <1>1, <1>4, <2>2 DEF Putting2, Rough
  <2> QED  BY <1>2, <1>15, <2>1, <2>2 DEF LinkNew
<1>16. CASE UnlockDir(p)
  <2>1. CASE Return(p, <<l.at>>)  BY <1>2, <1>3, <2>1
  <2>2. ASSUME Puts(p, <<l.at>>, "unlinkold", [l EXCEPT !.at = Nil]) PROVE calm
    BY <1>4, <1>8, <2>2 DEF Putting2, Rough
  <2> QED  BY <1>2, <1>16, <2>1, <2>2 DEF UnlockDir
<1>17. CASE UnlinkOld(p)  BY <1>2, <1>3, <1>17 DEF UnlinkOld
<1>18. CASE Unlink(p)
  <2>1. CASE Return(p, <<l.at>>)  BY <1>2, <1>3, <2>1
  <2>2. ASSUME NEW i, Goes(p, "victim") /\ loc' = [loc EXCEPT ![p].ip = i] PROVE calm
    <3>1. loc'[p].call = l.call /\ loc'[p].new = l.new  BY <1>1, <2>2 DEF Local
    <3> QED  BY <1>5, <2>2, <3>1 DEF Putting2, Rough
  <2> QED  BY <1>2, <1>18, <2>1, <2>2 DEF Unlink
<1>19. CASE Victim(p)
  <2>1. ~(dinode[l.ip].nlink < 1)  BY <1>19 DEF Victim
  <2>2. ASSUME Puts(p, <<l.ip>>, "unlockdir", [l EXCEPT !.ip = Nil]) PROVE calm
    BY <1>4, <1>8, <2>2 DEF Putting2, Rough
  <2>3. ASSUME Puts(p, <<l.at>>, "unlinked", [l EXCEPT !.at = Nil]) PROVE calm
    BY <1>4, <1>8, <2>3 DEF Putting2, Rough
  <2> QED  BY <1>2, <1>19, <2>1, <2>2, <2>3 DEF Victim
<1>20. CASE Unlinked(p)  BY <1>2, <1>3, <1>20 DEF Unlinked
<1>21. CASE Writei(p)
  <2>1. Goes(p, "user") /\ loc' = [loc EXCEPT ![p] = NoLoc]  BY <1>21 DEF Writei
  <2>2. loc'[p].call = "none"  BY <1>9, <2>1, NoLocFields
  <2>3. After(p)' = "user"  BY <2>1, GoesAfter DEF Putting2
  <2> QED  BY <1>2, <2>2, <2>3 DEF calm, Rough
<1> QED
  BY <1>10, <1>11, <1>12, <1>13, <1>14, <1>15, <1>16, <1>17, <1>18, <1>19, <1>20, <1>21 DEF Calm

-----------------------------------------------------------------------------
(* The rest of a path goes up only where the path does.                     *)
LEMMA UpTail ==
    ASSUME NEW call, NEW s \in Seq(Names), s # <<>>, UpFirst(call, s)
    PROVE  UpFirst(call, Tail(s)) /\ (Tail(s) # <<>> => Refused(call, Tail(s), 1))
<1> DEFINE t == Tail(s)
<1>1. Len(t) = Len(s) - 1 /\ Len(s) \in Nat /\ t \in Seq(Names) /\ \A k \in 1 .. Len(t) : t[k] = s[k + 1]
  OBVIOUS
<1> HIDE DEF t
<1>2. \A k \in 1 .. Len(t) : Refused(call, t, k)
  <2> TAKE k \in 1 .. Len(t)
  <2>1. k + 1 \in 2 .. Len(s)  BY <1>1
  <2>2. Refused(call, s, k + 1) /\ t[k] = s[k + 1]  BY <1>1, <2>1 DEF UpFirst
  <2>3. k + 1 = Len(s) => k = Len(t)  BY <1>1
  <2> QED  BY <2>2, <2>3 DEF Refused
<1>3. \A k \in 2 .. Len(t) : k \in 1 .. Len(t)  BY <1>1
<1>4. t # <<>> => 1 \in 1 .. Len(t)  BY <1>1
<1>5. UpFirst(call, t) /\ (t # <<>> => Refused(call, t, 1))  BY <1>2, <1>3, <1>4 DEF UpFirst
<1> QED  BY <1>5 DEF t

LEMMA SoftWalk ==
    ASSUME IInv, SoftInv, IInv', NEW p \in Procs, Walk(p)
    PROVE  Soft(loc[p], After(p), cwd[p])'
<1> DEFINE l == loc[p]
           d == l.at
           n == Head(l.path)
           next == dinode[d].ents[n]
           last == Len(l.path) = 1
           stop == last /\ Parent(l)
<1>1. loc \in [Procs -> Local] /\ pc \in [Procs -> Places]  BY DEF IInv, TypeOK, LocalInv, LocType
<1>2. Locks(p, "walk") /\ dinode' = dinode /\ cwd' = cwd  BY DEF Walk, disk, fds
<1>3. /\ pc[p] = "walk" /\ After(p) = "walk" /\ l \in Local /\ d \in Inums /\ Args(l, "walk")
  BY <1>2, WaitsAt
<1>4. d # Nil /\ l.path \in Seq(Names) /\ l.path # <<>> /\ n \in Names
  BY <1>3, Constants DEF Local, Args
<1>5. Soft(l, "walk", cwd[p])  BY <1>3 DEF SoftInv
<1>6. FromUp(cwd[p], d) /\ Climbs(l, cwd[p]) /\ (l.call = "link" => UpFirst("link", l.new))
  BY <1>4, <1>5 DEF Soft
<1>7. ASSUME NEW c, NEW i, FromUp(c, i) PROVE \A x, y : x = c /\ y = i => FromUp(x, y)'
  BY <1>2, <1>7 DEF FromUp, Linked, Named, Entries, Dirs
<1>8. CASE dinode[d].type = "dir" /\ stop
  <2>1. Goes(p, "parent") /\ loc' = loc  BY <1>8 DEF Walk
  <2>2. After(p)' = "parent"  BY <2>1, GoesAfter DEF Putting2
  <2>3. FromUp(cwd[p], d)'  BY <1>2, <1>6, <2>1 DEF FromUp, Linked, Named, Entries, Dirs
  <2> QED  BY <1>2, <1>6, <2>1, <2>2, <2>3 DEF Soft, Climbs, UpFirst, Refused
<1>9. CASE dinode[d].type = "dir" /\ ~stop /\ next # Nil
  <2> DEFINE k == [l EXCEPT !.at = next, !.path = Tail(@)]
             then == IF last THEN "resolved" ELSE "walk"
  <2>1. Puts(p, <<d>>, then, k)  BY <1>9 DEF Walk, Dirlookup
  <2>2. next \in Inums  BY <1>3, <1>4, <1>9, FoundInum
  <2>3. Tail(l.path) \in Seq(Names) /\ (last <=> Tail(l.path) = <<>>)
    <3>1. Tail(l.path) \in Seq(Names) /\ Len(Tail(l.path)) = Len(l.path) - 1 /\ Len(l.path) \in Nat
      BY <1>4
    <3>2. \A t \in Seq(Names) : t = <<>> <=> Len(t) = 0  OBVIOUS
    <3>3. Tail(l.path) = <<>> <=> Len(Tail(l.path)) = 0  BY <3>1, <3>2
    <3> QED  BY <3>1, <3>3
  <2>4. FromUp(cwd[p], next)
    <3>1. n = ".." => d = cwd[p]
      <4> SUFFICES ASSUME n = "..", d # cwd[p] PROVE FALSE
        OBVIOUS
      <4>1. Refused(l.call, l.path, 1)  BY <1>6 DEF Climbs
      <4>2. l.path[1] = ".."  BY <1>4
      <4>3. l.call = "unlink" /\ last  BY <4>1, <4>2 DEF Refused
      <4> QED  BY <1>9, <4>3 DEF Parent
    <3>2. dinode[cwd[p]].type = "dir" /\ cwd[p] \in Inums  BY Here
    <3> QED  BY <1>3, <1>4, <1>9, <3>1, <3>2, UpNext
  <2>5. UpFirst(l.call, Tail(l.path)) /\ (Tail(l.path) # <<>> => Refused(l.call, Tail(l.path), 1))
    BY <1>4, <1>6, UpTail DEF Climbs
  <2>6. k \in Local /\ k.call = l.call /\ k.new = l.new /\ k.at = next /\ k.path = Tail(l.path)
    <3> HIDE DEF next
    <3> QED  BY <1>3, <2>2, <2>3 DEF Local
  <2>7. then \notin Putting2  BY DEF Putting2
  <2> HIDE DEF k, next
  <2>8. /\ After(p)' = then /\ loc'[p].call = k.call /\ loc'[p].new = k.new /\ loc'[p].path = k.path
        /\ loc'[p].at = k.at
    BY <2>1, <2>6, <2>7, PutsAfter
  <2>9. FromUp(cwd[p], loc[p].at)'
    BY <1>2, <2>4, <2>6, <2>8 DEF FromUp, Linked, Named, Entries, Dirs
  <2>10. then = "walk" => Tail(l.path) # <<>>  BY <2>3
  <2>11. After(p)' \in {"walk", "parent"} => Climbs(loc[p], cwd[p])'
    BY <2>5, <2>6, <2>8, <2>10 DEF Climbs, UpFirst, Refused
  <2> QED  BY <1>6, <2>6, <2>8, <2>9, <2>11 DEF Soft, UpFirst, Refused
<1>10. CASE ~(dinode[d].type = "dir" /\ stop) /\ ~(dinode[d].type = "dir" /\ ~stop /\ next # Nil)
  <2>1. IF l.ip = Nil THEN Return(p, <<d>>) ELSE Puts(p, <<d>>, "unlinkold", [l EXCEPT !.at = Nil])
    BY <1>10 DEF Walk, Dirlookup
  <2>2. CASE l.ip = Nil  BY <2>1, <2>2, ReturnAfter, SoftCalm
  <2>3. CASE l.ip # Nil
    <3> DEFINE k == [l EXCEPT !.at = Nil]
    <3>1. k \in Local /\ k.call = l.call /\ k.new = l.new  BY <1>3 DEF Local
    <3>2. Puts(p, <<d>>, "unlinkold", k)  BY <2>1, <2>3
    <3> HIDE DEF k
    <3>3. After(p)' = "unlinkold" /\ loc'[p].call = l.call /\ loc'[p].new = l.new
      BY <3>1, <3>2, PutsAfter DEF Putting2
    <3> QED  BY <3>3, SoftCalm
  <2> QED  BY <2>2, <2>3
<1> QED  BY <1>8, <1>9, <1>10

-----------------------------------------------------------------------------
LEMMA SoftCreate ==
    ASSUME IInv, SoftInv, IInv', NEW p \in Procs, panic' = "none", Create(p)
    PROVE  Soft(loc[p], After(p), cwd[p])'
<1> DEFINE l == loc[p]
           dp == l.at
           n == Head(l.path)
           found == dinode[dp].ents[n]
<1>1. Locks(p, "parent") /\ cwd' = cwd /\ l.call \in {"creat", "mkdir", "mknod"}  BY DEF Create, fds
<1>2. /\ After(p) = "parent" /\ l \in Local /\ dp \in Inums /\ Args(l, "parent") /\ LocTyped(l, "parent")
  BY <1>1, WaitsAt
<1>3. l.path \in Seq(Names) /\ l.path # <<>> /\ n \in Names /\ Len(l.path) = 1 /\ n = l.path[1]
      /\ dinode[dp].type = "dir"
  BY <1>2 DEF Local, Args, LocTyped
<1>4. CASE found # Nil
  <2> DEFINE k == [l EXCEPT !.at = Nil, !.ip = found]
  <2>1. Puts(p, <<dp>>, "exists", k) /\ dinode' = dinode  BY <1>4 DEF Create, Dirlookup, disk
  <2>2. found \in Inums  BY <1>2, <1>3, <1>4, FoundInum
  <2>3. FromUp(cwd[p], found)
    <3>1. Climbs(l, cwd[p])  BY <1>2 DEF SoftInv, Soft
    <3>2. n = ".." => dp = cwd[p]  BY <1>1, <1>3, <3>1 DEF Climbs, Refused
    <3>3. dinode[cwd[p]].type = "dir" /\ cwd[p] \in Inums  BY Here
    <3> QED  BY <1>2, <1>3, <1>4, <3>2, <3>3, UpNext
  <2> HIDE DEF found
  <2>4. k \in Local /\ k.call = l.call /\ k.at = Nil /\ k.ip = found  BY <1>2, <2>2 DEF Local
  <2> HIDE DEF k
  <2>5. After(p)' = "exists" /\ loc'[p].call = l.call /\ loc'[p].at = Nil /\ loc'[p].ip = found
    BY <2>1, <2>4, PutsAfter DEF Putting2
  <2>6. FromUp(cwd[p], loc[p].ip)'  BY <1>1, <2>1, <2>3, <2>5 DEF FromUp, Linked, Named,
                                       Entries, Dirs
  <2> QED  BY <1>1, <2>5, <2>6 DEF Soft
<1>5. CASE found = Nil
  <2>1. \E x \in Inums, then \in {"opening", "made"} : Puts(p, <<dp>>, then, [l EXCEPT !.at = Nil, !.ip = x])
    <3>1. FreeInodes # {} /\ ~(l.call = "mkdir" /\ FreeBlocks = {})
      BY <1>5 DEF Create, Dirlookup, FreeInodes
    <3>2. Lowest(FreeInodes) \in Inums
      <4>1. Lowest(FreeInodes) \in FreeInodes  BY <3>1, Least, Constants DEF FreeInodes
      <4> QED  BY <4>1 DEF FreeInodes
    <3>3. Puts(p, <<dp>>, IF l.call = "creat" THEN "opening" ELSE "made",
               [l EXCEPT !.at = Nil, !.ip = Lowest(FreeInodes)])
      BY <1>5, <3>1 DEF Create, Dirlookup, FreeInodes
    <3> QED  BY <3>2, <3>3
  <2>2. PICK x \in Inums, then \in {"opening", "made"} : Puts(p, <<dp>>, then, [l EXCEPT !.at = Nil, !.ip = x])
    BY <2>1
  <2> DEFINE k == [l EXCEPT !.at = Nil, !.ip = x]
  <2>3. k \in Local /\ k.call = l.call /\ k.new = l.new  BY <1>2, <2>2 DEF Local
  <2>4. Puts(p, <<dp>>, then, k)  BY <2>2
  <2> HIDE DEF k
  <2>5. After(p)' = then /\ loc'[p].call = l.call /\ loc'[p].new = l.new
    BY <2>2, <2>3, <2>4, PutsAfter DEF Putting2
  <2> QED  BY <2>2, <2>5, SoftCalm
<1> QED  BY <1>4, <1>5

LEMMA SoftLinkOld ==
    ASSUME IInv, SoftInv, IInv', NEW p \in Procs, LinkOld(p)
    PROVE  Soft(loc[p], After(p), cwd[p])'
<1> DEFINE l == loc[p]
           ip == l.at
           c == Ilock(icache, ip)
<1>1. Locks(p, "resolved") /\ cwd' = cwd /\ l.call = "link"  BY DEF LinkOld, fds
<1>2. After(p) = "resolved" /\ l \in Local /\ ip \in Inums /\ Args(l, "resolved")  BY <1>1, WaitsAt
<1>3. CASE dinode[ip].type = "dir"
  <2>1. Return(p, <<ip>>)  BY <1>3 DEF LinkOld
  <2> QED  BY <2>1, ReturnAfter, SoftCalm
<1>4. CASE dinode[ip].type # "dir"
  <2> DEFINE k == [l EXCEPT !.ip = ip]
  <2>1. Resolve(p, l.new, k, c)  BY <1>4 DEF LinkOld
  <2>2. k \in Local /\ k.call = "link" /\ k.new = l.new  BY <1>1, <1>2 DEF Local
  <2> HIDE DEF k, c
  <2>3. IsPath(l.new)  BY <1>1, <1>2 DEF Args, HasLast
  <2>4. UpFirst("link", l.new)  BY <1>1 DEF SoftInv, Soft
  <2> QED  BY <1>1, <2>1, <2>2, <2>3, <2>4, ResolveSoft
<1> QED  BY <1>3, <1>4

LEMMA SoftCall ==
    ASSUME IInv, SoftInv, IInv', DotDotFirst, NEW p \in Procs, NEW c \in Calls(p), Len(c) > 1, Call(p, c)
    PROVE  Soft(loc[p], After(p), cwd[p])'
<1> DEFINE new == IF Len(c) = 3 THEN c[3] ELSE <<>>
           k == [NoLoc EXCEPT !.call = c[1], !.new = new]
<1>1. Resolve(p, c[2], k, icache) /\ cwd' = cwd  BY DEF Call, fds
<1>2. /\ c[1] \in CallNames
      /\ IF c[1] \in {"creat", "mkdir", "mknod", "unlink"} THEN HasLast(c[2]) ELSE IsPath(c[2])
      /\ c[1] = "link" <=> Len(c) = 3
      /\ c[1] = "link" => HasLast(c[3])
  BY CallsAssumption DEF CallNames
<1>3. IsPath(c[2])  BY <1>2 DEF HasLast
<1>4. UpFirst(c[1], c[2]) /\ (Len(c) = 3 => UpFirst(c[1], c[3]))  BY DEF DotDotFirst
<1>5. new \in Seq(Names \union {"/"}) /\ (c[1] = "link" => new = c[3])
  <2>1. CASE Len(c) = 3  BY <1>2, <2>1 DEF HasLast, IsPath
  <2>2. CASE Len(c) # 3  BY <1>2, <2>2
  <2> QED  BY <2>1, <2>2
<1> HIDE DEF new
<1>6. k \in Local /\ k.call = c[1] /\ k.new = new
  <2>1. k \in Local  BY <1>2, <1>5, NoLocFields DEF Local
  <2>2. k.call = c[1] /\ k.new = new  BY DEF NoLoc
  <2> QED  BY <2>1, <2>2
<1> HIDE DEF k
<1>7. k.call = "link" => UpFirst("link", k.new)  BY <1>2, <1>4, <1>5, <1>6
<1>8. UpFirst(k.call, c[2])  BY <1>4, <1>6
<1> QED  BY <1>1, <1>3, <1>6, <1>7, <1>8, ResolveSoft

(* Where a call stays while it puts inodes.                                 *)
LEMMA SoftPutting ==
    ASSUME IInv, SoftInv, NEW j, TreeSoft(j), j # Nil => ~Referred(j), NEW p \in Procs, panic' = "none",
           Put(p) \/ Drop(p)
    PROVE  Soft(loc[p], After(p), cwd[p])'
<1> DEFINE l == loc[p]
<1>1. loc \in [Procs -> Local] /\ pc \in [Procs -> Places] /\ l \in Local
  BY DEF IInv, TypeOK, LocalInv, LocType
<1>2. CASE Put(p)
  <2>1. pc[p] = "put" /\ Goes(p, "drop") /\ loc' = loc /\ cwd' = cwd
    BY <1>2 DEF Put, At, Panic, fds
  <2>2. pc'[p] = "drop"  BY <1>1, <2>1 DEF Goes
  <2>3. After(p)' = After(p)  BY <2>1, <2>2 DEF After, Then, Putting2
  <2> QED  BY <2>1, <2>3, SoftKeeps
<1>3. CASE Drop(p)
  <2> DEFINE rest == Tail(l.puts)
             then == IF rest = <<>> THEN "user" ELSE l.then
             w == IF rest = <<>> THEN l.then ELSE "put"
  <2>1. pc[p] = "drop" /\ cwd' = cwd /\ Goes(p, w)  BY <1>3 DEF Drop, At, fds
  <2>2. loc' = [loc EXCEPT ![p].puts = rest, ![p].then = then]  BY <1>3 DEF Drop
  <2>3. l.then \notin Putting2  BY <2>1, PuttingAt DEF Putting2
  <2>4. pc'[p] = w  BY <1>1, <2>1 DEF Goes
  <2>5. (w = "put" => then = l.then) /\ (w # "put" => w = l.then) /\ (w = l.then \/ w = "put")
    BY <2>3 DEF Putting2
  <2> HIDE DEF rest, then, w
  <2>6. /\ loc'[p].call = l.call /\ loc'[p].path = l.path /\ loc'[p].new = l.new /\ loc'[p].at = l.at
        /\ loc'[p].ip = l.ip /\ loc'[p].then = then
    BY <1>1, <2>2 DEF Local
  <2>7. After(p)' = After(p)  BY <2>1, <2>3, <2>4, <2>5, <2>6 DEF After, Then, Putting2
  <2> QED  BY <2>1, <2>6, <2>7, SoftKeeps
<1> QED  BY <1>2, <1>3

-----------------------------------------------------------------------------
LEMMA SoftOthers ==
    ASSUME IInv, SoftInv, NEW j, TreeSoft(j), j # Nil => ~Referred(j), NEW p \in Procs, Frame(p),
           Soft(loc[p], After(p), cwd[p])'
    PROVE  SoftInv'
<1> SUFFICES ASSUME NEW q \in Procs, q # p PROVE Soft(loc[q], After(q), cwd[q])'
  BY DEF SoftInv
<1>1. loc'[q] = loc[q] /\ After(q)' = After(q) /\ cwd'[q] = cwd[q]  BY DEF Frame
<1> QED  BY <1>1, SoftKeeps

LEMMA SoftStep ==
    ASSUME IInv, SoftInv, IInv', NEW p \in Procs, panic' = "none", Step(p)
    PROVE  SoftInv'
<1>1. PICK j \in Inums \union {Nil} : TreeSoft(j) /\ (j # Nil => ~Referred(j))  BY StepSoft
<1>2. Frame(p)  BY StepFrame
<1>3. ~IlockPanics(p)  BY DEF IlockPanics, Panic
<1>4. Soft(loc[p], After(p), cwd[p])'
  <2>1. CASE Walk(p)  BY <2>1, SoftWalk
  <2>2. CASE Put(p) \/ Drop(p)  BY <1>1, <2>2, SoftPutting
  <2>3. CASE Create(p)  BY <2>3, SoftCreate
  <2>4. CASE LinkOld(p)  BY <2>4, SoftLinkOld
  <2>5. CASE Calm(p)  BY <2>5, SoftCalmStep
  <2> QED  BY <1>3, <2>1, <2>2, <2>3, <2>4, <2>5 DEF Step, Calm
<1> QED  BY <1>1, <1>2, <1>4, SoftOthers

LEMMA SoftFds ==
    ASSUME IInv, SoftInv, IInv', NEW p \in Procs, NEW d \in Fds, Dup(p, d) \/ Close(p, d) \/ Write(p, d)
    PROVE  SoftInv'
<1>1. loc \in [Procs -> Local] /\ pc \in [Procs -> Places] /\ loc[p] \in Local
  BY DEF IInv, TypeOK, LocalInv, LocType
<1>2. dinode' = dinode /\ cwd' = cwd  BY DEF Dup, Close, Write, disk, fds
<1>3. TreeSoft(Nil)  BY <1>2 DEF TreeSoft, Linked, Named, Entries, Dirs
<1>4. CASE UNCHANGED <<pc, loc>>
  <2> SUFFICES ASSUME NEW q \in Procs PROVE Soft(loc[q], After(q), cwd[q])'
    BY DEF SoftInv
  <2>1. After(q)' = After(q)  BY <1>4 DEF After
  <2> QED  BY <1>2, <1>3, <1>4, <2>1, SoftKeeps
<1>5. CASE Return(p, <<file[ofile[p][d]].ip>>)
  <2>1. After(p)' = "user" /\ loc'[p].call = "none"  BY <1>5, ReturnAfter
  <2>2. Soft(loc[p], After(p), cwd[p])'  BY <2>1, SoftCalm
  <2>3. Frame(p)  BY <1>1, <1>2, <1>5 DEF Return, Puts, Goes, Frame, After
  <2> QED  BY <1>3, <2>2, <2>3, SoftOthers
<1>6. CASE Write(p, d)
  <2>1. Goes(p, "write") /\ loc' = [loc EXCEPT ![p].f = ofile[p][d]]  BY <1>6 DEF Write
  <2>2. After(p)' = "write"  BY <2>1, GoesAfter DEF Putting2
  <2>3. loc'[p].call = loc[p].call /\ loc'[p].new = loc[p].new  BY <1>1, <2>1 DEF Local
  <2>4. Soft(loc[p], After(p), cwd[p])'  BY <2>2, <2>3, SoftCalm
  <2>5. Frame(p)  BY <1>1, <1>2, <2>1 DEF Goes, Frame, After
  <2> QED  BY <1>3, <2>4, <2>5, SoftOthers
<1> QED  BY <1>4, <1>5, <1>6 DEF Dup, Close

LEMMA SoftNext ==
    ASSUME IInv, SoftInv, IInv', DotDotFirst, Next, panic' = "none"
    PROVE  SoftInv'
<1> PICK p \in Procs :
         \/ Step(p)
         \/ \E c \in Calls(p) : Len(c) > 1 /\ Call(p, c)
         \/ \E d \in Fds : Dup(p, d) \/ Close(p, d) \/ Write(p, d)
  BY DEF Next
<1>1. CASE Step(p)  BY <1>1, SoftStep
<1>2. ASSUME NEW c \in Calls(p), Len(c) > 1, Call(p, c) PROVE SoftInv'
  <2>1. loc \in [Procs -> Local] /\ pc \in [Procs -> Places]  BY DEF IInv, TypeOK, LocalInv, LocType
  <2>2. dinode' = dinode /\ cwd' = cwd  BY <1>2 DEF Call, disk, fds
  <2>3. TreeSoft(Nil)  BY <2>2 DEF TreeSoft, Linked, Named, Entries, Dirs
  <2>4. Soft(loc[p], After(p), cwd[p])'  BY <1>2, SoftCall
  <2>5. Frame(p)
    <3>1. ASSUME NEW s, NEW l, NEW h, Resolve(p, s, l, h), NEW q \in Procs, q # p
          PROVE  loc'[q] = loc[q] /\ pc'[q] = pc[q]
      BY <2>1, <3>1 DEF Resolve, Goes
    <3>2. \A q \in Procs : q # p => loc'[q] = loc[q] /\ pc'[q] = pc[q]  BY <1>2, <3>1 DEF Call
    <3> QED  BY <2>2, <3>2 DEF Frame, After
  <2> QED  BY <2>3, <2>4, <2>5, SoftOthers
<1>3. CASE \E d \in Fds : Dup(p, d) \/ Close(p, d) \/ Write(p, d)  BY <1>3, SoftFds
<1> QED  BY <1>1, <1>2, <1>3

-----------------------------------------------------------------------------
(* Why the kernel stops.                                                    *)
Wants == {"none", "ialloc: no inodes", "balloc: out of blocks", "iget: no inodes"}

LEMMA NextRuns ==
    ASSUME Next
    PROVE  panic = "none"
<1> PICK p \in Procs :
         \/ Step(p)
         \/ \E c \in Calls(p) : Len(c) > 1 /\ Call(p, c)
         \/ \E d \in Fds : Dup(p, d) \/ Close(p, d) \/ Write(p, d)
  BY DEF Next
<1>1. CASE Step(p)
  BY <1>1 DEF Step, IlockPanics, Walk, Put, Drop, Create, Exists, Made, Open, Opening,
     Chdir, LinkOld, LinkNew,
              UnlockDir, UnlinkOld, Unlink, Victim, Unlinked, Writei, Locks, At
<1>2. CASE ~Step(p)  BY <1>2 DEF Call, Dup, Close, Write, At
<1> QED  BY <1>1, <1>2

(* A block of an inode is in use, and a victim has the link it is found by. *)
LEMMA PutTruncs ==
    ASSUME IInv, NEW p \in Procs, Put(p)
    PROVE  panic' = "none"
<1> DEFINE i == Head(loc[p].puts)
<1>1. pc[p] = "put" /\ panic = "none"  BY DEF Put, At
<1>2. i \in Inums  BY <1>1, PuttingAt DEF Putting2
<1>3. dinode[i].blks \subseteq bitmap  BY <1>2 DEF IInv, CountInv, BlocksInv
<1> QED  BY <1>1, <1>3 DEF Put, CanTrunc

LEMMA VictimLinked ==
    ASSUME IInv, NEW p \in Procs, Victim(p)
    PROVE  panic' = "none"
<1> DEFINE i == loc[p].ip
<1>1. Locks(p, "victim") /\ panic = "none"  BY DEF Victim, Locks, At
<1>2. /\ loc[p].at \in Inums /\ i \in Inums /\ Head(loc[p].path) \in Names
      /\ Child(loc[p].at, Head(loc[p].path), i) /\ dinode[i].type # "free"
  BY <1>1, VictimAt
<1>3. dinode[i].nlink \in Int  BY <1>2 DEF IInv, TypeOK
<1>4. dinode[i].nlink # 0 /\ dinode[i].nlink >= 1
  <2>1. dinode[i].nlink >= NameN(i) + UpN(i) + OweN(i) + One(i, Root)  BY <1>2 DEF IInv, LinkInv
  <2>2. NameN(i) \in Nat /\ UpN(i) \in Nat /\ OweN(i) \in Nat  BY LinkCards
  <2>3. One(i, Root) \in {0, 1}  BY DEF One
  <2>4. NameN(i) >= 1
    <3>1. <<loc[p].at, Head(loc[p].path)>> \in NameSet(i)
      BY <1>2, Constants DEF NameSet, Entries, Named, Dirs, Child
    <3>2. NameSet(i) \in SUBSET (Inums \X Names) /\ IsFiniteSet(Inums \X Names)
      BY LinkCards, Finite
    <3> QED  BY <3>1, <3>2, CardSome DEF NameN
  <2> QED  BY <1>3, <2>1, <2>2, <2>3, <2>4
<1>5. ~(dinode[i].nlink < 1)  BY <1>3, <1>4
<1> QED  BY <1>1, <1>5 DEF Victim

(* A call comes to an inode without type only out of its current directory. *)
LEMMA NoTypeUp ==
    ASSUME IInv, SoftInv, NEW p \in Procs, IlockPanics(p)
    PROVE  cwd[p] \notin Linked /\ dinode[dinode[cwd[p]].ents[".."]].type = "free"
<1> DEFINE l == loc[p]
           t == Target(p)
           w == pc[p]
<1>1. w # "put" /\ t # Nil /\ dinode[t].type = "free"  BY DEF IlockPanics, NoType
<1>2. w \in {"walk", "parent", "resolved", "exists", "victim", "unlinkold", "write"}
  BY <1>1 DEF Target
<1>3. After(p) = w  BY <1>2 DEF After, Then, Putting2
<1>4. LocTyped(l, w) /\ Inodes(l, w) /\ Making(l, w) /\ l \in Local  BY <1>3, Here
<1>5. w # "victim"
  <2> SUFFICES ASSUME w = "victim" PROVE FALSE
    OBVIOUS
  <2>1. t = l.ip  BY DEF Target
  <2> QED  BY <1>1, <1>4, <2>1 DEF LocTyped
<1>6. w # "unlinkold"
  <2> SUFFICES ASSUME w = "unlinkold" PROVE FALSE
    OBVIOUS
  <2>1. t = l.ip  BY DEF Target
  <2> QED  BY <1>1, <1>4, <2>1 DEF LocTyped
<1>7. w # "write"
  <2> SUFFICES ASSUME w = "write" PROVE FALSE
    OBVIOUS
  <2>1. dinode[t].type = "file"  BY WriteAt
  <2> QED  BY <1>1, <2>1
<1>8. Soft(l, w, cwd[p])  BY <1>3 DEF SoftInv
<1>9. FromUp(cwd[p], t)
  <2>1. CASE w = "exists"
    <3>1. t = l.ip  BY <2>1 DEF Target
    <3> QED  BY <1>8, <2>1, <3>1 DEF Soft
  <2>2. CASE w \in {"walk", "parent", "resolved"}
    <3>1. t = l.at  BY <2>2 DEF Target
    <3> QED  BY <1>1, <1>8, <3>1 DEF Soft
  <2> QED  BY <1>2, <1>5, <1>6, <1>7, <2>1, <2>2
<1> QED  BY <1>1, <1>9 DEF FromUp

LEMMA PanicKinds ==
    ASSUME IInv, Next
    PROVE  panic' \in Wants \/ \E p \in Procs : IlockPanics(p)
<1>1. panic = "none"  BY NextRuns
<1> PICK p \in Procs :
         \/ Step(p)
         \/ \E c \in Calls(p) : Len(c) > 1 /\ Call(p, c)
         \/ \E d \in Fds : Dup(p, d) \/ Close(p, d) \/ Write(p, d)
  BY DEF Next
<1>2. ASSUME NEW i, FindsEntry(i) PROVE panic' \in Wants  BY <1>2 DEF FindsEntry, Wants
<1>3. panic' = panic => panic' \in Wants  BY <1>1 DEF Wants
<1>4. ASSUME NEW s, NEW l, NEW c, Resolve(p, s, l, c) PROVE panic' \in Wants
  BY <1>2, <1>4 DEF Resolve
<1>5. CASE Walk(p)  BY <1>2, <1>3, <1>5 DEF Walk
<1>6. CASE Put(p) \/ Victim(p)
  <2>1. panic' = "none"  BY <1>6, PutTruncs, VictimLinked
  <2> QED  BY <2>1 DEF Wants
<1>7. CASE Create(p)
  <2>1. panic' \in {"ialloc: no inodes", "balloc: out of blocks"} => panic' \in Wants  BY DEF Wants
  <2> QED  BY <1>2, <1>7, <2>1 DEF Create
<1>8. CASE Drop(p) \/ Exists(p) \/ Made(p) \/ Open(p) \/ Opening(p) \/ Chdir(p) \/ UnlockDir(p) \/ UnlinkOld(p)
           \/ Unlinked(p)
  BY <1>3, <1>8 DEF Drop, Exists, Made, Open, Opening, Chdir, UnlockDir, UnlinkOld, Unlinked
<1>9. CASE LinkOld(p)  BY <1>3, <1>4, <1>9 DEF LinkOld
<1>10. CASE LinkNew(p)  BY <1>2, <1>3, <1>10 DEF LinkNew
<1>11. CASE Unlink(p)  BY <1>2, <1>3, <1>11 DEF Unlink
<1>12. CASE Writei(p)
  <2>1. panic' = "balloc: out of blocks" => panic' \in Wants  BY DEF Wants
  <2> QED  BY <1>3, <1>12, <2>1 DEF Writei
<1>13. CASE \E c \in Calls(p) : Len(c) > 1 /\ Call(p, c)  BY <1>4, <1>13 DEF Call
<1>14. CASE \E d \in Fds : Dup(p, d) \/ Close(p, d) \/ Write(p, d)
  BY <1>3, <1>14 DEF Dup, Close, Write
<1> QED
  BY <1>5, <1>6, <1>7, <1>8, <1>9, <1>10, <1>11, <1>12, <1>13, <1>14 DEF Step

(* Whatever the paths, iput never frees a block that is free and sys_unlink *)
(* never finds a name whose inode has no links: the kernel stops for want   *)
(* of inodes, blocks or cache entries or in ilock.                          *)
THEOREM PanicsFew == Spec => [](panic \in Wants \union {"ilock: no type"})
<1> DEFINE Few == panic \in Wants \union {"ilock: no type"}
<1>1. Init => Few  BY DEF Init, Wants
<1>2. IInv /\ Few /\ [Next]_vars => Few'
  <2> SUFFICES ASSUME IInv, Few, [Next]_vars PROVE Few'
    OBVIOUS
  <2>1. CASE UNCHANGED vars  BY <2>1 DEF vars
  <2>2. CASE Next  BY <2>2, PanicKinds DEF IlockPanics, Panic
  <2> QED  BY <2>1, <2>2
<1> HIDE DEF Few
<1>3. Spec => []Few  BY <1>1, <1>2, Inductive, PTL DEF Spec
<1> QED  BY <1>3 DEF Few

LEMMA PanicStep ==
    ASSUME IInv, SoftInv, Next
    PROVE  NoInternalPanic'
<1>1. CASE panic' \in Wants  BY <1>1 DEF Wants, NoInternalPanic
<1>2. ASSUME NEW p \in Procs, IlockPanics(p) PROVE NoInternalPanic'
  <2>1. panic' = "ilock: no type" /\ dinode' = dinode /\ cwd' = cwd
    BY <1>2 DEF IlockPanics, Panic, disk, fds
  <2>2. cwd[p] \notin Linked /\ dinode[dinode[cwd[p]].ents[".."]].type = "free"  BY <1>2, NoTypeUp
  <2>3. cwd'[p] \notin Linked' /\ dinode'[dinode'[cwd'[p]].ents[".."]].type = "free"
    BY <2>1, <2>2 DEF Linked, Named, Entries, Dirs
  <2> QED  BY <2>1, <2>3 DEF NoInternalPanic
<1> QED  BY <1>1, <1>2, PanicKinds

LEMMA PanicKeeps ==
    ASSUME DotDotFirst, IInv, PanicInv, [Next]_vars, IInv'
    PROVE  PanicInv'
<1>1. CASE Next
  <2>1. panic = "none" /\ SoftInv  BY <1>1, NextRuns DEF PanicInv
  <2> QED  BY <1>1, <2>1, PanicStep, SoftNext DEF PanicInv
<1>2. CASE UNCHANGED vars
  <2>1. /\ dinode' = dinode /\ cwd' = cwd /\ pc' = pc /\ loc' = loc /\ panic' = panic
    BY <1>2 DEF vars, disk, fds
  <2>2. NoInternalPanic'  BY <2>1 DEF PanicInv, NoInternalPanic, Linked, Named, Entries, Dirs
  <2>3. SoftInv => SoftInv'
    BY <2>1 DEF SoftInv, Soft, FromUp, Climbs, UpFirst, Refused, After, Then, Putting2,
       Linked, Named, Entries, Dirs
  <2> QED  BY <2>1, <2>2, <2>3 DEF PanicInv
<1> QED  BY <1>1, <1>2

LEMMA PanicStarts == Init => PanicInv
<1> SUFFICES ASSUME Init PROVE PanicInv
  OBVIOUS
<1>1. panic = "none" /\ \A p \in Procs : loc[p] = NoLoc /\ After(p) = "user"
  BY DEF Init, After, Then, Putting2
<1>2. \A c : Soft(NoLoc, "user", c)  BY NoLocFields DEF Soft
<1> QED  BY <1>1, <1>2 DEF PanicInv, SoftInv, NoInternalPanic

(* Where no program goes up in the middle of a path, the panics of iput,    *)
(* sys_unlink, bfree and ilock do not happen, save ilock's for a path out   *)
(* of a removed current directory.                                          *)
THEOREM PanicsCorrect ==
    ASSUME DotDotFirst
    PROVE  Spec => []NoInternalPanic
<1>1. Init => PanicInv  BY PanicStarts
<1>2. DotDotFirst  OBVIOUS
<1>3. IInv /\ IInv' /\ PanicInv /\ [Next]_vars => PanicInv'  BY <1>2, PanicKeeps
<1>4. Spec => []IInv  BY Inductive
<1>5. PanicInv => NoInternalPanic  BY DEF PanicInv
<1> QED  BY <1>1, <1>3, <1>4, <1>5, PTL DEF Spec
=============================================================================
