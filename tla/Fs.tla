--------------------------------- MODULE Fs ---------------------------------
(***************************************************************************)
(* Inodes, directories and files of Project04/xv6-public: fs.c, file.c and  *)
(* the system calls of sysfile.c on names.  The log makes what a call       *)
(* writes atomic across crashes (Log), so the disk here is what bread       *)
(* returns; what is left is calls against calls.                            *)
(*                                                                         *)
(* A step runs from the point where a call gets an inode's sleep lock to    *)
(* the point where it waits for the next one.  A directory is a function    *)
(* from names to inode numbers and fills one block; a path is a sequence of *)
(* names, with "/" in front if it starts at the root.                       *)
(***************************************************************************)
EXTENDS Integers, Sequences, FiniteSets

CONSTANTS
    Procs, NoProc,
    NInodes,       \* sb.ninodes - 1: inode numbers are 1 .. NInodes, 1 is the root
    NINODE,        \* entries of icache
    NBlocks,       \* data blocks of the disk
    NDIRECT,       \* direct block addresses of an inode
    MaxLen,        \* bound: blocks of a file
    MaxLinks,      \* bound: links of a file, also those lost with a removed directory
    NFILE, NOFILE, \* entries of ftable and of a process's ofile
    Names,         \* names in directories, "." and ".." among them
    Calls(_)       \* the calls <<name, path>> or <<"link", old, new>> a process makes

Root == 1
Nil  == 0
Inums == 1 .. NInodes
Files == 1 .. NFILE
Fds   == 1 .. NOFILE
Blocks == 1 .. NBlocks

ASSUME FsAssumption ==
    /\ {NInodes, NINODE, NBlocks, NFILE, NOFILE} \subseteq Nat \ {0} /\ NDIRECT \in Nat /\ {MaxLen, MaxLinks} \subseteq Nat
    /\ NoProc \notin Procs /\ IsFiniteSet(Procs)
    /\ {".", ".."} \subseteq Names /\ "/" \notin Names /\ IsFiniteSet(Names)

(* The calls of programs that find something to name in their paths: those  *)
(* that look for a parent directory fail at once on "/" alone.              *)
IsPath(s) == s \in Seq(Names \union {"/"}) /\ s # <<>> /\ Tail(s) \in Seq(Names)
HasLast(s) == IsPath(s) /\ s # <<"/">>
ASSUME CallsAssumption ==
    \A p \in Procs : \A c \in Calls(p) : Len(c) > 1 =>
        /\ c[1] \in {"open", "openw", "chdir", "creat", "mkdir", "mknod", "unlink", "link"}
        /\ IF c[1] \in {"creat", "mkdir", "mknod", "unlink"} THEN HasLast(c[2]) ELSE IsPath(c[2])
        /\ c[1] = "link" <=> Len(c) = 3
        /\ c[1] = "link" => HasLast(c[3])

VARIABLES
    dinode,   \* the inodes on disk
    bitmap,   \* blocks marked in use
    icache,   \* by inode number: ref and valid of its entry
    lock,     \* ip->lock: who holds it
    file,     \* ftable
    ofile,    \* each process's descriptors
    cwd,
    pc, loc,  \* where each process is in its call
    panic     \* why the kernel stopped, or "none"

disk == <<dinode, bitmap>>
fds  == <<file, ofile, cwd>>
vars == <<disk, icache, lock, fds, pc, loc, panic>>

NoFile  == [ref |-> 0, ip |-> Nil, writable |-> FALSE]
NoEnts  == [n \in Names |-> Nil]
FreeIno == [type |-> "free", nlink |-> 0, ents |-> NoEnts, len |-> 0, blks |-> {}]

(* A call's locals: its arguments, the path still to walk, the inodes it    *)
(* has a reference to (at: the one namex returned or stands on, ip), the    *)
(* ones it is about to iput, and what follows that.                         *)
NoLoc == [call |-> "none", path |-> <<>>, new |-> <<>>, at |-> Nil, ip |-> Nil, f |-> Nil,
          puts |-> <<>>, then |-> "user"]

At(p, where) == panic = "none" /\ pc[p] = where
Goes(p, where) == pc' = [pc EXCEPT ![p] = where]
Panic(msg) == panic' = msg /\ UNCHANGED <<disk, icache, lock, fds, pc, loc>>

Lowest(S) == CHOOSE x \in S : \A y \in S : x <= y

-----------------------------------------------------------------------------
(* fs.c: blocks and inodes.                                                 *)

FreeBlocks == Blocks \ bitmap
(* bmap for the next block of a file: the indirect block comes with the     *)
(* first block past the direct ones.                                        *)
NewBlocks(len) == IF len = NDIRECT THEN 2 ELSE 1
Balloc(n) == {b \in FreeBlocks : Cardinality({a \in FreeBlocks : a < b}) < n}
(* itrunc frees all blocks of an inode; bfree panics if one is free already. *)
CanTrunc(i) == dinode[i].blks \subseteq bitmap
Itrunc(i)   == bitmap' = bitmap \ dinode[i].blks
(* The inode number name n has in directory d, or Nil.                      *)
Dirlookup(d, n) == dinode[d].ents[n]

Referenced == {i \in Inums : icache[i].ref > 0}
(* iget and idup, in a cache c: a new entry is not valid.  When there is no *)
(* entry left iget panics; nothing runs after that.                         *)
FindsEntry(i) ==
    panic' = IF i \in Referenced \/ Cardinality(Referenced) < NINODE THEN "none" ELSE "iget: no inodes"
Iget(c, i) == [c EXCEPT ![i] = [ref |-> @.ref + 1, valid |-> @.ref > 0 /\ @.valid]]

(* The inode a process waits for or is about to lock.                       *)
Target(p) ==
    CASE pc[p] = "put"                              -> Head(loc[p].puts)
      [] pc[p] \in {"walk", "parent", "resolved"}   -> loc[p].at
      [] pc[p] \in {"exists", "victim", "unlinkold"} -> loc[p].ip
      [] pc[p] = "write"                            -> file[loc[p].f].ip
      [] OTHER                                      -> Nil

(* ilock: waits for the lock, and reads the inode into an entry that is     *)
(* not valid.                                                               *)
CanLock(i) == lock[i] = NoProc
NoType(i)  == ~icache[i].valid /\ dinode[i].type = "free"
Locks(p, where)  == At(p, where) /\ CanLock(Target(p)) /\ ~NoType(Target(p))
IlockPanics(p) ==
    /\ panic = "none" /\ pc[p] # "put" /\ Target(p) # Nil
    /\ CanLock(Target(p)) /\ NoType(Target(p))
    /\ Panic("ilock: no type")
Ilock(c, i) == [c EXCEPT ![i].valid = TRUE]

(* Go and iput the inodes s, then go on at then with the rest of the locals. *)
Puts(p, s, then, l) ==
    /\ Goes(p, "put")
    /\ loc' = [loc EXCEPT ![p] = [l EXCEPT !.puts = s, !.then = then]]
Return(p, s) == Puts(p, s, "user", NoLoc)

(* Definitions named ..Bug are slips the properties below catch; they are   *)
(* not part of the model.  An inode without links goes although it is in    *)
(* use:                                                                     *)
PutBug(p) ==
    LET i == Head(loc[p].puts) IN
    /\ At(p, "put") /\ CanLock(i)
    /\ IF icache[i].valid /\ dinode[i].nlink = 0
       THEN /\ dinode' = [dinode EXCEPT ![i] = FreeIno]
            /\ Itrunc(i)
            /\ icache' = [icache EXCEPT ![i].valid = FALSE]
       ELSE UNCHANGED <<disk, icache>>
    /\ Goes(p, "drop") /\ UNCHANGED <<lock, fds, loc, panic>>
(* iput up to releasesleep: an inode without links whose only reference     *)
(* this is goes, with its blocks.                                           *)
Put(p) ==
    LET i == Head(loc[p].puts) IN
    /\ At(p, "put") /\ CanLock(i)
    /\ IF icache[i].valid /\ dinode[i].nlink = 0 /\ icache[i].ref = 1
       THEN IF CanTrunc(i)
            THEN /\ dinode' = [dinode EXCEPT ![i] = FreeIno]
                 /\ Itrunc(i)
                 /\ icache' = [icache EXCEPT ![i].valid = FALSE]
                 /\ Goes(p, "drop") /\ UNCHANGED <<lock, fds, loc, panic>>
            ELSE Panic("freeing free block")
       ELSE Goes(p, "drop") /\ UNCHANGED <<disk, icache, lock, fds, loc, panic>>

(* The rest of iput.                                                        *)
Drop(p) ==
    LET i == Head(loc[p].puts)
        rest == Tail(loc[p].puts) IN
    /\ At(p, "drop")
    /\ icache' = [icache EXCEPT ![i].ref = @ - 1]
    /\ loc' = [loc EXCEPT ![p].puts = rest, ![p].then = IF rest = <<>> THEN "user" ELSE @]
    /\ Goes(p, IF rest = <<>> THEN loc[p].then ELSE "put")
    /\ UNCHANGED <<disk, lock, fds, panic>>

-----------------------------------------------------------------------------
(* namex: one directory a step.                                             *)

(* Calls that take the parent directory of a path (nameiparent).            *)
Parent(l) == l.call \in {"creat", "mkdir", "mknod", "unlink"} \/ (l.call = "link" /\ l.ip # Nil)

(* Set out on path with the locals l and the cache c.                       *)
Resolve(p, path, l, c) ==
    LET abs   == Head(path) = "/"
        start == IF abs THEN Root ELSE cwd[p]
        names == IF abs THEN Tail(path) ELSE path IN
    /\ FindsEntry(start)
    /\ icache' = Iget(c, start)
    /\ Goes(p, IF names = <<>> THEN "resolved" ELSE "walk")
    /\ loc' = [loc EXCEPT ![p] = [l EXCEPT !.path = names, !.at = start]]

(* One round of the loop: stop at the parent, go down, or give up.          *)
Walk(p) ==
    LET l == loc[p]
        d == l.at
        next == Dirlookup(d, Head(l.path))
        last == Len(l.path) = 1
        stop == last /\ Parent(l) IN
    /\ Locks(p, "walk")
    /\ UNCHANGED <<disk, lock, fds>>
    /\ CASE dinode[d].type = "dir" /\ stop ->
               /\ icache' = Ilock(icache, d)
               /\ Goes(p, "parent") /\ UNCHANGED <<loc, panic>>
         [] dinode[d].type = "dir" /\ ~stop /\ next # Nil ->
               /\ FindsEntry(next)
               /\ icache' = Iget(Ilock(icache, d), next)
               /\ Puts(p, <<d>>, IF last THEN "resolved" ELSE "walk",
                       [l EXCEPT !.at = next, !.path = Tail(@)])
         [] OTHER ->
               /\ icache' = Ilock(icache, d)
               /\ IF l.ip = Nil THEN Return(p, <<d>>)
                  ELSE Puts(p, <<d>>, "unlinkold", [l EXCEPT !.at = Nil])
               /\ UNCHANGED panic

-----------------------------------------------------------------------------
(* sysfile.c.  Each call on names first resolves a path.                    *)

Call(p, c) ==
    /\ At(p, "user") /\ c \in Calls(p)
    /\ Resolve(p, c[2], [NoLoc EXCEPT !.call = c[1], !.new = IF Len(c) = 3 THEN c[3] ELSE <<>>], icache)
    /\ UNCHANGED <<disk, lock, fds>>

(* create() in the parent directory dp: find the name, or make an inode and *)
(* return it locked.                                                        *)
Create(p) ==
    LET l == loc[p]
        dp == l.at
        name == Head(l.path)
        found == Dirlookup(dp, name)
        free == {i \in Inums \ {Root} : dinode[i].type = "free"}
        ip == Lowest(free)
        isdir == l.call = "mkdir" IN
    /\ Locks(p, "parent") /\ l.call \in {"creat", "mkdir", "mknod"}
    /\ UNCHANGED fds
    /\ IF found # Nil
       THEN /\ FindsEntry(found)
            /\ icache' = Iget(Ilock(icache, dp), found)
            /\ Puts(p, <<dp>>, "exists", [l EXCEPT !.at = Nil, !.ip = found])
            /\ UNCHANGED <<disk, lock>>
       ELSE IF free = {}
       THEN panic' = "ialloc: no inodes" /\ UNCHANGED <<disk, icache, lock, pc, loc>>
       ELSE IF isdir /\ FreeBlocks = {}
       THEN panic' = "balloc: out of blocks" /\ UNCHANGED <<disk, icache, lock, pc, loc>>
       ELSE LET new == IF isdir THEN Balloc(1) ELSE {} IN
            /\ dinode' = [dinode EXCEPT
                   ![ip] = [type  |-> CASE isdir -> "dir" [] l.call = "mknod" -> "dev" [] OTHER -> "file",
                            nlink |-> 1,
                            ents  |-> IF isdir THEN [NoEnts EXCEPT !["."] = ip, ![".."] = dp] ELSE NoEnts,
                            len   |-> Cardinality(new),
                            blks  |-> new],
                   ![dp].nlink = IF isdir THEN @ + 1 ELSE @,
                   ![dp].ents[name] = ip]
            /\ bitmap' = bitmap \union new
            /\ icache' = Ilock(Iget(Ilock(icache, dp), ip), ip)
            /\ lock'   = [lock EXCEPT ![ip] = p]
            /\ Puts(p, <<dp>>, IF l.call = "creat" THEN "opening" ELSE "made",
                    [l EXCEPT !.at = Nil, !.ip = ip])
            /\ FindsEntry(ip)

(* create() of a name that exists: only a file may be opened so.            *)
Exists(p) ==
    LET l == loc[p] IN
    /\ Locks(p, "exists")
    /\ icache' = Ilock(icache, l.ip)
    /\ IF l.call = "creat" /\ dinode[l.ip].type = "file"
       THEN lock' = [lock EXCEPT ![l.ip] = p] /\ Goes(p, "opening") /\ UNCHANGED loc
       ELSE Return(p, <<l.ip>>) /\ UNCHANGED lock
    /\ UNCHANGED <<disk, fds, panic>>

(* The inode is put twice.                                                  *)
MadeBug(p) ==
    /\ At(p, "made")
    /\ lock' = [lock EXCEPT ![loc[p].ip] = NoProc]
    /\ Return(p, <<loc[p].ip, loc[p].ip>>)
    /\ UNCHANGED <<disk, icache, fds, panic>>
(* mkdir and mknod put the new inode.                                       *)
Made(p) ==
    /\ At(p, "made")
    /\ lock' = [lock EXCEPT ![loc[p].ip] = NoProc]
    /\ Return(p, <<loc[p].ip>>)
    /\ UNCHANGED <<disk, icache, fds, panic>>

(* open without O_CREATE, to read or ("openw") to write.                    *)
Open(p) ==
    LET l == loc[p] IN
    /\ Locks(p, "resolved") /\ l.call \in {"open", "openw"}
    /\ icache' = Ilock(icache, l.at)
    /\ IF dinode[l.at].type = "dir" /\ l.call = "openw"
       THEN Return(p, <<l.at>>) /\ UNCHANGED lock
       ELSE /\ lock' = [lock EXCEPT ![l.at] = p]
            /\ Goes(p, "opening")
            /\ loc' = [loc EXCEPT ![p].at = Nil, ![p].ip = l.at]
    /\ UNCHANGED <<disk, fds, panic>>

(* filealloc and fdalloc; the file takes over the reference.                *)
Opening(p) ==
    LET ip == loc[p].ip
        freefiles == {f \in Files : file[f].ref = 0}
        freefds   == {d \in Fds : ofile[p][d] = Nil} IN
    /\ At(p, "opening")
    /\ lock' = [lock EXCEPT ![ip] = NoProc]
    /\ IF freefiles = {} \/ freefds = {}
       THEN Return(p, <<ip>>) /\ UNCHANGED fds
       ELSE /\ file'  = [file EXCEPT ![Lowest(freefiles)] =
                            [ref |-> 1, ip |-> ip, writable |-> loc[p].call # "open"]]
            /\ ofile' = [ofile EXCEPT ![p][Lowest(freefds)] = Lowest(freefiles)]
            /\ Goes(p, "user")
            /\ loc' = [loc EXCEPT ![p] = NoLoc]
            /\ UNCHANGED cwd
    /\ UNCHANGED <<disk, icache, panic>>

Chdir(p) ==
    LET ip == loc[p].at IN
    /\ Locks(p, "resolved") /\ loc[p].call = "chdir"
    /\ icache' = Ilock(icache, ip)
    /\ IF dinode[ip].type # "dir"
       THEN Return(p, <<ip>>) /\ UNCHANGED cwd
       ELSE Return(p, <<cwd[p]>>) /\ cwd' = [cwd EXCEPT ![p] = ip]
    /\ UNCHANGED <<disk, lock, file, ofile, panic>>

(* The link is not counted before it is made.                               *)
LinkOldBug(p) ==
    LET l == loc[p]
        ip == l.at IN
    /\ Locks(p, "resolved") /\ l.call = "link"
    /\ IF dinode[ip].type = "dir"
       THEN Return(p, <<ip>>) /\ icache' = Ilock(icache, ip) /\ UNCHANGED panic
       ELSE Resolve(p, l.new, [l EXCEPT !.ip = ip], Ilock(icache, ip))
    /\ UNCHANGED <<disk, lock, fds>>
(* link: count the new link, then look for the directory of its name.       *)
LinkOld(p) ==
    LET l == loc[p]
        ip == l.at IN
    /\ Locks(p, "resolved") /\ l.call = "link" /\ dinode[ip].nlink < MaxLinks
    /\ IF dinode[ip].type = "dir"
       THEN Return(p, <<ip>>) /\ icache' = Ilock(icache, ip) /\ UNCHANGED <<dinode, panic>>
       ELSE /\ dinode' = [dinode EXCEPT ![ip].nlink = @ + 1]
            /\ Resolve(p, l.new, [l EXCEPT !.ip = ip], Ilock(icache, ip))
    /\ UNCHANGED <<bitmap, lock, fds>>

(* dirlink(dp): a name that exists is looked up, and put with dp locked.    *)
LinkNew(p) ==
    LET l == loc[p]
        dp == l.at
        found == Dirlookup(dp, Head(l.path)) IN
    /\ Locks(p, "parent") /\ l.call = "link"
    /\ IF found = Nil
       THEN /\ dinode' = [dinode EXCEPT ![dp].ents[Head(l.path)] = l.ip]
            /\ icache' = Ilock(icache, dp)
            /\ Return(p, <<dp, l.ip>>)
            /\ UNCHANGED <<lock, panic>>
       ELSE /\ FindsEntry(found)
            /\ icache' = Iget(Ilock(icache, dp), found)
            /\ lock' = [lock EXCEPT ![dp] = p]
            /\ Puts(p, <<found>>, "unlockdir", l)
            /\ UNCHANGED dinode
    /\ UNCHANGED <<bitmap, fds>>

(* link and unlink give up with dp locked: iunlockput(dp).                  *)
UnlockDir(p) ==
    LET l == loc[p] IN
    /\ At(p, "unlockdir")
    /\ lock' = [lock EXCEPT ![l.at] = NoProc]
    /\ IF l.call = "link"
       THEN Puts(p, <<l.at>>, "unlinkold", [l EXCEPT !.at = Nil])
       ELSE Return(p, <<l.at>>)
    /\ UNCHANGED <<disk, icache, fds, panic>>

(* The label bad of sys_link.                                               *)
UnlinkOld(p) ==
    LET ip == loc[p].ip IN
    /\ Locks(p, "unlinkold")
    /\ dinode' = [dinode EXCEPT ![ip].nlink = @ - 1]
    /\ icache' = Ilock(icache, ip)
    /\ Return(p, <<ip>>)
    /\ UNCHANGED <<bitmap, lock, fds, panic>>

(* "." and ".." may be unlinked.                                            *)
UnlinkBug(p) ==
    LET l == loc[p]
        dp == l.at
        found == Dirlookup(dp, Head(l.path)) IN
    /\ Locks(p, "parent") /\ l.call = "unlink"
    /\ IF found = Nil
       THEN Return(p, <<dp>>) /\ icache' = Ilock(icache, dp) /\ UNCHANGED <<lock, panic>>
       ELSE /\ FindsEntry(found)
            /\ icache' = Iget(Ilock(icache, dp), found)
            /\ lock' = [lock EXCEPT ![dp] = p]
            /\ Goes(p, "victim")
            /\ loc' = [loc EXCEPT ![p].ip = found]
    /\ UNCHANGED <<disk, fds>>
(* unlink finds its victim with dp locked ...                               *)
Unlink(p) ==
    LET l == loc[p]
        dp == l.at
        found == Dirlookup(dp, Head(l.path)) IN
    /\ Locks(p, "parent") /\ l.call = "unlink"
    /\ IF Head(l.path) \in {".", ".."} \/ found = Nil
       THEN Return(p, <<dp>>) /\ icache' = Ilock(icache, dp) /\ UNCHANGED <<lock, panic>>
       ELSE /\ FindsEntry(found)
            /\ icache' = Iget(Ilock(icache, dp), found)
            /\ lock' = [lock EXCEPT ![dp] = p]
            /\ Goes(p, "victim")
            /\ loc' = [loc EXCEPT ![p].ip = found]
    /\ UNCHANGED <<disk, fds>>

IsDirEmpty(i) == \A n \in Names \ {".", ".."} : Dirlookup(i, n) = Nil

(* ... locks it too, and takes its entry out.                               *)
Victim(p) ==
    LET l == loc[p]
        dp == l.at
        ip == l.ip
        isdir == dinode[ip].type = "dir" IN
    /\ Locks(p, "victim")
    /\ UNCHANGED <<bitmap, fds>>
    /\ IF dinode[ip].nlink < 1
       THEN panic' = "unlink: nlink < 1" /\ UNCHANGED <<dinode, icache, lock, pc, loc>>
       ELSE /\ icache' = Ilock(icache, ip) /\ UNCHANGED panic
            /\ IF isdir /\ ~IsDirEmpty(ip)
               THEN /\ Puts(p, <<ip>>, "unlockdir", [l EXCEPT !.ip = Nil])
                    /\ UNCHANGED <<dinode, lock>>
               ELSE /\ dinode' = [dinode EXCEPT ![dp].ents[Head(l.path)] = Nil,
                                                ![dp].nlink = IF isdir THEN @ - 1 ELSE @]
                    /\ lock' = [lock EXCEPT ![dp] = NoProc, ![ip] = p]
                    /\ Puts(p, <<dp>>, "unlinked", [l EXCEPT !.at = Nil])

Unlinked(p) ==
    LET ip == loc[p].ip IN
    /\ At(p, "unlinked")
    /\ dinode' = [dinode EXCEPT ![ip].nlink = @ - 1]
    /\ lock' = [lock EXCEPT ![ip] = NoProc]
    /\ Return(p, <<ip>>)
    /\ UNCHANGED <<bitmap, icache, fds, panic>>

-----------------------------------------------------------------------------
(* Calls on descriptors.                                                    *)

Dup(p, d) ==
    LET free == {e \in Fds : ofile[p][e] = Nil}
        f == ofile[p][d] IN
    /\ At(p, "user") /\ <<"dup">> \in Calls(p) /\ f # Nil /\ free # {}
    /\ ofile' = [ofile EXCEPT ![p][Lowest(free)] = f]
    /\ file'  = [file EXCEPT ![f].ref = @ + 1]
    /\ UNCHANGED <<disk, icache, lock, cwd, pc, loc, panic>>

(* The first descriptor to go puts the inode.                               *)
CloseBug(p, d) ==
    LET f == ofile[p][d] IN
    /\ At(p, "user") /\ f # Nil
    /\ ofile' = [ofile EXCEPT ![p][d] = Nil]
    /\ file' = [file EXCEPT ![f] = NoFile]
    /\ Return(p, <<file[f].ip>>)
    /\ UNCHANGED <<disk, icache, lock, cwd, panic>>
(* close and fileclose: the last descriptor puts the inode.                 *)
Close(p, d) ==
    LET f == ofile[p][d] IN
    /\ At(p, "user") /\ f # Nil
    /\ ofile' = [ofile EXCEPT ![p][d] = Nil]
    /\ IF file[f].ref > 1
       THEN file' = [file EXCEPT ![f].ref = @ - 1] /\ UNCHANGED <<pc, loc>>
       ELSE file' = [file EXCEPT ![f] = NoFile] /\ Return(p, <<file[f].ip>>)
    /\ UNCHANGED <<disk, icache, lock, cwd, panic>>

(* write of one block at the end of a file (a device has its own write).    *)
Write(p, d) ==
    LET f == ofile[p][d] IN
    /\ At(p, "user") /\ <<"write">> \in Calls(p) /\ f # Nil /\ file[f].writable
    /\ dinode[file[f].ip].type = "file"
    /\ Goes(p, "write")
    /\ loc' = [loc EXCEPT ![p].f = f]
    /\ UNCHANGED <<disk, icache, lock, fds, panic>>

Writei(p) ==
    LET ip  == Target(p)
        len == dinode[ip].len
        n   == NewBlocks(len) IN
    /\ Locks(p, "write") /\ len < MaxLen
    /\ IF Cardinality(FreeBlocks) < n
       THEN panic' = "balloc: out of blocks" /\ UNCHANGED <<disk, icache, pc, loc>>
       ELSE /\ dinode' = [dinode EXCEPT ![ip].len = @ + 1, ![ip].blks = @ \union Balloc(n)]
            /\ bitmap' = bitmap \union Balloc(n)
            /\ icache' = Ilock(icache, ip)
            /\ Goes(p, "user")
            /\ loc' = [loc EXCEPT ![p] = NoLoc]
            /\ UNCHANGED panic
    /\ UNCHANGED <<lock, fds>>

-----------------------------------------------------------------------------
(* mkfs makes the root; every process starts there.                         *)
RootIno == [type |-> "dir", nlink |-> 1, ents |-> [NoEnts EXCEPT !["."] = Root, ![".."] = Root],
            len |-> 1, blks |-> {1}]

Init ==
    /\ dinode = [i \in Inums |-> IF i = Root THEN RootIno ELSE FreeIno]
    /\ bitmap = {1}
    /\ icache = [i \in Inums |-> [ref |-> IF i = Root THEN Cardinality(Procs) ELSE 0, valid |-> FALSE]]
    /\ lock   = [i \in Inums |-> NoProc]
    /\ file   = [f \in Files |-> NoFile]
    /\ ofile  = [p \in Procs |-> [d \in Fds |-> Nil]]
    /\ cwd    = [p \in Procs |-> Root]
    /\ pc     = [p \in Procs |-> "user"]
    /\ loc    = [p \in Procs |-> NoLoc]
    /\ panic  = "none"

Step(p) ==
    \/ IlockPanics(p)
    \/ Walk(p) \/ Put(p) \/ Drop(p)
    \/ Create(p) \/ Exists(p) \/ Made(p) \/ Open(p) \/ Opening(p) \/ Chdir(p)
    \/ LinkOld(p) \/ LinkNew(p) \/ UnlockDir(p) \/ UnlinkOld(p)
    \/ Unlink(p) \/ Victim(p) \/ Unlinked(p) \/ Writei(p)

Next == \E p \in Procs :
    \/ Step(p)
    \/ \E c \in Calls(p) : Len(c) > 1 /\ Call(p, c)
    \/ \E d \in Fds : Dup(p, d) \/ Close(p, d) \/ Write(p, d)

Spec == Init /\ [][Next]_vars

-----------------------------------------------------------------------------
(* Properties.                                                              *)

Types == {"free", "file", "dir", "dev"}
Waits == {"put", "walk", "parent", "resolved", "exists", "victim", "unlinkold", "write"}
Places == Waits \union {"user", "drop", "made", "opening", "unlockdir", "unlinked"}

TypeOK ==
    /\ dinode \in [Inums -> [type : Types, nlink : Int, ents : [Names -> Inums \union {Nil}],
                             len : Nat, blks : SUBSET Blocks]]
    /\ bitmap \in SUBSET Blocks
    /\ icache \in [Inums -> [ref : Nat, valid : BOOLEAN]]
    /\ lock \in [Inums -> Procs \union {NoProc}]
    /\ file \in [Files -> [ref : Nat, ip : Inums \union {Nil}, writable : BOOLEAN]]
    /\ ofile \in [Procs -> [Fds -> Files \union {Nil}]]
    /\ cwd \in [Procs -> Inums]
    /\ pc \in [Procs -> Places]
    /\ \A p \in Procs : Len(loc[p].puts) <= 2

(* References to inode i: current directories, open files, calls (which put *)
(* two inodes in a row at most).                                            *)
Putting(p, k, i) == k \in DOMAIN loc[p].puts /\ loc[p].puts[k] = i
Has(p, i) == loc[p].at = i \/ loc[p].ip = i \/ Putting(p, 1, i) \/ Putting(p, 2, i)
Refs(i) ==
    Cardinality({p \in Procs : cwd[p] = i})
    + Cardinality({f \in Files : file[f].ref > 0 /\ file[f].ip = i})
    + Cardinality({p \in Procs : loc[p].at = i})
    + Cardinality({p \in Procs : loc[p].ip = i})
    + Cardinality({p \in Procs : Putting(p, 1, i)})
    + Cardinality({p \in Procs : Putting(p, 2, i)})

(* Counts are exact: every error path of every call gives back the inodes   *)
(* it took, a lock is held only over a reference, and a block is in use     *)
(* exactly if it is a block of one inode.                                   *)
CountsExact ==
    panic = "none" =>
    /\ bitmap = UNION {dinode[i].blks : i \in Inums}
    /\ \A i, j \in Inums : i # j => dinode[i].blks \cap dinode[j].blks = {}
    /\ \A i \in Inums : icache[i].ref = Refs(i) /\ (lock[i] # NoProc => Has(lock[i], i))
    /\ \A f \in Files :
          file[f].ref = Cardinality({pd \in Procs \X Fds : ofile[pd[1]][pd[2]] = f})

Dirs == {d \in Inums : dinode[d].type = "dir"}
(* The entries of directories other than . and ..                           *)
Entries == {e \in Dirs \X (Names \ {".", ".."}) : dinode[e[1]].ents[e[2]] # Nil}
Named(e) == dinode[e[1]].ents[e[2]]
Linked == {Named(e) : e \in Entries}

(* An inode has at least the links that directories have to it (.. of a     *)
(* directory in the tree included), so none is freed under its name and a   *)
(* directory goes only when it is empty.                                    *)
LinksCover ==
    panic = "none" =>
    \A i \in Linked \union {Root} :
        /\ dinode[i].type # "free"
        /\ dinode[i].nlink >= Cardinality({e \in Entries : Named(e) = i})
                             + Cardinality({d \in Dirs \cap Linked : dinode[d].ents[".."] = i})

InUse(i) == (\E p \in Procs : cwd[p] = i) \/ (\E f \in Files : file[f].ref > 0 /\ file[f].ip = i)

(* An open file and a current directory keep their contents when their last *)
(* name goes, whatever other calls put at the same time.                    *)
OpenStays ==
    [][\A i \in Inums : InUse(i) /\ InUse(i)' =>
          dinode'[i].type = dinode[i].type /\ dinode[i].blks \subseteq dinode'[i].blks]_vars

(* The kernel stops only for want of inodes, blocks or cache entries, or    *)
(* when a path leads out of a removed current directory through its ".."    *)
(* after the parent has gone too.                                           *)
NoInternalPanic ==
    \/ panic \in {"none", "ialloc: no inodes", "balloc: out of blocks", "iget: no inodes"}
    \/ /\ panic = "ilock: no type"
       /\ \E p \in Procs : cwd[p] \notin Linked /\ dinode[dinode[cwd[p]].ents[".."]].type = "free"

(* No path goes up but in its first name, and there not from the root, so   *)
(* that a call leaves a removed directory by its ".." only where it is the  *)
(* current one (unlink may have ".." last, it refuses it).                  *)
Refused(call, s, k) == s[k] = ".." => call = "unlink" /\ k = Len(s)
UpFirst(call, s) == \A k \in 2 .. Len(s) : Refused(call, s, k)
DotDotFirst == \A p \in Procs : \A c \in Calls(p) : Len(c) > 1 =>
    /\ UpFirst(c[1], c[2])
    /\ Len(c) = 3 => UpFirst(c[1], c[3])

(* "If that was the last reference and the inode has no links to it, free   *)
(* the inode (and its content) on disk."                                    *)
UnlinkedIsFreed ==
    \A i \in Inums : dinode[i].type # "free" /\ dinode[i].nlink = 0 => icache[i].ref > 0

(* Calls that wait with a lock held wait for a child of what they hold, so  *)
(* two of them never wait for each other.  Only iput breaks this order:     *)
(* create calls it for the directory with the new inode locked, dirlink for *)
(* what it found with the directory locked.                                 *)
WaitsFor(p, q) == pc[p] \in Waits /\ lock[Target(p)] = q
CirclesNeedIput ==
    \A p, q \in Procs : WaitsFor(p, q) /\ WaitsFor(q, p) => pc[p] = "put" \/ pc[q] = "put"
=============================================================================
