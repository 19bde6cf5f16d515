----------------------------- MODULE PipeProofs -----------------------------
(***************************************************************************)
(* What is proved about Pipe, for any number of processes, size of the      *)
(* ring, width of the counters and calls: its locks are held where the code *)
(* assumes it and the page is freed after the last use, and it implements   *)
(* Channel.                                                                 *)
(*                                                                         *)
(* The inductive invariant adds to Sound that whoever is inside a call has  *)
(* a descriptor of its end, that an end is open exactly while somebody has  *)
(* a descriptor or is about to close it, and that the counters are at most  *)
(* PIPESIZE apart, modulo Wrap, with bytes in between.                      *)
(***************************************************************************)
EXTENDS Pipe, TLAPS

(* What a process has in hand.                                              *)
LocalOK(p) ==
    /\ pc[p] = "user" => loc[p] = NoLoc
    /\ pc[p] \in {"read", "copy"} => loc[p].call = "r"
    /\ pc[p] = "write" => loc[p].call = "w"
    /\ pc[p] # "user" => loc[p].call \in Ends
    /\ pc[p] \notin {"user", "close", "closed"} =>
          loc[p].call \in fds[p] /\ loc[p].n \in Lengths /\ loc[p].i <= loc[p].n
Locals == \A p \in Procs : LocalOK(p)

(* Who is between fileclose and pipeclose with the last descriptor of e.    *)
Closing(p, e) == pc[p] = "close" /\ loc[p].call = e
EndsOpen == \A e \in Ends :
    /\ e \in pipe.open <=> \E p \in Procs : e \in fds[p] \/ Closing(p, e)
    /\ \A p \in Procs : Closing(p, e) =>
          \A q \in Procs : e \notin fds[q] /\ (Closing(q, e) => q = p)

(* The bytes under way.                                                     *)
Slot(i) == (pipe.nread + i - 1) % PIPESIZE
Buffered == Used <= PIPESIZE /\ \A i \in 1 .. Used : pipe.data[Slot(i)] \in Bytes

(* A read that has seen nothing yet found bytes, or that nobody can write.  *)
EndSeen == \A p \in Procs :
    pc[p] = "copy" /\ loc[p].i = 0 /\ Empty => "w" \notin pipe.open

(* The inductive invariant.                                                 *)
IInv == TypeOK /\ LocksHeld /\ Locals /\ EndsOpen /\ Buffered /\ EndSeen

-----------------------------------------------------------------------------
(* Remainders.                                                              *)

LEMMA Remainder ==
    ASSUME NEW n \in Nat \ {0}, NEW a \in Int
    PROVE  a % n \in 0 .. n - 1 /\ a = n * (a \div n) + (a % n) /\ a \div n \in Int
OBVIOUS

LEMMA Multiple ==
    ASSUME NEW n \in Nat \ {0}, NEW x \in Int, x > 0
    PROVE  n * x >= n
OBVIOUS

(* Equal numbers n * q + r and n * s + t, q no less than s.                 *)
LEMMA SameParts ==
    ASSUME NEW n \in Nat \ {0}, NEW q \in Int, NEW s \in Int,
           NEW r \in 0 .. n - 1, NEW t \in 0 .. n - 1, q > s
    PROVE  n * q + r # n * s + t
<1> DEFINE x == n * q
           y == n * s
<1>1. x \in Int /\ y \in Int
  OBVIOUS
<1>2. PICK d \in Int : d = q - s
  OBVIOUS
<1>3. n * d >= n
  BY <1>2, Multiple
<1>4. n * d = x - y
  BY <1>2
<1> HIDE DEF x, y
<1>5. x + r # y + t
  BY <1>1, <1>3, <1>4
<1> QED BY <1>5 DEF x, y

LEMMA OneRemainder ==
    ASSUME NEW n \in Nat \ {0}, NEW q \in Int, NEW r \in 0 .. n - 1
    PROVE  (n * q + r) % n = r
<1> DEFINE a == n * q + r
<1>1. a \in Int
  OBVIOUS
<1> HIDE DEF a
<1>2. PICK s \in Int : a = n * s + (a % n) /\ a % n \in 0 .. n - 1
  BY <1>1, Remainder
<1>3. n * s + (a % n) = n * q + r
  BY <1>2 DEF a
<1>4. ~(s > q) /\ ~(q > s)
  BY <1>2, <1>3, SameParts
<1>5. s = q
  BY <1>4
<1>6. a % n = r
  <2>1. PICK x \in Int : x = n * q
    OBVIOUS
  <2>2. x + (a % n) = x + r
    BY <1>3, <1>5, <2>1
  <2> QED BY <1>2, <2>1, <2>2
<1> QED BY <1>6 DEF a

LEMMA SmallRemainder ==
    ASSUME NEW n \in Nat \ {0}, NEW a \in 0 .. n - 1
    PROVE  a % n = a
<1>1. n * 0 + a = a
  OBVIOUS
<1> QED BY <1>1, OneRemainder

LEMMA LargeRemainder ==
    ASSUME NEW n \in Nat \ {0}, NEW a \in n .. 2 * n - 1
    PROVE  a % n = a - n
<1>1. n * 1 + (a - n) = a /\ a - n \in 0 .. n - 1
  OBVIOUS
<1>2. (n * 1 + (a - n)) % n = a - n
  BY <1>1, OneRemainder
<1> QED BY <1>1, <1>2

(* Two numbers less than n apart have different remainders.                 *)
LEMMA OtherRemainder ==
    ASSUME NEW n \in Nat \ {0}, NEW a \in Int, NEW b \in Int, a < b, b < a + n
    PROVE  a % n # b % n
<1> SUFFICES ASSUME a % n = b % n PROVE FALSE
  OBVIOUS
<1>1. /\ a = n * (a \div n) + (a % n) /\ a \div n \in Int /\ a % n \in Int
      /\ b = n * (b \div n) + (b % n) /\ b \div n \in Int
  BY Remainder
<1>2. n * ((b \div n) - (a \div n)) = b - a
  <2>1. n * ((b \div n) - (a \div n)) = n * (b \div n) - n * (a \div n)
    BY <1>1
  <2>2. n * (b \div n) \in Int /\ n * (a \div n) \in Int
    BY <1>1
  <2> QED BY <1>1, <2>1, <2>2
<1>3. CASE (b \div n) - (a \div n) > 0
  <2>1. n * ((b \div n) - (a \div n)) >= n
    BY <1>1, <1>3, Multiple
  <2> QED BY <1>2, <2>1
<1>4. CASE (b \div n) - (a \div n) <= 0
  <2>1. n * ((a \div n) - (b \div n)) >= 0
    <3>1. CASE (a \div n) - (b \div n) > 0
      BY <1>1, <3>1, Multiple
    <3>2. CASE (a \div n) - (b \div n) = 0
      BY <3>2
    <3> QED BY <1>1, <1>4, <3>1, <3>2
  <2>2. n * ((a \div n) - (b \div n)) = -(n * ((b \div n) - (a \div n)))
    BY <1>1
  <2> QED BY <1>1, <1>2, <2>1, <2>2
<1> QED BY <1>1, <1>3, <1>4

(* The counters wrap around without changing the slot they stand for.       *)
LEMMA WrapKeepsSlot ==
    ASSUME NEW a \in 0 .. 2 * Wrap - 1
    PROVE  (a % Wrap) % PIPESIZE = a % PIPESIZE
<1>1. Wrap \in Nat \ {0} /\ PIPESIZE \in Nat \ {0} /\ Wrap % PIPESIZE = 0
  BY PipeAssumption
<1>2. CASE a < Wrap
  BY <1>1, <1>2, SmallRemainder
<1>3. CASE a >= Wrap
  <2>1. a % Wrap = a - Wrap
    BY <1>1, <1>3, LargeRemainder
  <2>2. Wrap = PIPESIZE * (Wrap \div PIPESIZE) /\ Wrap \div PIPESIZE \in Int
    BY <1>1, Remainder
  <2>3. /\ a = PIPESIZE * (a \div PIPESIZE) + (a % PIPESIZE)
        /\ a \div PIPESIZE \in Int /\ a % PIPESIZE \in 0 .. PIPESIZE - 1
    BY <1>1, Remainder
  <2> DEFINE q == (a \div PIPESIZE) - (Wrap \div PIPESIZE)
  <2>4. a - Wrap = PIPESIZE * q + (a % PIPESIZE)
    <3>1. PIPESIZE * q = PIPESIZE * (a \div PIPESIZE) - PIPESIZE * (Wrap \div PIPESIZE)
      BY <1>1, <2>2, <2>3
    <3>2. PIPESIZE * (a \div PIPESIZE) \in Int
      BY <1>1, <2>3
    <3> QED BY <1>1, <2>2, <2>3, <3>1, <3>2
  <2>5. q \in Int
    BY <2>2, <2>3
  <2> HIDE DEF q
  <2>6. (PIPESIZE * q + (a % PIPESIZE)) % PIPESIZE = a % PIPESIZE
    BY <1>1, <2>3, <2>5, OneRemainder
  <2> QED BY <2>1, <2>4, <2>6
<1> QED BY <1>1, <1>2, <1>3

-----------------------------------------------------------------------------
(* How far apart the counters are.                                          *)
Apart(r, w) == (w - r + Wrap) % Wrap

LEMMA ApartIs ==
    ASSUME NEW r \in 0 .. Wrap - 1, NEW w \in 0 .. Wrap - 1
    PROVE  /\ Apart(r, w) = IF w >= r THEN w - r ELSE w - r + Wrap
           /\ Apart(r, w) \in 0 .. Wrap - 1
<1>1. Wrap \in Nat \ {0}
  BY PipeAssumption
<1>2. CASE w >= r
  <2>1. w - r + Wrap \in Wrap .. 2 * Wrap - 1
    BY <1>1, <1>2
  <2>2. (w - r + Wrap) % Wrap = w - r + Wrap - Wrap
    BY <1>1, <2>1, LargeRemainder
  <2> QED BY <1>1, <1>2, <2>2 DEF Apart
<1>3. CASE w < r
  <2>1. w - r + Wrap \in 0 .. Wrap - 1
    BY <1>1, <1>3
  <2>2. (w - r + Wrap) % Wrap = w - r + Wrap
    BY <1>1, <2>1, SmallRemainder
  <2> QED BY <1>1, <1>3, <2>1, <2>2 DEF Apart
<1> QED BY <1>2, <1>3

LEMMA NextCount ==
    ASSUME NEW r \in 0 .. Wrap - 1
    PROVE  /\ (r + 1) % Wrap = IF r + 1 = Wrap THEN 0 ELSE r + 1
           /\ (r + 1) % Wrap \in 0 .. Wrap - 1
<1>1. Wrap \in Nat \ {0}
  BY PipeAssumption
<1>2. CASE r + 1 = Wrap
  <2>1. r + 1 \in Wrap .. 2 * Wrap - 1
    BY <1>1, <1>2
  <2>2. (r + 1) % Wrap = r + 1 - Wrap
    BY <1>1, <2>1, LargeRemainder
  <2> QED BY <1>1, <1>2, <2>2
<1>3. CASE r + 1 < Wrap
  <2>1. (r + 1) % Wrap = r + 1
    BY <1>1, <1>3, SmallRemainder
  <2> QED BY <1>1, <1>3, <2>1
<1> QED BY <1>1, <1>2, <1>3

(* The slot of nwrite is the one after those in use.                        *)
LEMMA EndSlot ==
    ASSUME NEW r \in 0 .. Wrap - 1, NEW w \in 0 .. Wrap - 1
    PROVE  w % PIPESIZE = (r + Apart(r, w)) % PIPESIZE
<1>1. Wrap \in Nat \ {0}
  BY PipeAssumption
<1>2. CASE w >= r
  <2>1. r + Apart(r, w) = w
    BY <1>1, <1>2, ApartIs
  <2> QED BY <2>1
<1>3. CASE w < r
  <2>1. r + Apart(r, w) = w + Wrap /\ w + Wrap \in Wrap .. 2 * Wrap - 1
    BY <1>1, <1>3, ApartIs
  <2>2. (w + Wrap) % Wrap = w + Wrap - Wrap
    BY <1>1, <2>1, LargeRemainder
  <2>3. (w + Wrap) % Wrap = w
    BY <1>1, <2>2
  <2>4. w + Wrap \in 0 .. 2 * Wrap - 1
    BY <1>1, <2>1
  <2>5. ((w + Wrap) % Wrap) % PIPESIZE = (w + Wrap) % PIPESIZE
    BY <2>4, WrapKeepsSlot
  <2> QED BY <2>1, <2>3, <2>5
<1> QED BY <1>1, <1>2, <1>3

(* Reading moves one counter towards the other ...                          *)
LEMMA OneLess ==
    ASSUME NEW r \in 0 .. Wrap - 1, NEW w \in 0 .. Wrap - 1, r # w
    PROVE  Apart((r + 1) % Wrap, w) = Apart(r, w) - 1 /\ Apart(r, w) >= 1
<1> DEFINE s == (r + 1) % Wrap
<1>1. Wrap \in Nat \ {0}
  BY PipeAssumption
<1>2. s = (IF r + 1 = Wrap THEN 0 ELSE r + 1) /\ s \in 0 .. Wrap - 1
  BY NextCount
<1> HIDE DEF s
<1>3. Apart(s, w) = IF w >= s THEN w - s ELSE w - s + Wrap
  BY <1>2, ApartIs
<1>4. Apart(r, w) = IF w >= r THEN w - r ELSE w - r + Wrap
  BY ApartIs
<1>5. Apart(s, w) = Apart(r, w) - 1 /\ Apart(r, w) >= 1
  BY <1>1, <1>2, <1>3, <1>4
<1> QED BY <1>5 DEF s

(* ... and writing away from it.                                            *)
LEMMA OneMore ==
    ASSUME NEW r \in 0 .. Wrap - 1, NEW w \in 0 .. Wrap - 1, Apart(r, w) < Wrap - 1
    PROVE  Apart(r, (w + 1) % Wrap) = Apart(r, w) + 1
<1> DEFINE v == (w + 1) % Wrap
<1>1. Wrap \in Nat \ {0}
  BY PipeAssumption
<1>2. v = (IF w + 1 = Wrap THEN 0 ELSE w + 1) /\ v \in 0 .. Wrap - 1
  BY NextCount
<1> HIDE DEF v
<1>3. Apart(r, v) = IF v >= r THEN v - r ELSE v - r + Wrap
  BY <1>2, ApartIs
<1>4. Apart(r, w) = IF w >= r THEN w - r ELSE w - r + Wrap
  BY ApartIs
<1>5. Apart(r, v) = Apart(r, w) + 1
  BY <1>1, <1>2, <1>3, <1>4
<1> QED BY <1>5 DEF v

LEMMA FullApart ==
    ASSUME NEW r \in 0 .. Wrap - 1, NEW w \in 0 .. Wrap - 1
    PROVE  w = (r + PIPESIZE) % Wrap <=> Apart(r, w) = PIPESIZE
<1>1. Wrap \in Nat \ {0} /\ PIPESIZE \in Nat \ {0} /\ Wrap > PIPESIZE
  BY PipeAssumption
<1>2. Apart(r, w) = IF w >= r THEN w - r ELSE w - r + Wrap
  BY ApartIs
<1>3. CASE r + PIPESIZE < Wrap
  <2>1. (r + PIPESIZE) % Wrap = r + PIPESIZE
    BY <1>1, <1>3, SmallRemainder
  <2> QED BY <1>1, <1>2, <1>3, <2>1
<1>4. CASE r + PIPESIZE >= Wrap
  <2>1. r + PIPESIZE \in Wrap .. 2 * Wrap - 1
    BY <1>1, <1>4
  <2>2. (r + PIPESIZE) % Wrap = r + PIPESIZE - Wrap
    BY <1>1, <2>1, LargeRemainder
  <2> QED BY <1>1, <1>2, <1>4, <2>2
<1> QED BY <1>1, <1>3, <1>4

(* The slot i bytes after the next one to read.                             *)
LEMMA NextSlot ==
    ASSUME NEW r \in 0 .. Wrap - 1, NEW i \in 1 .. Wrap
    PROVE  (((r + 1) % Wrap) + i - 1) % PIPESIZE = (r + i) % PIPESIZE
<1>1. Wrap \in Nat \ {0} /\ PIPESIZE \in Nat \ {0}
  BY PipeAssumption
<1>2. CASE r + 1 = Wrap
  <2>1. ((r + 1) % Wrap) + i - 1 = i - 1
    BY <1>2, NextCount
  <2>2. r + i \in Wrap .. 2 * Wrap - 1
    BY <1>1, <1>2
  <2>3. (r + i) % Wrap = r + i - Wrap
    BY <1>1, <2>2, LargeRemainder
  <2>4. (r + i) % Wrap = i - 1
    BY <1>1, <1>2, <2>3
  <2>5. r + i \in 0 .. 2 * Wrap - 1
    BY <1>1, <2>2
  <2>6. ((r + i) % Wrap) % PIPESIZE = (r + i) % PIPESIZE
    BY <2>5, WrapKeepsSlot
  <2> QED BY <2>1, <2>4, <2>6
<1>3. CASE r + 1 # Wrap
  <2>1. ((r + 1) % Wrap) + i - 1 = r + i
    BY <1>3, NextCount
  <2> QED BY <2>1
<1> QED BY <1>2, <1>3

-----------------------------------------------------------------------------
(* The counters of the pipe.                                                *)

LEMMA UsedIs ==
    ASSUME TypeOK
    PROVE  /\ pipe.nread \in 0 .. Wrap - 1 /\ pipe.nwrite \in 0 .. Wrap - 1
           /\ Used = Apart(pipe.nread, pipe.nwrite) /\ Used \in 0 .. Wrap - 1
           /\ Empty <=> Used = 0
           /\ Full <=> Used = PIPESIZE
<1>1. pipe.nread \in 0 .. Wrap - 1 /\ pipe.nwrite \in 0 .. Wrap - 1
  BY DEF TypeOK
<1>2. Used = Apart(pipe.nread, pipe.nwrite)
  BY DEF Used, Apart
<1>3. /\ Used = IF pipe.nwrite >= pipe.nread THEN pipe.nwrite - pipe.nread
                ELSE pipe.nwrite - pipe.nread + Wrap
      /\ Used \in 0 .. Wrap - 1
  BY <1>1, <1>2, ApartIs
<1>4. Empty <=> Used = 0
  BY <1>1, <1>3, PipeAssumption DEF Empty
<1>5. Full <=> Used = PIPESIZE
  BY <1>1, <1>2, FullApart DEF Full
<1> QED BY <1>1, <1>2, <1>3, <1>4, <1>5

LEMMA SlotIs ==
    ASSUME TypeOK, NEW i \in 1 .. Wrap
    PROVE  Slot(i) \in 0 .. PIPESIZE - 1
<1>1. pipe.nread + i - 1 \in Int /\ PIPESIZE \in Nat \ {0}
  BY PipeAssumption DEF TypeOK
<1> QED BY <1>1, Remainder DEF Slot

LEMMA WriteSlot ==
    ASSUME TypeOK, Used < PIPESIZE
    PROVE  /\ pipe.nwrite % PIPESIZE \in 0 .. PIPESIZE - 1
           /\ pipe.nwrite % PIPESIZE = Slot(Used + 1)
           /\ \A i \in 1 .. Used : Slot(i) # pipe.nwrite % PIPESIZE
<1>1. PIPESIZE \in Nat \ {0}
  BY PipeAssumption
<1>2. /\ pipe.nread \in 0 .. Wrap - 1 /\ pipe.nwrite \in 0 .. Wrap - 1
      /\ Used = Apart(pipe.nread, pipe.nwrite) /\ Used \in Nat
  BY UsedIs
<1>3. pipe.nwrite % PIPESIZE = (pipe.nread + Used) % PIPESIZE
  BY <1>2, EndSlot
<1>4. pipe.nwrite % PIPESIZE \in 0 .. PIPESIZE - 1
  <2>1. pipe.nwrite \in Int
    BY <1>2
  <2> QED BY <1>1, <2>1, Remainder
<1>5. pipe.nread + (Used + 1) - 1 = pipe.nread + Used
  BY <1>2
<1>6. pipe.nwrite % PIPESIZE = Slot(Used + 1)
  BY <1>3, <1>5 DEF Slot
<1>7. ASSUME NEW i \in 1 .. Used PROVE Slot(i) # pipe.nwrite % PIPESIZE
  <2>1. /\ pipe.nread + i - 1 \in Int /\ pipe.nread + Used \in Int
        /\ pipe.nread + i - 1 < pipe.nread + Used
        /\ pipe.nread + Used < pipe.nread + i - 1 + PIPESIZE
    BY <1>1, <1>2
  <2>2. (pipe.nread + i - 1) % PIPESIZE # (pipe.nread + Used) % PIPESIZE
    BY <1>1, <2>1, OtherRemainder
  <2> QED BY <1>3, <2>2 DEF Slot
<1> QED BY <1>4, <1>6, <1>7

(* The bytes under way are a sequence.                                      *)
LEMMA ContentsIs ==
    ASSUME TypeOK, Buffered
    PROVE  /\ Contents \in Seq(Bytes) /\ Len(Contents) = Used
           /\ \A i \in 1 .. Used : Contents[i] = pipe.data[Slot(i)]
<1>1. Used \in Nat
  BY UsedIs
<1>2. Contents = [i \in 1 .. Used |-> pipe.data[Slot(i)]]
  BY DEF Contents, Slot
<1>3. \A i \in 1 .. Used : pipe.data[Slot(i)] \in Bytes
  BY DEF Buffered
<1> QED BY <1>1, <1>2, <1>3

(* An empty pipe, and only that, has none.                                  *)
LEMMA ContentsEmpty ==
    ASSUME TypeOK, Buffered
    PROVE  Empty <=> Contents = << >>
<1>1. Contents \in Seq(Bytes) /\ Len(Contents) = Used
  BY ContentsIs
<1>2. Empty <=> Used = 0
  BY UsedIs
<1> QED BY <1>1, <1>2

LEMMA UsedIsNext == TypeOK' =>
    /\ pipe'.nread \in 0 .. Wrap - 1 /\ pipe'.nwrite \in 0 .. Wrap - 1
    /\ Used' = Apart(pipe'.nread, pipe'.nwrite) /\ Used' \in 0 .. Wrap - 1
    /\ Empty' <=> Used' = 0
    /\ Full' <=> Used' = PIPESIZE
<1>1. TypeOK =>
          /\ pipe.nread \in 0 .. Wrap - 1 /\ pipe.nwrite \in 0 .. Wrap - 1
          /\ Used = Apart(pipe.nread, pipe.nwrite) /\ Used \in 0 .. Wrap - 1
          /\ Empty <=> Used = 0
          /\ Full <=> Used = PIPESIZE
  BY UsedIs
<1>2. TypeOK' =>
          (/\ pipe.nread \in 0 .. Wrap - 1 /\ pipe.nwrite \in 0 .. Wrap - 1
           /\ Used = Apart(pipe.nread, pipe.nwrite) /\ Used \in 0 .. Wrap - 1
           /\ Empty <=> Used = 0
           /\ Full <=> Used = PIPESIZE)'
  BY <1>1, PTL
<1> QED BY <1>2 DEF Apart

LEMMA ContentsIsNext == TypeOK' /\ Buffered' =>
    /\ Contents' \in Seq(Bytes) /\ Len(Contents') = Used'
    /\ \A i \in 1 .. Used' : Contents'[i] = pipe'.data[Slot(i)']
<1>1. TypeOK /\ Buffered =>
          /\ Contents \in Seq(Bytes) /\ Len(Contents) = Used
          /\ \A i \in 1 .. Used : Contents[i] = pipe.data[Slot(i)]
  BY ContentsIs
<1>2. TypeOK' /\ Buffered' =>
          (/\ Contents \in Seq(Bytes) /\ Len(Contents) = Used
           /\ \A i \in 1 .. Used : Contents[i] = pipe.data[Slot(i)])'
  BY <1>1, PTL
<1> QED BY <1>2

-----------------------------------------------------------------------------
(* The turn of one process.                                                 *)

(* p moves; others stay, or wake up.                                        *)
Moves(p) ==
    /\ pc' \in [Procs -> Places]
    /\ \A q \in Procs \ {p} : pc'[q] = pc[q] \/ (pc[q] = "asleep" /\ pc'[q] = "woken")

(* Only p changes what it has in hand, and takes or gives back a lock.      *)
Turn(p) ==
    /\ Moves(p)
    /\ \A q \in Procs \ {p} :
          loc'[q] = loc[q] /\ fds'[q] = fds[q] /\ (lk' = q <=> lk = q) /\ (ptable' = q <=> ptable = q)
    /\ pc'[p] \in Holding <=> lk' = p
    /\ pc'[p] \in {"release", "sched"} <=> ptable' = p

LEMMA GoesMoves ==
    ASSUME TypeOK, NEW p \in Procs, NEW x \in Places, Goes(p, x)
    PROVE  Moves(p) /\ pc'[p] = x
BY DEF TypeOK, Goes, Moves

LEMMA WakeupMoves ==
    ASSUME TypeOK, NEW p \in Procs, pc[p] # "asleep", NEW x \in Places, NEW chan,
           pc' = Wakeup([pc EXCEPT ![p] = x], chan)
    PROVE  Moves(p) /\ pc'[p] = x
<1>1. pc \in [Procs -> Places] /\ "woken" \in Places
  BY DEF TypeOK, Places
<1>2. \A q \in Procs :
          pc'[q] = IF pc[q] = "asleep" /\ loc[q].chan = chan THEN "woken"
                   ELSE IF q = p THEN x ELSE pc[q]
  BY <1>1 DEF Wakeup
<1>3. pc' = [q \in Procs |-> pc'[q]]
  BY DEF Wakeup
<1>4. pc' \in [Procs -> Places]
  BY <1>1, <1>2, <1>3
<1> QED BY <1>2, <1>4 DEF Moves

LEMMA LocksKept ==
    ASSUME LocksHeld, NEW p \in Procs, Turn(p),
           freed' => \A q \in Procs : pc'[q] = "user" /\ fds'[q] = {}
    PROVE  LocksHeld'
<1>1. ASSUME NEW q \in Procs
      PROVE  /\ pc'[q] \in Holding <=> lk' = q
             /\ pc'[q] \in {"release", "sched"} <=> ptable' = q
  <2>1. CASE q = p
    BY <2>1 DEF Turn
  <2>2. CASE q # p
    <3>1. pc'[q] = pc[q] \/ (pc[q] = "asleep" /\ pc'[q] = "woken")
      BY <2>2 DEF Turn, Moves
    <3>2. (lk' = q <=> lk = q) /\ (ptable' = q <=> ptable = q)
      BY <2>2 DEF Turn
    <3>3. /\ pc[q] \in Holding <=> lk = q
          /\ pc[q] \in {"release", "sched"} <=> ptable = q
      BY DEF LocksHeld
    <3> QED BY <3>1, <3>2, <3>3 DEF Holding
  <2> QED BY <2>1, <2>2
<1> QED BY <1>1 DEF LocksHeld

LEMMA LocalsKept ==
    ASSUME Locals, NEW p \in Procs, Turn(p), LocalOK(p)'
    PROVE  Locals'
<1>1. ASSUME NEW q \in Procs PROVE LocalOK(q)'
  <2>1. CASE q = p
    BY <2>1
  <2>2. CASE q # p
    <3>1. pc'[q] = pc[q] \/ (pc[q] = "asleep" /\ pc'[q] = "woken")
      BY <2>2 DEF Turn, Moves
    <3>2. loc'[q] = loc[q] /\ fds'[q] = fds[q]
      BY <2>2 DEF Turn
    <3>3. LocalOK(q)
      BY DEF Locals
    <3> QED BY <3>1, <3>2, <3>3 DEF LocalOK
  <2> QED BY <2>1, <2>2
<1> QED BY <1>1 DEF Locals

LEMMA EndsKept ==
    ASSUME EndsOpen, NEW p \in Procs, Turn(p), UNCHANGED <<pipe, fds>>,
           pc[p] # "close", pc'[p] # "close"
    PROVE  EndsOpen'
<1>1. ASSUME NEW q \in Procs, NEW e PROVE Closing(q, e)' <=> Closing(q, e)
  <2>1. CASE q = p
    BY <2>1 DEF Closing
  <2>2. CASE q # p
    BY <2>2 DEF Turn, Moves, Closing
  <2> QED BY <2>1, <2>2
<1> QED BY <1>1 DEF EndsOpen

LEMMA BufferedKept ==
    ASSUME TypeOK, Buffered, UNCHANGED pipe
    PROVE  Buffered' /\ Used' = Used /\ (Empty' <=> Empty) /\ Contents' = Contents
<1>1. Used' = Used /\ (Empty' <=> Empty)
  BY DEF Used, Empty
<1>2. Contents' = Contents
  BY <1>1 DEF Contents
<1>3. Buffered'
  BY <1>1 DEF Buffered, Slot
<1> QED BY <1>1, <1>2, <1>3

(* Of the others nobody copies while p has the lock.                        *)
LEMMA SeenKept ==
    ASSUME EndSeen, NEW p \in Procs, Turn(p),
           UNCHANGED pipe \/ \A q \in Procs \ {p} : pc[q] # "copy",
           ~(pc'[p] = "copy" /\ loc'[p].i = 0 /\ Empty') \/ "w" \notin pipe'.open
    PROVE  EndSeen'
<1>1. ASSUME NEW q \in Procs, pc'[q] = "copy", loc'[q].i = 0, Empty'
      PROVE  "w" \notin pipe'.open
  <2>1. CASE q = p
    BY <1>1, <2>1
  <2>2. CASE q # p
    <3>1. pc[q] = "copy" /\ loc[q] = loc'[q]
      BY <1>1, <2>2 DEF Turn, Moves
    <3>2. UNCHANGED pipe
      BY <2>2, <3>1
    <3> QED BY <1>1, <3>1, <3>2 DEF EndSeen, Empty
  <2> QED BY <2>1, <2>2
<1> QED BY <1>1 DEF EndSeen

(* The lock has one holder.                                                 *)
LEMMA OneHolds ==
    ASSUME LocksHeld, NEW p \in Procs, pc[p] \in Holding \/ lk = NoProc
    PROVE  \A q \in Procs \ {p} : pc[q] \notin Holding
BY PipeAssumption DEF LocksHeld

(* A step that leaves the pipe and the descriptors alone.                   *)
LEMMA QuietKeeps ==
    ASSUME IInv, NEW p \in Procs, Turn(p), TypeOK', LocalOK(p)',
           UNCHANGED <<pipe, fds, freed>>, pc[p] # "user", pc[p] # "close", pc'[p] # "close",
           ~(pc'[p] = "copy" /\ loc'[p].i = 0 /\ Empty) \/ "w" \notin pipe.open
    PROVE  IInv'
<1>1. ~freed'
  BY DEF IInv, LocksHeld
<1>2. LocksHeld'
  BY <1>1, LocksKept DEF IInv
<1>3. Locals'
  BY LocalsKept DEF IInv
<1>4. EndsOpen'
  BY EndsKept DEF IInv
<1>5. Buffered' /\ (Empty' <=> Empty)
  BY BufferedKept DEF IInv
<1>6. EndSeen'
  BY <1>5, SeenKept DEF IInv
<1> QED BY <1>2, <1>3, <1>4, <1>5, <1>6 DEF IInv

-----------------------------------------------------------------------------
(* sleep, sched and the end of sleep.                                       *)

LEMMA SleepKeeps == ASSUME IInv, NEW p \in Procs, Sleep(p) PROVE IInv'
<1>1. pc[p] = "sleep" /\ lk = p /\ ptable = NoProc /\ p # NoProc
  BY PipeAssumption DEF IInv, LocksHeld, Sleep, In, Acquire, Holding
<1>2. Moves(p) /\ pc'[p] = "release"
  BY GoesMoves DEF IInv, Sleep, Places, Holding
<1>3. UNCHANGED <<pipe, lk, fds, killed, loc, got, freed>> /\ ptable' = p
  BY DEF Sleep, Acquire
<1>4. TypeOK'
  BY <1>2, <1>3 DEF IInv, TypeOK, Moves
<1>5. Turn(p)
  BY <1>1, <1>2, <1>3, PipeAssumption DEF Turn, Holding
<1>6. LocalOK(p)'
  BY <1>1, <1>2, <1>3 DEF IInv, Locals, LocalOK
<1> QED BY <1>1, <1>2, <1>3, <1>4, <1>5, <1>6, QuietKeeps

LEMMA SleepReleaseKeeps == ASSUME IInv, NEW p \in Procs, SleepRelease(p) PROVE IInv'
<1>1. pc[p] = "release" /\ lk = p /\ ptable = p /\ p # NoProc
  BY PipeAssumption DEF IInv, LocksHeld, SleepRelease, In, Holding
<1>2. Moves(p) /\ pc'[p] = "sched"
  BY GoesMoves DEF IInv, SleepRelease, Places
<1>3. UNCHANGED <<pipe, ptable, fds, killed, loc, got, freed>> /\ lk' = NoProc
  BY DEF SleepRelease, Release
<1>4. TypeOK'
  BY <1>2, <1>3 DEF IInv, TypeOK, Moves
<1>5. Turn(p)
  BY <1>1, <1>2, <1>3, PipeAssumption DEF Turn, Holding
<1>6. LocalOK(p)'
  BY <1>1, <1>2, <1>3 DEF IInv, Locals, LocalOK
<1> QED BY <1>1, <1>2, <1>3, <1>4, <1>5, <1>6, QuietKeeps

LEMMA SchedKeeps == ASSUME IInv, NEW p \in Procs, Sched(p) PROVE IInv'
<1>1. pc[p] = "sched" /\ lk # p /\ ptable = p /\ p # NoProc
  BY PipeAssumption DEF IInv, LocksHeld, Sched, In, Holding
<1>2. Moves(p) /\ pc'[p] = "asleep"
  BY GoesMoves DEF IInv, Sched, Places
<1>3. UNCHANGED <<pipe, lk, fds, killed, loc, got, freed>> /\ ptable' = NoProc
  BY DEF Sched, Release
<1>4. TypeOK'
  BY <1>2, <1>3 DEF IInv, TypeOK, Moves
<1>5. Turn(p)
  BY <1>1, <1>2, <1>3, PipeAssumption DEF Turn, Holding
<1>6. LocalOK(p)'
  BY <1>1, <1>2, <1>3 DEF IInv, Locals, LocalOK
<1> QED BY <1>1, <1>2, <1>3, <1>4, <1>5, <1>6, QuietKeeps

LEMMA WokenKeeps == ASSUME IInv, NEW p \in Procs, Woken(p) PROVE IInv'
<1>1. pc[p] = "woken" /\ lk = NoProc /\ ptable # p /\ p # NoProc /\ lk' = p
  BY PipeAssumption DEF IInv, LocksHeld, Woken, In, Acquire
<1>2. Moves(p) /\ pc'[p] = IF loc[p].call = "r" THEN "read" ELSE "write"
  BY GoesMoves DEF IInv, Woken, Places, Holding
<1>3. UNCHANGED <<pipe, ptable, fds, killed, got, freed>>
  BY DEF Woken
<1>4. /\ loc' \in [Procs -> [call : Ends \union {"none"}, n : Nat, i : Nat, chan : {"nread", "nwrite", "none"}]]
      /\ loc'[p].call = loc[p].call /\ loc'[p].n = loc[p].n /\ loc'[p].i = loc[p].i
      /\ \A q \in Procs \ {p} : loc'[q] = loc[q]
  BY DEF IInv, TypeOK, Woken
<1>5. TypeOK'
  BY <1>1, <1>2, <1>3, <1>4 DEF IInv, TypeOK, Moves
<1>6. Turn(p)
  BY <1>1, <1>2, <1>3, <1>4, PipeAssumption DEF Turn, Holding
<1>7. LocalOK(p)'
  BY <1>1, <1>2, <1>3, <1>4 DEF IInv, Locals, LocalOK, Ends
<1> QED BY <1>1, <1>2, <1>3, <1>5, <1>6, <1>7, QuietKeeps

(* What a call leaves in hand when it returns.                              *)
LEMMA ReturnsLocal ==
    ASSUME TypeOK, NEW p \in Procs, NEW x \in Bytes \union {"start", "end", "error", "done"}, Returns(p, x)
    PROVE  /\ lk' = NoProc
           /\ loc' \in [Procs -> [call : Ends \union {"none"}, n : Nat, i : Nat, chan : {"nread", "nwrite", "none"}]]
           /\ loc'[p] = NoLoc /\ \A q \in Procs \ {p} : loc'[q] = loc[q]
           /\ got' \in [Procs -> Bytes \union {"start", "end", "error", "done"}]
BY DEF TypeOK, Returns, Release, Gets, NoLoc

(* ... and it keeps the invariant.                                          *)
LEMMA ReturnsKeeps ==
    ASSUME IInv, NEW p \in Procs, NEW x \in Bytes \union {"start", "end", "error", "done"}, Returns(p, x),
           pc[p] \in {"copy", "read", "write"}, Moves(p), pc'[p] = "user",
           UNCHANGED <<pipe, ptable, fds, killed, freed>>
    PROVE  IInv'
<1>1. lk = p /\ ptable # p /\ p # NoProc
  BY PipeAssumption DEF IInv, LocksHeld, Holding
<1>2. /\ lk' = NoProc
      /\ loc' \in [Procs -> [call : Ends \union {"none"}, n : Nat, i : Nat, chan : {"nread", "nwrite", "none"}]]
      /\ loc'[p] = NoLoc /\ \A q \in Procs \ {p} : loc'[q] = loc[q]
      /\ got' \in [Procs -> Bytes \union {"start", "end", "error", "done"}]
  BY ReturnsLocal DEF IInv
<1>3. TypeOK'
  BY <1>2 DEF IInv, TypeOK, Moves
<1>4. Turn(p)
  BY <1>1, <1>2, PipeAssumption DEF Turn, Holding
<1>5. LocalOK(p)'
  BY <1>2 DEF LocalOK
<1> QED BY <1>3, <1>4, <1>5, QuietKeeps

(* A call that goes to sleep.                                               *)
LEMMA SleepsKeeps ==
    ASSUME IInv, NEW p \in Procs, NEW chan \in {"nread", "nwrite"}, Sleeps(p, chan),
           pc[p] \in {"read", "write"}, Moves(p), pc'[p] = "sleep",
           UNCHANGED <<pipe, locks, fds, killed, got, freed>>
    PROVE  IInv'
<1>1. lk = p /\ ptable # p
  BY DEF IInv, LocksHeld, Holding
<1>2. /\ loc' \in [Procs -> [call : Ends \union {"none"}, n : Nat, i : Nat, chan : {"nread", "nwrite", "none"}]]
      /\ loc'[p].call = loc[p].call /\ loc'[p].n = loc[p].n /\ loc'[p].i = loc[p].i
      /\ \A q \in Procs \ {p} : loc'[q] = loc[q]
  BY DEF IInv, TypeOK, Sleeps
<1>3. UNCHANGED <<lk, ptable>>
  BY DEF locks
<1>4. TypeOK'
  BY <1>2, <1>3 DEF IInv, TypeOK, Moves
<1>5. Turn(p)
  BY <1>1, <1>2, <1>3 DEF Turn, Holding
<1>6. LocalOK(p)'
  BY <1>2 DEF IInv, Locals, LocalOK
<1> QED BY <1>4, <1>5, <1>6, QuietKeeps

-----------------------------------------------------------------------------
(* kill, and the calls.                                                     *)

LEMMA KillKeeps == ASSUME IInv, NEW p \in Procs, Kill(p) PROVE IInv'
<1>1. UNCHANGED <<pipe, lk, ptable, fds, loc, got, freed>> /\ killed' = killed \union {p}
  BY DEF Kill, Free
<1>2. \/ pc[p] = "asleep" /\ Moves(p) /\ pc'[p] = "woken"
      \/ pc' = pc
  BY GoesMoves DEF IInv, Kill, In, Places
<1>3. TypeOK'
  BY <1>1, <1>2 DEF IInv, TypeOK, Moves
<1>4. CASE pc' = pc
  <2>1. LocksHeld'
    BY <1>1, <1>4 DEF IInv, LocksHeld
  <2>2. Locals'
    BY <1>1, <1>4 DEF IInv, Locals, LocalOK
  <2>3. EndsOpen'
    BY <1>1, <1>4 DEF IInv, EndsOpen, Closing
  <2>4. Buffered'
    BY <1>1, BufferedKept DEF IInv
  <2>5. EndSeen'
    BY <1>1, <1>4 DEF IInv, EndSeen, Empty
  <2> QED BY <1>3, <2>1, <2>2, <2>3, <2>4, <2>5 DEF IInv
<1>5. CASE pc[p] = "asleep" /\ Moves(p) /\ pc'[p] = "woken"
  <2>1. lk # p /\ ptable # p
    BY <1>5 DEF IInv, LocksHeld, Holding
  <2>2. Turn(p)
    BY <1>1, <1>5, <2>1 DEF Turn, Holding
  <2>3. LocalOK(p)'
    BY <1>1, <1>5 DEF IInv, Locals, LocalOK
  <2> QED BY <1>1, <1>3, <1>5, <2>2, <2>3, QuietKeeps
<1> QED BY <1>2, <1>4, <1>5

LEMMA CallKeeps ==
    ASSUME IInv, NEW p \in Procs, NEW e \in Ends, NEW n \in Lengths, Call(p, e, n)
    PROVE  IInv'
<1>1. /\ pc[p] = "user" /\ e \in fds[p] /\ lk = NoProc /\ ptable # p /\ p # NoProc /\ lk' = p
      /\ UNCHANGED <<pipe, ptable, fds, killed, got, freed>>
  BY PipeAssumption DEF IInv, LocksHeld, Call, In, Acquire
<1>2. Moves(p) /\ pc'[p] = IF e = "r" THEN "read" ELSE "write"
  BY GoesMoves DEF IInv, Call, Places, Holding
<1>3. n \in Nat
  BY PipeAssumption
<1>4. /\ loc' \in [Procs -> [call : Ends \union {"none"}, n : Nat, i : Nat, chan : {"nread", "nwrite", "none"}]]
      /\ loc'[p].call = e /\ loc'[p].n = n /\ loc'[p].i = loc[p].i
      /\ \A q \in Procs \ {p} : loc'[q] = loc[q]
  <2>1. loc \in [Procs -> [call : Ends \union {"none"}, n : Nat, i : Nat, chan : {"nread", "nwrite", "none"}]]
    BY DEF IInv, TypeOK
  <2>2. loc' = [loc EXCEPT ![p].call = e, ![p].n = n]
    BY DEF Call
  <2> QED BY <1>3, <2>1, <2>2
<1>5. loc[p].i = 0
  BY <1>1 DEF IInv, Locals, LocalOK, NoLoc
<1>6. TypeOK'
  BY <1>1, <1>2, <1>4 DEF IInv, TypeOK, Moves
<1>7. Turn(p)
  BY <1>1, <1>2, <1>4, PipeAssumption DEF Turn, Holding
<1>8. LocalOK(p)'
  BY <1>1, <1>2, <1>3, <1>4, <1>5 DEF LocalOK, Ends
<1>9. ~freed'
  BY <1>1 DEF IInv, LocksHeld
<1>10. LocksHeld' /\ Locals'
  BY <1>7, <1>8, <1>9, LocksKept, LocalsKept DEF IInv
<1>11. EndsOpen'
  BY <1>1, <1>2, <1>7, EndsKept DEF IInv
<1>12. Buffered' /\ EndSeen'
  BY <1>1, <1>2, <1>7, BufferedKept, SeenKept DEF IInv
<1> QED BY <1>6, <1>10, <1>11, <1>12 DEF IInv

LEMMA ReadKeeps == ASSUME IInv, NEW p \in Procs, Read(p) PROVE IInv'
<1>1. /\ pc[p] = "read" /\ lk = p /\ ptable # p /\ p # NoProc
      /\ UNCHANGED <<pipe, ptable, fds, killed, freed>>
  BY PipeAssumption DEF IInv, LocksHeld, Read, In, Holding
<1>2. CASE ~Empty \/ "w" \notin pipe.open
  <2>1. Goes(p, "copy") /\ UNCHANGED <<lk, loc, got>>
    BY <1>2 DEF Read
  <2>2. Moves(p) /\ pc'[p] = "copy"
    BY <2>1, GoesMoves DEF IInv, Places, Holding
  <2>3. TypeOK'
    BY <1>1, <2>1, <2>2 DEF IInv, TypeOK, Moves
  <2>4. Turn(p)
    BY <1>1, <2>1, <2>2 DEF Turn, Holding
  <2>5. LocalOK(p)'
    BY <1>1, <2>1, <2>2 DEF IInv, Locals, LocalOK
  <2> QED BY <1>1, <1>2, <2>2, <2>3, <2>4, <2>5, QuietKeeps
<1>3. CASE ~(~Empty \/ "w" \notin pipe.open) /\ p \in killed
  <2>1. Returns(p, "error") /\ Goes(p, "user")
    BY <1>3 DEF Read
  <2>2. Moves(p) /\ pc'[p] = "user"
    BY <2>1, GoesMoves DEF IInv, Places
  <2> QED BY <1>1, <2>1, <2>2, ReturnsKeeps
<1>4. CASE ~(~Empty \/ "w" \notin pipe.open) /\ p \notin killed
  <2>1. Sleeps(p, "nread") /\ Goes(p, "sleep") /\ UNCHANGED <<lk, got>>
    BY <1>4 DEF Read
  <2>2. Moves(p) /\ pc'[p] = "sleep"
    BY <2>1, GoesMoves DEF IInv, Places, Holding
  <2>3. UNCHANGED locks
    BY <1>1, <2>1 DEF locks
  <2> QED BY <1>1, <2>1, <2>2, <2>3, SleepsKeeps
<1> QED BY <1>2, <1>3, <1>4

LEMMA ReadDoneKeeps == ASSUME IInv, NEW p \in Procs, ReadDone(p) PROVE IInv'
<1>1. /\ pc[p] = "copy" /\ UNCHANGED <<pipe, ptable, fds, killed, freed>>
      /\ pc' = Wakeup([pc EXCEPT ![p] = "user"], "nwrite")
      /\ Returns(p, IF loc[p].i = 0 THEN "end" ELSE got[p])
  BY DEF ReadDone, In, Free
<1>2. Moves(p) /\ pc'[p] = "user"
  BY <1>1, WakeupMoves DEF IInv, Places
<1>3. (IF loc[p].i = 0 THEN "end" ELSE got[p]) \in Bytes \union {"start", "end", "error", "done"}
  BY DEF IInv, TypeOK
<1> QED BY <1>1, <1>2, <1>3, ReturnsKeeps

LEMMA WriteFullKeeps == ASSUME IInv, NEW p \in Procs, WriteFull(p) PROVE IInv'
<1>1. pc[p] = "write" /\ UNCHANGED <<pipe, fds, killed, freed>>
  BY DEF WriteFull, In
<1>2. CASE "r" \notin pipe.open \/ p \in killed
  <2>1. Returns(p, "error") /\ Goes(p, "user") /\ UNCHANGED ptable
    BY <1>2 DEF WriteFull
  <2>2. Moves(p) /\ pc'[p] = "user"
    BY <2>1, GoesMoves DEF IInv, Places
  <2> QED BY <1>1, <2>1, <2>2, ReturnsKeeps
<1>3. CASE ~("r" \notin pipe.open \/ p \in killed)
  <2>1. /\ UNCHANGED <<lk, ptable, got>>
        /\ pc' = Wakeup([pc EXCEPT ![p] = "sleep"], "nread")
        /\ Sleeps(p, "nwrite")
    BY <1>3 DEF WriteFull, Free
  <2>2. Moves(p) /\ pc'[p] = "sleep"
    BY <1>1, <2>1, WakeupMoves DEF IInv, Places, Holding
  <2>3. UNCHANGED locks
    BY <2>1 DEF locks
  <2> QED BY <1>1, <2>1, <2>2, <2>3, SleepsKeeps
<1> QED BY <1>2, <1>3

LEMMA WriteDoneKeeps == ASSUME IInv, NEW p \in Procs, WriteDone(p) PROVE IInv'
<1>1. /\ pc[p] = "write" /\ UNCHANGED <<pipe, ptable, fds, killed, freed>>
      /\ pc' = Wakeup([pc EXCEPT ![p] = "user"], "nread")
      /\ Returns(p, "done")
  BY DEF WriteDone, In, Free
<1>2. Moves(p) /\ pc'[p] = "user"
  BY <1>1, WakeupMoves DEF IInv, Places
<1> QED BY <1>1, <1>2, ReturnsKeeps

-----------------------------------------------------------------------------
(* A byte goes into the pipe, or out of it.                                 *)

LEMMA CopyStep ==
    ASSUME IInv, NEW p \in Procs, Copy(p)
    PROVE  /\ pc[p] = "copy" /\ lk = p /\ Used >= 1
           /\ pipe'.data = pipe.data /\ pipe'.nwrite = pipe.nwrite /\ pipe'.open = pipe.open
           /\ pipe'.nread = (pipe.nread + 1) % Wrap
           /\ got' = [got EXCEPT ![p] = pipe.data[Slot(1)]] /\ pipe.data[Slot(1)] \in Bytes
           /\ loc' = [loc EXCEPT ![p].i = loc[p].i + 1] /\ loc[p].i < loc[p].n
           /\ UNCHANGED <<lk, ptable, fds, killed, pc, freed>>
<1>1. pc[p] = "copy" /\ lk = p /\ UNCHANGED <<lk, ptable, fds, killed, pc, freed>>
  BY DEF IInv, LocksHeld, Copy, In, Holding, locks
<1>2. /\ pipe'.data = pipe.data /\ pipe'.nwrite = pipe.nwrite /\ pipe'.open = pipe.open
      /\ pipe'.nread = (pipe.nread + 1) % Wrap
  BY DEF IInv, TypeOK, Copy
<1>3. Used \in Nat /\ Used >= 1 /\ pipe.nread \in Nat
  <2>1. Used \in Nat /\ pipe.nread \in Nat /\ (Empty <=> Used = 0)
    BY UsedIs DEF IInv
  <2> QED BY <2>1 DEF Copy
<1>4. pipe.data[Slot(1)] \in Bytes
  <2>1. 1 \in 1 .. Used
    BY <1>3
  <2> QED BY <2>1 DEF IInv, Buffered
<1>5. got' = [got EXCEPT ![p] = pipe.data[Slot(1)]]
  <2>1. pipe.nread + 1 - 1 = pipe.nread
    BY <1>3
  <2> QED BY <2>1 DEF Copy, Gets, Slot
<1>6. loc' = [loc EXCEPT ![p].i = loc[p].i + 1] /\ loc[p].i < loc[p].n
  BY DEF Copy
<1> QED BY <1>1, <1>2, <1>3, <1>4, <1>5, <1>6

LEMMA CopyType == ASSUME IInv, NEW p \in Procs, Copy(p) PROVE TypeOK'
<1>1. /\ pipe'.nread = (pipe.nread + 1) % Wrap
      /\ got' = [got EXCEPT ![p] = pipe.data[Slot(1)]] /\ pipe.data[Slot(1)] \in Bytes
      /\ loc' = [loc EXCEPT ![p].i = loc[p].i + 1]
      /\ UNCHANGED <<lk, ptable, fds, killed, pc, freed>>
  BY CopyStep
<1>2. pipe.nread \in 0 .. Wrap - 1
  BY DEF IInv, TypeOK
<1>3. pipe'.nread \in 0 .. Wrap - 1
  BY <1>1, <1>2, NextCount
<1>4. pipe' \in [data : [0 .. PIPESIZE - 1 -> Bytes \union {Junk}], nread : 0 .. Wrap - 1,
                 nwrite : 0 .. Wrap - 1, open : SUBSET Ends]
  BY <1>3 DEF IInv, TypeOK, Copy
<1>5. loc' \in [Procs -> [call : Ends \union {"none"}, n : Nat, i : Nat, chan : {"nread", "nwrite", "none"}]]
  <2>1. loc \in [Procs -> [call : Ends \union {"none"}, n : Nat, i : Nat, chan : {"nread", "nwrite", "none"}]]
    BY DEF IInv, TypeOK
  <2>2. loc[p].i + 1 \in Nat
    BY <2>1
  <2> QED BY <1>1, <2>1, <2>2
<1>6. got' \in [Procs -> Bytes \union {"start", "end", "error", "done"}]
  BY <1>1 DEF IInv, TypeOK
<1> QED BY <1>1, <1>4, <1>5, <1>6 DEF IInv, TypeOK

(* What is left moves up.                                                   *)
LEMMA CopyMoves ==
    ASSUME IInv, NEW p \in Procs, Copy(p)
    PROVE  /\ Used' = Used - 1 /\ Used >= 1 /\ Used \in Nat
           /\ \A i \in 1 .. Used' : pipe'.data[Slot(i)'] = pipe.data[Slot(i + 1)]
<1>1. /\ pipe'.data = pipe.data /\ pipe'.nwrite = pipe.nwrite
      /\ pipe'.nread = (pipe.nread + 1) % Wrap
  BY CopyStep
<1>2. /\ pipe.nread \in 0 .. Wrap - 1 /\ pipe.nwrite \in 0 .. Wrap - 1
      /\ Used = Apart(pipe.nread, pipe.nwrite) /\ Used \in 0 .. Wrap - 1
  BY UsedIs DEF IInv
<1>3. pipe.nread # pipe.nwrite
  BY DEF Copy, Empty
<1>4. Used' = Apart(pipe'.nread, pipe'.nwrite)
  BY CopyType, UsedIsNext
<1>5. Used' = Used - 1 /\ Used >= 1
  BY <1>1, <1>2, <1>3, <1>4, OneLess
<1>6. ASSUME NEW i \in 1 .. Used' PROVE Slot(i)' = Slot(i + 1)
  <2>1. i \in 1 .. Wrap /\ pipe.nread + (i + 1) - 1 = pipe.nread + i
    BY <1>2, <1>5, PipeAssumption
  <2>2. (((pipe.nread + 1) % Wrap) + i - 1) % PIPESIZE = (pipe.nread + i) % PIPESIZE
    BY <1>2, <2>1, NextSlot
  <2> QED BY <1>1, <2>1, <2>2 DEF Slot
<1> QED BY <1>1, <1>2, <1>5, <1>6

LEMMA CopyKeeps == ASSUME IInv, NEW p \in Procs, Copy(p) PROVE IInv'
<1>1. /\ pc[p] = "copy" /\ lk = p /\ pipe'.open = pipe.open
      /\ loc' = [loc EXCEPT ![p].i = loc[p].i + 1] /\ loc[p].i < loc[p].n
      /\ UNCHANGED <<lk, ptable, fds, killed, pc, freed>>
  BY CopyStep
<1>2. /\ loc'[p].call = loc[p].call /\ loc'[p].n = loc[p].n /\ loc'[p].i = loc[p].i + 1
      /\ loc[p].i \in Nat /\ \A q \in Procs \ {p} : loc'[q] = loc[q]
  BY <1>1 DEF IInv, TypeOK
<1>3. TypeOK'
  BY CopyType
<1>4. Moves(p)
  BY <1>1 DEF IInv, TypeOK, Moves
<1>5. Turn(p)
  BY <1>1, <1>2, <1>4 DEF IInv, LocksHeld, Turn
<1>6. LocalOK(p)'
  BY <1>1, <1>2, PipeAssumption DEF IInv, Locals, LocalOK
<1>7. ~freed'
  BY <1>1 DEF IInv, LocksHeld
<1>8. LocksHeld' /\ Locals'
  BY <1>5, <1>6, <1>7, LocksKept, LocalsKept DEF IInv
<1>9. EndsOpen'
  BY <1>1, <1>2 DEF IInv, EndsOpen, Closing
<1>10. Buffered'
  <2>1. /\ Used' = Used - 1 /\ Used >= 1 /\ Used \in Nat
        /\ \A i \in 1 .. Used' : pipe'.data[Slot(i)'] = pipe.data[Slot(i + 1)]
    BY CopyMoves
  <2>2. ASSUME NEW i \in 1 .. Used' PROVE pipe'.data[Slot(i)'] \in Bytes
    <3>1. i + 1 \in 1 .. Used
      BY <2>1
    <3> QED BY <2>1, <3>1 DEF IInv, Buffered
  <2>3. Used' <= PIPESIZE
    BY <2>1, PipeAssumption DEF IInv, Buffered
  <2> QED BY <2>2, <2>3 DEF Buffered
<1>11. EndSeen'
  <2>1. \A q \in Procs \ {p} : pc[q] # "copy"
    BY <1>1, OneHolds DEF IInv, Holding
  <2> QED BY <1>2, <1>5, <2>1, SeenKept DEF IInv
<1> QED BY <1>3, <1>8, <1>9, <1>10, <1>11 DEF IInv

LEMMA WriteStep ==
    ASSUME IInv, NEW p \in Procs, Write(p)
    PROVE  /\ pc[p] = "write" /\ lk = p /\ Used \in Nat /\ Used < PIPESIZE
           /\ Addr[loc[p].i + 1] \in Bytes
           /\ pipe'.data = [pipe.data EXCEPT ![Slot(Used + 1)] = Addr[loc[p].i + 1]]
           /\ pipe'.nread = pipe.nread /\ pipe'.nwrite = (pipe.nwrite + 1) % Wrap /\ pipe'.open = pipe.open
           /\ loc' = [loc EXCEPT ![p].i = loc[p].i + 1] /\ loc[p].i < loc[p].n
           /\ UNCHANGED <<lk, ptable, fds, killed, pc, got, freed>>
<1>1. pc[p] = "write" /\ lk = p /\ UNCHANGED <<lk, ptable, fds, killed, pc, got, freed>>
  BY DEF IInv, LocksHeld, Write, In, Holding, locks
<1>2. Used \in Nat /\ Used < PIPESIZE
  <2>1. Used \in Nat /\ (Full <=> Used = PIPESIZE)
    BY UsedIs DEF IInv
  <2>2. Used <= PIPESIZE /\ PIPESIZE \in Nat
    BY PipeAssumption DEF IInv, Buffered
  <2> QED BY <2>1, <2>2 DEF Write
<1>3. pipe.nwrite % PIPESIZE = Slot(Used + 1)
  BY <1>2, WriteSlot DEF IInv
<1>4. /\ pipe'.data = [pipe.data EXCEPT ![pipe.nwrite % PIPESIZE] = Addr[loc[p].i + 1]]
      /\ pipe'.nread = pipe.nread /\ pipe'.nwrite = (pipe.nwrite + 1) % Wrap /\ pipe'.open = pipe.open
  BY DEF IInv, TypeOK, Write
<1>5. loc' = [loc EXCEPT ![p].i = loc[p].i + 1] /\ loc[p].i < loc[p].n
  BY DEF Write
<1>6. Addr[loc[p].i + 1] \in Bytes
  <2>1. loc[p].i \in Nat /\ loc[p].n \in Lengths
    BY <1>1 DEF IInv, TypeOK, Locals, LocalOK
  <2>2. Addr \in Seq(Bytes) /\ loc[p].n \in 1 .. Len(Addr)
    BY <2>1, PipeAssumption
  <2>3. loc[p].i + 1 \in 1 .. Len(Addr)
    BY <1>5, <2>1, <2>2
  <2> QED BY <2>2, <2>3
<1> QED BY <1>1, <1>2, <1>3, <1>4, <1>5, <1>6

LEMMA WriteType == ASSUME IInv, NEW p \in Procs, Write(p) PROVE TypeOK'
<1> DEFINE byte == Addr[loc[p].i + 1]
<1>1. /\ byte \in Bytes
      /\ loc' = [loc EXCEPT ![p].i = loc[p].i + 1]
      /\ UNCHANGED <<lk, ptable, fds, killed, pc, got, freed>>
  BY WriteStep
<1>2. pipe' = [pipe EXCEPT !.data = [pipe.data EXCEPT ![pipe.nwrite % PIPESIZE] = byte],
                           !.nwrite = (pipe.nwrite + 1) % Wrap]
  BY DEF Write
<1> HIDE DEF byte
<1>3. pipe.nwrite \in 0 .. Wrap - 1
  BY DEF IInv, TypeOK
<1>4. (pipe.nwrite + 1) % Wrap \in 0 .. Wrap - 1
  BY <1>3, NextCount
<1>5. [pipe.data EXCEPT ![pipe.nwrite % PIPESIZE] = byte] \in [0 .. PIPESIZE - 1 -> Bytes \union {Junk}]
  BY <1>1 DEF IInv, TypeOK
<1>6. pipe' \in [data : [0 .. PIPESIZE - 1 -> Bytes \union {Junk}], nread : 0 .. Wrap - 1,
                 nwrite : 0 .. Wrap - 1, open : SUBSET Ends]
  BY <1>2, <1>4, <1>5 DEF IInv, TypeOK
<1>7. loc' \in [Procs -> [call : Ends \union {"none"}, n : Nat, i : Nat, chan : {"nread", "nwrite", "none"}]]
  <2>1. loc \in [Procs -> [call : Ends \union {"none"}, n : Nat, i : Nat, chan : {"nread", "nwrite", "none"}]]
    BY DEF IInv, TypeOK
  <2>2. loc[p].i + 1 \in Nat
    BY <2>1
  <2> QED BY <1>1, <2>1, <2>2
<1> QED BY <1>1, <1>6, <1>7 DEF IInv, TypeOK

(* The byte comes after those under way.                                    *)
LEMMA WriteMoves ==
    ASSUME IInv, NEW p \in Procs, Write(p)
    PROVE  /\ Used' = Used + 1 /\ Used < PIPESIZE /\ Used \in Nat
           /\ \A i \in 1 .. Used' : pipe'.data[Slot(i)'] =
                 IF i = Used + 1 THEN Addr[loc[p].i + 1] ELSE pipe.data[Slot(i)]
<1>1. /\ pipe'.data = [pipe.data EXCEPT ![Slot(Used + 1)] = Addr[loc[p].i + 1]]
      /\ pipe'.nread = pipe.nread /\ pipe'.nwrite = (pipe.nwrite + 1) % Wrap
      /\ Used \in Nat /\ Used < PIPESIZE
  BY WriteStep
<1>2. /\ pipe.nread \in 0 .. Wrap - 1 /\ pipe.nwrite \in 0 .. Wrap - 1
      /\ Used = Apart(pipe.nread, pipe.nwrite)
  BY UsedIs DEF IInv
<1>3. Used' = Apart(pipe'.nread, pipe'.nwrite)
  BY WriteType, UsedIsNext
<1>4. Used' = Used + 1
  <2>1. Used < Wrap - 1
    BY <1>1, PipeAssumption
  <2> QED BY <1>1, <1>2, <1>3, <2>1, OneMore
<1>5. pipe.data \in [0 .. PIPESIZE - 1 -> Bytes \union {Junk}]
  BY DEF IInv, TypeOK
<1>6. /\ Slot(Used + 1) \in 0 .. PIPESIZE - 1
      /\ \A i \in 1 .. Used : Slot(i) # Slot(Used + 1)
  BY <1>1, WriteSlot DEF IInv
<1>7. ASSUME NEW i \in 1 .. Used'
      PROVE  pipe'.data[Slot(i)'] = IF i = Used + 1 THEN Addr[loc[p].i + 1] ELSE pipe.data[Slot(i)]
  <2>1. Slot(i)' = Slot(i)
    BY <1>1 DEF Slot
  <2>2. CASE i = Used + 1
    BY <1>1, <1>5, <1>6, <2>1, <2>2
  <2>3. CASE i # Used + 1
    <3>1. i \in 1 .. Used /\ i \in 1 .. Wrap
      BY <1>1, <1>4, <2>3, PipeAssumption
    <3>2. Slot(i) \in 0 .. PIPESIZE - 1
      BY <3>1, SlotIs DEF IInv
    <3> QED BY <1>1, <1>5, <1>6, <2>1, <2>3, <3>1, <3>2
  <2> QED BY <2>2, <2>3
<1> QED BY <1>1, <1>4, <1>7

LEMMA WriteKeeps == ASSUME IInv, NEW p \in Procs, Write(p) PROVE IInv'
<1>1. /\ pc[p] = "write" /\ lk = p /\ pipe'.open = pipe.open /\ Addr[loc[p].i + 1] \in Bytes
      /\ loc' = [loc EXCEPT ![p].i = loc[p].i + 1] /\ loc[p].i < loc[p].n
      /\ UNCHANGED <<lk, ptable, fds, killed, pc, got, freed>>
  BY WriteStep
<1>2. /\ loc'[p].call = loc[p].call /\ loc'[p].n = loc[p].n /\ loc'[p].i = loc[p].i + 1
      /\ loc[p].i \in Nat /\ \A q \in Procs \ {p} : loc'[q] = loc[q]
  BY <1>1 DEF IInv, TypeOK
<1>3. TypeOK'
  BY WriteType
<1>4. Moves(p)
  BY <1>1 DEF IInv, TypeOK, Moves
<1>5. Turn(p)
  BY <1>1, <1>2, <1>4 DEF IInv, LocksHeld, Turn
<1>6. LocalOK(p)'
  BY <1>1, <1>2, PipeAssumption DEF IInv, Locals, LocalOK
<1>7. ~freed'
  BY <1>1 DEF IInv, LocksHeld
<1>8. LocksHeld' /\ Locals'
  BY <1>5, <1>6, <1>7, LocksKept, LocalsKept DEF IInv
<1>9. EndsOpen'
  BY <1>1, <1>2 DEF IInv, EndsOpen, Closing
<1>10. Buffered'
  <2>1. /\ Used' = Used + 1 /\ Used < PIPESIZE /\ Used \in Nat
        /\ \A i \in 1 .. Used' : pipe'.data[Slot(i)'] =
              IF i = Used + 1 THEN Addr[loc[p].i + 1] ELSE pipe.data[Slot(i)]
    BY WriteMoves
  <2>2. ASSUME NEW i \in 1 .. Used' PROVE pipe'.data[Slot(i)'] \in Bytes
    <3>1. i = Used + 1 \/ i \in 1 .. Used
      BY <2>1
    <3> QED BY <1>1, <2>1, <3>1 DEF IInv, Buffered
  <2>3. Used' <= PIPESIZE
    BY <2>1, PipeAssumption
  <2> QED BY <2>2, <2>3 DEF Buffered
<1>11. EndSeen'
  <2>1. \A q \in Procs \ {p} : pc[q] # "copy"
    BY <1>1, OneHolds DEF IInv, Holding
  <2> QED BY <1>1, <1>5, <2>1, SeenKept DEF IInv
<1> QED BY <1>3, <1>8, <1>9, <1>10, <1>11 DEF IInv

-----------------------------------------------------------------------------
(* Closing.                                                                 *)

LEMMA CloseKeeps == ASSUME IInv, NEW p \in Procs, NEW e \in Ends, Close(p, e) PROVE IInv'
<1>1. /\ pc[p] = "user" /\ e \in fds[p] /\ lk # p /\ ptable # p
      /\ UNCHANGED <<pipe, lk, ptable, killed, got, freed>>
  BY DEF IInv, LocksHeld, Close, In, locks, Holding
<1>2. /\ fds' \in [Procs -> SUBSET Ends] /\ fds'[p] = fds[p] \ {e}
      /\ \A q \in Procs \ {p} : fds'[q] = fds[q]
  BY DEF IInv, TypeOK, Close
<1>3. ~freed'
  BY <1>1 DEF IInv, LocksHeld
<1>4. Buffered'
  BY <1>1, BufferedKept DEF IInv
<1>5. CASE \E q \in Procs \ {p} : e \in fds[q]
  <2>1. UNCHANGED <<pc, loc>>
    BY <1>5 DEF Close
  <2>2. TypeOK'
    BY <1>1, <1>2, <2>1 DEF IInv, TypeOK
  <2>3. Turn(p)
    BY <1>1, <1>2, <2>1 DEF IInv, TypeOK, LocksHeld, Turn, Moves
  <2>4. LocalOK(p)'
    BY <1>1, <2>1 DEF IInv, Locals, LocalOK
  <2>5. LocksHeld' /\ Locals'
    BY <1>3, <2>3, <2>4, LocksKept, LocalsKept DEF IInv
  <2>6. EndsOpen'
    <3>1. PICK q \in Procs \ {p} : e \in fds[q]
      BY <1>5
    <3>2. ASSUME NEW d \in Ends
          PROVE  /\ d \in pipe.open <=> \E o \in Procs : d \in fds'[o] \/ Closing(o, d)'
                 /\ \A o \in Procs : Closing(o, d)' =>
                       \A u \in Procs : d \notin fds'[u] /\ (Closing(u, d)' => u = o)
      <4>1. \A o \in Procs : Closing(o, d)' <=> Closing(o, d)
        BY <2>1 DEF Closing
      <4>2. (\E o \in Procs : d \in fds'[o]) <=> (\E o \in Procs : d \in fds[o])
        BY <1>2, <3>1
      <4>3. \A u \in Procs : d \in fds'[u] => d \in fds[u]
        BY <1>2
      <4> QED BY <4>1, <4>2, <4>3 DEF IInv, EndsOpen
    <3> QED BY <1>1, <3>2 DEF EndsOpen
  <2>7. EndSeen'
    BY <1>1, <2>1, <2>3, SeenKept DEF IInv
  <2> QED BY <1>4, <2>2, <2>5, <2>6, <2>7 DEF IInv
<1>6. CASE ~\E q \in Procs \ {p} : e \in fds[q]
  <2>1. Goes(p, "close") /\ loc' = [loc EXCEPT ![p].call = e]
    BY <1>6 DEF Close
  <2>2. Moves(p) /\ pc'[p] = "close"
    BY <2>1, GoesMoves DEF IInv, Places
  <2>3. /\ loc' \in [Procs -> [call : Ends \union {"none"}, n : Nat, i : Nat, chan : {"nread", "nwrite", "none"}]]
        /\ loc'[p].call = e /\ \A q \in Procs \ {p} : loc'[q] = loc[q]
    BY <2>1 DEF IInv, TypeOK
  <2>4. TypeOK'
    BY <1>1, <1>2, <2>2, <2>3 DEF IInv, TypeOK, Moves
  <2>5. Turn(p)
    BY <1>1, <1>2, <2>2, <2>3 DEF Turn, Holding
  <2>6. LocalOK(p)'
    BY <2>2, <2>3 DEF LocalOK
  <2>7. LocksHeld' /\ Locals'
    BY <1>3, <2>5, <2>6, LocksKept, LocalsKept DEF IInv
  <2>8. EndsOpen'
    <3>1. ASSUME NEW d \in Ends
          PROVE  /\ d \in pipe.open <=> \E o \in Procs : d \in fds'[o] \/ Closing(o, d)'
                 /\ \A o \in Procs : Closing(o, d)' =>
                       \A u \in Procs : d \notin fds'[u] /\ (Closing(u, d)' => u = o)
      <4>1. \A o \in Procs : Closing(o, d)' <=> (IF o = p THEN d = e ELSE Closing(o, d))
        BY <2>2, <2>3 DEF Moves, Closing
      <4>2. ~Closing(p, d)
        BY <1>1 DEF Closing
      <4>3. /\ d \in pipe.open <=> \E o \in Procs : d \in fds[o] \/ Closing(o, d)
            /\ \A o \in Procs : Closing(o, d) =>
                  \A u \in Procs : d \notin fds[u] /\ (Closing(u, d) => u = o)
        BY DEF IInv, EndsOpen
      <4>4. CASE d = e
        <5>1. \A o \in Procs : ~Closing(o, e)
          BY <1>1, <4>3, <4>4
        <5>2. \A u \in Procs : e \notin fds'[u]
          BY <1>2, <1>6
        <5>3. e \in pipe.open /\ Closing(p, e)'
          BY <1>1, <4>1, <4>3, <4>4
        <5> QED BY <4>1, <4>4, <5>1, <5>2, <5>3
      <4>5. CASE d # e
        <5>1. \A u \in Procs : d \in fds'[u] <=> d \in fds[u]
          BY <1>2, <4>5
        <5> QED BY <4>1, <4>2, <4>3, <4>5, <5>1
      <4> QED BY <4>4, <4>5
    <3> QED BY <1>1, <3>1 DEF EndsOpen
  <2>9. EndSeen'
    BY <1>1, <2>2, <2>5, SeenKept DEF IInv
  <2> QED BY <1>4, <2>4, <2>7, <2>8, <2>9 DEF IInv
<1> QED BY <1>5, <1>6

LEMMA PipecloseKeeps == ASSUME IInv, NEW p \in Procs, Pipeclose(p) PROVE IInv'
<1>1. /\ pc[p] = "close" /\ lk = NoProc /\ ptable # p /\ p # NoProc /\ lk' = p
      /\ UNCHANGED <<ptable, fds, killed, loc, got, freed>>
  BY PipeAssumption DEF IInv, LocksHeld, Pipeclose, In, Acquire
<1>2. /\ pipe'.open = pipe.open \ {loc[p].call} /\ pipe'.data = pipe.data
      /\ pipe'.nread = pipe.nread /\ pipe'.nwrite = pipe.nwrite
  BY DEF IInv, TypeOK, Pipeclose
<1>3. Moves(p) /\ pc'[p] = "closed"
  BY GoesMoves DEF IInv, Pipeclose, Places, Holding
<1>4. TypeOK'
  <2>1. pipe' \in [data : [0 .. PIPESIZE - 1 -> Bytes \union {Junk}], nread : 0 .. Wrap - 1,
                   nwrite : 0 .. Wrap - 1, open : SUBSET Ends]
    BY DEF IInv, TypeOK, Pipeclose
  <2> QED BY <1>1, <1>3, <2>1 DEF IInv, TypeOK, Moves
<1>5. Turn(p)
  BY <1>1, <1>3, PipeAssumption DEF Turn, Holding
<1>6. LocalOK(p)'
  BY <1>1, <1>3 DEF IInv, Locals, LocalOK
<1>7. ~freed'
  BY <1>1 DEF IInv, LocksHeld
<1>8. LocksHeld' /\ Locals'
  BY <1>5, <1>6, <1>7, LocksKept, LocalsKept DEF IInv
<1>9. EndsOpen'
  <2>1. ASSUME NEW d \in Ends
        PROVE  /\ d \in pipe'.open <=> \E o \in Procs : d \in fds[o] \/ Closing(o, d)'
               /\ \A o \in Procs : Closing(o, d)' =>
                     \A u \in Procs : d \notin fds[u] /\ (Closing(u, d)' => u = o)
    <3>1. \A o \in Procs : Closing(o, d)' <=> (o # p /\ Closing(o, d))
      BY <1>1, <1>3 DEF Moves, Closing
    <3>2. /\ d \in pipe.open <=> \E o \in Procs : d \in fds[o] \/ Closing(o, d)
          /\ \A o \in Procs : Closing(o, d) =>
                \A u \in Procs : d \notin fds[u] /\ (Closing(u, d) => u = o)
      BY DEF IInv, EndsOpen
    <3>3. Closing(p, d) <=> d = loc[p].call
      BY <1>1 DEF Closing
    <3>4. CASE d = loc[p].call
      BY <1>2, <3>1, <3>2, <3>3, <3>4
    <3>5. CASE d # loc[p].call
      BY <1>2, <3>1, <3>2, <3>3, <3>5
    <3> QED BY <3>4, <3>5
  <2> QED BY <1>1, <2>1 DEF EndsOpen
<1>10. Buffered'
  BY <1>2 DEF IInv, Buffered, Used, Slot
<1>11. EndSeen'
  <2>1. \A q \in Procs \ {p} : pc[q] # "copy"
    BY <1>1, OneHolds DEF IInv, Holding
  <2> QED BY <1>3, <1>5, <2>1, SeenKept DEF IInv
<1> QED BY <1>4, <1>8, <1>9, <1>10, <1>11 DEF IInv

LEMMA PipecloseDoneKeeps == ASSUME IInv, NEW p \in Procs, PipecloseDone(p) PROVE IInv'
<1>1. /\ pc[p] = "closed" /\ lk = p /\ ptable # p /\ p # NoProc /\ lk' = NoProc
      /\ freed' = (pipe.open = {})
      /\ UNCHANGED <<pipe, ptable, fds, killed, got>>
  BY PipeAssumption DEF IInv, LocksHeld, PipecloseDone, In, Free, Release, Holding
<1>2. PICK chan \in {"nread", "nwrite"} : pc' = Wakeup([pc EXCEPT ![p] = "user"], chan)
  BY DEF PipecloseDone
<1>3. Moves(p) /\ pc'[p] = "user"
  BY <1>1, <1>2, WakeupMoves DEF IInv, Places
<1>4. /\ loc' \in [Procs -> [call : Ends \union {"none"}, n : Nat, i : Nat, chan : {"nread", "nwrite", "none"}]]
      /\ loc'[p] = NoLoc /\ \A q \in Procs \ {p} : loc'[q] = loc[q]
  BY DEF IInv, TypeOK, PipecloseDone, NoLoc
<1>5. TypeOK'
  BY <1>1, <1>3, <1>4 DEF IInv, TypeOK, Moves
<1>6. Turn(p)
  BY <1>1, <1>3, <1>4, PipeAssumption DEF Turn, Holding
<1>7. LocalOK(p)'
  BY <1>3, <1>4 DEF LocalOK
<1>8. ASSUME freed', NEW q \in Procs PROVE pc'[q] = "user" /\ fds'[q] = {}
  <2>1. pipe.open = {}
    BY <1>1, <1>8
  <2>2. \A e \in Ends : e \notin fds[q] /\ ~Closing(q, e)
    BY <2>1 DEF IInv, EndsOpen
  <2>3. fds[q] = {}
    BY <2>2 DEF IInv, TypeOK
  <2>4. CASE q = p
    BY <1>1, <1>3, <2>3, <2>4
  <2>5. CASE q # p
    <3>1. pc[q] # "closed"
      BY <1>1, <2>5, OneHolds DEF IInv, Holding
    <3>2. LocalOK(q)
      BY DEF IInv, Locals
    <3>3. pc[q] # "close"
      BY <2>2, <3>2 DEF LocalOK, Closing
    <3>4. pc[q] = "user"
      BY <2>3, <3>1, <3>2, <3>3 DEF LocalOK
    <3> QED BY <1>1, <1>3, <2>3, <2>5, <3>4 DEF Moves
  <2> QED BY <2>4, <2>5
<1>9. LocksHeld' /\ Locals'
  BY <1>6, <1>7, <1>8, LocksKept, LocalsKept DEF IInv
<1>10. EndsOpen'
  BY <1>1, <1>3, <1>6, EndsKept DEF IInv
<1>11. Buffered' /\ EndSeen'
  BY <1>1, <1>3, <1>6, BufferedKept, SeenKept DEF IInv
<1> QED BY <1>5, <1>9, <1>10, <1>11 DEF IInv

-----------------------------------------------------------------------------
LEMMA InitOK == Init => IInv
<1> SUFFICES ASSUME Init PROVE IInv
  OBVIOUS
<1>1. PIPESIZE \in Nat \ {0} /\ Wrap \in Nat \ {0}
  BY PipeAssumption
<1>2. TypeOK
  <2>1. pipe \in [data : [0 .. PIPESIZE - 1 -> Bytes \union {Junk}], nread : 0 .. Wrap - 1,
                  nwrite : 0 .. Wrap - 1, open : SUBSET Ends]
    BY <1>1 DEF Init
  <2>2. fds \in [Procs -> SUBSET Ends] /\ pc \in [Procs -> Places]
    BY PipeAssumption DEF Init, Ends, Places
  <2>3. loc \in [Procs -> [call : Ends \union {"none"}, n : Nat, i : Nat, chan : {"nread", "nwrite", "none"}]]
    BY DEF Init, NoLoc
  <2>4. got \in [Procs -> Bytes \union {"start", "end", "error", "done"}]
    BY DEF Init
  <2> QED BY <2>1, <2>2, <2>3, <2>4 DEF Init, TypeOK
<1>3. LocksHeld
  BY PipeAssumption DEF Init, LocksHeld, Holding
<1>4. Locals
  BY DEF Init, Locals, LocalOK
<1>5. EndsOpen
  <2>1. \A e \in Ends : e \in pipe.open /\ \E p \in Procs : e \in fds[p]
    BY PipeAssumption DEF Init, Ends
  <2>2. \A p \in Procs : \A e \in Ends : ~Closing(p, e)
    BY DEF Init, Closing
  <2> QED BY <2>1, <2>2 DEF EndsOpen
<1>6. Buffered
  <2>1. Empty
    BY DEF Init, Empty
  <2>2. Used = 0
    BY <1>2, <2>1, UsedIs
  <2> QED BY <1>1, <2>2 DEF Buffered
<1>7. EndSeen
  BY DEF Init, EndSeen
<1> QED BY <1>2, <1>3, <1>4, <1>5, <1>6, <1>7 DEF IInv

LEMMA NextKeeps == ASSUME IInv, [Next]_vars PROVE IInv'
<1>1. CASE UNCHANGED vars
  BY <1>1 DEF IInv, vars, locks, TypeOK, LocksHeld, Locals, LocalOK, EndsOpen, Closing,
              Buffered, Used, Slot, EndSeen, Empty
<1>2. CASE \E p \in Procs : Proceeds(p)
  BY <1>2, SleepKeeps, SleepReleaseKeeps, SchedKeeps, WokenKeeps, ReadKeeps, CopyKeeps, ReadDoneKeeps,
     WriteKeeps, WriteFullKeeps, WriteDoneKeeps, PipecloseKeeps, PipecloseDoneKeeps DEF Proceeds
<1>3. CASE \E p \in Procs : Kill(p)
  BY <1>3, KillKeeps
<1>4. CASE \E p \in Procs : \E e \in Ends : Close(p, e) \/ \E n \in Lengths : Call(p, e, n)
  BY <1>4, CloseKeeps, CallKeeps
<1> QED BY <1>1, <1>2, <1>3, <1>4 DEF Next

LEMMA Invariance == Spec => []IInv
BY InitOK, NextKeeps, PTL DEF Spec

(* Whoever uses the pipe, sleeps or wakes holds the lock the code assumes,  *)
(* each lock has one holder, and the page goes back only after the last     *)
(* descriptor is closed and nobody is inside a call (sleep, pipeclose).     *)
THEOREM SoundCorrect == Spec => []Sound
<1>1. IInv => Sound
  BY DEF IInv, Sound
<1> QED BY <1>1, Invariance, PTL

-----------------------------------------------------------------------------
(* Pipe implements Channel.                                                 *)

(* Nothing Channel sees changes.                                            *)
LEMMA Unseen ==
    ASSUME IInv, UNCHANGED <<pipe, killed, got>>
    PROVE  UNCHANGED ToChannel!vars
<1>1. Contents' = Contents
  BY BufferedKept DEF IInv
<1> QED BY <1>1 DEF ToChannel!vars

LEMMA CopyReceives == ASSUME IInv, NEW p \in Procs, Copy(p) PROVE ToChannel!Receive(p)
<1>1. /\ Used' = Used - 1 /\ Used >= 1 /\ Used \in Nat
      /\ \A i \in 1 .. Used' : pipe'.data[Slot(i)'] = pipe.data[Slot(i + 1)]
  BY CopyMoves
<1>2. /\ pipe'.open = pipe.open /\ killed' = killed
      /\ got' = [got EXCEPT ![p] = pipe.data[Slot(1)]]
  BY CopyStep
<1>3. /\ Contents \in Seq(Bytes) /\ Len(Contents) = Used
      /\ \A i \in 1 .. Used : Contents[i] = pipe.data[Slot(i)]
  BY ContentsIs DEF IInv
<1>4. /\ Contents' \in Seq(Bytes) /\ Len(Contents') = Used'
      /\ \A i \in 1 .. Used' : Contents'[i] = pipe'.data[Slot(i)']
  BY CopyKeeps, ContentsIsNext DEF IInv
<1>5. Contents # << >> /\ Head(Contents) = pipe.data[Slot(1)]
  <2>1. 1 \in 1 .. Used
    BY <1>1
  <2> QED BY <1>1, <1>3, <2>1
<1>6. Contents' = Tail(Contents)
  <2>1. Tail(Contents) \in Seq(Bytes) /\ Len(Tail(Contents)) = Used - 1
    BY <1>1, <1>3, <1>5
  <2>2. ASSUME NEW i \in 1 .. Used - 1 PROVE Contents'[i] = Tail(Contents)[i]
    <3>1. Tail(Contents)[i] = Contents[i + 1]
      BY <1>1, <1>3, <1>5
    <3>2. i \in 1 .. Used' /\ i + 1 \in 1 .. Used
      BY <1>1
    <3> QED BY <1>1, <1>3, <1>4, <3>1, <3>2
  <2> QED BY <1>1, <1>4, <2>1, <2>2
<1> QED BY <1>2, <1>5, <1>6 DEF ToChannel!Receive, ToChannel!Gets

LEMMA WriteSends == ASSUME IInv, NEW p \in Procs, Write(p) PROVE ToChannel!Send
<1> DEFINE byte == Addr[loc[p].i + 1]
<1>1. /\ Used' = Used + 1 /\ Used < PIPESIZE /\ Used \in Nat
      /\ \A i \in 1 .. Used' : pipe'.data[Slot(i)'] =
            IF i = Used + 1 THEN byte ELSE pipe.data[Slot(i)]
  BY WriteMoves
<1>2. byte \in Bytes /\ pipe'.open = pipe.open /\ UNCHANGED <<killed, got>>
  BY WriteStep
<1> HIDE DEF byte
<1>3. /\ Contents \in Seq(Bytes) /\ Len(Contents) = Used
      /\ \A i \in 1 .. Used : Contents[i] = pipe.data[Slot(i)]
  BY ContentsIs DEF IInv
<1>4. /\ Contents' \in Seq(Bytes) /\ Len(Contents') = Used'
      /\ \A i \in 1 .. Used' : Contents'[i] = pipe'.data[Slot(i)']
  BY WriteKeeps, ContentsIsNext DEF IInv
<1>5. Contents' = Append(Contents, byte)
  <2>1. Append(Contents, byte) \in Seq(Bytes) /\ Len(Append(Contents, byte)) = Used + 1
    BY <1>1, <1>2, <1>3
  <2>2. ASSUME NEW i \in 1 .. Used + 1 PROVE Contents'[i] = Append(Contents, byte)[i]
    <3>1. Append(Contents, byte)[i] = IF i = Used + 1 THEN byte ELSE Contents[i]
      BY <1>1, <1>2, <1>3
    <3>2. i = Used + 1 \/ i \in 1 .. Used
      BY <1>1
    <3> QED BY <1>1, <1>3, <1>4, <3>1, <3>2
  <2> QED BY <1>1, <1>4, <2>1, <2>2
<1> QED BY <1>1, <1>2, <1>3, <1>5 DEF ToChannel!Send

(* How a call ends.                                                         *)
LEMMA EndsCall ==
    ASSUME IInv, NEW p \in Procs, NEW x, Returns(p, x), UNCHANGED <<pipe, killed>>
    PROVE  /\ Contents' = Contents /\ pipe'.open = pipe.open /\ killed' = killed
           /\ got' = [got EXCEPT ![p] = x]
BY BufferedKept DEF IInv, Returns, Gets

LEMMA ReadFails == ASSUME IInv, NEW p \in Procs, Read(p) PROVE ToChannel!Fail(p) \/ UNCHANGED ToChannel!vars
<1>1. UNCHANGED <<pipe, killed>>
  BY DEF Read
<1>2. UNCHANGED got \/ (p \in killed /\ Returns(p, "error"))
  BY DEF Read
<1>3. CASE UNCHANGED got
  BY <1>1, <1>3, Unseen
<1>4. CASE p \in killed /\ Returns(p, "error")
  BY <1>1, <1>4, EndsCall DEF ToChannel!Fail, ToChannel!Gets
<1> QED BY <1>2, <1>3, <1>4

LEMMA WriteFails == ASSUME IInv, NEW p \in Procs, WriteFull(p) PROVE ToChannel!Fail(p) \/ UNCHANGED ToChannel!vars
<1>1. UNCHANGED <<pipe, killed>>
  BY DEF WriteFull
<1>2. UNCHANGED got \/ (("r" \notin pipe.open \/ p \in killed) /\ Returns(p, "error"))
  BY DEF WriteFull
<1>3. CASE UNCHANGED got
  BY <1>1, <1>3, Unseen
<1>4. CASE ("r" \notin pipe.open \/ p \in killed) /\ Returns(p, "error")
  BY <1>1, <1>4, EndsCall DEF ToChannel!Fail, ToChannel!Gets
<1> QED BY <1>2, <1>3, <1>4

LEMMA ReadEnds == ASSUME IInv, NEW p \in Procs, ReadDone(p) PROVE ToChannel!End(p) \/ UNCHANGED ToChannel!vars
<1>1. /\ pc[p] = "copy" /\ (loc[p].i = loc[p].n \/ Empty) /\ UNCHANGED <<pipe, killed>>
      /\ Returns(p, IF loc[p].i = 0 THEN "end" ELSE got[p])
  BY DEF ReadDone, In
<1>2. CASE loc[p].i = 0
  <2>1. loc[p].n \in Lengths /\ loc[p].n # 0
    BY <1>1, PipeAssumption DEF IInv, Locals, LocalOK
  <2>2. Empty
    BY <1>1, <1>2, <2>1
  <2>3. "w" \notin pipe.open
    BY <1>1, <1>2, <2>2 DEF IInv, EndSeen
  <2>4. Contents = << >>
    BY <2>2, ContentsEmpty DEF IInv
  <2>5. Returns(p, "end")
    BY <1>1, <1>2
  <2> QED BY <1>1, <2>3, <2>4, <2>5, EndsCall DEF ToChannel!End, ToChannel!Gets
<1>3. CASE loc[p].i # 0
  <2>1. got' = got
    BY <1>1, <1>3 DEF IInv, TypeOK, Returns, Gets
  <2> QED BY <1>1, <2>1, Unseen
<1> QED BY <1>2, <1>3

LEMMA WriteEnds == ASSUME IInv, NEW p \in Procs, WriteDone(p) PROVE ToChannel!Done(p)
<1>1. UNCHANGED <<pipe, killed>> /\ Returns(p, "done")
  BY DEF WriteDone
<1> QED BY <1>1, EndsCall DEF ToChannel!Done, ToChannel!Gets

LEMMA PipecloseCloses == ASSUME IInv, NEW p \in Procs, Pipeclose(p) PROVE \E e \in {"r", "w"} : ToChannel!Close(e)
<1>1. loc[p].call \in {"r", "w"}
  BY DEF IInv, Locals, LocalOK, Pipeclose, In, Ends
<1>2. /\ pipe'.open = pipe.open \ {loc[p].call} /\ pipe'.data = pipe.data
      /\ pipe'.nread = pipe.nread /\ pipe'.nwrite = pipe.nwrite /\ UNCHANGED <<killed, got>>
  BY DEF IInv, TypeOK, Pipeclose
<1>3. Contents' = Contents
  BY <1>2 DEF Contents, Used
<1> QED BY <1>1, <1>2, <1>3 DEF ToChannel!Close

LEMMA KillKills == ASSUME IInv, NEW p \in Procs, Kill(p) PROVE ToChannel!Kill(p)
<1>1. UNCHANGED <<pipe, got>> /\ killed' = killed \union {p}
  BY DEF Kill
<1>2. Contents' = Contents
  BY <1>1, BufferedKept DEF IInv
<1> QED BY <1>1, <1>2 DEF ToChannel!Kill

LEMMA InitImplements == Init => ToChannel!Init
<1> SUFFICES ASSUME Init PROVE ToChannel!Init
  OBVIOUS
<1>1. IInv
  BY InitOK
<1>2. Contents = << >>
  BY <1>1, ContentsEmpty DEF IInv, Init, Empty
<1> QED BY <1>2 DEF Init, ToChannel!Init, Ends

LEMMA NextImplements ==
    ASSUME IInv, [Next]_vars
    PROVE  [ToChannel!Next]_(ToChannel!vars)
<1>1. CASE UNCHANGED vars
  BY <1>1, Unseen DEF vars
<1>2. ASSUME NEW p \in Procs,
             \/ Sleep(p) \/ SleepRelease(p) \/ Sched(p) \/ Woken(p) \/ PipecloseDone(p)
             \/ \E e \in Ends : Close(p, e) \/ \E n \in Lengths : Call(p, e, n)
      PROVE  UNCHANGED ToChannel!vars
  <2>1. UNCHANGED <<pipe, killed, got>>
    BY <1>2 DEF Sleep, SleepRelease, Sched, Woken, PipecloseDone, Close, Call
  <2> QED BY <2>1, Unseen
<1>3. ASSUME NEW p \in Procs,
             Copy(p) \/ Write(p) \/ Read(p) \/ WriteFull(p) \/ ReadDone(p) \/ WriteDone(p)
               \/ Pipeclose(p) \/ Kill(p)
      PROVE  ToChannel!Next \/ UNCHANGED ToChannel!vars
  BY <1>3, CopyReceives, WriteSends, ReadFails, WriteFails, ReadEnds, WriteEnds, PipecloseCloses, KillKills
     DEF ToChannel!Next
<1> QED BY <1>1, <1>2, <1>3 DEF Next, Proceeds

(* Bytes come out once and in the order they went in, whatever the wrap of  *)
(* the counters, the ring and the wakeups do; a read finds the end only     *)
(* when nothing is left and nobody can write, and a call fails only when    *)
(* killed or without a reader (piperead, pipewrite, pipeclose).             *)
THEOREM ChannelCorrect == Spec => ImplementsChannel
BY Invariance, InitImplements, NextImplements, PTL DEF Spec, ImplementsChannel, ToChannel!Spec
=============================================================================
