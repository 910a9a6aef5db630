------------------------- MODULE HistoryRecordsProofs -------------------------
(***************************************************************************)
(* Proofs about the records of HistoryFiles, for every number of files,    *)
(* records, slots and errors: a synced record is kept, and the reset that  *)
(* was requested finds nothing left to flush.                              *)
(***************************************************************************)
EXTENDS HistoryFiles, TLAPS

\* A leaf gets up to 20 seconds of a prover.
USE SMTT(20), ZenonT(20)

\* make_hist_name yields a name.
LEMMA NewNameIsName ==
  ASSUME clock \in Nat
  PROVE  NewName \in Name /\ NewName # NoName
BY HistoryAssumption DEF NewName, Name, NoName

\* Closing the open file creates no file.
LEMMA ClosedNames ==
  ASSUME NEW k
  PROVE  DOMAIN Closed(k) = DOMAIN disk
BY DEF Closed

\* What can become of a record.
Fates == {"queued", "buffered", "unsynced", "kept", "lost", "orphaned", "deleted", "retired"}

\* The files hold exactly the records that are kept, each once and in order.
Sound(d, f) ==
  /\ DOMAIN d \subseteq Name /\ \A nm \in DOMAIN d : d[nm] \in Seq(Nat)
  /\ f \in Seq(Fates)
  /\ Held(d) \subseteq DOMAIN f
  /\ \A r \in DOMAIN f : f[r] = "kept" <=> r \in Held(d)
  /\ \A nm \in DOMAIN d : \A i, j \in DOMAIN d[nm] : i < j => d[nm][i] < d[nm][j]
  /\ \A x, y \in DOMAIN d : x # y => Recs(d[x]) \intersect Recs(d[y]) = {}

\* The records that wait in the queue.
Waiting(q) == {q[i].rec : i \in {j \in DOMAIN q : q[j].op = "write"}}

\* The queue holds exactly the queued records, in order, all newer than those in
\* the set written.
Ordered(q, f, written) ==
  /\ q \in Seq([op : {"write", "close", "sync"}, rec : Nat])
  /\ Waiting(q) \subseteq DOMAIN f
  /\ \A r \in DOMAIN f : f[r] = "queued" <=> r \in Waiting(q)
  /\ \A i, j \in DOMAIN q : i < j /\ q[i].op = "write" /\ q[j].op = "write" => q[i].rec < q[j].rec
  /\ \A r \in written : \A s \in Waiting(q) : r < s

\* What the open file has in its cache.
Cached == IF Visible THEN Recs(file.buf) ELSE {}

\* The open file: the records in its cache are newer than those stored, in order,
\* and a record counts as buffered only while a sync would store it.
FileInv ==
  /\ file \in [name : Nat, len : Nat, buf : Seq(Nat), erred : BOOLEAN, orphan : {"no", "user", "retention"}]
  /\ Visible => file.name \in DOMAIN disk
  /\ Visible => \A i, j \in DOMAIN file.buf : i < j => file.buf[i] < file.buf[j]
  /\ \A r \in Cached : r \in DOMAIN fate /\ fate[r] \in {"buffered", "unsynced"}
  /\ \A r \in Cached, s \in OnDisk : s < r
  /\ \A r \in DOMAIN fate : fate[r] = "buffered" => r \in Cached /\ ~file.erred

\* Once the Sync of a reboot request has been handled, no record sampled before the
\* request is queued or only buffered.
Flushed == rebooting = "flushed" => \A r \in promised : fate[r] \notin {"queued", "buffered"}

\* A Sync that is queued comes behind the records that it was promised to store.
SyncInv ==
  /\ rebooting = "no" => \A i \in DOMAIN queue : queue[i].op # "sync"
  /\ promised \subseteq DOMAIN fate
  /\ \A i, j \in DOMAIN queue :
       queue[i].op = "sync" /\ queue[j].op = "write" /\ queue[j].rec \in promised => j < i
  /\ Flushed

\* The inductive invariant behind SyncedKept and FlushSurvivesReset.
HistInv ==
  /\ clock \in Nat /\ st \in Nat
  /\ Sound(disk, fate)
  /\ FileInv
  /\ Ordered(queue, fate, OnDisk \union Cached)
  /\ SyncInv

\* The records of a concatenation.
LEMMA RecsConcat ==
  ASSUME NEW s \in Seq(Nat), NEW t \in Seq(Nat)
  PROVE  Recs(s \o t) = Recs(s) \union Recs(t)
<1>1. Recs(s \o t) \subseteq Recs(s) \union Recs(t)
  BY DEF Recs
<1>2. Recs(s) \subseteq Recs(s \o t)
  BY DEF Recs
<1>3. ASSUME NEW i \in DOMAIN t PROVE t[i] \in Recs(s \o t)
  <2>1. Len(s) + i \in DOMAIN (s \o t) /\ (s \o t)[Len(s) + i] = t[i]
    OBVIOUS
  <2> QED BY <2>1 DEF Recs
<1> QED BY <1>1, <1>2, <1>3, Zenon DEF Recs

\* Appending to a file.
Grows(d, e, nm, rs) ==
  /\ nm \in DOMAIN d /\ DOMAIN e = DOMAIN d /\ Recs(e[nm]) = Recs(d[nm]) \union rs
  /\ \A x \in DOMAIN d : x # nm => e[x] = d[x]

\* Appending to a file adds its records to those held.
LEMMA HeldExcept ==
  ASSUME NEW d, NEW e, NEW nm, NEW rs, Grows(d, e, nm, rs)
  PROVE  Held(e) = Held(d) \union rs
<1> USE DEF Grows
<1>1. Held(e) \subseteq Held(d) \union rs
  BY DEF Held
<1>2. rs \subseteq Held(e)
  BY DEF Held
<1>3. ASSUME NEW x \in DOMAIN d, NEW r \in Recs(d[x]) PROVE r \in Held(e)
  BY DEF Held
<1>4. Held(d) \subseteq Held(e)
  BY <1>3 DEF Held
<1> QED BY <1>1, <1>2, <1>4

\* Mark changes the fate of the given records only.
LEMMA MarkIs ==
  ASSUME NEW f \in Seq(Fates), NEW rs, NEW what \in Fates
  PROVE  /\ Mark(f, rs, what) \in Seq(Fates) /\ DOMAIN Mark(f, rs, what) = DOMAIN f
         /\ Len(Mark(f, rs, what)) = Len(f)
         /\ \A r \in DOMAIN f : Mark(f, rs, what)[r] = IF r \in rs THEN what ELSE f[r]
<1>1. DOMAIN f = 1 .. Len(f) /\ Len(f) \in Nat /\ \A r \in DOMAIN f : f[r] \in Fates
  OBVIOUS
<1>2. Mark(f, rs, what) \in [1 .. Len(f) -> Fates]
  BY <1>1 DEF Mark
<1> QED BY <1>1, <1>2 DEF Mark

\* The records t may follow those of the file nm.
Storable(d, f, nm, t) ==
  /\ nm \in DOMAIN d /\ t \in Seq(Nat)
  /\ \A i, j \in DOMAIN t : i < j => t[i] < t[j]
  /\ Recs(t) \subseteq DOMAIN f /\ Recs(t) \intersect Held(d) = {}
  /\ \A r \in Recs(d[nm]), s \in Recs(t) : r < s

\* The records t are appended to a file.
StoreIn(d, nm, t) == [d EXCEPT ![nm] = @ \o t]

\* Storing newer records in a file and marking them kept keeps the files sound.
LEMMA StoresMore ==
  ASSUME NEW d, NEW f, Sound(d, f), NEW nm, NEW t, Storable(d, f, nm, t)
  PROVE  /\ Sound(StoreIn(d, nm, t), Mark(f, Recs(t), "kept"))
         /\ Held(StoreIn(d, nm, t)) = Held(d) \union Recs(t)
<1> DEFINE e == StoreIn(d, nm, t)
           g == Mark(f, Recs(t), "kept")
<1>0. /\ nm \in DOMAIN d /\ t \in Seq(Nat)
      /\ \A i, j \in DOMAIN t : i < j => t[i] < t[j]
      /\ Recs(t) \subseteq DOMAIN f /\ Recs(t) \intersect Held(d) = {}
      /\ \A r \in Recs(d[nm]), s \in Recs(t) : r < s
  BY DEF Storable
<1> USE <1>0
<1>1. d[nm] \in Seq(Nat) /\ d[nm] \o t \in Seq(Nat) /\ f \in Seq(Fates)
  BY DEF Sound
<1>2. Recs(d[nm] \o t) = Recs(d[nm]) \union Recs(t)
  BY <1>1, RecsConcat
<1>4. g \in Seq(Fates) /\ DOMAIN g = DOMAIN f /\ \A r \in DOMAIN f : g[r] = IF r \in Recs(t) THEN "kept" ELSE f[r]
  BY <1>1, MarkIs DEF Fates
<1>5. DOMAIN e = DOMAIN d /\ e[nm] = d[nm] \o t /\ \A x \in DOMAIN d : x # nm => e[x] = d[x]
  BY DEF StoreIn
<1>3. Held(e) = Held(d) \union Recs(t)
  <2> HIDE DEF e
  <2>1. Grows(d, e, nm, Recs(t))
    BY <1>2, <1>5 DEF Grows
  <2> QED BY <2>1, HeldExcept, Zenon
<1>6. ASSUME NEW i \in DOMAIN (d[nm] \o t), NEW j \in DOMAIN (d[nm] \o t), i < j
      PROVE  (d[nm] \o t)[i] < (d[nm] \o t)[j]
  <2>1. PICK s \in Seq(Nat) : s = d[nm]
    BY <1>1
  <2>2. \A a, b \in DOMAIN s : a < b => s[a] < s[b]
    BY <2>1 DEF Sound
  <2>3. \A a \in DOMAIN s, b \in DOMAIN t : s[a] < t[b]
    BY <2>1 DEF Recs
  <2>4. /\ Len(s) \in Nat /\ Len(t) \in Nat /\ i \in 1 .. Len(s) + Len(t) /\ j \in 1 .. Len(s) + Len(t)
        /\ DOMAIN s = 1 .. Len(s) /\ DOMAIN t = 1 .. Len(t)
    BY <2>1
  <2>5. \A a \in 1 .. Len(s) + Len(t) : (s \o t)[a] = IF a <= Len(s) THEN s[a] ELSE t[a - Len(s)]
    BY <2>4
  <2>6. (s \o t)[i] < (s \o t)[j]
    <3>1. CASE j <= Len(s)
      BY <1>6, <2>2, <2>4, <2>5, <3>1
    <3>2. CASE i <= Len(s) /\ j > Len(s)
      BY <2>3, <2>4, <2>5, <3>2, SMTT(40), ZenonT(20)
    <3>3. CASE i > Len(s)
      BY <1>6, <2>4, <2>5, <3>3, SMTT(40), ZenonT(20)
    <3> QED BY <2>4, <3>1, <3>2, <3>3, SMTT(40), ZenonT(20)
  <2> QED BY <2>1, <2>6
<1>7. ASSUME NEW x \in DOMAIN d, NEW y \in DOMAIN d, x # y
      PROVE  Recs(e[x]) \intersect Recs(e[y]) = {}
  <2>1. Recs(d[x]) \intersect Recs(d[y]) = {} /\ Recs(d[x]) \subseteq Held(d) /\ Recs(d[y]) \subseteq Held(d)
    BY <1>7 DEF Sound, Held
  <2> QED BY <1>2, <1>5, <1>7, <2>1, Zenon
<1> HIDE DEF e, g
<1>8. Sound(e, g)
  <2>1. \A x \in DOMAIN e : e[x] \in Seq(Nat)
    BY <1>1, <1>5, Zenon DEF Sound
  <2>2. \A x \in DOMAIN e : \A i, j \in DOMAIN e[x] : i < j => e[x][i] < e[x][j]
    BY <1>5, <1>6, Zenon DEF Sound
  <2>3. Held(e) \subseteq DOMAIN g /\ \A r \in DOMAIN g : g[r] = "kept" <=> r \in Held(e)
    BY <1>3, <1>4 DEF Sound
  <2> QED BY <1>4, <1>5, <1>7, <2>1, <2>2, <2>3 DEF Sound
<1> QED BY <1>3, <1>8 DEF e, g

\* Marking records that no file holds keeps the files sound.
LEMMA MarksOthers ==
  ASSUME NEW d, NEW f, Sound(d, f), NEW rs, rs \intersect Held(d) = {},
         NEW what \in Fates, what # "kept"
  PROVE  Sound(d, Mark(f, rs, what))
<1>1. f \in Seq(Fates)
  BY DEF Sound
<1>2. Mark(f, rs, what) \in Seq(Fates) /\ DOMAIN Mark(f, rs, what) = DOMAIN f
      /\ \A r \in DOMAIN f : Mark(f, rs, what)[r] = IF r \in rs THEN what ELSE f[r]
  BY <1>1, MarkIs
<1> QED BY <1>2 DEF Sound

\* An empty file keeps the files sound.
LEMMA AddsFile ==
  ASSUME NEW d, NEW f, Sound(d, f), NEW nm \in Name
  PROVE  /\ Sound(WithFile(d, nm), f) /\ Held(WithFile(d, nm)) = Held(d)
         /\ nm \in DOMAIN WithFile(d, nm)
<1> DEFINE e == WithFile(d, nm)
<1>1. /\ DOMAIN e = DOMAIN d \union {nm}
      /\ \A x \in DOMAIN d : e[x] = d[x]
      /\ nm \notin DOMAIN d => e[nm] = <<>>
  BY DEF WithFile
<1>2. DOMAIN <<>> = {} /\ Recs(<<>>) = {} /\ <<>> \in Seq(Nat)
  BY DEF Recs
<1> HIDE DEF e
<1>3. Held(e) = Held(d)
  BY <1>1, <1>2 DEF Held
<1>4. \A x \in DOMAIN e : e[x] \in Seq(Nat)
  BY <1>1, <1>2, Zenon DEF Sound
<1>5. \A x \in DOMAIN e : \A i, j \in DOMAIN e[x] : i < j => e[x][i] < e[x][j]
  BY <1>1, <1>2 DEF Sound
<1>6. \A x, y \in DOMAIN e : x # y => Recs(e[x]) \intersect Recs(e[y]) = {}
  BY <1>1, <1>2 DEF Sound
<1>7. Sound(e, f)
  BY <1>1, <1>3, <1>4, <1>5, <1>6, Zenon DEF Sound
<1> QED BY <1>1, <1>3, <1>7 DEF e

\* The records of the named files.
RecsOf(d, names) == UNION {Recs(d[x]) : x \in names \intersect DOMAIN d}

\* The named files are gone, their records marked.
Removes(d, f, names, what) ==
  /\ Sound(Without(d, names), Mark(f, RecsOf(d, names), what))
  /\ Held(Without(d, names)) = Held(d) \ RecsOf(d, names)
  /\ RecsOf(d, names) \subseteq Held(d)

\* Removing files and marking their records keeps the files sound.
LEMMA RemovesFiles ==
  ASSUME NEW d, NEW f, Sound(d, f), NEW names, NEW what \in Fates, what # "kept"
  PROVE  Removes(d, f, names, what)
<1> DEFINE rs == RecsOf(d, names)
<1> DEFINE e == Without(d, names)
           g == Mark(f, rs, what)
<1> USE DEF RecsOf
<1>0. rs = UNION {Recs(d[x]) : x \in names \intersect DOMAIN d}
  OBVIOUS
<1> HIDE DEF rs
<1> USE <1>0
<1>1. DOMAIN e = DOMAIN d \ names /\ \A x \in DOMAIN e : e[x] = d[x]
  BY DEF Without
<1>2. g \in Seq(Fates) /\ DOMAIN g = DOMAIN f /\ \A r \in DOMAIN f : g[r] = IF r \in rs THEN what ELSE f[r]
  BY MarkIs DEF Sound
<1> HIDE DEF e, g
<1>3. rs \subseteq Held(d)
  BY DEF Held
<1>4. ASSUME NEW r \in Held(e) PROVE r \in Held(d) /\ r \notin rs
  <2>1. PICK x \in DOMAIN e : r \in Recs(e[x])
    BY DEF Held
  <2>2. x \in DOMAIN d /\ x \notin names /\ r \in Recs(d[x])
    BY <1>1, <2>1
  <2>3. \A y \in DOMAIN d : y # x => r \notin Recs(d[y])
    BY <2>2 DEF Sound
  <2> QED BY <2>2, <2>3 DEF Held
<1>5. ASSUME NEW r \in Held(d), r \notin rs PROVE r \in Held(e)
  BY <1>1, <1>5 DEF Held
<1>6. Held(e) = Held(d) \ rs
  BY <1>4, <1>5
<1>7. Sound(e, g)
  BY <1>1, <1>2, <1>6 DEF Sound
<1> QED BY <1>3, <1>6, <1>7 DEF e, g, rs, Removes

-----------------------------------------------------------------------------
(* The queue.                                                              *)

\* The commands of QUEUE.
Cmds == [op : {"write", "close", "sync"}, rec : Nat]

\* Receiving from the queue.
LEMMA TailIs ==
  ASSUME NEW q \in Seq(Cmds), q # <<>>
  PROVE  /\ Tail(q) \in Seq(Cmds) /\ Len(q) >= 1 /\ Len(Tail(q)) = Len(q) - 1
         /\ Head(q) = q[1] /\ Head(q) \in Cmds
         /\ \A i \in DOMAIN Tail(q) : i + 1 \in DOMAIN q /\ Tail(q)[i] = q[i + 1]
         /\ \A i \in DOMAIN q : i = 1 \/ (i - 1 \in DOMAIN Tail(q) /\ q[i] = Tail(q)[i - 1])
OBVIOUS

\* Sending to the queue.
LEMMA AppendIs ==
  ASSUME NEW q \in Seq(Cmds), NEW c \in Cmds
  PROVE  /\ Append(q, c) \in Seq(Cmds) /\ Len(Append(q, c)) = Len(q) + 1
         /\ Len(q) + 1 \in DOMAIN Append(q, c) /\ Append(q, c)[Len(q) + 1] = c
         /\ \A i \in DOMAIN q : i \in DOMAIN Append(q, c) /\ Append(q, c)[i] = q[i] /\ i < Len(q) + 1
         /\ \A i \in DOMAIN Append(q, c) : i \in DOMAIN q \/ i = Len(q) + 1
OBVIOUS

\* The records that wait when the head is taken.
LEMMA WaitingTail ==
  ASSUME NEW q \in Seq(Cmds), q # <<>>
  PROVE  Waiting(q) = Waiting(Tail(q)) \union (IF Head(q).op = "write" THEN {Head(q).rec} ELSE {})
<1>1. ASSUME NEW i \in DOMAIN q, q[i].op = "write"
      PROVE  q[i].rec \in Waiting(Tail(q)) \/ (i = 1 /\ Head(q).op = "write" /\ q[i].rec = Head(q).rec)
  <2>1. CASE i = 1
    BY <1>1, <2>1
  <2>2. CASE i # 1
    <3>1. i - 1 \in DOMAIN Tail(q) /\ q[i] = Tail(q)[i - 1]
      BY <2>2, TailIs
    <3> QED BY <1>1, <3>1 DEF Waiting
  <2> QED BY <2>1, <2>2
<1>2. ASSUME NEW i \in DOMAIN Tail(q), Tail(q)[i].op = "write" PROVE Tail(q)[i].rec \in Waiting(q)
  BY <1>2, TailIs DEF Waiting
<1>3. 1 \in DOMAIN q /\ Head(q) = q[1]
  OBVIOUS
<1>4. Head(q).op = "write" => Head(q).rec \in Waiting(q)
  BY <1>3 DEF Waiting
<1> QED BY <1>1, <1>2, <1>4 DEF Waiting

\* The records that wait when a command is sent.
LEMMA WaitingAppend ==
  ASSUME NEW q \in Seq(Cmds), NEW c \in Cmds
  PROVE  Waiting(Append(q, c)) = Waiting(q) \union (IF c.op = "write" THEN {c.rec} ELSE {})
<1>1. ASSUME NEW i \in DOMAIN Append(q, c), Append(q, c)[i].op = "write"
      PROVE  Append(q, c)[i].rec \in Waiting(q) \union (IF c.op = "write" THEN {c.rec} ELSE {})
  BY <1>1, AppendIs DEF Waiting
<1>2. ASSUME NEW i \in DOMAIN q, q[i].op = "write" PROVE q[i].rec \in Waiting(Append(q, c))
  BY <1>2, AppendIs DEF Waiting
<1>3. c.op = "write" => c.rec \in Waiting(Append(q, c))
  BY AppendIs DEF Waiting
<1> QED BY <1>1, <1>2, <1>3 DEF Waiting

\* The head of the queue has been handled.
LEMMA OrderTail ==
  ASSUME NEW q, NEW f, NEW W, Ordered(q, f, W), q # <<>>, NEW g, NEW V,
         DOMAIN g = DOMAIN f,
         \A r \in DOMAIN f : g[r] = "queued" <=> f[r] = "queued" /\ ~(Head(q).op = "write" /\ r = Head(q).rec),
         V \subseteq W \union (IF Head(q).op = "write" THEN {Head(q).rec} ELSE {})
  PROVE  Ordered(Tail(q), g, V)
<1>1. q \in Seq(Cmds) /\ Tail(q) \in Seq(Cmds)
  BY TailIs DEF Ordered, Cmds
<1>2. Waiting(q) = Waiting(Tail(q)) \union (IF Head(q).op = "write" THEN {Head(q).rec} ELSE {})
  BY <1>1, WaitingTail
<1>3. ASSUME NEW i \in DOMAIN Tail(q), NEW j \in DOMAIN Tail(q), i < j,
             Tail(q)[i].op = "write", Tail(q)[j].op = "write"
      PROVE  Tail(q)[i].rec < Tail(q)[j].rec
  BY <1>1, <1>3, TailIs, SMTT(40), ZenonT(20) DEF Ordered
<1>4. ASSUME Head(q).op = "write", NEW i \in DOMAIN Tail(q), Tail(q)[i].op = "write"
      PROVE  Head(q).rec < Tail(q)[i].rec
  <2>1. 1 \in DOMAIN q /\ Head(q) = q[1] /\ i + 1 \in DOMAIN q /\ Tail(q)[i] = q[i + 1] /\ 1 < i + 1
    BY <1>1, TailIs
  <2> QED BY <1>4, <2>1 DEF Ordered
<1>5. Head(q).op = "write" => \A s \in Waiting(Tail(q)) : Head(q).rec < s
  BY <1>4 DEF Waiting
<1>6. Head(q).op = "write" => Head(q).rec \notin Waiting(Tail(q))
  <2>1. Head(q) \in Cmds
    BY <1>1, TailIs
  <2>2. \A n \in Nat : ~(n < n)
    OBVIOUS
  <2> QED BY <1>5, <2>1, <2>2 DEF Cmds
<1>7. \A r \in DOMAIN g : g[r] = "queued" <=> r \in Waiting(Tail(q))
  BY <1>2, <1>6 DEF Ordered
<1>8. \A r \in V : \A s \in Waiting(Tail(q)) : r < s
  BY <1>2, <1>5 DEF Ordered
<1> QED BY <1>1, <1>2, <1>3, <1>7, <1>8 DEF Ordered, Cmds

\* Nothing was taken from the queue.
LEMMA OrderSame ==
  ASSUME NEW q, NEW f, NEW W, Ordered(q, f, W), NEW g, NEW V,
         DOMAIN g = DOMAIN f, \A r \in DOMAIN f : g[r] = "queued" <=> f[r] = "queued",
         V \subseteq W
  PROVE  Ordered(q, g, V)
BY DEF Ordered

\* A command other than a write was queued, if there was room.
LEMMA OrderSend ==
  ASSUME NEW q, NEW f, NEW W, Ordered(q, f, W), NEW c \in Cmds, c.op # "write"
  PROVE  Ordered(Append(q, c), f, W)
<1>1. q \in Seq(Cmds) /\ Append(q, c) \in Seq(Cmds)
  BY AppendIs DEF Ordered, Cmds
<1>2. Waiting(Append(q, c)) = Waiting(q)
  BY <1>1, WaitingAppend, Zenon
<1>3. ASSUME NEW i \in DOMAIN Append(q, c), NEW j \in DOMAIN Append(q, c), i < j,
             Append(q, c)[i].op = "write", Append(q, c)[j].op = "write"
      PROVE  Append(q, c)[i].rec < Append(q, c)[j].rec
  BY <1>1, <1>3, AppendIs DEF Ordered
<1> QED BY <1>1, <1>2, <1>3 DEF Ordered, Cmds

-----------------------------------------------------------------------------
(* Closing, appending, and what they leave of the promise.                 *)

\* Only records that were in memory are still in memory.
Narrows(f, g) ==
  /\ DOMAIN g = DOMAIN f
  /\ \A r \in DOMAIN f : g[r] \in {"queued", "buffered"} => f[r] \in {"queued", "buffered"}

\* lfs_file_close stores the cache in the file or loses it.
LEMMA CloseSound ==
  ASSUME HistInv, NEW k
  PROVE  /\ Sound(Closed(k), ClosedFate(k))
         /\ DOMAIN Closed(k) = DOMAIN disk
         /\ Held(Closed(k)) = IF Stored(k) THEN OnDisk \union Cached ELSE OnDisk
         /\ DOMAIN ClosedFate(k) = DOMAIN fate /\ ClosedFate(k) \in Seq(Fates)
         /\ \A r \in DOMAIN fate : ClosedFate(k)[r] =
              IF r \in Cached THEN (IF Stored(k) THEN "kept" ELSE "lost") ELSE fate[r]
<1>1. Sound(disk, fate) /\ fate \in Seq(Fates) /\ FileInv /\ file.buf \in Seq(Nat)
  BY DEF HistInv, Sound, FileInv
<1>2. CASE Stored(k)
  <2>1. Visible /\ Cached = Recs(file.buf) /\ file.name \in DOMAIN disk
    BY <1>1, <1>2 DEF Stored, Cached, FileInv
  <2>2. Recs(file.buf) \subseteq DOMAIN fate
    BY <1>1, <2>1 DEF FileInv
  <2>3. Recs(file.buf) \intersect Held(disk) = {}
    BY <1>1, <2>1, SMTT(40), ZenonT(20) DEF FileInv, Sound
  <2>4. \A r \in Recs(disk[file.name]), s \in Recs(file.buf) : r < s
    BY <1>1, <2>1 DEF FileInv, OnDisk, Held
  <2>5. \A i, j \in DOMAIN file.buf : i < j => file.buf[i] < file.buf[j]
    BY <1>1, <2>1 DEF FileInv
  <2>6. /\ Sound(StoreIn(disk, file.name, file.buf), Mark(fate, Recs(file.buf), "kept"))
        /\ Held(StoreIn(disk, file.name, file.buf)) = Held(disk) \union Recs(file.buf)
    <3>1. Storable(disk, fate, file.name, file.buf)
      BY <1>1, <2>1, <2>2, <2>3, <2>4, <2>5 DEF Storable
    <3> QED BY <1>1, <3>1, StoresMore, Zenon
  <2>7. /\ Closed(k) = StoreIn(disk, file.name, file.buf)
        /\ ClosedFate(k) = Mark(fate, Recs(file.buf), "kept")
    BY <1>2, <2>1 DEF Closed, ClosedFate, StoreIn
  <2>8. "kept" \in Fates
    BY DEF Fates
  <2>9. /\ DOMAIN ClosedFate(k) = DOMAIN fate /\ ClosedFate(k) \in Seq(Fates)
        /\ \A r \in DOMAIN fate : ClosedFate(k)[r] = IF r \in Cached THEN "kept" ELSE fate[r]
    BY <1>1, <2>1, <2>7, <2>8, MarkIs
  <2>10. Sound(Closed(k), ClosedFate(k)) /\ Held(Closed(k)) = OnDisk \union Cached
    BY <2>1, <2>6, <2>7 DEF OnDisk
  <2> QED BY <1>2, <2>9, <2>10, ClosedNames
<1>3. CASE ~Stored(k)
  <2>1. Closed(k) = disk /\ ClosedFate(k) = IF Visible THEN Mark(fate, Cached, "lost") ELSE fate
    BY <1>3 DEF Closed, ClosedFate, Cached
  <2>2. Cached \intersect Held(disk) = {}
    BY <1>1 DEF FileInv, Sound
  <2>3. "lost" \in Fates /\ "lost" # "kept"
    BY DEF Fates
  <2>4. Sound(disk, Mark(fate, Cached, "lost"))
    BY <1>1, <2>2, <2>3, MarksOthers
  <2>5. ~Visible => Cached = {}
    BY DEF Cached
  <2> QED BY <1>1, <1>3, <2>1, <2>3, <2>4, <2>5, MarkIs DEF OnDisk
<1> QED BY <1>2, <1>3

\* The record r is newer than all that are held.
Newest(d, f, nm, r) ==
  /\ nm \in DOMAIN d /\ r \in DOMAIN f
  /\ \A x \in Held(d) : x < r

\* A record is appended to the file nm and synced, or left unsynced.
AppendsOne(d, f, nm, r, k) ==
  /\ Sound(Appended(d, nm, r, k), Mark(f, {r}, NewFate(k)))
  /\ DOMAIN Appended(d, nm, r, k) = DOMAIN d
  /\ Held(Appended(d, nm, r, k)) = IF "sync" \in k THEN Held(d) ELSE Held(d) \union {r}

\* open_append keeps the files sound.
LEMMA AppendSound ==
  ASSUME NEW d, NEW f, Sound(d, f), NEW nm, NEW r, NEW k, Newest(d, f, nm, r)
  PROVE  AppendsOne(d, f, nm, r, k)
<1> USE DEF AppendsOne
<1>0. nm \in DOMAIN d /\ r \in DOMAIN f /\ \A x \in Held(d) : x < r
  BY DEF Newest
<1> USE <1>0
<1>1. f \in Seq(Fates) /\ r \in Nat /\ d[nm] \in Seq(Nat)
  BY DEF Sound
<1>2. {r} \intersect Held(d) = {}
  BY <1>1
<1>3. CASE "sync" \in k
  <2>1. Sound(d, Mark(f, {r}, "unsynced"))
    BY <1>2, MarksOthers DEF Fates
  <2> QED BY <1>3, <2>1 DEF Appended, NewFate
<1>4. CASE "sync" \notin k
  <2>1. <<r>> \in Seq(Nat) /\ Recs(<<r>>) = {r} /\ Append(d[nm], r) = d[nm] \o <<r>>
    BY <1>1 DEF Recs
  <2>2. \A i, j \in DOMAIN <<r>> : i < j => <<r>>[i] < <<r>>[j]
    OBVIOUS
  <2>3. \A x \in Recs(d[nm]), s \in Recs(<<r>>) : x < s
    BY <2>1 DEF Held
  <2>4. /\ Sound(StoreIn(d, nm, <<r>>), Mark(f, Recs(<<r>>), "kept"))
        /\ Held(StoreIn(d, nm, <<r>>)) = Held(d) \union Recs(<<r>>)
    <3> DEFINE t == <<r>>
    <3>1. Storable(d, f, nm, t)
      BY <1>2, <2>1, <2>2, <2>3 DEF Storable
    <3> HIDE DEF t
    <3>2. /\ Sound(StoreIn(d, nm, t), Mark(f, Recs(t), "kept"))
          /\ Held(StoreIn(d, nm, t)) = Held(d) \union Recs(t)
      BY <3>1, StoresMore, Zenon
    <3> QED BY <3>2 DEF t
  <2>5. StoreIn(d, nm, <<r>>) = Appended(d, nm, r, k)
    BY <1>4, <2>1 DEF Appended, StoreIn
  <2> QED BY <1>4, <2>1, <2>4, <2>5, Zenon DEF Appended, NewFate
<1> QED BY <1>3, <1>4

\* A command other than Sync was taken from the queue.
LEMMA SyncTail ==
  ASSUME SyncInv, queue \in Seq(Cmds), queue # <<>>, queue' = Tail(queue), Head(queue).op # "sync",
         Narrows(fate, fate'), UNCHANGED <<promised, rebooting>>
  PROVE  SyncInv'
<1>1. /\ \A i \in DOMAIN queue' : i + 1 \in DOMAIN queue /\ queue'[i] = queue[i + 1]
      /\ \A i \in DOMAIN queue : i = 1 \/ (i - 1 \in DOMAIN queue' /\ queue[i] = queue'[i - 1])
      /\ Head(queue) = queue[1] /\ DOMAIN queue = 1 .. Len(queue)
  BY TailIs
<1>2. (\A i \in DOMAIN queue' : queue'[i].op # "sync") => (\A i \in DOMAIN queue : queue[i].op # "sync")
  BY <1>1, ZenonT(40)
<1>3. Flushed'
  BY <1>2 DEF SyncInv, Flushed, Narrows
<1>4. rebooting' = "no" => \A i \in DOMAIN queue' : queue'[i].op # "sync"
  BY <1>1 DEF SyncInv
<1>5. ASSUME NEW i \in DOMAIN queue', NEW j \in DOMAIN queue',
             queue'[i].op = "sync", queue'[j].op = "write", queue'[j].rec \in promised'
      PROVE  j < i
  BY <1>1, <1>5 DEF SyncInv
<1>6. promised' \subseteq DOMAIN fate'
  BY DEF SyncInv, Narrows
<1> QED BY <1>3, <1>4, <1>5, <1>6 DEF SyncInv

\* Nothing was taken from the queue, or sent.
LEMMA SyncSame ==
  ASSUME SyncInv, Narrows(fate, fate'), UNCHANGED <<queue, promised, rebooting>>
  PROVE  SyncInv'
BY DEF SyncInv, Flushed, Narrows

-----------------------------------------------------------------------------
(* The storage task.                                                       *)

\* The record at the head is queued and newer than all that was written.
LEMMA HeadWaits ==
  ASSUME HistInv, queue # <<>>, Head(queue).op = "write"
  PROVE  /\ Head(queue).rec \in DOMAIN fate /\ Head(queue).rec \in Nat
         /\ fate[Head(queue).rec] = "queued"
         /\ \A x \in OnDisk \union Cached : x < Head(queue).rec
         /\ Head(queue).rec \notin OnDisk \union Cached
<1>1. queue \in Seq(Cmds) /\ Head(queue) \in Cmds
  BY TailIs DEF HistInv, Ordered, Cmds
<1>2. Head(queue).rec \in Waiting(queue)
  BY <1>1, WaitingTail
<1>3. Head(queue).rec \in Nat
  BY <1>1 DEF Cmds
<1>4. ~(Head(queue).rec < Head(queue).rec)
  BY <1>3
<1> QED BY <1>2, <1>3, <1>4 DEF HistInv, Ordered

\* What an open file handle may be.
Handles ==
  [name : Nat, len : Nat, buf : Seq(Nat), erred : BOOLEAN, orphan : {"no", "user", "retention"}]

\* The head of the queue was written through a new handle or none, or given up.
Settles(r) ==
  /\ Sound(disk', fate') /\ DOMAIN fate' = DOMAIN fate
  /\ file' \in Handles /\ (Visible' => file'.name \in DOMAIN disk')
  /\ \/ file'.buf = <<>>
     \/ file'.buf = <<r>> /\ fate'[r] = "unsynced"
  /\ \A x \in DOMAIN fate : fate'[x] = "queued" <=> fate[x] = "queued" /\ x # r
  /\ \A x \in DOMAIN fate : fate'[x] # "buffered"
  /\ Held(disk') \subseteq OnDisk \union Cached \union {r}
  /\ st' \in Nat

\* A write that has settled its record keeps the invariant.
LEMMA SettlesKeeps ==
  ASSUME HistInv, queue # <<>>, Head(queue).op = "write", queue' = Tail(queue),
         Settles(Head(queue).rec), UNCHANGED <<clock, promised, rebooting>>
  PROVE  HistInv'
<1> DEFINE r == Head(queue).rec
<1>1. /\ r \in DOMAIN fate /\ r \in Nat /\ fate[r] = "queued"
      /\ \A x \in OnDisk \union Cached : x < r
      /\ r \notin OnDisk \union Cached
  BY HeadWaits
<1>2. Settles(r)
  OBVIOUS
<1> HIDE DEF r
<1>3. Recs(<<>>) = {} /\ Recs(<<r>>) = {r}
  BY DEF Recs
<1>4. Cached' \subseteq {r} /\ (r \in Cached' => fate'[r] = "unsynced")
  BY <1>2, <1>3 DEF Settles, Cached
<1>5. r \in Cached' => r \notin OnDisk'
  BY <1>1, <1>2, <1>4 DEF Settles, Sound, OnDisk
<1>6. OnDisk' \subseteq OnDisk \union Cached \union {r}
  BY <1>2 DEF Settles, OnDisk
<1>7. FileInv'
  <2>1. \A i, j \in DOMAIN file'.buf : i < j => file'.buf[i] < file'.buf[j]
    <3>1. \A i, j \in DOMAIN <<>> : i < j => <<>>[i] < <<>>[j]
      OBVIOUS
    <3>2. \A i, j \in DOMAIN <<r>> : i < j => <<r>>[i] < <<r>>[j]
      OBVIOUS
    <3> QED BY <1>2, <3>1, <3>2 DEF Settles
  <2>2. \A x \in Cached' : x \in DOMAIN fate' /\ fate'[x] \in {"buffered", "unsynced"}
    BY <1>1, <1>2, <1>4 DEF Settles
  <2>3. \A x \in Cached', s \in OnDisk' : s < x
    BY <1>1, <1>4, <1>5, <1>6
  <2> QED BY <1>2, <2>1, <2>2, <2>3 DEF Settles, FileInv, Handles
<1>8. Ordered(queue', fate', OnDisk' \union Cached')
  <2>1. Ordered(queue, fate, OnDisk \union Cached)
    BY DEF HistInv
  <2>2. OnDisk' \union Cached' \subseteq (OnDisk \union Cached) \union (IF Head(queue).op = "write" THEN {Head(queue).rec} ELSE {})
    BY <1>4, <1>6 DEF r
  <2>3. DOMAIN fate' = DOMAIN fate /\ \A x \in DOMAIN fate : fate'[x] = "queued" <=> fate[x] = "queued" /\ ~(Head(queue).op = "write" /\ x = Head(queue).rec)
    BY <1>2 DEF Settles, r
  <2> QED BY <2>1, <2>2, <2>3, OrderTail
<1>9. SyncInv'
  <2>1. queue \in Seq(Cmds) /\ SyncInv
    BY DEF HistInv, Ordered, Cmds
  <2>2. Narrows(fate, fate')
    BY <1>2 DEF Settles, Narrows
  <2> QED BY <2>1, <2>2, SyncTail
<1> QED BY <1>2, <1>7, <1>8, <1>9 DEF HistInv, Settles

\* The fast path of hist_write keeps the invariant.
LEMMA FastKeeps ==
  ASSUME HistInv, queue # <<>>, Head(queue).op = "write", queue' = Tail(queue),
         WriteFast(Head(queue).rec), UNCHANGED <<clock, promised, rebooting>>
  PROVE  HistInv'
<1> DEFINE r == Head(queue).rec
<1>1. /\ r \in DOMAIN fate /\ r \in Nat /\ fate[r] = "queued"
      /\ \A x \in OnDisk \union Cached : x < r
      /\ r \notin OnDisk \union Cached
  BY HeadWaits
<1>2. WriteFast(r)
  OBVIOUS
<1> HIDE DEF r
<1>3. file \in Handles /\ file.buf \in Seq(Nat) /\ fate \in Seq(Fates) /\ Sound(disk, fate)
  BY DEF HistInv, FileInv, Handles, Sound
<1>4. /\ file' = [file EXCEPT !.len = @ + 1, !.buf = Append(@, r), !.erred = FALSE]
      /\ fate' = Mark(fate, {r}, IF Visible THEN "buffered" ELSE "orphaned")
      /\ disk' = disk /\ st' = st /\ faults' = faults
  BY <1>2 DEF WriteFast
<1>5. file' \in Handles /\ file'.buf = Append(file.buf, r) /\ ~file'.erred /\ (Visible' <=> Visible)
      /\ file'.name = file.name
  <2>1. /\ file.name \in Nat /\ file.len \in Nat /\ file.orphan \in {"no", "user", "retention"}
        /\ Append(file.buf, r) \in Seq(Nat)
    BY <1>1, <1>3 DEF Handles
  <2>2. file' = [name |-> file.name, len |-> file.len + 1, buf |-> Append(file.buf, r), erred |-> FALSE,
                 orphan |-> file.orphan]
    BY <1>3, <1>4, Zenon DEF Handles
  <2>3. file' \in Handles
    BY <2>1, <2>2 DEF Handles
  <2> QED BY <2>2, <2>3 DEF Visible, IsOpen
<1>6. "buffered" \in Fates /\ "orphaned" \in Fates
  BY DEF Fates
<1>7. /\ DOMAIN fate' = DOMAIN fate
      /\ \A x \in DOMAIN fate : fate'[x] = IF x = r THEN IF Visible THEN "buffered" ELSE "orphaned" ELSE fate[x]
  BY <1>3, <1>4, <1>6, MarkIs
<1>8. Sound(disk', fate')
  <2>1. PICK w \in Fates : w # "kept" /\ fate' = Mark(fate, {r}, w)
    BY <1>4, <1>6
  <2>2. {r} \intersect Held(disk) = {}
    BY <1>1 DEF OnDisk
  <2>3. Sound(disk, Mark(fate, {r}, w))
    BY <1>3, <2>1, <2>2, MarksOthers, Zenon
  <2> QED BY <1>4, <2>1, <2>3
<1>9. Recs(Append(file.buf, r)) = Recs(file.buf) \union {r}
  <2>1. Append(file.buf, r) = file.buf \o <<r>> /\ <<r>> \in Seq(Nat)
    BY <1>1, <1>3, SMTT(40), ZenonT(20)
  <2>2. Recs(<<r>>) = {r}
    BY DEF Recs
  <2>3. PICK b \in Seq(Nat), c \in Seq(Nat) : b = file.buf /\ c = <<r>>
    BY <1>3, <2>1, Zenon
  <2>4. Recs(b \o c) = Recs(b) \union Recs(c)
    BY RecsConcat
  <2> QED BY <2>1, <2>2, <2>3, <2>4
<1>10. Cached' = IF Visible THEN Cached \union {r} ELSE {}
  BY <1>5, <1>9 DEF Cached
<1>11. OnDisk' = OnDisk
  BY <1>4 DEF OnDisk
<1>12. FileInv'
  <2>1. Visible => \A i, j \in DOMAIN file'.buf : i < j => file'.buf[i] < file'.buf[j]
    <3> SUFFICES ASSUME Visible PROVE \A i, j \in DOMAIN file'.buf : i < j => file'.buf[i] < file'.buf[j]
      OBVIOUS
    <3>1. \A i \in DOMAIN file.buf : file.buf[i] < r
      BY <1>1 DEF Cached, Recs
    <3>2. \A i, j \in DOMAIN file.buf : i < j => file.buf[i] < file.buf[j]
      BY DEF HistInv, FileInv
    <3>3. PICK b \in Seq(Nat) : b = file.buf
      BY <1>3
    <3> QED BY <1>1, <1>5, <3>1, <3>2, <3>3, SMTT(40), ZenonT(20)
  <2>2. \A x \in Cached' : x \in DOMAIN fate' /\ fate'[x] \in {"buffered", "unsynced"}
    BY <1>1, <1>7, <1>10 DEF HistInv, FileInv
  <2>3. \A x \in Cached', s \in OnDisk' : s < x
    BY <1>1, <1>10, <1>11 DEF HistInv, FileInv
  <2>4. \A x \in DOMAIN fate' : fate'[x] = "buffered" => x \in Cached' /\ ~file'.erred
    BY <1>5, <1>7, <1>10 DEF HistInv, FileInv, Cached
  <2>5. Visible' => file'.name \in DOMAIN disk'
    BY <1>4, <1>5 DEF HistInv, FileInv
  <2> QED BY <1>5, <2>1, <2>2, <2>3, <2>4, <2>5, SMTT(40), ZenonT(20) DEF FileInv, Handles
<1>13. Ordered(queue', fate', OnDisk' \union Cached')
  <2>1. Ordered(queue, fate, OnDisk \union Cached)
    BY DEF HistInv
  <2>2. OnDisk' \union Cached' \subseteq (OnDisk \union Cached) \union (IF Head(queue).op = "write" THEN {Head(queue).rec} ELSE {})
    BY <1>10, <1>11 DEF r
  <2>3. DOMAIN fate' = DOMAIN fate /\ \A x \in DOMAIN fate : fate'[x] = "queued" <=> fate[x] = "queued" /\ ~(Head(queue).op = "write" /\ x = Head(queue).rec)
    BY <1>7 DEF r
  <2> QED BY <2>1, <2>2, <2>3, OrderTail
<1>14. SyncInv'
  <2>1. queue \in Seq(Cmds) /\ SyncInv
    BY DEF HistInv, Ordered, Cmds
  <2>2. Narrows(fate, fate')
    BY <1>1, <1>7 DEF Narrows
  <2> QED BY <2>1, <2>2, SyncTail
<1> QED BY <1>4, <1>8, <1>12, <1>13, <1>14 DEF HistInv

\* The handle that open_append leaves.
LEMMA HandleIs ==
  ASSUME NEW d, NEW nm \in Name, d[nm] \in Seq(Nat), NEW r \in Nat, NEW k, NEW removed
  PROVE  /\ Handle(d, nm, r, k, removed) \in Handles
         /\ Handle(d, nm, r, k, removed).name = nm
         /\ Handle(d, nm, r, k, removed).buf = IF "sync" \in k THEN <<r>> ELSE <<>>
         /\ Handle(d, nm, r, k, removed).orphan = IF nm \in removed THEN "retention" ELSE "no"
         /\ Handle(d, nm, r, k, removed).erred = ("sync" \in k)
<1>1. nm \in Nat /\ Len(d[nm]) + 1 \in Nat /\ <<r>> \in Seq(Nat) /\ <<>> \in Seq(Nat)
  BY HistoryAssumption DEF Name
<1>2. ("sync" \in k) \in BOOLEAN
  OBVIOUS
<1> QED BY <1>1, <1>2 DEF Handle, Handles

\* The handle of no file.
LEMMA NoFileIs ==
  NoFile \in Handles /\ NoFile.buf = <<>> /\ NoFile.name = NoName /\ NoName \in Nat
<1>1. NoName \in Nat /\ <<>> \in Seq(Nat) /\ FALSE \in BOOLEAN
  BY HistoryAssumption DEF NoName
<1> QED BY <1>1 DEF NoFile, Handles

\* The open file has been closed: what its records have become.
LEMMA ClosedIs ==
  ASSUME HistInv, NEW k, queue # <<>>, Head(queue).op = "write"
  PROVE  /\ Sound(Closed(k), ClosedFate(k)) /\ ClosedFate(k) \in Seq(Fates)
         /\ DOMAIN ClosedFate(k) = DOMAIN fate
         /\ Held(Closed(k)) \subseteq OnDisk \union Cached
         /\ \A x \in Held(Closed(k)) : x < Head(queue).rec
         /\ \A x \in DOMAIN fate : ClosedFate(k)[x] # "buffered"
         /\ \A x \in DOMAIN fate : ClosedFate(k)[x] = "queued" <=> fate[x] = "queued"
<1>1. \A x \in DOMAIN fate : fate[x] = "buffered" => x \in Cached
  BY DEF HistInv, FileInv
<1>2. \A x \in Cached : fate[x] # "queued"
  BY DEF HistInv, FileInv
<1> QED BY <1>1, <1>2, CloseSound, HeadWaits

\* hist_write, the retained or latest file is reopened.
LEMMA ReopenSettles ==
  ASSUME HistInv, queue # <<>>, Head(queue).op = "write", NEW k,
         Reopen(Head(queue).rec, k)
  PROVE  Settles(Head(queue).rec)
<1> DEFINE r == Head(queue).rec
           d == Closed(k)
           f == ClosedFate(k)
           nm == Retained(k)
<1>1. /\ Sound(d, f) /\ f \in Seq(Fates) /\ DOMAIN f = DOMAIN fate
      /\ Held(d) \subseteq OnDisk \union Cached
      /\ \A x \in Held(d) : x < r
      /\ \A x \in DOMAIN fate : f[x] # "buffered"
      /\ \A x \in DOMAIN fate : f[x] = "queued" <=> fate[x] = "queued"
  BY ClosedIs
<1>2. r \in DOMAIN fate /\ r \in Nat /\ fate[r] = "queued"
  BY HeadWaits
<1>3. /\ nm \in DOMAIN d
      /\ disk' = Appended(d, nm, r, k) /\ file' = Handle(d, nm, r, k, {}) /\ st' = nm
      /\ fate' = Mark(f, {r}, NewFate(k))
  BY DEF Reopen, CanReopen
<1> HIDE DEF r, d, f, nm
<1>4. nm \in Name /\ d[nm] \in Seq(Nat) /\ nm \in Nat
  BY <1>1, <1>3, HistoryAssumption DEF Sound, Name
<1>5. NewFate(k) \in Fates /\ NewFate(k) \notin {"queued", "buffered"}
  BY DEF NewFate, Fates
<1>6. /\ Sound(disk', fate') /\ DOMAIN disk' = DOMAIN d
      /\ Held(disk') = IF "sync" \in k THEN Held(d) ELSE Held(d) \union {r}
  <2>1. Newest(d, f, nm, r)
    BY <1>1, <1>2, <1>3 DEF Newest
  <2>2. AppendsOne(d, f, nm, r, k)
    BY <1>1, <2>1, AppendSound, Zenon
  <2> QED BY <1>3, <2>2 DEF AppendsOne
<1>7. DOMAIN fate' = DOMAIN fate /\ \A x \in DOMAIN fate : fate'[x] = IF x = r THEN NewFate(k) ELSE f[x]
  BY <1>1, <1>3, <1>5, MarkIs
<1>8. file' \in Handles /\ file'.name = nm /\ file'.buf = IF "sync" \in k THEN <<r>> ELSE <<>>
  BY <1>2, <1>3, <1>4, HandleIs
<1>9. "sync" \in k => fate'[r] = "unsynced"
  BY <1>2, <1>7 DEF NewFate
<1>10. Settles(r)
  BY <1>1, <1>2, <1>3, <1>4, <1>5, <1>6, <1>7, <1>8, <1>9, ZenonT(40) DEF Settles
<1> QED BY <1>10 DEF r

\* hist_write, a new file is created and the oldest are cleaned up.
LEMMA CreateSettles ==
  ASSUME HistInv, queue # <<>>, Head(queue).op = "write", NEW k,
         Create(Head(queue).rec, k)
  PROVE  Settles(Head(queue).rec)
<1> DEFINE r == Head(queue).rec
           c == Closed(k)
           f == ClosedFate(k)
           nm == NewName
           d == WithFile(c, nm)
           all == Appended(d, nm, r, k)
           g == Mark(f, {r}, NewFate(k))
<1>0. PICK removed \in Cleaned(all, k) :
        /\ disk' = Without(all, removed) /\ file' = Handle(d, nm, r, k, removed)
        /\ fate' = Mark(g, UNION {Recs(all[x]) : x \in removed}, "retired")
  BY DEF Create
<1> DEFINE rs == UNION {Recs(all[x]) : x \in removed}
<1>1. /\ Sound(c, f) /\ f \in Seq(Fates) /\ DOMAIN f = DOMAIN fate
      /\ Held(c) \subseteq OnDisk \union Cached
      /\ \A x \in Held(c) : x < r
      /\ \A x \in DOMAIN fate : f[x] # "buffered"
      /\ \A x \in DOMAIN fate : f[x] = "queued" <=> fate[x] = "queued"
  BY ClosedIs
<1>2. r \in DOMAIN fate /\ r \in Nat /\ fate[r] = "queued"
  BY HeadWaits
<1>3. nm \in Name /\ nm \in Nat
  BY NewNameIsName, HistoryAssumption DEF HistInv, Name
<1>4. /\ disk' = Without(all, removed) /\ file' = Handle(d, nm, r, k, removed) /\ st' = nm
      /\ fate' = Mark(g, rs, "retired")
  BY <1>0 DEF Create
<1>5. removed \subseteq DOMAIN all
  BY <1>0 DEF Cleaned, Removed
<1>6. NewFate(k) \in Fates /\ NewFate(k) \notin {"queued", "buffered"} /\ "retired" \in Fates
  BY DEF NewFate, Fates
<1> HIDE DEF r, c, f, nm
<1>7. Sound(d, f) /\ Held(d) = Held(c) /\ nm \in DOMAIN d
  BY <1>1, <1>3, AddsFile
<1> HIDE DEF d
<1>8. /\ Sound(all, g) /\ DOMAIN all = DOMAIN d
      /\ Held(all) = IF "sync" \in k THEN Held(d) ELSE Held(d) \union {r}
  <2>1. Newest(d, f, nm, r)
    BY <1>1, <1>2, <1>7 DEF Newest
  <2>2. AppendsOne(d, f, nm, r, k)
    BY <1>7, <2>1, AppendSound, Zenon
  <2> QED BY <2>2 DEF AppendsOne
<1>9. g \in Seq(Fates) /\ DOMAIN g = DOMAIN fate /\ \A x \in DOMAIN fate : g[x] = IF x = r THEN NewFate(k) ELSE f[x]
  BY <1>1, <1>6, MarkIs
<1> HIDE DEF all, g
<1>10. rs = RecsOf(all, removed)
  BY <1>5 DEF RecsOf
<1> HIDE DEF rs
<1>11. Sound(disk', fate') /\ Held(disk') = Held(all) \ rs /\ rs \subseteq Held(all)
  <2>1. "retired" # "kept"
    OBVIOUS
  <2>2. Removes(all, g, removed, "retired")
    BY <1>6, <1>8, <2>1, RemovesFiles, Zenon
  <2> QED BY <1>4, <1>10, <2>2 DEF Removes
<1>12. DOMAIN fate' = DOMAIN fate /\ \A x \in DOMAIN fate : fate'[x] = IF x \in rs THEN "retired" ELSE g[x]
  BY <1>4, <1>6, <1>9, MarkIs
<1>13. /\ file' \in Handles /\ file'.name = nm /\ file'.buf = IF "sync" \in k THEN <<r>> ELSE <<>>
       /\ file'.orphan = IF nm \in removed THEN "retention" ELSE "no"
  BY <1>2, <1>3, <1>4, <1>7, HandleIs DEF Sound
<1>14. Visible' => file'.name \in DOMAIN disk'
  BY <1>4, <1>7, <1>8, <1>13 DEF Visible, Without
<1>15. "sync" \in k => fate'[r] = "unsynced"
  <2> SUFFICES ASSUME "sync" \in k PROVE r \notin rs
    BY <1>2, <1>9, <1>12 DEF NewFate
  <2>1. ~(r < r)
    BY <1>2
  <2> QED BY <1>1, <1>7, <1>8, <1>11, <2>1
<1>16. \A x \in rs \intersect DOMAIN fate : g[x] = "kept"
  BY <1>8, <1>9, <1>11 DEF Sound
<1>17. \A x \in DOMAIN fate : fate'[x] = "queued" <=> fate[x] = "queued" /\ x # r
  BY <1>1, <1>2, <1>6, <1>9, <1>12, <1>16
<1>18. \A x \in DOMAIN fate : fate'[x] # "buffered"
  BY <1>1, <1>6, <1>9, <1>12
<1>19. Held(disk') \subseteq OnDisk \union Cached \union {r}
  BY <1>1, <1>7, <1>8, <1>11
<1>20. Settles(r)
  BY <1>3, <1>4, <1>11, <1>12, <1>13, <1>14, <1>15, <1>17, <1>18, <1>19 DEF Settles
<1> QED BY <1>20 DEF r

\* hist_write, the new file cannot be created or written to.
LEMMA NotCreatedSettles ==
  ASSUME HistInv, queue # <<>>, Head(queue).op = "write", NEW k,
         NotCreated(Head(queue).rec, k)
  PROVE  Settles(Head(queue).rec)
<1> DEFINE r == Head(queue).rec
           c == Closed(k)
           f == ClosedFate(k)
           nm == NewName
           d == WithFile(c, nm)
<1>1. /\ Sound(c, f) /\ f \in Seq(Fates) /\ DOMAIN f = DOMAIN fate
      /\ Held(c) \subseteq OnDisk \union Cached
      /\ \A x \in Held(c) : x < r
      /\ \A x \in DOMAIN fate : f[x] # "buffered"
      /\ \A x \in DOMAIN fate : f[x] = "queued" <=> fate[x] = "queued"
  BY ClosedIs
<1>2. r \in DOMAIN fate /\ r \in Nat /\ fate[r] = "queued"
  BY HeadWaits
<1>3. nm \in Name /\ nm \in Nat
  BY NewNameIsName, HistoryAssumption DEF HistInv, Name
<1>4. /\ \/ disk' = c /\ file' = NoFile
         \/ /\ disk' = d
            /\ file' = [name |-> nm, len |-> Len(d[nm]), buf |-> <<>>, erred |-> TRUE, orphan |-> "no"]
      /\ st' = nm /\ fate' = Mark(f, {r}, "lost")
  BY DEF NotCreated
<1> HIDE DEF r, c, f, nm
<1>5. Sound(d, f) /\ Held(d) = Held(c) /\ nm \in DOMAIN d /\ d[nm] \in Seq(Nat)
  <2>1. Sound(d, f) /\ Held(d) = Held(c) /\ nm \in DOMAIN d
    BY <1>1, <1>3, AddsFile
  <2> QED BY <2>1 DEF Sound
<1> HIDE DEF d
<1>6. {r} \intersect Held(c) = {} /\ "lost" \in Fates
  <2>1. ~(r < r)
    BY <1>2
  <2> QED BY <1>1, <2>1 DEF Fates
<1>7. Sound(c, fate') /\ Sound(d, fate')
  <2>1. {r} \intersect Held(d) = {} /\ "lost" # "kept"
    BY <1>5, <1>6
  <2> QED BY <1>1, <1>4, <1>5, <1>6, <2>1, MarksOthers, Zenon
<1>8. DOMAIN fate' = DOMAIN fate /\ \A x \in DOMAIN fate : fate'[x] = IF x = r THEN "lost" ELSE f[x]
  BY <1>1, <1>4, <1>6, MarkIs
<1>9. CASE disk' = c /\ file' = NoFile
  <2>1. ~Visible'
    BY <1>9, NoFileIs DEF Visible, IsOpen
  <2> QED BY <1>1, <1>2, <1>3, <1>4, <1>7, <1>8, <1>9, <2>1, NoFileIs, Zenon DEF Settles, r
<1>10. CASE /\ disk' = d
            /\ file' = [name |-> nm, len |-> Len(d[nm]), buf |-> <<>>, erred |-> TRUE, orphan |-> "no"]
  <2>1. file' \in Handles
    <3>1. Len(d[nm]) \in Nat /\ <<>> \in Seq(Nat) /\ TRUE \in BOOLEAN
      BY <1>5
    <3> QED BY <1>3, <1>10, <3>1 DEF Handles
  <2>2. file'.name = nm /\ file'.buf = <<>>
    BY <1>10
  <2> QED BY <1>1, <1>2, <1>3, <1>4, <1>5, <1>7, <1>8, <1>10, <2>1, <2>2, Zenon DEF Settles, r
<1> QED BY <1>4, <1>9, <1>10

\* HistCmd::Write keeps the invariant.
LEMMA WriteKeeps == HistInv /\ DoWrite => HistInv'
<1> SUFFICES ASSUME HistInv, DoWrite PROVE HistInv'
  OBVIOUS
<1> DEFINE r == Head(queue).rec
<1>1. queue # <<>> /\ Head(queue).op = "write" /\ queue' = Tail(queue) /\ UNCHANGED <<clock, promised, rebooting>>
  BY DEF DoWrite, Take
<1>2. CASE MayWrite /\ WriteFast(r)
  BY <1>1, <1>2, FastKeeps
<1>3. CASE MayWrite /\ WriteSlow(r)
  <2>1. PICK k : Fail(k) /\ (Reopen(r, k) \/ Create(r, k) \/ NotCreated(r, k))
    BY <1>3 DEF WriteSlow
  <2>3. Settles(r)
    BY <1>1, <2>1, ReopenSettles, CreateSettles, NotCreatedSettles
  <2> QED BY <1>1, <2>3, SettlesKeeps
<1>4. CASE ~MayWrite
  <2>1. fate' = Mark(fate, {r}, "lost") /\ UNCHANGED <<disk, file, st, faults>>
    BY <1>4 DEF DoWrite
  <2>2. /\ r \in DOMAIN fate /\ r \in Nat /\ fate[r] = "queued"
        /\ r \notin OnDisk \union Cached
    BY <1>1, HeadWaits
  <2> HIDE DEF r
  <2>3. Sound(disk, fate) /\ fate \in Seq(Fates) /\ "lost" \in Fates /\ {r} \intersect Held(disk) = {} /\ "lost" # "kept"
    BY <2>2 DEF HistInv, Sound, Fates, OnDisk
  <2>4. Sound(disk, fate')
    BY <2>1, <2>3, MarksOthers, Zenon
  <2>5. DOMAIN fate' = DOMAIN fate /\ \A x \in DOMAIN fate : fate'[x] = IF x = r THEN "lost" ELSE fate[x]
    BY <2>1, <2>3, MarkIs
  <2>6. OnDisk' = OnDisk /\ Cached' = Cached /\ (Visible' <=> Visible)
    BY <2>1 DEF OnDisk, Cached, Visible, IsOpen
  <2>7. FileInv'
    BY <2>1, <2>2, <2>5, <2>6, Zenon DEF HistInv, FileInv
  <2>8. Ordered(queue', fate', OnDisk' \union Cached')
    <3>1. Ordered(queue, fate, OnDisk \union Cached)
      BY DEF HistInv
    <3>2. DOMAIN fate' = DOMAIN fate /\ \A x \in DOMAIN fate : fate'[x] = "queued" <=> fate[x] = "queued" /\ ~(Head(queue).op = "write" /\ x = Head(queue).rec)
      BY <1>1, <2>5 DEF r
    <3> QED BY <1>1, <2>6, <3>1, <3>2, OrderTail
  <2>9. SyncInv'
    <3>1. queue \in Seq(Cmds) /\ SyncInv
      BY DEF HistInv, Ordered, Cmds
    <3>2. Narrows(fate, fate')
      BY <2>5 DEF Narrows
    <3> QED BY <1>1, <3>1, <3>2, SyncTail
  <2> QED BY <1>1, <2>1, <2>4, <2>7, <2>8, <2>9 DEF HistInv
<1> QED BY <1>2, <1>3, <1>4 DEF DoWrite

\* HistCmd::CloseKeepName keeps the invariant.
LEMMA CloseKeeps == HistInv /\ DoClose => HistInv'
<1> SUFFICES ASSUME HistInv, DoClose PROVE HistInv'
  OBVIOUS
<1>1. /\ queue # <<>> /\ Head(queue).op = "close" /\ queue' = Tail(queue)
      /\ UNCHANGED <<clock, promised, rebooting, st>> /\ file' = NoFile
  BY DEF DoClose, Take
<1>2. PICK k : Fail(k) /\ disk' = Closed(k) /\ fate' = ClosedFate(k)
  BY DEF DoClose
<1>4. /\ Sound(disk', fate') /\ DOMAIN fate' = DOMAIN fate
      /\ Held(disk') \subseteq OnDisk \union Cached
      /\ \A r \in DOMAIN fate : fate'[r] = IF r \in Cached THEN (IF Stored(k) THEN "kept" ELSE "lost") ELSE fate[r]
  BY <1>2, CloseSound
<1>5. ~Visible' /\ Cached' = {} /\ OnDisk' = Held(disk') /\ file' \in Handles
  BY <1>1, NoFileIs DEF Visible, IsOpen, Cached, OnDisk
<1>6. /\ \A x \in DOMAIN fate : fate[x] = "buffered" => x \in Cached
      /\ \A x \in Cached : fate[x] # "queued"
  BY DEF HistInv, FileInv
<1>7. FileInv'
  BY <1>4, <1>5, <1>6 DEF FileInv, Handles
<1>8. Ordered(queue', fate', OnDisk' \union Cached')
  <2>1. Ordered(queue, fate, OnDisk \union Cached)
    BY DEF HistInv
  <2>2. DOMAIN fate' = DOMAIN fate /\ \A x \in DOMAIN fate : fate'[x] = "queued" <=> fate[x] = "queued" /\ ~(Head(queue).op = "write" /\ x = Head(queue).rec)
    BY <1>1, <1>4, <1>6
  <2> QED BY <1>1, <1>4, <1>5, <2>1, <2>2, OrderTail
<1>9. SyncInv'
  <2>1. queue \in Seq(Cmds) /\ SyncInv
    BY DEF HistInv, Ordered, Cmds
  <2>2. Narrows(fate, fate')
    BY <1>4 DEF Narrows
  <2> QED BY <1>1, <2>1, <2>2, SyncTail
<1> QED BY <1>1, <1>4, <1>7, <1>8, <1>9 DEF HistInv

\* A sync stores what is in the cache of the open file, or leaves it to be lost.
SyncsFile ==
  /\ Sound(disk', fate') /\ FileInv' /\ DOMAIN fate' = DOMAIN fate
  /\ OnDisk' \union Cached' \subseteq OnDisk \union Cached
  /\ \A x \in DOMAIN fate : fate'[x] = "queued" <=> fate[x] = "queued"
  /\ \A x \in DOMAIN fate : fate'[x] # "buffered"

\* hist_sync stores the cache or leaves it unsynced.
LEMMA HistSyncIs ==
  ASSUME HistInv, NEW k, HistSync(k)
  PROVE  SyncsFile
<1>0. Sound(disk, fate) /\ fate \in Seq(Fates) /\ file \in Handles /\ file.buf \in Seq(Nat)
  BY DEF HistInv, Sound, FileInv, Handles
<1>1. /\ \A x \in DOMAIN fate : fate[x] = "buffered" => x \in Cached /\ ~file.erred
      /\ \A x \in Cached : x \in DOMAIN fate /\ fate[x] \in {"buffered", "unsynced"}
      /\ \A x \in Cached : x \notin Held(disk)
  <2>1. /\ \A x \in DOMAIN fate : fate[x] = "buffered" => x \in Cached /\ ~file.erred
        /\ \A x \in Cached : x \in DOMAIN fate /\ fate[x] \in {"buffered", "unsynced"}
    BY DEF HistInv, FileInv
  <2> QED BY <1>0, <2>1 DEF Sound
<1>2. CASE Visible /\ ~file.erred /\ "sync" \notin k
  <2>1. disk' = Closed({}) /\ fate' = ClosedFate({}) /\ file' = [file EXCEPT !.buf = <<>>] /\ Stored({})
    BY <1>2 DEF HistSync, Stored
  <2>2. /\ Sound(disk', fate') /\ DOMAIN fate' = DOMAIN fate /\ DOMAIN disk' = DOMAIN disk
        /\ Held(disk') = OnDisk \union Cached
        /\ \A r \in DOMAIN fate : fate'[r] = IF r \in Cached THEN "kept" ELSE fate[r]
    BY <2>1, CloseSound
  <2>3. file' \in Handles /\ file'.buf = <<>> /\ file'.name = file.name /\ (Visible' <=> Visible)
    <3>1. file' = [name |-> file.name, len |-> file.len, buf |-> <<>>, erred |-> file.erred, orphan |-> file.orphan]
      BY <1>0, <2>1, SMTT(40), ZenonT(20) DEF Handles
    <3>2. <<>> \in Seq(Nat)
      OBVIOUS
    <3>3. file' \in Handles
      BY <1>0, <3>1, <3>2 DEF Handles
    <3> QED BY <3>1, <3>3 DEF Visible, IsOpen
  <2>4. Cached' = {} /\ OnDisk' = OnDisk \union Cached
    BY <2>2, <2>3 DEF Cached, Recs, OnDisk
  <2>5. FileInv'
    <3>1. DOMAIN <<>> = {}
      OBVIOUS
    <3>2. Visible' => file'.name \in DOMAIN disk'
      BY <2>2, <2>3 DEF HistInv, FileInv
    <3> QED BY <1>1, <2>2, <2>3, <2>4, <3>1, <3>2 DEF FileInv, Handles
  <2> QED BY <1>1, <2>2, <2>4, <2>5 DEF SyncsFile
<1>3. CASE ~(Visible /\ ~file.erred /\ "sync" \notin k)
  <2>1. /\ file' = [file EXCEPT !.erred = @ \/ "sync" \in k] /\ disk' = disk
        /\ fate' = IF "sync" \in k THEN Mark(fate, Recs(file.buf), "unsynced") ELSE fate
        /\ "sync" \in k => Visible /\ ~file.erred
    BY <1>3 DEF HistSync
  <2>2. "sync" \in k => Recs(file.buf) = Cached
    BY <2>1 DEF Cached
  <2>3. "unsynced" \in Fates /\ "unsynced" # "kept"
    BY DEF Fates
  <2>4. Sound(disk, Mark(fate, Cached, "unsynced"))
    <3>1. Cached \intersect Held(disk) = {}
      BY <1>1
    <3> QED BY <1>0, <2>3, <3>1, MarksOthers, Zenon
  <2>5. Sound(disk', fate')
    BY <1>0, <2>1, <2>2, <2>4
  <2>6. /\ DOMAIN fate' = DOMAIN fate
        /\ \A x \in DOMAIN fate : fate'[x] = IF "sync" \in k /\ x \in Cached THEN "unsynced" ELSE fate[x]
    BY <1>0, <2>1, <2>2, <2>3, MarkIs
  <2>7. file' \in Handles /\ file'.buf = file.buf /\ file'.name = file.name /\ (Visible' <=> Visible)
        /\ (file'.erred <=> file.erred \/ "sync" \in k)
    <3>1. file' = [name |-> file.name, len |-> file.len, buf |-> file.buf, erred |-> file.erred \/ "sync" \in k, orphan |-> file.orphan]
      BY <1>0, <2>1 DEF Handles
    <3>2. (file.erred \/ "sync" \in k) \in BOOLEAN
      OBVIOUS
    <3>3. file' \in Handles
      BY <1>0, <3>1, <3>2 DEF Handles
    <3> QED BY <3>1, <3>3, Zenon DEF Visible, IsOpen
  <2>8. Cached' = Cached /\ OnDisk' = OnDisk
    BY <2>1, <2>7 DEF Cached, OnDisk
  <2>9. \A x \in DOMAIN fate : fate'[x] # "buffered"
    <3>1. "sync" \in k \/ \A x \in DOMAIN fate : fate[x] # "buffered"
      BY <1>1, <1>3 DEF Cached
    <3> QED BY <1>1, <2>6, <3>1
  <2>10. FileInv'
    <3>1. Visible' => file'.name \in DOMAIN disk'
      BY <2>1, <2>7 DEF HistInv, FileInv
    <3>2. Visible' => \A i, j \in DOMAIN file'.buf : i < j => file'.buf[i] < file'.buf[j]
      BY <2>7 DEF HistInv, FileInv
    <3>3. \A r \in Cached', s \in OnDisk' : s < r
      BY <2>8 DEF HistInv, FileInv
    <3>4. \A x \in Cached' : x \in DOMAIN fate' /\ fate'[x] \in {"buffered", "unsynced"}
      BY <1>1, <2>6, <2>8
    <3> QED BY <2>6, <2>7, <2>9, <3>1, <3>2, <3>3, <3>4 DEF FileInv, Handles
  <2> QED BY <1>1, <2>5, <2>6, <2>8, <2>9, <2>10 DEF SyncsFile
<1> QED BY <1>2, <1>3

\* HistCmd::Sync keeps the invariant, and then nothing promised is queued or buffered.
LEMMA SyncKeeps == HistInv /\ DoSync => HistInv'
<1> SUFFICES ASSUME HistInv, DoSync PROVE HistInv'
  OBVIOUS
<1>1. /\ queue # <<>> /\ Head(queue).op = "sync" /\ queue' = Tail(queue)
      /\ UNCHANGED <<clock, promised>> /\ rebooting' = "flushed"
  BY DEF DoSync, Take
<1>2. PICK k : Fail(k) /\ HistSync(k)
  BY DEF DoSync
<1>3. st' = st
  BY <1>2 DEF HistSync
<1>4. SyncsFile
  BY <1>2, HistSyncIs
<1>5. Ordered(queue', fate', OnDisk' \union Cached')
  <2>1. Ordered(queue, fate, OnDisk \union Cached)
    BY DEF HistInv
  <2>2. DOMAIN fate' = DOMAIN fate /\ \A x \in DOMAIN fate : fate'[x] = "queued" <=> fate[x] = "queued" /\ ~(Head(queue).op = "write" /\ x = Head(queue).rec)
    BY <1>1, <1>4 DEF SyncsFile
  <2>3. OnDisk' \union Cached' \subseteq OnDisk \union Cached
    BY <1>4 DEF SyncsFile
  <2> QED BY <1>1, <2>1, <2>2, <2>3, OrderTail
<1>6. SyncInv'
  <2>1. queue \in Seq(Cmds)
    BY DEF HistInv, Ordered, Cmds
  <2>2. /\ \A i \in DOMAIN queue' : i + 1 \in DOMAIN queue /\ queue'[i] = queue[i + 1]
        /\ Head(queue) = queue[1] /\ 1 \in DOMAIN queue /\ DOMAIN queue = 1 .. Len(queue)
    BY <1>1, <2>1, TailIs
  <2>3. ASSUME NEW r \in promised PROVE r \in DOMAIN fate /\ fate'[r] \notin {"queued", "buffered"}
    <3>1. r \in DOMAIN fate
      BY DEF HistInv, SyncInv
    <3>2. ASSUME fate[r] = "queued" PROVE FALSE
      <4>1. r \in Waiting(queue)
        BY <3>1, <3>2 DEF HistInv, Ordered
      <4>2. PICK j \in DOMAIN queue : queue[j].op = "write" /\ queue[j].rec = r
        BY <4>1 DEF Waiting
      <4>3. j < 1
        BY <1>1, <2>2, <4>2 DEF HistInv, SyncInv
      <4> QED BY <2>2, <4>2, <4>3
    <3> QED BY <1>4, <3>1, <3>2 DEF SyncsFile
  <2>4. Flushed'
    BY <1>1, <2>3 DEF Flushed
  <2>5. promised' \subseteq DOMAIN fate'
    BY <1>1, <1>4, <2>3 DEF SyncsFile
  <2>6. rebooting' = "no" => \A i \in DOMAIN queue' : queue'[i].op # "sync"
    BY <1>1, <2>2 DEF HistInv, SyncInv
  <2>7. ASSUME NEW i \in DOMAIN queue', NEW j \in DOMAIN queue',
               queue'[i].op = "sync", queue'[j].op = "write", queue'[j].rec \in promised'
        PROVE  j < i
    BY <1>1, <2>1, <2>2, <2>7, TailIs DEF HistInv, SyncInv
  <2> QED BY <2>4, <2>5, <2>6, <2>7 DEF SyncInv
<1> QED BY <1>1, <1>3, <1>4, <1>5, <1>6 DEF HistInv, SyncsFile

\* Opening and closing the handles of a slot.
LEMMA SlotsKeep ==
  ASSUME HistInv, NEW s \in Slots, NEW h \in {"dl", "wr"}, DoOpen(s, h) \/ DoSlotClose(s, h)
  PROVE  HistInv'
<1>2. UNCHANGED <<clock, queue, promised, rebooting>>
  BY ZenonT(40) DEF DoOpen, DoSlotClose
<1>3. CASE UNCHANGED <<disk, file, st, fate>>
  BY <1>2, <1>3 DEF HistInv, FileInv, SyncInv, Flushed, OnDisk, Cached, Visible, IsOpen
<1>4. ASSUME NEW j, HistSync(j) PROVE HistInv'
  <2>1. SyncsFile /\ st' = st
    BY <1>4, HistSyncIs DEF HistSync
  <2>2. Ordered(queue', fate', OnDisk' \union Cached')
    <3>1. Ordered(queue, fate, OnDisk \union Cached)
      BY DEF HistInv
    <3>2. /\ DOMAIN fate' = DOMAIN fate /\ \A x \in DOMAIN fate : fate'[x] = "queued" <=> fate[x] = "queued"
          /\ OnDisk' \union Cached' \subseteq OnDisk \union Cached
      BY <2>1 DEF SyncsFile
    <3> QED BY <1>2, <3>1, <3>2, OrderSame
  <2>3. Narrows(fate, fate')
    BY <2>1 DEF SyncsFile, Narrows
  <2>4. SyncInv'
    BY <1>2, <2>3, SyncSame DEF HistInv
  <2> QED BY <1>2, <2>1, <2>2, <2>4 DEF HistInv, SyncsFile
<1> QED BY <1>3, <1>4, Zenon DEF DoOpen, DoSlotClose

\* A removed name keeps the invariant.
LEMMA RemoveKeeps ==
  ASSUME HistInv, NEW nm \in Name, DoRemove(nm)
  PROVE  HistInv'
<1> DEFINE gone == Visible /\ file.name = nm
           rs == Recs(disk[nm])
           g == Mark(fate, rs, "deleted")
<1>0. Sound(disk, fate) /\ fate \in Seq(Fates) /\ file \in Handles /\ FileInv /\ SyncInv
      /\ Ordered(queue, fate, OnDisk \union Cached) /\ nm \in DOMAIN disk
      /\ "deleted" \in Fates /\ "deleted" # "kept"
  BY DEF HistInv, Sound, FileInv, Handles, DoRemove, Fates
<1>1. /\ disk' = Without(disk, {nm}) /\ UNCHANGED <<clock, st, faults, queue, promised, rebooting>>
      /\ IF gone THEN /\ file' = [file EXCEPT !.orphan = "user"]
                      /\ fate' = Mark(fate, rs \union Recs(file.buf), "deleted")
                 ELSE file' = file /\ fate' = g
  BY DEF DoRemove
<1>2. rs = RecsOf(disk, {nm})
  BY <1>0 DEF RecsOf
<1> HIDE DEF rs
<1>3. Sound(disk', g) /\ Held(disk') = OnDisk \ rs /\ rs \subseteq OnDisk
  <2>1. Removes(disk, fate, {nm}, "deleted")
    BY <1>0, RemovesFiles, Zenon
  <2> QED BY <1>1, <1>2, <2>1 DEF OnDisk, Removes
<1>4. g \in Seq(Fates) /\ DOMAIN g = DOMAIN fate /\ \A x \in DOMAIN fate : g[x] = IF x \in rs THEN "deleted" ELSE fate[x]
  BY <1>0, MarkIs
<1> HIDE DEF g
<1>5. Cached \intersect OnDisk = {}
  BY <1>0 DEF FileInv, Sound, OnDisk
<1>6. gone => Cached = Recs(file.buf)
  BY DEF Cached
<1>7. /\ fate' \in Seq(Fates) /\ DOMAIN fate' = DOMAIN fate
      /\ \A x \in DOMAIN fate : fate'[x] = IF x \in rs \/ (gone /\ x \in Cached) THEN "deleted" ELSE fate[x]
  BY <1>0, <1>1, <1>4, <1>6, MarkIs
<1>8. Sound(disk', fate')
  <2>1. Held(disk') \intersect Cached = {}
    BY <1>3, <1>5
  <2>2. \A x \in DOMAIN fate : fate'[x] = "kept" <=> g[x] = "kept"
    BY <1>4, <1>5, <1>7, <1>0 DEF FileInv
  <2> QED BY <1>3, <1>4, <1>7, <2>2 DEF Sound
<1>9. /\ file' \in Handles /\ file'.buf = file.buf /\ file'.name = file.name /\ (file'.erred <=> file.erred)
      /\ (Visible' <=> Visible /\ ~gone)
  <2>1. CASE gone
    <3>1. file' = [name |-> file.name, len |-> file.len, buf |-> file.buf, erred |-> file.erred, orphan |-> "user"]
      BY <1>0, <1>1, <2>1 DEF Handles
    <3>2. file' \in Handles
      BY <1>0, <3>1 DEF Handles
    <3> QED BY <2>1, <3>1, <3>2 DEF Visible
  <2>2. CASE ~gone
    BY <1>0, <1>1, <2>2 DEF Visible, IsOpen
  <2> QED BY <2>1, <2>2
<1>10. OnDisk' = OnDisk \ rs /\ Cached' = IF gone THEN {} ELSE Cached
  BY <1>3, <1>9 DEF OnDisk, Cached
<1>11. \A x \in rs \union Cached : x \in DOMAIN fate => fate[x] # "queued"
  <2>1. \A x \in rs : x \in DOMAIN fate => fate[x] = "kept"
    BY <1>0, <1>3 DEF Sound, OnDisk
  <2> QED BY <1>0, <2>1 DEF FileInv
<1>12. FileInv'
  <2>1. Visible' => file'.name \in DOMAIN disk'
    BY <1>0, <1>1, <1>9 DEF FileInv, Without
  <2>2. \A x \in Cached' : x \in DOMAIN fate' /\ fate'[x] \in {"buffered", "unsynced"}
    BY <1>0, <1>3, <1>5, <1>7, <1>10 DEF FileInv
  <2>3. \A x \in DOMAIN fate' : fate'[x] = "buffered" => x \in Cached' /\ ~file'.erred
    BY <1>0, <1>7, <1>9, <1>10 DEF FileInv
  <2>4. \A x \in Cached', y \in OnDisk' : y < x
    BY <1>0, <1>10 DEF FileInv
  <2>5. Visible' => \A i, j \in DOMAIN file'.buf : i < j => file'.buf[i] < file'.buf[j]
    BY <1>0, <1>9 DEF FileInv
  <2> QED BY <1>9, <2>1, <2>2, <2>3, <2>4, <2>5 DEF FileInv, Handles
<1>13. Ordered(queue', fate', OnDisk' \union Cached')
  <2>1. /\ \A x \in DOMAIN fate : fate'[x] = "queued" <=> fate[x] = "queued"
        /\ OnDisk' \union Cached' \subseteq OnDisk \union Cached
    BY <1>7, <1>10, <1>11
  <2> QED BY <1>0, <1>1, <1>7, <2>1, OrderSame
<1>14. SyncInv'
  <2>1. Narrows(fate, fate')
    BY <1>7 DEF Narrows
  <2> QED BY <1>0, <1>1, <2>1, SyncSame
<1> QED BY <1>1, <1>8, <1>12, <1>13, <1>14 DEF HistInv

\* A sample keeps the invariant: its record is newer than all others.
LEMMA SampleKeeps == HistInv /\ Sample => HistInv'
<1> SUFFICES ASSUME HistInv, Sample PROVE HistInv'
  OBVIOUS
<1> DEFINE n == Len(fate) + 1
           c == Cmd("write", n)
           new == IF Len(queue) < QueueCap THEN "queued" ELSE "lost"
<1>0. Sound(disk, fate) /\ fate \in Seq(Fates) /\ FileInv /\ SyncInv
      /\ Ordered(queue, fate, OnDisk \union Cached) /\ queue \in Seq(Cmds)
      /\ Len(fate) \in Nat /\ DOMAIN fate = 1 .. Len(fate)
  BY DEF HistInv, Sound, Ordered, Cmds
<1>1. /\ queue' = (IF Len(queue) < QueueCap THEN Append(queue, c) ELSE queue)
      /\ fate' = Append(fate, new) /\ UNCHANGED <<clock, disk, file, st, faults, promised, rebooting>>
  BY DEF Sample, TrySend
<1>2. n \in Nat /\ n \notin DOMAIN fate /\ c \in Cmds /\ c.op = "write" /\ c.rec = n /\ new \in Fates
      /\ new \notin {"kept", "buffered", "unsynced"} /\ \A x \in DOMAIN fate : x \in Nat /\ x < n
  BY <1>0 DEF Cmd, Cmds, Fates
<1> HIDE DEF c, new
<1>3. /\ fate' \in Seq(Fates) /\ DOMAIN fate' = DOMAIN fate \union {n} /\ fate'[n] = new
      /\ \A x \in DOMAIN fate : fate'[x] = fate[x]
  BY <1>0, <1>1, <1>2
<1> HIDE DEF n
<1>4. Held(disk) \subseteq DOMAIN fate /\ n \notin Held(disk)
  BY <1>0, <1>2, SMTT(40), ZenonT(20) DEF Sound
<1>5. Sound(disk', fate')
  BY <1>0, <1>1, <1>2, <1>3, <1>4 DEF Sound
<1>6. OnDisk' = OnDisk /\ Cached' = Cached /\ (Visible' <=> Visible)
  BY <1>1 DEF OnDisk, Cached, Visible, IsOpen
<1>7. FileInv'
  <2>1. \A r \in Cached' : r \in DOMAIN fate' /\ fate'[r] \in {"buffered", "unsynced"}
    BY <1>0, <1>3, <1>6 DEF FileInv
  <2>2. \A r \in DOMAIN fate' : fate'[r] = "buffered" => r \in Cached' /\ ~file'.erred
    BY <1>0, <1>1, <1>2, <1>3, <1>6 DEF FileInv
  <2> QED BY <1>0, <1>1, <1>6, <2>1, <2>2 DEF FileInv
<1>8. CASE Len(queue) < QueueCap
  <2>1. queue' = Append(queue, c) /\ fate'[n] = "queued"
    BY <1>1, <1>3, <1>8 DEF new
  <2>2. Waiting(queue') = Waiting(queue) \union {n}
    BY <1>0, <1>2, <2>1, WaitingAppend
  <2>3. queue' \in Seq(Cmds) /\ Len(queue) + 1 \in DOMAIN queue' /\ queue'[Len(queue) + 1] = c
        /\ (\A i \in DOMAIN queue : i \in DOMAIN queue' /\ queue'[i] = queue[i] /\ i < Len(queue) + 1)
        /\ (\A i \in DOMAIN queue' : i \in DOMAIN queue \/ i = Len(queue) + 1)
    BY <1>0, <1>2, <2>1, AppendIs
  <2>4. Waiting(queue) \subseteq DOMAIN fate
    BY <1>0 DEF Ordered
  <2>5. ASSUME NEW i \in DOMAIN queue', NEW j \in DOMAIN queue', i < j, queue'[i].op = "write", queue'[j].op = "write"
        PROVE  queue'[i].rec < queue'[j].rec
    <3>1. CASE i \in DOMAIN queue /\ j \in DOMAIN queue
      BY <1>0, <2>3, <2>5, <3>1 DEF Ordered
    <3>2. CASE i \in DOMAIN queue /\ j = Len(queue) + 1
      <4>1. queue[i].rec \in Waiting(queue)
        BY <2>3, <2>5, <3>2 DEF Waiting
      <4> QED BY <1>2, <2>3, <2>4, <3>2, <4>1
    <3>3. CASE i = Len(queue) + 1
      BY <1>0, <2>3, <2>5, <3>3
    <3> QED BY <2>3, <3>1, <3>2, <3>3
  <2>6. \A r \in OnDisk' \union Cached' : \A s \in Waiting(queue') : r < s
    <3>1. OnDisk \union Cached \subseteq DOMAIN fate
      BY <1>0, <1>4 DEF FileInv, OnDisk
    <3> QED BY <1>0, <1>2, <1>6, <2>2, <3>1 DEF Ordered
  <2>7. \A r \in DOMAIN fate' : fate'[r] = "queued" <=> r \in Waiting(queue')
    <3>1. \A r \in DOMAIN fate : fate[r] = "queued" <=> r \in Waiting(queue)
      BY <1>0 DEF Ordered
    <3> QED BY <1>2, <1>3, <2>1, <2>2, <3>1
  <2>8. Ordered(queue', fate', OnDisk' \union Cached')
    <3>1. Waiting(queue') \subseteq DOMAIN fate'
      BY <1>3, <2>2, <2>4
    <3> QED BY <2>3, <2>5, <2>6, <2>7, <3>1 DEF Ordered, Cmds
  <2>9. SyncInv'
    <3>1. promised \subseteq DOMAIN fate /\ n \notin promised
      BY <1>0, <1>2 DEF SyncInv
    <3>2. (\A i \in DOMAIN queue' : queue'[i].op # "sync") => (\A i \in DOMAIN queue : queue[i].op # "sync")
      BY <2>3
    <3>3. Flushed'
      BY <1>0, <1>1, <1>3, <3>1, <3>2 DEF SyncInv, Flushed
    <3>4. ASSUME NEW i \in DOMAIN queue', NEW j \in DOMAIN queue',
                 queue'[i].op = "sync", queue'[j].op = "write", queue'[j].rec \in promised'
          PROVE  j < i
      <4>1. i \in DOMAIN queue /\ j \in DOMAIN queue
        BY <1>1, <1>2, <2>3, <3>1, <3>4
      <4> QED BY <1>0, <1>1, <2>3, <3>4, <4>1 DEF SyncInv
    <3>5. rebooting' = "no" => \A i \in DOMAIN queue' : queue'[i].op # "sync"
      BY <1>0, <1>1, <1>2, <2>3 DEF SyncInv
    <3> QED BY <1>1, <1>3, <3>1, <3>3, <3>4, <3>5 DEF SyncInv
  <2> QED BY <1>1, <1>5, <1>7, <2>8, <2>9 DEF HistInv
<1>9. CASE ~(Len(queue) < QueueCap)
  <2>1. queue' = queue /\ fate'[n] = "lost"
    BY <1>1, <1>3, <1>9 DEF new
  <2>2. Ordered(queue', fate', OnDisk' \union Cached')
    <3>1. \A r \in DOMAIN fate : fate[r] = "queued" <=> r \in Waiting(queue)
      BY <1>0 DEF Ordered
    <3>2. Waiting(queue) \subseteq DOMAIN fate
      BY <1>0 DEF Ordered
    <3> QED BY <1>0, <1>2, <1>3, <1>6, <2>1, <3>1, <3>2, SMTT(40), ZenonT(20) DEF Ordered
  <2>3. SyncInv'
    BY <1>0, <1>1, <1>3, <2>1, SMTT(40), ZenonT(20) DEF SyncInv, Flushed
  <2> QED BY <1>1, <1>5, <1>7, <2>2, <2>3 DEF HistInv
<1> QED BY <1>8, <1>9, SMTT(40), ZenonT(20)

\* A reset during a rotation finds what had been stored until then.
LEMMA RotatedSound ==
  ASSUME HistInv, Rotating, NEW d \in Rotated
  PROVE  /\ \E f : Sound(d, f) /\ DOMAIN f = DOMAIN fate
         /\ OnDisk \subseteq Held(d)
         /\ \A x \in Held(d) : x \in OnDisk \union Cached \/ fate[x] = "queued"
<1> DEFINE r == Head(queue).rec
           c == Closed({})
           f == ClosedFate({})
           nm == NewName
           w == WithFile(c, nm)
<1>1. queue # <<>> /\ Head(queue).op = "write"
  BY SMTT(40), ZenonT(20) DEF Rotating
<1>2. /\ Sound(c, f) /\ f \in Seq(Fates) /\ DOMAIN f = DOMAIN fate
      /\ Held(c) \subseteq OnDisk \union Cached /\ \A x \in Held(c) : x < r
  BY <1>1, ClosedIs
<1>3. OnDisk \subseteq Held(c)
  BY CloseSound
<1>4. r \in DOMAIN fate /\ fate[r] = "queued"
  BY <1>1, HeadWaits
<1>5. nm \in Name
  BY NewNameIsName DEF HistInv
<1>6. d \in {c, w, Appended(w, nm, r, {})}
  BY DEF Rotated
<1> HIDE DEF r, c, f, nm
<1>7. Sound(w, f) /\ Held(w) = Held(c) /\ nm \in DOMAIN w
  BY <1>2, <1>5, AddsFile
<1> HIDE DEF w
<1>8. AppendsOne(w, f, nm, r, {})
  <2>1. Newest(w, f, nm, r)
    BY <1>2, <1>4, <1>7 DEF Newest
  <2> QED BY <1>7, <2>1, AppendSound, Zenon
<1>9. CASE d = c \/ d = w
  BY <1>2, <1>3, <1>7, <1>9
<1>10. CASE d = Appended(w, nm, r, {})
  <2>1. Sound(d, Mark(f, {r}, NewFate({}))) /\ Held(d) = Held(w) \union {r}
    BY <1>8, <1>10 DEF AppendsOne
  <2>2. DOMAIN Mark(f, {r}, NewFate({})) = DOMAIN fate
    BY <1>2 DEF Mark
  <2> QED BY <1>2, <1>3, <1>4, <1>7, <2>1, <2>2
<1> QED BY <1>6, <1>9, <1>10

\* A reset keeps the invariant.
LEMMA ResetKeeps == HistInv /\ Reset => HistInv'
<1> SUFFICES ASSUME HistInv, Reset PROVE HistInv'
  OBVIOUS
<1>0. Sound(disk, fate) /\ fate \in Seq(Fates) /\ FileInv
  BY DEF HistInv, Sound
<1>1. /\ file' = NoFile /\ st' = NoName /\ queue' = <<>> /\ promised' = {} /\ rebooting' = "no"
      /\ UNCHANGED clock
  BY DEF Reset
<1>3. /\ \E f : Sound(disk', f) /\ DOMAIN f = DOMAIN fate
      /\ OnDisk \subseteq Held(disk')
      /\ \A x \in Held(disk') : x \in OnDisk \union Cached \/ fate[x] = "queued"
  <2>1. CASE disk' = disk
    BY <1>0, <2>1 DEF OnDisk
  <2>2. CASE Rotating /\ disk' \in Rotated
    BY <2>2, RotatedSound
  <2> QED BY <2>1, <2>2 DEF Reset
<1>4. fate' = [r \in DOMAIN fate |->
                IF fate[r] \in {"queued", "buffered", "unsynced"}
                THEN IF r \in Held(disk') THEN "kept" ELSE "lost"
                ELSE fate[r]]
  BY DEF Reset
<1>5. /\ DOMAIN fate' = DOMAIN fate /\ fate' \in Seq(Fates)
      /\ \A r \in DOMAIN fate : fate'[r] = IF fate[r] \in {"queued", "buffered", "unsynced"}
                                           THEN IF r \in Held(disk') THEN "kept" ELSE "lost"
                                           ELSE fate[r]
  <2>1. DOMAIN fate = 1 .. Len(fate) /\ Len(fate) \in Nat /\ \A r \in DOMAIN fate : fate[r] \in Fates
    BY <1>0
  <2>2. "kept" \in Fates /\ "lost" \in Fates
    BY DEF Fates
  <2>3. fate' \in [1 .. Len(fate) -> Fates]
    BY <1>4, <2>1, <2>2
  <2> QED BY <1>4, <2>1, <2>3
<1>6. \A r \in DOMAIN fate : fate'[r] = "kept" <=> r \in Held(disk')
  <2>1. \A r \in DOMAIN fate : fate[r] = "kept" <=> r \in OnDisk
    BY <1>0 DEF Sound, OnDisk
  <2>2. \A r \in Cached : fate[r] \in {"buffered", "unsynced"}
    BY <1>0, SMTT(40), ZenonT(20) DEF FileInv
  <2> QED BY <1>3, <1>5, <2>1, <2>2
<1>7. Sound(disk', fate')
  BY <1>3, <1>5, <1>6 DEF Sound
<1>8. ~Visible' /\ Cached' = {} /\ file' \in Handles
  BY <1>1, NoFileIs DEF Visible, IsOpen, Cached
<1>9. \A r \in DOMAIN fate' : fate'[r] \notin {"queued", "buffered"}
  BY <1>5
<1>10. FileInv'
  BY <1>8, <1>9 DEF FileInv, Handles
<1>11. Ordered(queue', fate', OnDisk' \union Cached')
  <2>1. queue' \in Seq(Cmds) /\ DOMAIN queue' = {}
    BY <1>1
  <2>2. Waiting(queue') = {}
    BY <2>1 DEF Waiting
  <2> QED BY <1>9, <2>1, <2>2 DEF Ordered, Cmds
<1>12. SyncInv'
  BY <1>1 DEF SyncInv, Flushed
<1> QED BY <1>1, <1>7, <1>10, <1>11, <1>12, NoFileIs DEF HistInv

\* A reboot request keeps the invariant: its Sync comes last in the queue.
LEMMA RequestKeeps == HistInv /\ RequestReboot => HistInv'
<1> SUFFICES ASSUME HistInv, RequestReboot PROVE HistInv'
  OBVIOUS
<1> DEFINE c == Cmd("sync", 0)
<1>0. SyncInv /\ Ordered(queue, fate, OnDisk \union Cached) /\ queue \in Seq(Cmds)
  BY DEF HistInv, Ordered, Cmds
<1>1. /\ rebooting = "no" /\ rebooting' = "asked" /\ UNCHANGED <<clock, fsVars>>
      /\ queue' = Append(queue, c)
      /\ promised' = {r \in DOMAIN fate : fate[r] \in {"queued", "buffered"}}
  BY DEF RequestReboot, RebootSync, TrySend
<1>2. c \in Cmds /\ c.op = "sync"
  BY DEF Cmd, Cmds
<1> HIDE DEF c
<1>3. UNCHANGED <<clock, disk, file, st, fate, faults, OnDisk, Cached, Visible>>
  BY <1>1 DEF fsVars, OnDisk, Cached, Visible, IsOpen
<1>4. Ordered(queue', fate', OnDisk' \union Cached')
  <2>1. c.op # "write"
    BY <1>2
  <2>2. Ordered(Append(queue, c), fate, OnDisk \union Cached)
    BY <1>0, <1>2, <2>1, OrderSend, Zenon
  <2> QED BY <1>0, <1>1, <1>3, <2>2
<1>5. SyncInv'
  <2>1. /\ Len(queue) + 1 \in DOMAIN queue' /\ queue'[Len(queue) + 1] = c
        /\ (\A i \in DOMAIN queue : i \in DOMAIN queue' /\ queue'[i] = queue[i] /\ i < Len(queue) + 1)
        /\ (\A i \in DOMAIN queue' : i \in DOMAIN queue \/ i = Len(queue) + 1)
    BY <1>0, <1>1, <1>2, AppendIs
  <2>2. \A i \in DOMAIN queue : queue[i].op # "sync"
    BY <1>0, <1>1 DEF SyncInv
  <2>3. ASSUME NEW i \in DOMAIN queue', NEW j \in DOMAIN queue',
               queue'[i].op = "sync", queue'[j].op = "write"
        PROVE  j < i
    BY <1>2, <2>1, <2>2, <2>3
  <2>4. Flushed'
    BY <1>1 DEF Flushed
  <2> QED BY <1>1, <1>3, <2>3, <2>4 DEF SyncInv
<1>6. FileInv'
  BY <1>3 DEF HistInv, FileInv
<1> QED BY <1>3, <1>4, <1>5, <1>6 DEF HistInv

\* The remaining steps do not touch the files.
LEMMA OthersKeep ==
  HistInv /\ (SetHistory \/ Upgrade \/ Tick \/ (\E t \in 0 .. MaxTime : SetTime(t)) \/ UNCHANGED vars) => HistInv'
<1> SUFFICES ASSUME HistInv, SetHistory \/ Upgrade \/ Tick \/ (\E t \in 0 .. MaxTime : SetTime(t)) \/ UNCHANGED vars
             PROVE  HistInv'
  OBVIOUS
<1> DEFINE c == Cmd("close", 0)
<1>0. SyncInv /\ Ordered(queue, fate, OnDisk \union Cached) /\ queue \in Seq(Cmds)
  BY DEF HistInv, Ordered, Cmds
<1>1. UNCHANGED <<disk, file, st, fate, faults, OnDisk, Cached, Visible, promised, rebooting>> /\ clock' \in Nat
  BY DEF SetHistory, Upgrade, Tick, SetTime, vars, fsVars, OnDisk, Cached, Visible, IsOpen, HistInv
<1>2. queue' = queue \/ queue' = Append(queue, c)
  BY DEF SetHistory, Upgrade, Tick, SetTime, vars, TrySend
<1>3. c \in Cmds /\ c.op = "close"
  BY DEF Cmd, Cmds
<1> HIDE DEF c
<1>4. Ordered(queue', fate', OnDisk' \union Cached')
  <2>1. c.op # "write"
    BY <1>3
  <2>2. Ordered(Append(queue, c), fate, OnDisk \union Cached)
    BY <1>0, <1>3, <2>1, OrderSend, Zenon
  <2> QED BY <1>0, <1>1, <1>2, <2>2, Zenon
<1>5. SyncInv'
  <2>1. CASE queue' = queue
    BY <1>0, <1>1, <2>1, SMTT(40), ZenonT(20) DEF SyncInv, Flushed
  <2>2. CASE queue' = Append(queue, c)
    <3>1. /\ Len(queue) + 1 \in DOMAIN queue' /\ queue'[Len(queue) + 1] = c
          /\ (\A i \in DOMAIN queue : i \in DOMAIN queue' /\ queue'[i] = queue[i])
          /\ (\A i \in DOMAIN queue' : i \in DOMAIN queue \/ i = Len(queue) + 1)
      BY <1>0, <1>3, <2>2, AppendIs
    <3>2. \A i \in DOMAIN queue' : queue'[i].op \in {"sync", "write"} => i \in DOMAIN queue
      BY <1>3, <3>1
    <3>3. ASSUME NEW i \in DOMAIN queue', NEW j \in DOMAIN queue',
                 queue'[i].op = "sync", queue'[j].op = "write", queue'[j].rec \in promised'
          PROVE  j < i
      BY <1>0, <1>1, <3>1, <3>2, <3>3 DEF SyncInv
    <3>4. Flushed'
      BY <1>0, <1>1, <3>1 DEF SyncInv, Flushed
    <3>5. rebooting' = "no" => \A i \in DOMAIN queue' : queue'[i].op # "sync"
      BY <1>0, <1>1, <3>1, <3>2 DEF SyncInv
    <3> QED BY <1>0, <1>1, <3>3, <3>4, <3>5 DEF SyncInv
  <2> QED BY <1>2, <2>1, <2>2
<1>6. FileInv'
  BY <1>1 DEF HistInv, FileInv
<1> QED BY <1>1, <1>4, <1>5, <1>6 DEF HistInv

\* The invariant holds at the start.
LEMMA HistInvInit == Init => HistInv
<1> SUFFICES ASSUME Init PROVE HistInv
  OBVIOUS
<1>1. /\ clock = Start /\ disk = [x \in {} |-> <<>>] /\ file = NoFile /\ st = NoName
      /\ queue = <<>> /\ fate = <<>> /\ promised = {} /\ rebooting = "no" /\ faults = 0
  BY DEF Init
<1>2. Held(disk) = {} /\ OnDisk = {} /\ DOMAIN disk = {} /\ DOMAIN fate = {} /\ DOMAIN queue = {}
  BY <1>1 DEF Held, OnDisk
<1>3. fate \in Seq(Fates) /\ queue \in Seq(Cmds) /\ Waiting(queue) = {}
  BY <1>1, <1>2 DEF Waiting
<1>4. ~Visible /\ Cached = {}
  BY <1>1, NoFileIs DEF Visible, IsOpen, Cached
<1>5. Sound(disk, fate)
  BY <1>2, <1>3 DEF Sound
<1>6. FileInv
  BY <1>1, <1>2, <1>4, NoFileIs DEF FileInv, Handles
<1>7. Ordered(queue, fate, OnDisk \union Cached)
  BY <1>2, <1>3, <1>4 DEF Ordered, Cmds
<1>8. SyncInv
  BY <1>1, <1>2 DEF SyncInv, Flushed
<1> QED BY <1>1, <1>5, <1>6, <1>7, <1>8, NoFileIs, HistoryAssumption DEF HistInv

\* Every step keeps the invariant.
LEMMA HistInvNext == HistInv /\ [Next]_vars => HistInv'
BY WriteKeeps, CloseKeeps, SyncKeeps, RemoveKeeps, SlotsKeep, SampleKeeps, RequestKeeps, ResetKeeps,
   OthersKeep DEF Next

\* A record that hist_write or hist_sync has synced stays in exactly one place of the
\* files, in order, through rotations, errors, reopening and resets, until its file
\* is removed.
THEOREM SyncedRecordsKept == Spec => []SyncedKept
<1>1. HistInv => SyncedKept
  BY DEF HistInv, Sound, SyncedKept, OnDisk
<1> QED BY <1>1, HistInvInit, HistInvNext, PTL DEF Spec

\* When the Sync that a reboot request queued has been handled, neither the requested
\* reset nor any other loses a record sampled before the request, unless its sync
\* failed.
THEOREM FlushedRecordsSurvive == Spec => FlushSurvivesReset
<1>1. ASSUME HistInv, [Next]_vars, rebooting = "flushed", rebooting' = "no",
             NEW r \in promised, fate'[r] = "lost"
      PROVE  fate[r] \in {"lost", "unsynced"}
  <2>1. r \in DOMAIN fate /\ fate[r] \notin {"queued", "buffered"}
    BY <1>1 DEF HistInv, SyncInv, Flushed
  <2>2. CASE Reset
    BY <1>1, <2>1, <2>2 DEF Reset
  <2>3. CASE ~Reset
    BY <1>1, <2>3 DEF Next, DoWrite, DoClose, DoSync, DoRemove, DoOpen, DoSlotClose, Sample, SetHistory,
       Upgrade, RequestReboot, Tick, SetTime, vars
  <2> QED BY <2>2, <2>3
<1>2. HistInv /\ [Next]_vars
        => [rebooting = "flushed" /\ rebooting' = "no" =>
              \A r \in promised : fate'[r] = "lost" => fate[r] \in {"lost", "unsynced"}]_vars
  BY <1>1
<1> QED BY <1>2, HistInvInit, HistInvNext, PTL DEF Spec, FlushSurvivesReset
=============================================================================
