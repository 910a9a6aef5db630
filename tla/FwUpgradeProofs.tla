--------------------------- MODULE FwUpgradeProofs ---------------------------
(***************************************************************************)
(* Proofs about FwUpgrade for every image size, page size, slot size and   *)
(* number of faults, provided that no announced image reaches into the     *)
(* trailer.                                                                *)
(***************************************************************************)
EXTENDS FwUpgrade, TLAPS

\* No image overlaps the trailer (the code does not enforce this).
ClearOfTrailer == \A t \in Totals : t <= InfoAt

ImgCell == Channel \X (1..N)
Cell == ImgCell \union {Erased, Garbled, Old, Magic, SwapInfo}
Session == [active : BOOLEAN, failed : BOOLEAN, total : Nat, written : Nat, page : Seq(ImgCell)]

\* While a session is usable the slot is erased from `written` on, trailer
\* included; while it is merely open the magic is not there.
SlotInv ==
  /\ session \in Session
  /\ slot \in [Cells -> Cell]
  /\ ProgramsErasedOnly
  /\ session.active => session.total <= InfoAt /\ slot[MagicAt] = Erased
  /\ session.active /\ ~session.failed =>
       /\ session.written + Len(session.page) <= session.total
       /\ \A i \in Cells : i >= session.written => slot[i] = Erased
  /\ PendingIntact

FwInv == SlotInv /\ v2 \in Seq(ImgCell) /\ wsPos \in Nat

-----------------------------------------------------------------------------
\* Rounding down to whole pages.
LEMMA WholePages ==
  ASSUME NEW a \in Nat
  PROVE  /\ (a \div Page) * Page \in Nat /\ (a \div Page) * Page <= a
         /\ \A j \in 0..((a \div Page) * Page) \div Page - 1, p \in 0..Page :
              j * Page + p \in Nat /\ j * Page + p <= a
BY FwAssumption, SMTT(30), ZenonT(20)

\* The five marks are pairwise different and none is a cell of an image.
LEMMA Marks ==
  /\ Erased \in Cell /\ Garbled \in Cell /\ Old \in Cell /\ Magic \in Cell /\ SwapInfo \in Cell
  /\ Erased # Garbled /\ Magic # Garbled /\ SwapInfo # Garbled /\ Old # Garbled
  /\ Erased # Magic /\ Old # Magic /\ SwapInfo # Magic
  /\ \A c \in ImgCell : c \in Cell /\ c # Garbled /\ c # Magic /\ c # Erased
<1> USE DEF Erased, Garbled, Old, Magic, SwapInfo
<1>1. /\ Erased \in Cell /\ Garbled \in Cell /\ Old \in Cell /\ Magic \in Cell /\ SwapInfo \in Cell
  BY DEF Cell
<1>2. /\ Erased # Garbled /\ Magic # Garbled /\ SwapInfo # Garbled /\ Old # Garbled
      /\ Erased # Magic /\ Old # Magic /\ SwapInfo # Magic
  OBVIOUS
<1>3. ASSUME NEW c \in ImgCell
      PROVE  c \in Cell /\ c # Garbled /\ c # Magic /\ c # Erased
  <2>1. c[2] \in 1..N
    BY DEF ImgCell
  <2>2. c[2] # 0
    BY <2>1, FwAssumption
  <2>3. Garbled[2] = 0 /\ Magic[2] = 0 /\ Erased[2] = 0
    OBVIOUS
  <2>4. c \in Cell
    BY Zenon DEF Cell, ImgCell
  <2> HIDE DEF Erased, Garbled, Old, Magic, SwapInfo
  <2> QED BY <2>2, <2>3, <2>4
<1> QED BY <1>1, <1>2, <1>3, Zenon

\* Programming erased cells stores the data and changes nothing else.
LEMMA ProgramErased ==
  ASSUME NEW sl \in [Cells -> Cell], NEW at \in Nat, NEW cs \in Seq(Cell \ {Garbled}),
         at + Len(cs) <= SlotSize,
         \A i \in Cells : sl[i] # Garbled,
         \A i \in Cells : i >= at /\ i < at + Len(cs) => sl[i] = Erased
  PROVE  /\ Program(sl, at, cs) \in [Cells -> Cell]
         /\ \A i \in Cells : Program(sl, at, cs)[i] # Garbled
         /\ \A i \in Cells : i < at \/ i >= at + Len(cs) => Program(sl, at, cs)[i] = sl[i]
<1> DEFINE r == Program(sl, at, cs)
<1>1. ASSUME NEW i \in Cells
      PROVE  r[i] = IF i \in at..at + Len(cs) - 1
                    THEN IF sl[i] = Erased THEN cs[i - at + 1] ELSE Garbled
                    ELSE sl[i]
  BY <1>1 DEF Program
<1>2. ASSUME NEW i \in Cells, i \in at..at + Len(cs) - 1
      PROVE  r[i] \in Cell /\ r[i] # Garbled
  <2>1. sl[i] = Erased
    BY <1>2, FwAssumption DEF Cells
  <2>2. i - at + 1 \in 1..Len(cs)
    BY <1>2, FwAssumption DEF Cells
  <2> QED BY <2>1, <2>2, <1>1
<1>3. ASSUME NEW i \in Cells, i \notin at..at + Len(cs) - 1
      PROVE  r[i] = sl[i]
  BY <1>1, <1>3
<1>4. r \in [Cells -> Cell]
  <2>1. r = [i \in Cells |-> r[i]]
    BY DEF Program
  <2> QED BY <1>2, <1>3, <2>1
<1>5. \A i \in Cells : i < at \/ i >= at + Len(cs) => r[i] = sl[i]
  BY <1>3, FwAssumption DEF Cells
<1> QED BY <1>2, <1>3, <1>4, <1>5

\* Splitting a sequence.
LEMMA Split ==
  ASSUME NEW S, NEW q \in Seq(S), NEW m \in 0..Len(q)
  PROVE  /\ SubSeq(q, 1, m) \in Seq(S) /\ Len(SubSeq(q, 1, m)) = m
         /\ SubSeq(q, m + 1, Len(q)) \in Seq(S) /\ Len(SubSeq(q, m + 1, Len(q))) = Len(q) - m
<1>1. \A i \in 1..Len(q) : q[i] \in S
  OBVIOUS
<1>2. SubSeq(q, 1, m) \in Seq(S) /\ Len(SubSeq(q, 1, m)) = m
  BY <1>1
<1>3. SubSeq(q, m + 1, Len(q)) \in Seq(S) /\ Len(SubSeq(q, m + 1, Len(q))) = Len(q) - m
  BY <1>1
<1> QED BY <1>2, <1>3

\* Updates of the session record, field by field.
LEMMA SessionUpdate ==
  ASSUME NEW s \in Session, NEW w \in Nat, NEW p \in Seq(ImgCell), NEW f \in BOOLEAN
  PROVE  /\ [s EXCEPT !.written = w, !.page = p] \in Session
         /\ [s EXCEPT !.written = w, !.page = p, !.failed = f] \in Session
         /\ [s EXCEPT !.active = f] \in Session
         /\ [s EXCEPT !.failed = f] \in Session
         /\ [s EXCEPT !.active = FALSE, !.written = w, !.page = p] \in Session
         /\ [s EXCEPT !.active = FALSE, !.failed = FALSE, !.page = p, !.written = w] \in Session
<1> DEFINE S == Seq(ImgCell)
<1> HIDE DEF S
<1>1. s \in [active : BOOLEAN, failed : BOOLEAN, total : Nat, written : Nat, page : S] /\ p \in S
  BY DEF S, Session
<1>2. /\ [s EXCEPT !.written = w, !.page = p]
           \in [active : BOOLEAN, failed : BOOLEAN, total : Nat, written : Nat, page : S]
      /\ [s EXCEPT !.written = w, !.page = p, !.failed = f]
           \in [active : BOOLEAN, failed : BOOLEAN, total : Nat, written : Nat, page : S]
  BY <1>1, Zenon
<1>3. /\ [s EXCEPT !.active = f]
           \in [active : BOOLEAN, failed : BOOLEAN, total : Nat, written : Nat, page : S]
      /\ [s EXCEPT !.failed = f]
           \in [active : BOOLEAN, failed : BOOLEAN, total : Nat, written : Nat, page : S]
  BY <1>1
<1>4. /\ [s EXCEPT !.active = FALSE, !.written = w, !.page = p]
           \in [active : BOOLEAN, failed : BOOLEAN, total : Nat, written : Nat, page : S]
      /\ [s EXCEPT !.active = FALSE, !.failed = FALSE, !.page = p, !.written = w]
           \in [active : BOOLEAN, failed : BOOLEAN, total : Nat, written : Nat, page : S]
  BY <1>1, Zenon
<1> QED BY <1>2, <1>3, <1>4 DEF S, Session

\* A stretch of image cells programmed at `written` keeps the slot free of
\* double programming and leaves everything behind it erased.
LEMMA ProgramAtWritten ==
  ASSUME SlotInv, session.active, ~session.failed,
         NEW cs \in Seq(ImgCell), session.written + Len(cs) <= session.total
  PROVE  LET r == Program(slot, session.written, cs)
         IN  /\ r \in [Cells -> Cell]
             /\ \A i \in Cells : r[i] # Garbled
             /\ r[MagicAt] = Erased
             /\ \A i \in Cells : i >= session.written + Len(cs) => r[i] = Erased
<1> DEFINE r == Program(slot, session.written, cs)
<1>1. cs \in Seq(Cell \ {Garbled})
  BY Marks
<1>2. /\ session.written \in Nat /\ slot \in [Cells -> Cell]
      /\ session.written + Len(cs) <= InfoAt
      /\ \A i \in Cells : slot[i] # Garbled
      /\ \A i \in Cells : i >= session.written => slot[i] = Erased
  BY FwAssumption DEF SlotInv, Session, ProgramsErasedOnly, InfoAt
<1>3. session.written + Len(cs) <= SlotSize /\ MagicAt \in Cells
      /\ MagicAt >= session.written + Len(cs)
  BY <1>2, FwAssumption DEF InfoAt, MagicAt, Cells
<1>4. /\ r \in [Cells -> Cell]
      /\ \A i \in Cells : r[i] # Garbled
      /\ \A i \in Cells : i < session.written \/ i >= session.written + Len(cs) => r[i] = slot[i]
  BY <1>1, <1>2, <1>3, ProgramErased, SMTT(40), ZenonT(20)
<1>5. \A i \in Cells : i >= session.written + Len(cs) => r[i] = Erased
  BY <1>2, <1>4, FwAssumption DEF Cells
<1> QED BY <1>3, <1>4, <1>5

\* write keeps the invariant.
LEMMA WriteStep ==
  ASSUME SlotInv, NEW d \in Seq(ImgCell), done' = done,
         WriteOk(d) \/ WriteFails(d) \/ WriteRejected(d)
  PROVE  SlotInv'
<1> DEFINE buf == session.page \o d
           full == (Len(buf) \div Page) * Page
<1>1. buf \in Seq(ImgCell) /\ Len(buf) = Len(session.page) + Len(d)
  BY DEF SlotInv, Session
<1>2. full \in Nat /\ full <= Len(buf)
  BY <1>1, WholePages, SMTT(40), ZenonT(20)
<1>a. CASE WriteOk(d)
  <2>1. Writable /\ Fits(d)
    BY <1>a DEF WriteOk
  <2>2. session.active /\ ~session.failed /\ session.written + Len(buf) <= session.total
    BY <2>1, <1>1 DEF Writable, Fits, Received, SlotInv, Session
  <2>3. /\ SubSeq(buf, 1, full) \in Seq(ImgCell) /\ Len(SubSeq(buf, 1, full)) = full
        /\ SubSeq(buf, full + 1, Len(buf)) \in Seq(ImgCell)
        /\ Len(SubSeq(buf, full + 1, Len(buf))) = Len(buf) - full
    BY <1>1, <1>2, Split, SMTT(40), ZenonT(20)
  <2>4. slot' = Program(slot, session.written, SubSeq(buf, 1, full))
        /\ session' = [session EXCEPT !.written = @ + full, !.page = SubSeq(buf, full + 1, Len(buf))]
    BY <1>a DEF WriteOk
  <2> HIDE DEF buf, full
  <2>5. session.written + full <= session.total
    BY <2>2, <1>1, <1>2 DEF SlotInv, Session
  <2>6. /\ slot' \in [Cells -> Cell] /\ (\A i \in Cells : slot'[i] # Garbled)
        /\ slot'[MagicAt] = Erased
        /\ \A i \in Cells : i >= session.written + full => slot'[i] = Erased
    BY <2>2, <2>3, <2>4, <2>5, ProgramAtWritten, Zenon
  <2>7. /\ session' \in Session
        /\ session'.written = session.written + full /\ session'.total = session.total
        /\ session'.active /\ Len(session'.page) = Len(buf) - full
    <3> DEFINE rest == SubSeq(buf, full + 1, Len(buf))
               w == session.written + full
    <3>1. session \in Session /\ session.written \in Nat
      BY DEF SlotInv, Session
    <3>2. session' = [session EXCEPT !.written = w, !.page = rest] /\ rest \in Seq(ImgCell)
          /\ Len(rest) = Len(buf) - full /\ w \in Nat
      BY <2>3, <2>4, <3>1, <1>2
    <3> HIDE DEF rest, w
    <3>3. session'.written = w /\ session'.total = session.total
          /\ session'.page = rest /\ session'.active = session.active
      BY <3>1, <3>2 DEF Session
    <3>4. session' \in Session
      BY <3>1, <3>2, SessionUpdate, Zenon
    <3> QED BY <2>2, <3>2, <3>3, <3>4 DEF w
  <2>8. session'.written + Len(session'.page) <= session'.total
    BY <2>7, <2>2, <1>1, <1>2, SMTT(40), ZenonT(20) DEF SlotInv, Session
  <2> QED BY <2>2, <2>6, <2>7, <2>8, Marks DEF SlotInv, Session, ProgramsErasedOnly, PendingIntact
<1>b. CASE WriteFails(d)
  <2>1. Writable /\ Fits(d)
    BY <1>b, ZenonT(40) DEF WriteFails
  <2>2. session.active /\ ~session.failed /\ session.written + Len(buf) <= session.total
    BY <2>1, <1>1 DEF Writable, Fits, Received, SlotInv, Session
  <2>3. PICK j \in 0..(full \div Page) - 1, p \in 0..Page :
           /\ slot' = Program(slot, session.written, SubSeq(buf, 1, j * Page + p))
           /\ session' = [session EXCEPT !.written = @ + j * Page, !.page = <<>>, !.failed = TRUE]
    BY <1>b, Zenon DEF WriteFails
  <2>4. j * Page + p \in Nat /\ j * Page + p <= Len(buf) /\ j * Page \in Nat
    <3>1. j * Page + p \in Nat /\ j * Page + p <= Len(buf)
      <4>1. Len(buf) \in Nat
        BY <1>1
      <4> QED BY <4>1, WholePages, Zenon
    <3>2. j \in Nat /\ Page \in Nat
      BY FwAssumption
    <3>3. j * Page \in Nat
      BY <3>2
    <3> QED BY <3>1, <3>3
  <2>5. SubSeq(buf, 1, j * Page + p) \in Seq(ImgCell) /\ Len(SubSeq(buf, 1, j * Page + p)) = j * Page + p
    BY <1>1, <2>4, Split, SMTT(40), ZenonT(20)
  <2> HIDE DEF buf, full
  <2>6. /\ slot' \in [Cells -> Cell] /\ (\A i \in Cells : slot'[i] # Garbled)
        /\ slot'[MagicAt] = Erased
    <3> DEFINE part == SubSeq(buf, 1, j * Page + p)
    <3>1. part \in Seq(ImgCell) /\ session.written + Len(part) <= session.total
      BY <2>2, <2>4, <2>5, <1>1, SMTT(40), ZenonT(20) DEF SlotInv, Session
    <3>2. slot' = Program(slot, session.written, part)
      BY <2>3
    <3> HIDE DEF part
    <3> QED BY <2>2, <3>1, <3>2, ProgramAtWritten
  <2>7. /\ session' \in Session
        /\ session'.total = session.total /\ session'.failed
    <3> DEFINE w == session.written + j * Page
    <3>1. session \in Session /\ session.written \in Nat
      BY DEF SlotInv, Session
    <3>2. w \in Nat /\ session' = [session EXCEPT !.written = w, !.page = <<>>, !.failed = TRUE]
      BY <2>3, <2>4, <3>1
    <3> HIDE DEF w
    <3>3. session'.total = session.total /\ session'.failed
      BY <3>1, <3>2 DEF Session
    <3>4. <<>> \in Seq(ImgCell)
      OBVIOUS
    <3> QED BY <3>1, <3>2, <3>3, <3>4, SessionUpdate, Zenon
  <2> QED BY <2>2, <2>6, <2>7, Marks DEF SlotInv, Session, ProgramsErasedOnly, PendingIntact
<1>c. CASE WriteRejected(d)
  BY <1>c, SMTT(40), ZenonT(20) DEF WriteRejected, Writable, SlotInv, Session, ProgramsErasedOnly, PendingIntact
<1> QED BY <1>a, <1>b, <1>c

\* abort keeps the types and closes the session.
LEMMA AbortFacts ==
  ASSUME session \in Session
  PROVE  Abort \in Session /\ ~Abort.active
<1>1. <<>> \in Seq(ImgCell) /\ 0 \in Nat
  OBVIOUS
<1>2. Abort \in Session
  BY <1>1, SessionUpdate, Zenon DEF Abort
<1>3. ~Abort.active
  BY DEF Abort, Session
<1> QED BY <1>2, <1>3

\* start keeps the invariant, on the session itself or after an abort.
LEMMA StartStep ==
  ASSUME ClearOfTrailer, SlotInv, NEW ch, NEW s, s = session \/ s = Abort,
         NEW total \in Totals, NEW key, Start(ch, s, total, key)
  PROVE  SlotInv'
<1>1. s \in Session /\ (s.active => s = session) /\ session \in Session /\ slot \in [Cells -> Cell]
  BY AbortFacts DEF SlotInv
<1>2. total \in Nat /\ total <= InfoAt /\ MagicAt \in Cells /\ 0 \in Cells /\ SlotSize \in Nat
  BY FwAssumption DEF ClearOfTrailer, MagicAt, Cells
<1>a. CASE session' = s /\ slot' = slot /\ done' = done
  BY <1>a, <1>1 DEF SlotInv, ProgramsErasedOnly, PendingIntact
<1>b. CASE /\ EraseSlot(total)
           /\ session' = [active |-> TRUE, failed |-> FALSE, total |-> total, written |-> 0, page |-> <<>>]
  <2>1. slot' = [i \in Cells |-> Erased]
    BY <1>b, <1>2 DEF EraseSlot, EraseTo, Cells
  <2>2. /\ session' \in Session /\ session'.active /\ ~session'.failed /\ session'.total = total
        /\ session'.written = 0 /\ Len(session'.page) = 0
    BY <1>b, <1>2 DEF Session
  <2> QED BY <1>2, <2>1, <2>2, Marks DEF SlotInv, ProgramsErasedOnly, PendingIntact
<1>c. CASE ~s.active /\ session' = s /\ done' = done /\ \E e \in 0..SlotSize : slot' = EraseTo(e)
  <2>1. PICK e \in 0..SlotSize : slot' = EraseTo(e)
    BY <1>c
  <2>2. slot' = [i \in Cells |-> IF i < e THEN Erased ELSE slot[i]]
    BY <2>1 DEF EraseTo
  <2>3. slot' \in [Cells -> Cell] /\ \A i \in Cells : slot'[i] # Garbled
    BY <2>2, <1>1, Marks DEF SlotInv, ProgramsErasedOnly
  <2>4. CASE e = 0
    <3>1. slot' = slot
      BY <2>2, <2>4, <1>1 DEF Cells
    <3> QED BY <3>1, <1>c, <1>1 DEF SlotInv, ProgramsErasedOnly, PendingIntact
  <2>5. CASE e # 0
    <3>1. slot'[0] = Erased
      BY <2>2, <2>5, <1>2
    <3> QED BY <3>1, <2>3, <1>c, <1>1 DEF SlotInv, ProgramsErasedOnly, PendingIntact
  <2> QED BY <2>4, <2>5
<1> QED BY <1>a, <1>b, <1>c DEF Start

\* Programming one erased cell.
LEMMA ProgramOne ==
  ASSUME NEW sl \in [Cells -> Cell], \A i \in Cells : sl[i] # Garbled,
         NEW at \in Cells, sl[at] = Erased, NEW c \in Cell, c # Garbled
  PROVE  /\ Program(sl, at, <<c>>) \in [Cells -> Cell]
         /\ \A i \in Cells : Program(sl, at, <<c>>)[i] # Garbled
         /\ \A i \in Cells : i # at => Program(sl, at, <<c>>)[i] = sl[i]
<1>1. Cells \subseteq Int /\ at \in Int
  BY FwAssumption DEF Cells
<1>2. ASSUME NEW i \in Cells
      PROVE  Program(sl, at, <<c>>)[i] = IF i = at THEN c ELSE sl[i]
  <2>1. Program(sl, at, <<c>>)[i] = IF i \in at..at + Len(<<c>>) - 1
                                  THEN IF sl[i] = Erased THEN <<c>>[i - at + 1] ELSE Garbled
                                  ELSE sl[i]
    BY DEF Program
  <2>2. i \in at..at + Len(<<c>>) - 1 <=> i = at
    BY <1>1
  <2> QED BY <2>1, <2>2, <1>1
<1>3. Program(sl, at, <<c>>) = [i \in Cells |-> Program(sl, at, <<c>>)[i]]
  BY DEF Program
<1> QED BY <1>2, <1>3

\* boot_set_pending after a verified finish marks the slot and leaves the image
\* alone.
LEMMA PendingStep ==
  ASSUME NEW r \in [Cells -> Cell], \A i \in Cells : r[i] # Garbled,
         NEW n \in Nat, n <= InfoAt, \A i \in Cells : i >= n => r[i] = Erased, NEW k \in 0..2
  PROVE  /\ SetPending(r, k) \in [Cells -> Cell]
         /\ \A i \in Cells : SetPending(r, k)[i] # Garbled
         /\ \A i \in Cells : i < n => SetPending(r, k)[i] = r[i]
<1> DEFINE one == Program(r, MagicAt, <<Magic>>)
           two == Program(one, InfoAt, <<SwapInfo>>)
<1>1. /\ MagicAt \in Nat /\ InfoAt \in Nat /\ InfoAt \in Cells /\ MagicAt \in Cells
      /\ MagicAt + 1 <= SlotSize /\ InfoAt + 1 = MagicAt /\ Cells \subseteq Nat
  BY FwAssumption DEF MagicAt, InfoAt, Cells
<1>2. r[MagicAt] = Erased /\ r[InfoAt] = Erased
  BY <1>1
<1>3. /\ one \in [Cells -> Cell] /\ (\A i \in Cells : one[i] # Garbled)
      /\ \A i \in Cells : i # MagicAt => one[i] = r[i]
  BY <1>1, <1>2, ProgramOne, Marks
<1>4. one[InfoAt] = Erased
  BY <1>1, <1>2, <1>3
<1> HIDE DEF one
<1>5. /\ two \in [Cells -> Cell] /\ (\A i \in Cells : two[i] # Garbled)
      /\ \A i \in Cells : i # InfoAt => two[i] = one[i]
  BY <1>1, <1>3, <1>4, ProgramOne, Marks
<1>6. SetPending(r, k) = r \/ SetPending(r, k) = one \/ SetPending(r, k) = two
  BY DEF SetPending, one
<1> HIDE DEF one, two
<1>7. \A i \in Cells : i < n => one[i] = r[i] /\ two[i] = r[i]
  BY <1>1, <1>3, <1>5
<1> QED BY <1>3, <1>5, <1>6, <1>7

\* finish with the trailer writes keeps the invariant.
LEMMA FinishStep ==
  ASSUME SlotInv, NEW ch \in Channel, NEW sum, Finish(ch, sum)
  PROVE  SlotInv'
<1> DEFINE tail == Len(session.page)
<1>1. /\ session \in Session /\ session.page \in Seq(ImgCell) /\ tail \in Nat
      /\ session.written \in Nat /\ session.total \in Nat /\ slot \in [Cells -> Cell]
      /\ <<>> \in Seq(ImgCell)
  BY DEF SlotInv, Session
<1>2. \A m \in Nat : Ended(m) \in Session /\ ~Ended(m).active
  <2> TAKE m \in Nat
  <2> DEFINE w == session.written + m
  <2>1. Ended(m) = [session EXCEPT !.active = FALSE, !.written = w, !.page = <<>>]
    BY DEF Ended
  <2>0. w \in Nat
    BY <1>1
  <2> HIDE DEF w
  <2>2. Ended(m) \in Session
    <3>1. [session EXCEPT !.active = FALSE, !.written = w, !.page = <<>>] \in Session
      <4> DEFINE e == <<>>
      <4>1. e \in Seq(ImgCell) /\ TRUE \in BOOLEAN
        BY <1>1, SMTT(40), ZenonT(20)
      <4> HIDE DEF e
      <4>2. [session EXCEPT !.active = FALSE, !.written = w, !.page = e] \in Session
        BY <1>1, <2>0, <4>1, SessionUpdate, Zenon
      <4> QED BY <4>2 DEF e
    <3> QED BY <2>1, <3>1
  <2>3. ~Ended(m).active
    BY <1>1, <2>1 DEF Session
  <2> QED BY <2>2, <2>3
<1>3. ASSUME session.active, ~session.failed, NEW q \in Seq(ImgCell), Len(q) <= tail
      PROVE  LET r == Program(slot, session.written, q)
             IN  /\ r \in [Cells -> Cell] /\ (\A i \in Cells : r[i] # Garbled)
                 /\ r[MagicAt] = Erased
                 /\ \A i \in Cells : i >= session.written + Len(q) => r[i] = Erased
  <2>1. session.written + Len(q) <= session.total
    BY <1>1, <1>3 DEF SlotInv
  <2> QED BY <1>3, <2>1, ProgramAtWritten
<1>a. CASE FinishOk(ch, sum)
  <2>1. session.active /\ ~session.failed /\ Received = session.total /\ session' = Ended(tail)
        /\ done' = [ch |-> ch, img |-> Content(Flushed, session.total), by |-> writers]
    BY <1>a DEF FinishOk, Accepts
  <2>2. PICK k \in 0..2 : slot' = SetPending(Flushed, k)
    BY <1>a DEF FinishOk
  <2>3. /\ Flushed \in [Cells -> Cell] /\ (\A i \in Cells : Flushed[i] # Garbled)
        /\ \A i \in Cells : i >= session.written + tail => Flushed[i] = Erased
    BY <1>1, <1>3, <2>1 DEF Flushed
  <2>4. session.written + tail = session.total /\ session.total <= InfoAt
    BY <2>1 DEF Received, SlotInv
  <2>5. /\ slot' \in [Cells -> Cell] /\ (\A i \in Cells : slot'[i] # Garbled)
        /\ \A i \in Cells : i < session.total => slot'[i] = Flushed[i]
    BY <1>1, <2>2, <2>3, <2>4, PendingStep
  <2>6. done' # NotDone
    <3>1. done'.ch = ch /\ NotDone.ch = "none" /\ ch # "none"
      BY <2>1 DEF NotDone, Channel
    <3> QED BY <3>1
  <2>7. Len(done'.img) = session.total
    BY <2>1, <1>1 DEF Content
  <2>8. \A i \in 1..session.total : i - 1 \in Cells /\ i - 1 < session.total
    BY <1>1, <2>4, FwAssumption DEF Cells, InfoAt
  <2>9. [i \in 1..session.total |-> slot'[i - 1]] = [i \in 1..session.total |-> Flushed[i - 1]]
    BY <2>5, <2>8
  <2>10. PendingIntact'
    BY <2>1, <2>6, <2>7, <2>9, Zenon DEF PendingIntact, Content
  <2> QED BY <1>1, <1>2, <2>1, <2>5, <2>10 DEF SlotInv, ProgramsErasedOnly
<1>b. CASE FinishFails(ch, sum)
  <2>1. session.active /\ done' = done /\ slot[MagicAt] = Erased
    BY <1>b DEF FinishFails, SlotInv
  <2>2. CASE session' = [session EXCEPT !.active = FALSE] /\ slot' = slot
    <3>1. session' \in Session /\ ~session'.active
      BY <1>1, <2>2, SessionUpdate, ZenonT(40) DEF Session
    <3> QED BY <3>1, <2>1, <2>2 DEF SlotInv, ProgramsErasedOnly, PendingIntact
  <2>3. CASE ~session.failed /\ session' = Ended(tail) /\ slot' = Flushed
    <3>1. /\ slot' \in [Cells -> Cell] /\ (\A i \in Cells : slot'[i] # Garbled) /\ slot'[MagicAt] = Erased
      BY <1>1, <1>3, <2>1, <2>3 DEF Flushed
    <3> QED BY <3>1, <1>1, <1>2, <2>3, Marks DEF SlotInv, ProgramsErasedOnly, PendingIntact
  <2>4. CASE /\ ~session.failed /\ session' = Ended(0)
             /\ \E p \in 0..tail : slot' = Program(slot, session.written, SubSeq(session.page, 1, p))
    <3>1. PICK p \in 0..tail : slot' = Program(slot, session.written, SubSeq(session.page, 1, p))
      BY <2>4
    <3>2. SubSeq(session.page, 1, p) \in Seq(ImgCell) /\ Len(SubSeq(session.page, 1, p)) <= tail
      BY <1>1, Split
    <3>3. /\ slot' \in [Cells -> Cell] /\ (\A i \in Cells : slot'[i] # Garbled) /\ slot'[MagicAt] = Erased
      BY <1>3, <2>1, <2>4, <3>1, <3>2, Zenon
    <3> QED BY <3>3, <1>2, <2>4, Marks DEF SlotInv, ProgramsErasedOnly, PendingIntact
  <2> QED BY <1>b, <2>2, <2>3, <2>4 DEF FinishFails
<1> QED BY <1>a, <1>b DEF Finish

\* A reset keeps the invariant.
LEMMA ResetStep ==
  ASSUME SlotInv, Reset
  PROVE  SlotInv'
<1>1. session' \in Session /\ ~session'.active
  BY DEF Reset, Idle, Session
<1>2. CASE slot' = [i \in Cells |-> Old]
  <2>1. MagicAt \in Cells
    BY FwAssumption DEF MagicAt, Cells
  <2> QED BY <1>1, <1>2, <2>1, Marks DEF SlotInv, ProgramsErasedOnly, PendingIntact
<1>3. CASE slot' = slot /\ done' = done
  BY <1>1, <1>3 DEF SlotInv, ProgramsErasedOnly, PendingIntact
<1> QED BY <1>2, <1>3 DEF Reset

\* The pieces in which the channels hand their data to write.
LEMMA Pieces ==
  /\ Datagrams \subseteq Seq(ImgCell)
  /\ \A q \in Seq(ImgCell) : FirstPage(q) \in Seq(ImgCell) /\ AfterPage(q) \in Seq(ImgCell)
  /\ \A i \in 1..N : <<<<"can", i>>>> \in Seq(ImgCell)
  /\ \A m, n \in Nat : m + n <= N => SubSeq(Image("ws"), m + 1, m + n) \in Seq(ImgCell)
<1>1. \A ch \in Channel : Image(ch) \in Seq(ImgCell) /\ Len(Image(ch)) = N
  <2> TAKE ch \in Channel
  <2>1. \A i \in 1..N : <<ch, i>> \in ImgCell
    BY DEF ImgCell
  <2> QED BY <2>1, FwAssumption DEF Image
<1>2. \A ch \in Channel, i, j \in 1..N : SubSeq(Image(ch), i, j) \in Seq(ImgCell)
  <2> TAKE ch \in Channel, i, j \in 1..N
  <2> DEFINE im == Image(ch)
  <2>1. im \in Seq(ImgCell) /\ Len(im) = N /\ \A x \in 1..N : im[x] \in ImgCell
    BY <1>1
  <2> HIDE DEF im
  <2>2. CASE i <= j
    <3>1. \A x \in 1..(j - i + 1) : i + x - 1 \in 1..N
      BY <2>2, FwAssumption
    <3> QED BY <2>1, <2>2, <3>1, FwAssumption DEF im
  <2>3. CASE j < i
    <3>1. SubSeq(im, i, j) = <<>>
      BY <2>1, <2>3, FwAssumption
    <3> QED BY <3>1 DEF im
  <2> QED BY <2>2, <2>3, FwAssumption
<1>3. Datagrams \subseteq Seq(ImgCell)
  <2> SUFFICES ASSUME NEW d \in Datagrams PROVE d \in Seq(ImgCell)
    OBVIOUS
  <2>1. PICK i \in 1..N, j \in 1..N : d = SubSeq(Image("udp"), i, j)
    BY DEF Datagrams
  <2>2. "udp" \in Channel
    BY DEF Channel
  <2> QED BY <1>2, <2>1, <2>2, Zenon
<1>4. \A q \in Seq(ImgCell) : FirstPage(q) \in Seq(ImgCell) /\ AfterPage(q) \in Seq(ImgCell)
  <2> TAKE q \in Seq(ImgCell)
  <2>1. CASE Len(q) > Page
    <3>1. Page \in 0..Len(q)
      BY <2>1, FwAssumption
    <3> QED BY <3>1, <2>1, Split DEF FirstPage, AfterPage
  <2>2. CASE ~(Len(q) > Page)
    BY <2>2 DEF FirstPage, AfterPage
  <2> QED BY <2>1, <2>2
<1>5. \A i \in 1..N : <<<<"can", i>>>> \in Seq(ImgCell)
  <2> TAKE i \in 1..N
  <2> DEFINE c == <<"can", i>>
  <2>1. c \in ImgCell
    BY DEF ImgCell, Channel
  <2> HIDE DEF c
  <2>2. <<c>> \in Seq(ImgCell)
    BY <2>1
  <2> QED BY <2>2 DEF c
<1>6. \A m, n \in Nat : m + n <= N => SubSeq(Image("ws"), m + 1, m + n) \in Seq(ImgCell)
  <2> TAKE m, n \in Nat
  <2> DEFINE im == Image("ws")
  <2>1. im \in Seq(ImgCell) /\ Len(im) = N /\ \A x \in 1..N : im[x] \in ImgCell
    BY <1>1 DEF Channel
  <2> HIDE DEF im
  <2>2. ASSUME m + n <= N PROVE SubSeq(im, m + 1, m + n) \in Seq(ImgCell)
    BY <2>1, <2>2, FwAssumption
  <2> QED BY <2>2 DEF im
<1> QED BY <1>3, <1>4, <1>5, <1>6, Zenon

\* Every step keeps the invariant.
LEMMA FwStep ==
  ASSUME ClearOfTrailer, FwInv, [Next]_vars
  PROVE  FwInv'
<1> USE DEF FwInv
<1>u. CASE UNCHANGED vars
  BY <1>u DEF vars, hostVars, SlotInv, ProgramsErasedOnly, PendingIntact
<1>1. ASSUME NEW t \in Totals, NEW key, UdpStart(t, key) PROVE FwInv'
  BY <1>1, StartStep DEF UdpStart, hostVars
<1>2. ASSUME NEW t \in Totals, NEW key, WsStart(t, key) PROVE FwInv'
  <2>1. wsPos' \in Nat
    BY <1>2, FwAssumption DEF WsStart
  <2> QED BY <1>2, <2>1, StartStep DEF WsStart
<1>3. ASSUME NEW t \in Totals, CanStart(t) PROVE FwInv'
  BY <1>3, StartStep DEF CanStart
<1>4. ASSUME NEW d \in Datagrams, UdpData(d) PROVE FwInv'
  BY <1>4, Pieces, WriteStep DEF UdpData, Write, hostVars
<1>5. ASSUME NEW d \in Datagrams, UdpDataV2(d) PROVE FwInv'
  <2>1. FirstPage(d) \in Seq(ImgCell) /\ AfterPage(d) \in Seq(ImgCell)
    BY Pieces
  <2> QED BY <1>5, <2>1, WriteStep DEF UdpDataV2, Write, hostVars
<1>6. CASE UdpDataV2Next
  <2>1. FirstPage(v2) \in Seq(ImgCell) /\ AfterPage(v2) \in Seq(ImgCell)
    BY Pieces
  <2> QED BY <1>6, <2>1, WriteStep DEF UdpDataV2Next, Write, hostVars
<1>7. CASE UdpEnd
  BY <1>7, FinishStep DEF UdpEnd, hostVars, Channel
<1>8. ASSUME NEW n \in 1..MaxFrame, WsData(n) PROVE FwInv'
  <2>1. n \in Nat /\ wsPos + n <= N /\ wsPos' = wsPos + n /\ done' = done /\ v2' = v2
    BY <1>8, FwAssumption DEF WsData
  <2> DEFINE d == SubSeq(Image("ws"), wsPos + 1, wsPos + n)
  <2>2. d \in Seq(ImgCell)
    BY <2>1, Pieces, Zenon
  <2>3. WriteOk(d) \/ WriteFails(d) \/ WriteRejected(d)
    BY <1>8 DEF WsData
  <2> HIDE DEF d
  <2>4. SlotInv'
    BY <2>1, <2>2, <2>3, WriteStep
  <2> QED BY <2>1, <2>4
<1>9. CASE WsEnd
  <2>1. wsPos' \in Nat /\ v2' = v2
    BY <1>9, FwAssumption DEF WsEnd
  <2>2. CASE session' = Abort /\ slot' = slot /\ done' = done
    <3>1. session' \in Session /\ ~session'.active
      BY <2>2, AbortFacts DEF SlotInv
    <3> QED BY <3>1, <2>1, <2>2 DEF SlotInv, ProgramsErasedOnly, PendingIntact
  <2>3. CASE Finish("ws", crc)
    BY <2>1, <2>3, FinishStep DEF Channel
  <2> QED BY <1>9, <2>2, <2>3 DEF WsEnd
<1>10. CASE WsGone
  BY <1>10, FwAssumption DEF WsGone, SlotInv, ProgramsErasedOnly, PendingIntact
<1>11. ASSUME NEW i, NEW bad, CanKeyFrame(i, bad) PROVE FwInv'
  BY <1>11 DEF CanKeyFrame, SlotInv, ProgramsErasedOnly, PendingIntact
<1>12. ASSUME NEW i \in 1..N, CanData(i) PROVE FwInv'
  <2>1. <<<<"can", i>>>> \in Seq(ImgCell)
    BY Pieces
  <2> QED BY <1>12, <2>1, WriteStep, Zenon DEF CanData, Write
<1>13. CASE CanConfirm
  BY <1>13, FinishStep DEF CanConfirm, Channel
<1>14. CASE Reset
  <2>1. v2' \in Seq(ImgCell) /\ wsPos' \in Nat
    BY <1>14, FwAssumption DEF Reset
  <2> QED BY <1>14, <2>1, ResetStep
<1> QED
  BY <1>u, <1>1, <1>2, <1>3, <1>4, <1>5, <1>6, <1>7, <1>8, <1>9, <1>10, <1>11, <1>12, <1>13, <1>14
  DEF Next

LEMMA FwInit ==
  ASSUME Init
  PROVE  FwInv
<1>1. session \in Session /\ ~session.active
  BY DEF Init, Idle, Session
<1>2. slot \in [Cells -> Cell] /\ \A i \in Cells : slot[i] # Garbled /\ slot[i] # Magic
  BY Marks DEF Init
<1>3. MagicAt \in Cells
  BY FwAssumption DEF MagicAt, Cells
<1>4. v2 \in Seq(ImgCell) /\ wsPos \in Nat
  BY FwAssumption DEF Init
<1> QED BY <1>1, <1>2, <1>3, <1>4 DEF FwInv, SlotInv, ProgramsErasedOnly, PendingIntact

\* Whatever the three channels send and whatever fails, no flash cell is
\* programmed twice between erases, as long as images stay clear of the trailer.
THEOREM ErasedBeforeProgrammed == ClearOfTrailer => (Spec => []ProgramsErasedOnly)
<1> SUFFICES ASSUME ClearOfTrailer PROVE Spec => []ProgramsErasedOnly
  OBVIOUS
<1>1. Init => FwInv
  BY FwInit
<1>2. FwInv /\ [Next]_vars => FwInv'
  BY FwStep
<1>3. FwInv => ProgramsErasedOnly
  BY DEF FwInv, SlotInv
<1> QED BY <1>1, <1>2, <1>3, PTL DEF Spec

\* A slot marked pending holds the image that was verified, or has lost its
\* header to an erase: nothing that arrives later gets into a confirmed image.
THEOREM ConfirmedStaysIntact == ClearOfTrailer => (Spec => []PendingIntact)
<1> SUFFICES ASSUME ClearOfTrailer PROVE Spec => []PendingIntact
  OBVIOUS
<1>1. Init => FwInv
  BY FwInit
<1>2. FwInv /\ [Next]_vars => FwInv'
  BY FwStep
<1>3. FwInv => PendingIntact
  BY DEF FwInv, SlotInv
<1> QED BY <1>1, <1>2, <1>3, PTL DEF Spec
-----------------------------------------------------------------------------
(* What a session has received, as one sequence: the cells on the flash    *)
(* and those in the page buffer.                                           *)

Live == session.active /\ ~session.failed

Data == [i \in 1..Received |->
           IF i <= session.written THEN slot[i - 1] ELSE session.page[i - session.written]]

\* All cells of q came from channel ch.
From(q, ch) == \A i \in 1..Len(q) : q[i][1] = ch

\* If they did, they are in order, none is repeated, and none is beyond p.
Ahead(q, ch, p) ==
  From(q, ch) => /\ \A i \in 1..Len(q) : q[i][2] <= p
                 /\ \A i, j \in 1..Len(q) : i < j => q[j][2] - q[i][2] >= j - i

\* q is a prefix of the UDP host's image.
UdpPrefix(q) == \A i \in 1..Len(q) : q[i] = <<"udp", i>>

\* The session was opened over UDP and only DATA_V2 has written into it.
V2Only == writers \subseteq {"udpv2"} /\ stream = "udp"

\* WebSocket and CAN hosts send forward, so a session that holds their cells alone
\* holds them in order; a DATA_V2 session, with what is left of the datagram in
\* hand, holds a prefix of the image.
InOrder ==
  Live => /\ Data \in Seq(ImgCell)
          /\ writers \subseteq {"can"} => From(Data, "can")
          /\ Ahead(Data, "ws", wsPos) /\ Ahead(Data, "can", canPos)
          /\ V2Only => UdpPrefix(Data \o v2)

DataInv ==
  /\ FwInv
  /\ crc \in Seq({"ws"} \X (1..N)) /\ wsPos \in 0..N /\ canPos \in 0..N
  /\ From(v2, "udp")
  /\ InOrder
  /\ AcceptedExact

-----------------------------------------------------------------------------
\* A sequence of cells, cell by cell.
LEMMA Joined ==
  ASSUME NEW q \in Seq(ImgCell), NEW d \in Seq(ImgCell)
  PROVE  /\ q \o d \in Seq(ImgCell) /\ Len(q \o d) = Len(q) + Len(d)
         /\ \A i \in 1..Len(q) : (q \o d)[i] = q[i]
         /\ \A k \in 1..Len(d) : (q \o d)[Len(q) + k] = d[k]
         /\ \A i \in 1..Len(q) + Len(d) : i \in 1..Len(q) \/ i - Len(q) \in 1..Len(d)
OBVIOUS

\* Cells of an image.
LEMMA CellParts ==
  ASSUME NEW c \in ImgCell
  PROVE  c[1] \in Channel /\ c[2] \in 1..N /\ c = <<c[1], c[2]>>
BY DEF ImgCell

\* A cell at most r - (n - i) is far enough from the one j - n past r.
LEMMA FarEnough ==
  ASSUME NEW r \in Int, NEW n \in Int, NEW i \in Int, NEW j \in Int, NEW a \in Int,
         a + n - i <= r
  PROVE  (r + j - n) - a >= j - i
OBVIOUS

\* Cells that follow those of the same channel keep them in order.
LEMMA AheadMore ==
  ASSUME NEW q \in Seq(ImgCell), NEW d \in Seq(ImgCell), NEW ch, NEW p \in Int, NEW r \in Int,
         Ahead(q, ch, p), p <= r, \A k \in 1..Len(d) : d[k] = <<ch, r + k>>
  PROVE  Ahead(q \o d, ch, r + Len(d))
<1> DEFINE x == q \o d
<1>1. /\ x \in Seq(ImgCell) /\ Len(x) = Len(q) + Len(d)
      /\ \A i \in 1..Len(q) : x[i] = q[i]
      /\ \A k \in 1..Len(d) : x[Len(q) + k] = d[k]
  BY Joined
<1>2. Len(q) \in Nat /\ Len(d) \in Nat
  OBVIOUS
<1>3. \A i \in 1..Len(q) : q[i][2] \in Int
  BY CellParts
<1> HIDE DEF x
<1> SUFFICES ASSUME From(x, ch)
             PROVE  /\ \A i \in 1..Len(x) : x[i][2] <= r + Len(d)
                    /\ \A i, j \in 1..Len(x) : i < j => x[j][2] - x[i][2] >= j - i
  BY SMTT(40), ZenonT(20) DEF Ahead, x
<1>4. From(q, ch)
  BY <1>1, <1>2 DEF From
<1>5. /\ \A i \in 1..Len(q) : q[i][2] <= p
      /\ \A i, j \in 1..Len(q) : i < j => q[j][2] - q[i][2] >= j - i
  BY <1>4 DEF Ahead
<1>6. ASSUME NEW k \in 1..Len(d) PROVE x[Len(q) + k][2] = r + k
  <2>1. x[Len(q) + k] = d[k] /\ d[k] = <<ch, r + k>>
    BY <1>1
  <2>2. <<ch, r + k>>[2] = r + k
    OBVIOUS
  <2> QED BY <2>1, <2>2, Zenon
<1>7. ASSUME NEW j \in 1..Len(x), j > Len(q) PROVE x[j][2] = r + j - Len(q)
  <2>1. j - Len(q) \in 1..Len(d) /\ Len(q) + (j - Len(q)) = j
    BY <1>1, <1>2, <1>7
  <2> QED BY <1>2, <1>6, <2>1, Zenon
<1>8. ASSUME NEW i \in 1..Len(q) PROVE x[i][2] = q[i][2] /\ q[i][2] + Len(q) - i <= r
  <2>1. x[i][2] = q[i][2]
    BY <1>1
  <2>2. Len(q) \in 1..Len(q)
    BY <1>2
  <2>3. q[Len(q)][2] <= p /\ (i < Len(q) => q[Len(q)][2] - q[i][2] >= Len(q) - i)
    BY <1>5, <2>2
  <2> QED BY <1>2, <1>3, <2>1, <2>2, <2>3, SMTT(40), ZenonT(20)
<1>9. ASSUME NEW i \in 1..Len(x) PROVE x[i][2] <= r + Len(d)
  <2>1. CASE i > Len(q)
    BY <1>1, <1>2, <1>7, <2>1
  <2>2. CASE ~(i > Len(q))
    <3>1. i \in 1..Len(q)
      BY <1>1, <1>2, <2>2
    <3>2. x[i][2] = q[i][2] /\ q[i][2] + Len(q) - i <= r /\ q[i][2] \in Int
      BY <1>3, <1>8, <3>1, Zenon
    <3> QED BY <1>2, <3>1, <3>2, SMTT(40), ZenonT(20)
  <2> QED BY <2>1, <2>2
<1>10. ASSUME NEW i \in 1..Len(x), NEW j \in 1..Len(x), i < j PROVE x[j][2] - x[i][2] >= j - i
  <2>1. CASE i > Len(q)
    <3>1. j > Len(q)
      BY <1>2, <1>10, <2>1
    <3>2. x[i][2] = r + i - Len(q) /\ x[j][2] = r + j - Len(q)
      BY <1>7, <2>1, <3>1
    <3> QED BY <1>2, <3>2
  <2>2. CASE j > Len(q) /\ ~(i > Len(q))
    <3>1. i \in 1..Len(q)
      BY <1>1, <1>2, <2>2
    <3>2. x[j][2] = r + j - Len(q)
      BY <1>7, <2>2
    <3>3. x[i][2] = q[i][2] /\ q[i][2] + Len(q) - i <= r /\ q[i][2] \in Int
      BY <1>3, <1>8, <3>1, Zenon
    <3>4. r \in Int /\ Len(q) \in Int /\ i \in Int /\ j \in Int
      BY <1>2
    <3>5. (r + j - Len(q)) - q[i][2] >= j - i
      BY <3>3, <3>4, FarEnough, SMTT(40)
    <3> QED BY <3>2, <3>3, <3>5, Zenon
  <2>3. CASE ~(j > Len(q))
    <3>1. i \in 1..Len(q) /\ j \in 1..Len(q)
      BY <1>1, <1>2, <1>10, <2>3
    <3> QED BY <1>5, <1>8, <1>10, <3>1
  <2> QED BY <2>1, <2>2, <2>3
<1> QED BY <1>9, <1>10

\* A cell of another channel: the sequence is no longer of this one.
LEMMA AheadOther ==
  ASSUME NEW q \in Seq(ImgCell), NEW d \in Seq(ImgCell), NEW ch, NEW p,
         Len(d) > 0, d[1][1] # ch
  PROVE  Ahead(q \o d, ch, p) /\ ~From(q \o d, ch)
<1>1. Len(q) + 1 \in 1..Len(q \o d) /\ (q \o d)[Len(q) + 1] = d[1]
  BY Joined
<1>2. ~From(q \o d, ch)
  BY <1>1 DEF From
<1> QED BY <1>2 DEF Ahead

\* Cells of one channel that begin with its first, in order and N of them up to
\* its last, are its image.
LEMMA WholeImage ==
  ASSUME NEW ch, NEW q \in Seq(ImgCell), NEW p, From(q, ch), Ahead(q, ch, p),
         Len(q) >= N, q[1][2] = 1, q[N][2] = N
  PROVE  q = Image(ch)
<1>1. Len(q) \in Nat /\ N \in Nat /\ N >= 1
  BY FwAssumption
<1>2. \A i, j \in 1..Len(q) : i < j => q[j][2] - q[i][2] >= j - i
  BY DEF Ahead
<1>3. \A i \in 1..Len(q) : q[i][2] \in 1..N /\ q[i] = <<ch, q[i][2]>>
  BY CellParts DEF From
<1>4. Len(q) = N
  <2> SUFFICES ASSUME Len(q) # N PROVE FALSE
    OBVIOUS
  <2>1. N + 1 \in 1..Len(q) /\ N \in 1..Len(q) /\ N < N + 1
    BY <1>1
  <2>2. q[N + 1][2] - q[N][2] >= 1
    BY <1>1, <1>2, <2>1
  <2> QED BY <1>1, <1>3, <2>1, <2>2
<1>5. ASSUME NEW i \in 1..N PROVE q[i] = <<ch, i>>
  <2>1. 1 \in 1..Len(q) /\ N \in 1..Len(q) /\ i \in 1..Len(q)
    BY <1>1, <1>4
  <2>2. (1 < i => q[i][2] - q[1][2] >= i - 1) /\ (i < N => q[N][2] - q[i][2] >= N - i)
    BY <1>2, <2>1
  <2>3. q[i][2] = i
    BY <1>1, <1>3, <2>1, <2>2, SMTT(40), ZenonT(20)
  <2> QED BY <1>3, <2>1, <2>3
<1>6. q = [i \in 1..N |-> q[i]]
  BY <1>4
<1> QED BY <1>5, <1>6 DEF Image

-----------------------------------------------------------------------------
\* Programming erased cells stores the data.
LEMMA ProgramStores ==
  ASSUME NEW sl, DOMAIN sl = Cells, NEW at \in Nat, NEW cs, Len(cs) \in Nat,
         NEW i \in Cells, i >= at, i < at + Len(cs), sl[i] = Erased
  PROVE  Program(sl, at, cs)[i] = cs[i - at + 1]
<1>1. Program(sl, at, cs)[i] = IF i \in at..at + Len(cs) - 1
                               THEN IF sl[i] = Erased THEN cs[i - at + 1] ELSE Garbled
                               ELSE sl[i]
  BY DEF Program
<1>2. i \in at..at + Len(cs) - 1
  BY FwAssumption DEF Cells
<1> QED BY <1>1, <1>2

\* and changes nothing in front of it.
LEMMA ProgramKeeps ==
  ASSUME NEW sl, DOMAIN sl = Cells, NEW at \in Nat, NEW cs, Len(cs) \in Nat,
         NEW i \in Cells, i < at \/ i >= at + Len(cs)
  PROVE  Program(sl, at, cs)[i] = sl[i]
<1>1. Program(sl, at, cs)[i] = IF i \in at..at + Len(cs) - 1
                               THEN IF sl[i] = Erased THEN cs[i - at + 1] ELSE Garbled
                               ELSE sl[i]
  BY DEF Program
<1>2. i \notin at..at + Len(cs) - 1
  BY FwAssumption DEF Cells
<1> QED BY <1>1, <1>2

\* What a usable session is made of.
LEMMA LiveFacts ==
  ASSUME SlotInv, Live
  PROVE  /\ session.written \in Nat /\ session.page \in Seq(ImgCell) /\ session.total \in Nat
         /\ Received \in Nat /\ Received <= session.total /\ session.total <= InfoAt
         /\ DOMAIN slot = Cells
         /\ \A i \in Cells : i >= session.written => slot[i] = Erased
         /\ \A i \in 1..Received : i - 1 \in Cells
<1>1. /\ session.written \in Nat /\ session.page \in Seq(ImgCell) /\ session.total \in Nat
      /\ DOMAIN slot = Cells
  BY DEF SlotInv, Session
<1>2. /\ session.written + Len(session.page) <= session.total /\ session.total <= InfoAt
      /\ \A i \in Cells : i >= session.written => slot[i] = Erased
  BY DEF SlotInv, Live
<1>3. Received \in Nat /\ Received <= session.total
  BY <1>1, <1>2 DEF Received
<1>4. \A i \in 1..Received : i - 1 \in Cells
  BY <1>1, <1>2, <1>3, FwAssumption DEF Cells, InfoAt
<1> QED BY <1>1, <1>2, <1>3, <1>4

\* The length and the cells of what was received.
LEMMA DataFacts ==
  ASSUME Received \in Nat
  PROVE  /\ Len(Data) = Received /\ DOMAIN Data = 1..Received
         /\ \A i \in 1..Received :
              Data[i] = IF i <= session.written THEN slot[i - 1]
                        ELSE session.page[i - session.written]
BY DEF Data

\* write appends to what was received, wherever the page boundary falls.
LEMMA Appended ==
  ASSUME SlotInv, NEW d \in Seq(ImgCell), WriteOk(d), Data \in Seq(ImgCell)
  PROVE  Live /\ Live' /\ Data' = Data \o d
<1> DEFINE w == session.written
           pg == session.page
           buf == pg \o d
           full == (Len(buf) \div Page) * Page
<1>1. Live /\ Fits(d)
  BY DEF WriteOk, Writable, Live
<1>2. /\ w \in Nat /\ pg \in Seq(ImgCell) /\ Received \in Nat
      /\ DOMAIN slot = Cells /\ session.total <= InfoAt /\ session.total \in Nat
      /\ \A i \in Cells : i >= w => slot[i] = Erased
  BY <1>1, LiveFacts
<1>3. /\ buf \in Seq(ImgCell) /\ Len(buf) = Len(pg) + Len(d) /\ Len(pg) \in Nat /\ Len(d) \in Nat
      /\ \A k \in 1..Len(pg) : buf[k] = pg[k]
      /\ \A k \in 1..Len(d) : buf[Len(pg) + k] = d[k]
  BY <1>2, Joined
<1>4. full \in Nat /\ full <= Len(buf) /\ Len(buf) \in Nat
  <2>1. Len(buf) \in Nat
    BY <1>3
  <2> HIDE DEF buf
  <2> QED BY <2>1, WholePages
<1> DEFINE whole == SubSeq(buf, 1, full)
           rest == SubSeq(buf, full + 1, Len(buf))
<1>5. /\ slot' = Program(slot, w, whole)
      /\ session' = [session EXCEPT !.written = w + full, !.page = rest]
  BY DEF WriteOk
<1> HIDE DEF buf, full
<1>6. /\ Len(whole) = full /\ \A k \in 1..full : whole[k] = buf[k]
      /\ Len(rest) = Len(buf) - full /\ \A k \in 1..Len(buf) - full : rest[k] = buf[full + k]
  <2>1. Len(whole) = full /\ \A k \in 1..full : whole[k] = buf[k]
    BY <1>3, <1>4
  <2>2. Len(rest) = Len(buf) - full
    BY <1>3, <1>4, SMTT(40), ZenonT(20)
  <2>3. \A k \in 1..Len(buf) - full : rest[k] = buf[full + k]
    BY <1>3, <1>4
  <2> QED BY <2>1, <2>2, <2>3, Zenon
<1> HIDE DEF whole, rest
<1>7. session'.written = w + full /\ session'.page = rest /\ Live'
  <2>1. session \in Session
    BY DEF SlotInv
  <2>2. /\ session'.written = w + full /\ session'.page = rest
        /\ session'.active = session.active /\ session'.failed = session.failed
    BY <1>5, <2>1 DEF Session
  <2> QED BY <1>1, <2>2 DEF Live
<1>8. Received = w + Len(pg) /\ Received' = Received + Len(d) /\ Received' = w + Len(buf)
  BY <1>2, <1>3, <1>4, <1>6, <1>7, SMTT(40), ZenonT(20) DEF Received
<1>9. Received + Len(d) <= session.total
  BY <1>1 DEF Fits
<1>10. ASSUME NEW i \in 1..Received + Len(d) PROVE i - 1 \in Cells
  BY <1>2, <1>3, <1>9, FwAssumption DEF Cells, InfoAt
<1>11. Data' = [i \in 1..Received' |->
                  IF i <= session'.written THEN slot'[i - 1] ELSE session'.page[i - session'.written]]
  BY DEF Data
<1> HIDE DEF w, pg
<1>12. ASSUME NEW i \in 1..Received + Len(d)
       PROVE  Data'[i] = IF i <= w + full THEN slot'[i - 1] ELSE rest[i - (w + full)]
  BY <1>7, <1>8, <1>11
<1>13. ASSUME NEW i \in 1..Received + Len(d), i > w PROVE Data'[i] = buf[i - w]
  <2>1. CASE i <= w + full
    <3>1. i - 1 \in Cells /\ i - 1 >= w /\ i - 1 < w + Len(whole) /\ i - w \in 1..full
          /\ (i - 1) - w + 1 = i - w
      BY <1>2, <1>4, <1>6, <1>10, <1>13, <2>1
    <3>2. Len(whole) \in Nat /\ slot[i - 1] = Erased
      BY <1>2, <1>4, <1>6, <3>1
    <3>3. slot'[i - 1] = whole[(i - 1) - w + 1]
      BY <1>2, <1>5, <3>1, <3>2, ProgramStores, SMTT(40), ZenonT(20)
    <3>4. whole[i - w] = buf[i - w]
      BY <1>6, <3>1
    <3>5. Data'[i] = slot'[i - 1]
      BY <1>12, <2>1
    <3> QED BY <3>1, <3>3, <3>4, <3>5
  <2>2. CASE ~(i <= w + full)
    <3>1. i - (w + full) \in 1..Len(buf) - full /\ full + (i - (w + full)) = i - w
      BY <1>2, <1>3, <1>4, <1>8, <2>2
    <3>2. Data'[i] = rest[i - (w + full)]
      BY <1>12, <2>2
    <3>3. rest[i - (w + full)] = buf[full + (i - (w + full))]
      BY <1>6, <3>1
    <3> QED BY <3>1, <3>2, <3>3
  <2> QED BY <2>1, <2>2
<1>14. \A i \in 1..Received : Data[i] = IF i <= w THEN slot[i - 1] ELSE pg[i - w]
  BY <1>2, DataFacts DEF w, pg
<1>15. ASSUME NEW i \in 1..Received PROVE Data'[i] = Data[i]
  <2>0. i \in 1..Received + Len(d)
    BY <1>2, <1>3
  <2>1. CASE i <= w
    <3>1. i - 1 \in Cells /\ i - 1 < w /\ i <= w + full
      BY <1>2, <1>4, <1>10, <2>0, <2>1
    <3>2. Len(whole) \in Nat
      BY <1>4, <1>6
    <3>3. slot'[i - 1] = slot[i - 1]
      BY <1>2, <1>5, <3>1, <3>2, ProgramKeeps
    <3> QED BY <1>12, <1>14, <2>0, <2>1, <3>1, <3>3
  <2>2. CASE ~(i <= w)
    <3>1. i - w \in 1..Len(pg) /\ i > w
      BY <1>2, <1>3, <1>8, <2>2
    <3>2. Data'[i] = buf[i - w] /\ buf[i - w] = pg[i - w]
      BY <1>3, <1>13, <2>0, <3>1
    <3> QED BY <1>14, <2>2, <3>2
  <2> QED BY <2>1, <2>2
<1>16. ASSUME NEW k \in 1..Len(d) PROVE Data'[Received + k] = d[k]
  <2>1. /\ Received + k \in 1..Received + Len(d) /\ Received + k > w
        /\ (Received + k) - w = Len(pg) + k
    BY <1>2, <1>3, <1>8, SMTT(40), ZenonT(20)
  <2>2. Data'[Received + k] = buf[(Received + k) - w]
    BY <1>13, <2>1
  <2> QED BY <1>3, <2>1, <2>2
<1>17. /\ Data \o d \in Seq(ImgCell) /\ Len(Data \o d) = Received + Len(d)
       /\ \A i \in 1..Received : (Data \o d)[i] = Data[i]
       /\ \A k \in 1..Len(d) : (Data \o d)[Received + k] = d[k]
  <2>1. Len(Data) = Received
    BY <1>2, DataFacts
  <2> QED BY <2>1, Joined, Zenon
<1>18. ASSUME NEW i \in 1..Received + Len(d) PROVE Data'[i] = (Data \o d)[i]
  <2>1. CASE i <= Received
    <3>1. i \in 1..Received
      BY <1>2, <2>1
    <3> QED BY <1>15, <1>17, <3>1
  <2>2. CASE ~(i <= Received)
    <3>1. i - Received \in 1..Len(d) /\ Received + (i - Received) = i
      BY <1>2, <1>3, <2>2
    <3>2. Data'[Received + (i - Received)] = (Data \o d)[Received + (i - Received)]
      BY <1>16, <1>17, <3>1
    <3> QED BY <3>1, <3>2, Zenon
  <2> QED BY <2>1, <2>2, Zenon
<1>19. Data' = [i \in 1..Received + Len(d) |-> Data'[i]]
  BY <1>8, <1>11
<1>20. Data \o d = [i \in 1..Received + Len(d) |-> (Data \o d)[i]]
  <2>1. PICK x \in Seq(ImgCell) : x = Data \o d
    BY <1>17, Zenon
  <2>2. x = [i \in 1..Len(x) |-> x[i]]
    OBVIOUS
  <2>3. Len(x) = Received + Len(d)
    BY <1>17, <2>1
  <2> QED BY <2>1, <2>2, <2>3
<1> QED BY <1>1, <1>7, <1>18, <1>19, <1>20, Zenon

\* A write that fails or is refused leaves no usable session.
LEMMA NotLive ==
  ASSUME SlotInv, NEW d, WriteFails(d) \/ WriteRejected(d)
  PROVE  ~Live'
<1>1. session \in Session
  BY DEF SlotInv
<1>2. CASE WriteFails(d)
  <2>1. PICK w, p : session' = [session EXCEPT !.written = w, !.page = p, !.failed = TRUE]
    BY <1>2, Zenon DEF WriteFails
  <2>2. session'.failed
    BY <1>1, <2>1 DEF Session
  <2> QED BY <2>2 DEF Live
<1>3. CASE WriteRejected(d)
  <2>1. session' = [session EXCEPT !.failed = session.failed \/ Writable]
    BY <1>3 DEF WriteRejected
  <2>2. session'.failed = (session.failed \/ Writable) /\ session'.active = session.active
    BY <1>1, <2>1 DEF Session
  <2> QED BY <2>2, Zenon DEF Live, Writable
<1> QED BY <1>2, <1>3

\* A reset, an abort, an end: whatever finish says, the session is over.
LEMMA FinishEnds ==
  ASSUME SlotInv, NEW ch, NEW sum, Finish(ch, sum)
  PROVE  ~Live'
<1>1. session \in Session
  BY DEF SlotInv
<1>2. \A m : ~Ended(m).active
  BY <1>1 DEF Ended, Session
<1>3. \/ session' = [session EXCEPT !.active = FALSE]
      \/ \E m : session' = Ended(m)
  BY DEF Finish, FinishOk, FinishFails
<1>4. CASE session' = [session EXCEPT !.active = FALSE]
  <2>1. ~session'.active
    BY <1>1, <1>4 DEF Session
  <2> QED BY <2>1 DEF Live
<1>5. CASE \E m : session' = Ended(m)
  BY <1>2, <1>5 DEF Live
<1> QED BY <1>3, <1>4, <1>5

\* start leaves the session as it was, or opens an empty one.
LEMMA StartOpens ==
  ASSUME SlotInv, NEW ch, NEW s, s = session \/ s = Abort, NEW total \in Totals, NEW key,
         Start(ch, s, total, key)
  PROVE  \/ /\ ~Live' /\ ~session'.active /\ done' = done
         \/ /\ session' = s /\ s.active /\ UNCHANGED <<slot, writers, stream, done>>
         \/ /\ session'.active /\ ~s.active /\ Received' = 0
            /\ writers' = {} /\ stream' = ch /\ done' = NotDone
<1>1. s \in Session
  BY AbortFacts DEF SlotInv
<1>2. CASE session' = s /\ UNCHANGED <<slot, writers, stream, done>>
  BY <1>2 DEF Live
<1>3. CASE /\ ~s.active
           /\ session' = [active |-> TRUE, failed |-> FALSE, total |-> total,
                          written |-> 0, page |-> <<>>]
           /\ writers' = {} /\ stream' = ch /\ done' = NotDone
  <2>1. session'.active /\ session'.written = 0 /\ session'.page = <<>>
    BY <1>3
  <2>2. Received' = 0
    BY <2>1 DEF Received
  <2> QED BY <1>3, <2>1, <2>2
<1>4. CASE ~s.active /\ session' = s /\ done' = done
  BY <1>4 DEF Live
<1> QED BY <1>2, <1>3, <1>4 DEF Start

\* An empty session, and one that is not usable, are in order.
LEMMA EmptyInOrder ==
  ASSUME ~Live' \/ (Received' = 0 /\ (V2Only' => v2' = <<>>))
  PROVE  InOrder'
<1> SUFFICES ASSUME Live' PROVE InOrder'
  BY DEF InOrder
<1>1. Received' = 0 /\ (V2Only' => v2' = <<>>)
  OBVIOUS
<1>2. Data' = <<>>
  BY <1>1 DEF Data
<1>3. Len(<<>>) = 0 /\ 1..0 = {} /\ <<>> \in Seq(ImgCell) /\ <<>> \o <<>> = <<>>
  OBVIOUS
<1>4. From(<<>>, "can") /\ UdpPrefix(<<>>)
  BY <1>3 DEF From, UdpPrefix
<1>5. \A ch, p : Ahead(<<>>, ch, p)
  BY <1>3 DEF Ahead
<1> QED BY <1>1, <1>2, <1>3, <1>4, <1>5 DEF InOrder

\* Two stretches of one channel.
LEMMA FromBoth ==
  ASSUME NEW q \in Seq(ImgCell), NEW d \in Seq(ImgCell), NEW ch, From(q, ch), From(d, ch)
  PROVE  From(q \o d, ch)
<1>1. /\ Len(q \o d) = Len(q) + Len(d)
      /\ \A i \in 1..Len(q) : (q \o d)[i] = q[i]
      /\ \A k \in 1..Len(d) : (q \o d)[Len(q) + k] = d[k]
      /\ Len(q) \in Nat /\ Len(d) \in Nat
  BY Joined
<1>2. ASSUME NEW i \in 1..Len(q) + Len(d) PROVE (q \o d)[i][1] = ch
  <2>1. CASE i \in 1..Len(q)
    BY <1>1, <2>1 DEF From
  <2>2. CASE i \notin 1..Len(q)
    <3>1. i - Len(q) \in 1..Len(d) /\ Len(q) + (i - Len(q)) = i
      BY <1>1, <2>2
    <3>2. (q \o d)[Len(q) + (i - Len(q))] = d[i - Len(q)] /\ d[i - Len(q)][1] = ch
      BY <1>1, <3>1, Zenon DEF From
    <3> QED BY <3>1, <3>2
  <2> QED BY <2>1, <2>2
<1> QED BY <1>1, <1>2 DEF From

\* A stretch that ch hands to write as `who` keeps the session in order, if ch
\* sends forward and a DATA_V2 stretch continues the prefix.
LEMMA WroteInOrder ==
  ASSUME SlotInv, InOrder, NEW ch \in Channel, NEW who, ch # "can" => who # "can",
         NEW d \in Seq(ImgCell), Len(d) > 0, From(d, ch),
         WriteOk(d), writers' = writers \union {who},
         wsPos \in Int, canPos \in Int, NEW r \in Int,
         ch = "ws" => wsPos <= r /\ wsPos' = r + Len(d) /\ \A k \in 1..Len(d) : d[k] = <<"ws", r + k>>,
         ch = "can" => canPos <= r /\ canPos' = r + Len(d) /\ \A k \in 1..Len(d) : d[k] = <<"can", r + k>>,
         V2Only' => UdpPrefix((Data \o d) \o v2')
  PROVE  InOrder'
<1>1. Data \in Seq(ImgCell) /\ Live /\ Live' /\ Data' = Data \o d
  <2>1. Live
    BY DEF WriteOk, Writable, Live
  <2>2. Data \in Seq(ImgCell)
    BY <2>1 DEF InOrder
  <2> QED BY <2>2, Appended
<1>2. /\ writers \subseteq {"can"} => From(Data, "can")
      /\ Ahead(Data, "ws", wsPos) /\ Ahead(Data, "can", canPos)
  BY <1>1 DEF InOrder
<1>3. Data \o d \in Seq(ImgCell)
  BY <1>1, Joined
<1>4. writers' \subseteq {"can"} => From(Data \o d, "can")
  <2> SUFFICES ASSUME writers' \subseteq {"can"} PROVE From(Data \o d, "can")
    OBVIOUS
  <2>1. writers \subseteq {"can"} /\ who = "can"
    BY Zenon
  <2>2. ch = "can" /\ From(Data, "can") /\ From(d, "can")
    BY <1>2, <2>1
  <2> QED BY <1>1, <2>2, FromBoth
<1>5. ch # "ws" => d[1][1] # "ws"
  BY DEF From
<1>6. ch # "can" => d[1][1] # "can"
  BY DEF From
<1>7. Ahead(Data \o d, "ws", wsPos')
  <2>1. CASE ch = "ws"
    BY <1>1, <1>2, <2>1, AheadMore, SMTT(40), ZenonT(20)
  <2>2. CASE ch # "ws"
    BY <1>1, <1>5, <2>2, AheadOther
  <2> QED BY <2>1, <2>2
<1>8. Ahead(Data \o d, "can", canPos')
  <2>1. CASE ch = "can"
    BY <1>1, <1>2, <2>1, AheadMore, SMTT(40), ZenonT(20)
  <2>2. CASE ch # "can"
    BY <1>1, <1>6, <2>2, AheadOther
  <2> QED BY <2>1, <2>2
<1> QED BY <1>1, <1>3, <1>4, <1>7, <1>8 DEF InOrder

\* Moving the WebSocket host's position to the end, or closing its stream, breaks
\* nothing.
LEMMA StillInOrder ==
  ASSUME SlotInv, InOrder, session' = session, slot' = slot, writers' = writers, v2' = v2,
         stream' = stream \/ stream' = "none",
         wsPos' = wsPos \/ wsPos' = N, canPos' = canPos \/ canPos' = N
  PROVE  InOrder'
<1> SUFFICES ASSUME Live' PROVE InOrder'
  BY DEF InOrder
<1>1. Live /\ Data' = Data /\ (V2Only' => V2Only)
  BY DEF Live, Data, Received, V2Only
<1>2. /\ Data \in Seq(ImgCell)
      /\ writers \subseteq {"can"} => From(Data, "can")
      /\ Ahead(Data, "ws", wsPos) /\ Ahead(Data, "can", canPos)
      /\ V2Only => UdpPrefix(Data \o v2)
  BY <1>1 DEF InOrder
<1>3. \A ch, p : Ahead(Data, ch, p) => Ahead(Data, ch, N)
  <2>1. \A i \in 1..Len(Data) : Data[i][2] <= N
    BY <1>2, CellParts, FwAssumption
  <2> QED BY <2>1 DEF Ahead
<1>4. Ahead(Data', "ws", wsPos') /\ Ahead(Data', "can", canPos')
  BY <1>1, <1>2, <1>3
<1> QED BY <1>1, <1>2, <1>4 DEF InOrder

\* finish() reads back what was received, and nothing behind it.
LEMMA FlushedData ==
  ASSUME SlotInv, Live, Received = session.total
  PROVE  /\ Content(Flushed, session.total) = Data
         /\ \A i \in 1..Received : Flushed[i - 1] = Data[i]
         /\ \A i \in Cells : i >= Received => Flushed[i] = Erased
<1> DEFINE w == session.written
           pg == session.page
<1>1. /\ w \in Nat /\ pg \in Seq(ImgCell) /\ Received \in Nat /\ DOMAIN slot = Cells
      /\ \A i \in Cells : i >= w => slot[i] = Erased
      /\ \A i \in 1..Received : i - 1 \in Cells
  BY LiveFacts
<1>2. Received = w + Len(pg) /\ Len(pg) \in Nat
  BY <1>1 DEF Received
<1>3. /\ DOMAIN Data = 1..Received
      /\ \A i \in 1..Received : Data[i] = IF i <= w THEN slot[i - 1] ELSE pg[i - w]
  BY <1>1, DataFacts
<1>4. Flushed = Program(slot, w, pg)
  BY DEF Flushed
<1> HIDE DEF w, pg
<1>5. ASSUME NEW i \in 1..Received PROVE Flushed[i - 1] = Data[i]
  <2>1. CASE i <= w
    <3>1. i - 1 \in Cells /\ i - 1 < w
      BY <1>1, <2>1
    <3>2. Flushed[i - 1] = slot[i - 1]
      BY <1>1, <1>2, <1>4, <3>1, ProgramKeeps
    <3> QED BY <1>3, <2>1, <3>2
  <2>2. CASE ~(i <= w)
    <3>1. i - 1 \in Cells /\ i - 1 >= w /\ i - 1 < w + Len(pg) /\ (i - 1) - w + 1 = i - w
      BY <1>1, <1>2, <2>2
    <3>2. Flushed[i - 1] = pg[(i - 1) - w + 1]
      BY <1>1, <1>2, <1>4, <3>1, ProgramStores
    <3> QED BY <1>3, <2>2, <3>1, <3>2
  <2> QED BY <2>1, <2>2
<1>6. ASSUME NEW i \in Cells, i >= Received PROVE Flushed[i] = Erased
  <2>1. i >= w + Len(pg) /\ i >= w
    BY <1>1, <1>2, <1>6, FwAssumption DEF Cells
  <2>2. Flushed[i] = slot[i]
    BY <1>1, <1>2, <1>4, <2>1, ProgramKeeps
  <2> QED BY <1>1, <2>1, <2>2
<1>7. Data = [i \in 1..Received |-> Data[i]]
  BY <1>3 DEF Data
<1>8. Content(Flushed, session.total) = [i \in 1..Received |-> Flushed[i - 1]]
  BY DEF Content
<1>9. Content(Flushed, session.total) = Data
  BY <1>5, <1>7, <1>8, SMTT(40), ZenonT(20)
<1> QED BY <1>5, <1>6, <1>9

\* An image whose header and TLV block are found where the header says has at
\* least N cells, the first and the N-th of which are those of an image.
LEMMA TlvInData ==
  ASSUME SlotInv, Live, Received = session.total, TlvOk(Flushed), Data \in Seq(ImgCell)
  PROVE  Len(Data) >= N /\ Data[1][2] = 1 /\ Data[N][2] = N
<1>1. Received \in Nat /\ Len(Data) = Received /\ N \in Nat /\ N >= 1
  BY LiveFacts, DataFacts, FwAssumption
<1>2. PICK a \in Channel, b \in Channel : Flushed[0] = <<a, 1>> /\ Flushed[N - 1] = <<b, N>>
  BY DEF TlvOk
<1>3. <<b, N>> # Erased
  <2>1. <<b, N>> \in ImgCell
    BY <1>1 DEF ImgCell
  <2> QED BY <2>1, Marks
<1>4. N - 1 \in Cells
  BY FwAssumption DEF Cells
<1>5. Received >= N
  <2> SUFFICES ASSUME ~(Received >= N) PROVE FALSE
    OBVIOUS
  <2>1. N - 1 >= Received
    BY <1>1
  <2> QED BY <1>2, <1>3, <1>4, <2>1, FlushedData, Zenon
<1>6. 1 \in 1..Received /\ N \in 1..Received /\ 1 - 1 = 0
  BY <1>1, <1>5
<1>7. Data[1] = <<a, 1>> /\ Data[N] = <<b, N>>
  BY <1>2, <1>6, FlushedData
<1> QED BY <1>1, <1>5, <1>7

\* finish() accepts nothing but the whole image: the CRC of UDP is the image's own,
\* that of the WebSocket session ran over its frames only, and what CAN alone
\* wrote is in order.
LEMMA FinishExact ==
  ASSUME SlotInv, InOrder, AcceptedExact, crc \in Seq({"ws"} \X (1..N)),
         NEW ch, NEW sum, Finish(ch, sum),
         \/ ch = "udp" /\ sum = Image("udp")
         \/ ch = "ws" /\ sum = crc
         \/ ch = "can" /\ sum = NoCrc
  PROVE  AcceptedExact'
<1>1. CASE FinishFails(ch, sum)
  BY <1>1 DEF FinishFails, AcceptedExact
<1>2. CASE FinishOk(ch, sum)
  <2>1. /\ Live /\ Received = session.total /\ TlvOk(Flushed)
        /\ sum = NoCrc \/ sum = Content(Flushed, session.total)
    BY <1>2 DEF FinishOk, Accepts, Live
  <2>2. Content(Flushed, session.total) = Data
    BY <2>1, FlushedData
  <2>3. done'.ch = ch /\ done'.img = Data /\ done'.by = writers
    BY <1>2, <2>2 DEF FinishOk
  <2>4. Data \in Seq(ImgCell) /\ (writers \subseteq {"can"} => From(Data, "can"))
        /\ Ahead(Data, "ws", wsPos) /\ Ahead(Data, "can", canPos)
    BY <2>1 DEF InOrder
  <2>5. Len(Data) >= N /\ Data[1][2] = 1 /\ Data[N][2] = N
    BY <2>1, <2>4, TlvInData
  <2>7. CASE ch = "udp" /\ sum = Image("udp")
    <3>1. Image("udp") # NoCrc
      <4>1. 1 \in 1..N
        BY FwAssumption
      <4>2. Image("udp")[1] = <<"udp", 1>> /\ NoCrc[1] = <<"none", 0>>
        BY <4>1 DEF Image, NoCrc
      <4>3. <<"udp", 1>> # <<"none", 0>>
        OBVIOUS
      <4> QED BY <4>2, <4>3
    <3>2. done'.img = Image("udp")
      BY <2>1, <2>2, <2>3, <2>7, <3>1
    <3> QED BY <2>3, <2>7, <3>2 DEF AcceptedExact
  <2>8. CASE ch = "ws" /\ sum = crc
    <3>1. crc # NoCrc
      <4> SUFFICES ASSUME crc = NoCrc PROVE FALSE
        OBVIOUS
      <4>1. Len(NoCrc) = 1 /\ NoCrc[1] = <<"none", 0>>
        BY DEF NoCrc
      <4>2. \A i \in 1..Len(crc) : crc[i] \in {"ws"} \X (1..N)
        OBVIOUS
      <4>3. <<"none", 0>> \in {"ws"} \X (1..N)
        BY <4>1, <4>2
      <4> QED BY <4>3
    <3>2. Data = crc
      BY <2>1, <2>2, <2>8, <3>1
    <3>3. From(Data, "ws")
      <4>1. \A i \in 1..Len(crc) : crc[i] \in {"ws"} \X (1..N)
        OBVIOUS
      <4>2. \A i \in 1..Len(crc) : crc[i][1] = "ws"
        BY <4>1
      <4> QED BY <3>2, <4>2 DEF From
    <3>4. Data = Image("ws")
      BY <2>4, <2>5, <3>3, WholeImage
    <3> QED BY <2>3, <2>8, <3>4 DEF AcceptedExact
  <2>9. CASE ch = "can"
    <3>1. ASSUME writers = {"can"} PROVE Data = Image("can")
      <4>1. From(Data, "can")
        BY <2>4, <3>1
      <4> QED BY <2>4, <2>5, <4>1, WholeImage
    <3> QED BY <2>3, <2>9, <3>1 DEF AcceptedExact
  <2> QED BY <2>7, <2>8, <2>9
<1> QED BY <1>1, <1>2 DEF Finish

\* A datagram is a stretch of the host's image.
LEMMA DatagramCells ==
  ASSUME NEW d \in Datagrams
  PROVE  /\ d \in Seq(ImgCell) /\ Len(d) > 0 /\ From(d, "udp") /\ d[1][2] \in Int
         /\ \A k \in 1..Len(d) : d[k] = <<"udp", d[1][2] + k - 1>>
<1>1. PICK i \in 1..N, j \in 1..N : d = SubSeq(Image("udp"), i, j) /\ Len(d) \in 1..MaxDatagram
  BY DEF Datagrams
<1>2. d \in Seq(ImgCell) /\ Len(d) > 0
  <2>1. d \in Seq(ImgCell)
    BY Pieces, Zenon
  <2>2. Len(d) > 0
    BY <1>1, FwAssumption
  <2> QED BY <2>1, <2>2
<1>3. \A k \in 1..Len(d) : d[k] = <<"udp", i + k - 1>>
  <2>1. i \in Int /\ j \in Int /\ Len(d) \in Nat
    BY <1>2, FwAssumption
  <2> DEFINE im == Image("udp")
  <2>2. /\ im \in Seq(ImgCell) /\ Len(im) = N
        /\ \A x \in 1..N : im[x] = <<"udp", x>>
    <3>1. \A x \in 1..N : <<"udp", x>> \in ImgCell
      BY DEF ImgCell, Channel
    <3> QED BY <3>1, FwAssumption DEF Image
  <2> HIDE DEF im
  <2>3. d = SubSeq(im, i, j)
    BY <1>1 DEF im
  <2>4. i <= j /\ Len(d) = j - i + 1 /\ \A k \in 1..Len(d) : d[k] = im[i + k - 1]
    BY <1>2, <2>1, <2>2, <2>3, FwAssumption, SMTT(40), ZenonT(20)
  <2>5. \A k \in 1..Len(d) : i + k - 1 \in 1..N
    BY <2>1, <2>4, FwAssumption
  <2> QED BY <2>2, <2>4, <2>5
<1>4. d[1] = <<"udp", i + 1 - 1>> /\ i + 1 - 1 = i
  BY <1>2, <1>3, FwAssumption
<1>5. d[1][2] = i /\ i \in Int
  BY <1>4, FwAssumption
<1>6. From(d, "udp")
  BY <1>3 DEF From
<1> QED BY <1>2, <1>3, <1>5, <1>6

\* A datagram is its first page and the rest.
LEMMA PageSplit ==
  ASSUME NEW q \in Seq(ImgCell), Len(q) > 0, From(q, "udp")
  PROVE  /\ FirstPage(q) \in Seq(ImgCell) /\ Len(FirstPage(q)) > 0 /\ From(FirstPage(q), "udp")
         /\ AfterPage(q) \in Seq(ImgCell) /\ From(AfterPage(q), "udp")
         /\ FirstPage(q) \o AfterPage(q) = q
<1>0. FirstPage(q) \in Seq(ImgCell) /\ AfterPage(q) \in Seq(ImgCell)
  BY Pieces
<1>1. CASE Len(q) > Page
  <2> DEFINE a == SubSeq(q, 1, Page)
             b == SubSeq(q, Page + 1, Len(q))
  <2>1. FirstPage(q) = a /\ AfterPage(q) = b
    BY <1>1, Zenon DEF FirstPage, AfterPage
  <2>2. Page \in Nat /\ Page > 0 /\ Page < Len(q)
    BY <1>1, FwAssumption
  <2>3. Len(a) = Page /\ \A k \in 1..Page : a[k] = q[k]
    BY <2>2
  <2>4. Len(b) = Len(q) - Page /\ \A k \in 1..Len(q) - Page : b[k] = q[Page + k]
    BY <2>2
  <2>5. a \in Seq(ImgCell) /\ b \in Seq(ImgCell)
    BY <1>0, <2>1
  <2> HIDE DEF a, b
  <2>6. From(a, "udp")
    BY <2>2, <2>3 DEF From
  <2>7. From(b, "udp")
    <3>1. \A k \in 1..Len(q) - Page : Page + k \in 1..Len(q)
      BY <2>2
    <3> QED BY <2>4, <3>1 DEF From
  <2>8. a \o b = q
    <3>1. /\ Len(a \o b) = Len(q) /\ a \o b \in Seq(ImgCell)
      <4>1. a \o b \in Seq(ImgCell) /\ Len(a \o b) = Len(a) + Len(b)
        BY <2>5, Joined
      <4>2. Len(a) + Len(b) = Len(q)
        BY <2>2, <2>3, <2>4
      <4> QED BY <4>1, <4>2
    <3>2. ASSUME NEW i \in 1..Len(q) PROVE (a \o b)[i] = q[i]
      <4>1. CASE i <= Page
        BY <2>2, <2>3, <2>5, <4>1, Joined
      <4>2. CASE ~(i <= Page)
        <5>1. i - Page \in 1..Len(b) /\ Len(a) + (i - Page) = i
          BY <2>2, <2>3, <2>4, <4>2
        <5>2. (a \o b)[Len(a) + (i - Page)] = b[i - Page]
          BY <2>5, <5>1, Joined
        <5>3. b[i - Page] = q[Page + (i - Page)] /\ Page + (i - Page) = i
          BY <2>2, <2>4, <5>1
        <5> QED BY <5>1, <5>2, <5>3
      <4> QED BY <4>1, <4>2, Zenon
    <3>3. PICK x \in Seq(ImgCell) : x = a \o b
      BY <3>1, Zenon
    <3>4. Len(x) = Len(q) /\ \A i \in 1..Len(q) : x[i] = q[i]
      BY <3>1, <3>2, <3>3, Zenon
    <3>5. x = q
      BY <3>4
    <3> QED BY <3>3, <3>5
  <2> QED BY <2>1, <2>2, <2>3, <2>5, <2>6, <2>7, <2>8
<1>2. CASE ~(Len(q) > Page)
  <2>1. FirstPage(q) = q /\ AfterPage(q) = <<>>
    BY <1>2 DEF FirstPage, AfterPage
  <2>2. q \o <<>> = q /\ From(<<>>, "udp")
    BY DEF From
  <2> QED BY <1>0, <2>1, <2>2
<1> QED BY <1>1, <1>2

\* Joining is associative.
LEMMA Regroup ==
  ASSUME NEW q \in Seq(ImgCell), NEW a \in Seq(ImgCell), NEW b \in Seq(ImgCell)
  PROVE  (q \o a) \o b = q \o (a \o b)
OBVIOUS

\* A datagram at the expected offset continues a prefix of the image.
LEMMA PrefixMore ==
  ASSUME NEW q \in Seq(ImgCell), UdpPrefix(q), NEW d \in Seq(ImgCell),
         \A k \in 1..Len(d) : d[k] = <<"udp", Len(q) + k>>
  PROVE  UdpPrefix(q \o d)
<1>1. /\ Len(q \o d) = Len(q) + Len(d) /\ Len(q) \in Nat /\ Len(d) \in Nat
      /\ \A i \in 1..Len(q) : (q \o d)[i] = q[i]
      /\ \A k \in 1..Len(d) : (q \o d)[Len(q) + k] = d[k]
  BY Joined
<1>2. ASSUME NEW i \in 1..Len(q) + Len(d) PROVE (q \o d)[i] = <<"udp", i>>
  <2>1. CASE i \in 1..Len(q)
    BY <1>1, <2>1 DEF UdpPrefix
  <2>2. CASE i \notin 1..Len(q)
    <3>1. i - Len(q) \in 1..Len(d) /\ Len(q) + (i - Len(q)) = i
      BY <1>1, <2>2
    <3>2. (q \o d)[Len(q) + (i - Len(q))] = <<"udp", Len(q) + (i - Len(q))>>
      BY <1>1, <3>1, Zenon
    <3> QED BY <3>1, <3>2
  <2> QED BY <2>1, <2>2
<1> QED BY <1>1, <1>2 DEF UdpPrefix

\* The UDP task writes a stretch of a DATA_V2 datagram.
LEMMA V2Step ==
  ASSUME DataInv, NEW q \in Seq(ImgCell), Len(q) > 0, From(q, "udp"),
         Live /\ V2Only => UdpPrefix(Data \o q),
         Write("udpv2", FirstPage(q)), v2' = AfterPage(q), stream' = stream,
         wsPos' = wsPos, canPos' = canPos
  PROVE  InOrder' /\ From(v2', "udp")
<1>1. SlotInv /\ InOrder /\ wsPos \in Int /\ canPos \in Int
  BY FwAssumption DEF DataInv, FwInv
<1> DEFINE a == FirstPage(q)
           b == AfterPage(q)
<1>2. /\ a \in Seq(ImgCell) /\ Len(a) > 0 /\ From(a, "udp")
      /\ b \in Seq(ImgCell) /\ From(b, "udp") /\ a \o b = q
  BY PageSplit, Zenon
<1>3. CASE WriteOk(a) /\ writers' = writers \union {"udpv2"}
  <2>1. Live
    BY <1>3 DEF WriteOk, Writable, Live
  <2>2. Data \in Seq(ImgCell)
    BY <1>1, <2>1 DEF InOrder
  <2>3. V2Only' => V2Only
    BY <1>3 DEF V2Only
  <2> HIDE DEF a, b
  <2>4. (Data \o a) \o b = Data \o q
    <3>1. (Data \o a) \o b = Data \o (a \o b)
      BY <1>2, <2>2, Regroup, ZenonT(40)
    <3> QED BY <1>2, <3>1, Zenon
  <2>5. V2Only' => UdpPrefix((Data \o a) \o v2')
    BY <2>1, <2>3, <2>4 DEF b
  <2>6. "udp" \in Channel /\ "udp" # "ws" /\ "udp" # "can" /\ "udpv2" # "can" /\ 0 \in Int
    BY DEF Channel
  <2>7. InOrder'
    BY <1>1, <1>2, <1>3, <2>5, <2>6, WroteInOrder, Zenon
  <2> QED BY <1>2, <2>7 DEF b
<1>4. CASE WriteFails(a) \/ WriteRejected(a)
  <2>1. ~Live'
    BY <1>1, <1>4, NotLive
  <2>2. InOrder'
    BY <2>1, EmptyInOrder
  <2> QED BY <1>2, <2>2
<1> QED BY <1>3, <1>4 DEF Write

\* A frame of the WebSocket session.
LEMMA WsCells ==
  ASSUME NEW m \in 0..N, NEW n \in Nat, n > 0, m + n <= N
  PROVE  LET d == SubSeq(Image("ws"), m + 1, m + n)
         IN  /\ d \in Seq(ImgCell) /\ d \in Seq({"ws"} \X (1..N)) /\ Len(d) = n /\ From(d, "ws")
             /\ \A k \in 1..Len(d) : d[k] = <<"ws", m + k>>
<1> DEFINE im == Image("ws")
           d == SubSeq(im, m + 1, m + n)
<1>1. /\ im \in Seq({"ws"} \X (1..N)) /\ Len(im) = N
      /\ \A x \in 1..N : im[x] = <<"ws", x>>
  BY FwAssumption DEF Image
<1>2. m \in Nat /\ N \in Nat
  BY FwAssumption
<1> HIDE DEF im
<1>3. Len(d) = n /\ \A k \in 1..n : d[k] = im[m + k]
  BY <1>1, <1>2
<1>4. d \in Seq({"ws"} \X (1..N))
  BY <1>1, <1>2
<1>5. \A k \in 1..n : m + k \in 1..N
  BY <1>2
<1>6. \A k \in 1..n : d[k] = <<"ws", m + k>>
  BY <1>1, <1>3, <1>5, SMTT(40), ZenonT(20)
<1>7. From(d, "ws")
  BY <1>3, <1>6 DEF From
<1>8. SubSeq(Image("ws"), m + 1, m + n) \in Seq(ImgCell)
  BY <1>2, Pieces, Zenon
<1> QED BY <1>3, <1>4, <1>6, <1>7, <1>8 DEF im

\* The history of accepted images.
LEMMA DoneKept ==
  ASSUME AcceptedExact, done' = done \/ done' = NotDone
  PROVE  AcceptedExact'
<1>1. CASE done' = done
  BY <1>1 DEF AcceptedExact
<1>2. CASE done' = NotDone
  BY <1>2 DEF AcceptedExact, NotDone
<1> QED BY <1>1, <1>2

\* Every step keeps what was received in order, and what was accepted exact.
LEMMA DataStep ==
  ASSUME ClearOfTrailer, DataInv, [Next]_vars
  PROVE  DataInv'
<1>f. FwInv'
  BY FwStep DEF DataInv
<1>i. /\ SlotInv /\ InOrder /\ AcceptedExact /\ From(v2, "udp") /\ v2 \in Seq(ImgCell)
      /\ crc \in Seq({"ws"} \X (1..N)) /\ wsPos \in 0..N /\ canPos \in 0..N
      /\ wsPos \in Int /\ canPos \in Int /\ N \in 0..N /\ 0 \in 0..N
  BY FwAssumption DEF DataInv, FwInv
<1>e. From(<<>>, "udp") /\ <<>> \in Seq({"ws"} \X (1..N))
  BY DEF From
<1>u. CASE UNCHANGED vars
  <2>1. InOrder'
    BY <1>i, <1>u, StillInOrder DEF vars, hostVars
  <2> QED BY <1>f, <1>i, <1>u, <2>1 DEF vars, hostVars, DataInv, AcceptedExact
<1>1. ASSUME NEW t \in Totals, NEW key, UdpStart(t, key) PROVE DataInv'
  <2>1. v2 = <<>> /\ Start("udp", session, t, key) /\ UNCHANGED <<v2, crc, wsPos, canPos>>
    BY <1>1 DEF UdpStart, UdpFree, hostVars
  <2>2. InOrder' /\ (done' = done \/ done' = NotDone)
    BY <1>i, <2>1, StartOpens, EmptyInOrder, StillInOrder, Zenon
  <2>3. AcceptedExact'
    BY <1>i, <2>2, DoneKept
  <2> QED BY <1>f, <1>i, <2>1, <2>2, <2>3 DEF DataInv
<1>2. ASSUME NEW t \in Totals, NEW key, WsStart(t, key) PROVE DataInv'
  <2>1. /\ Start("ws", session, t, key) /\ UNCHANGED <<v2, crc, canPos>>
        /\ wsPos' = IF session'.active /\ ~session.active THEN 0 ELSE N
    BY <1>2 DEF WsStart
  <2>2. InOrder' /\ (done' = done \/ done' = NotDone)
    <3>1. CASE ~Live' /\ done' = done
      BY <3>1, EmptyInOrder
    <3>2. CASE session' = session /\ session.active /\ UNCHANGED <<slot, writers, stream, done>>
      <4>1. wsPos' = N
        BY <2>1, <3>2
      <4> QED BY <1>i, <2>1, <3>2, <4>1, StillInOrder
    <3>3. CASE Received' = 0 /\ stream' = "ws" /\ done' = NotDone
      <4>1. ~V2Only'
        BY <3>3 DEF V2Only
      <4> QED BY <3>3, <4>1, EmptyInOrder
    <3> QED BY <1>i, <2>1, <3>1, <3>2, <3>3, StartOpens, Zenon
  <2>3. AcceptedExact'
    BY <1>i, <2>2, DoneKept
  <2> QED BY <1>f, <1>i, <2>1, <2>2, <2>3 DEF DataInv
<1>3. ASSUME NEW t \in Totals, CanStart(t) PROVE DataInv'
  <2>1. /\ Start("can", Abort, t, CanKey) /\ UNCHANGED <<v2, crc, wsPos>>
        /\ canPos' = IF session'.active THEN 0 ELSE N
    BY <1>3 DEF CanStart
  <2>2. ~Abort.active
    BY <1>i, AbortFacts DEF SlotInv
  <2>3. InOrder' /\ (done' = done \/ done' = NotDone)
    <3>1. CASE ~Live' /\ done' = done
      BY <3>1, EmptyInOrder
    <3>2. CASE Received' = 0 /\ stream' = "can" /\ done' = NotDone
      <4>1. ~V2Only'
        BY <3>2 DEF V2Only
      <4> QED BY <3>2, <4>1, EmptyInOrder
    <3> QED BY <1>i, <2>1, <2>2, <3>1, <3>2, StartOpens, Zenon
  <2>4. AcceptedExact'
    BY <1>i, <2>3, DoneKept
  <2> QED BY <1>f, <1>i, <2>1, <2>3, <2>4 DEF DataInv
<1>4. ASSUME NEW d \in Datagrams, UdpData(d) PROVE DataInv'
  <2>1. Write("udp", d) /\ UNCHANGED <<v2, crc, wsPos, canPos, done, stream>>
    BY <1>4 DEF UdpData, hostVars
  <2>2. d \in Seq(ImgCell) /\ Len(d) > 0 /\ From(d, "udp")
    BY DatagramCells
  <2>3. CASE WriteOk(d) /\ writers' = writers \union {"udp"}
    <3>1. ~V2Only'
      BY <2>3 DEF V2Only
    <3>2. "udp" \in Channel /\ "udp" # "ws" /\ "udp" # "can" /\ 0 \in Int
      BY DEF Channel
    <3> QED BY <1>i, <2>2, <2>3, <3>1, <3>2, <1>f, <2>1, WroteInOrder, Zenon DEF DataInv, AcceptedExact
  <2>4. CASE WriteFails(d) \/ WriteRejected(d)
    <3>1. InOrder'
      BY <1>i, <2>4, NotLive, EmptyInOrder
    <3> QED BY <1>f, <1>i, <2>1, <3>1 DEF DataInv, AcceptedExact
  <2> QED BY <2>1, <2>3, <2>4 DEF Write
<1>5. ASSUME NEW d \in Datagrams, UdpDataV2(d) PROVE DataInv'
  <2>1. /\ v2 = <<>> /\ Expected(d) /\ Write("udpv2", FirstPage(d)) /\ v2' = AfterPage(d)
        /\ UNCHANGED <<crc, wsPos, canPos, done, stream>>
    BY <1>5 DEF UdpDataV2, UdpFree, hostVars
  <2>2. /\ d \in Seq(ImgCell) /\ Len(d) > 0 /\ From(d, "udp") /\ d[1][2] \in Int
        /\ \A k \in 1..Len(d) : d[k] = <<"udp", d[1][2] + k - 1>>
    BY DatagramCells
  <2>3. ASSUME Live, V2Only PROVE UdpPrefix(Data \o d)
    <3>1. Received \in Nat /\ Len(Data) = Received /\ Data \in Seq(ImgCell)
      BY <1>i, <2>3, LiveFacts, DataFacts DEF InOrder
    <3>2. Data \o v2 = Data
      BY <2>1, <3>1
    <3>3. UdpPrefix(Data)
      BY <1>i, <2>3, <3>2 DEF InOrder
    <3>4. d[1][2] - 1 = Len(Data)
      BY <2>1, <3>1 DEF Expected
    <3>5. \A k \in 1..Len(d) : d[1][2] + k - 1 = Len(Data) + k
      <4> DEFINE o == d[1][2]
      <4>1. o \in Int /\ o - 1 = Received /\ Received \in Int /\ Len(d) \in Nat
        BY <2>2, <3>1, <3>4
      <4> HIDE DEF o
      <4>2. \A k \in 1..Len(d) : o + k - 1 = Received + k
        BY <4>1
      <4> QED BY <3>1, <4>2 DEF o
    <3>6. \A k \in 1..Len(d) : d[k] = <<"udp", Len(Data) + k>>
      BY <2>2, <3>5, Zenon
    <3> QED BY <2>2, <3>1, <3>3, <3>6, PrefixMore, Zenon
  <2>4. InOrder' /\ From(v2', "udp")
    BY <2>1, <2>2, <2>3, V2Step
  <2> QED BY <1>f, <1>i, <2>1, <2>4 DEF DataInv, AcceptedExact
<1>6. CASE UdpDataV2Next
  <2>1. /\ v2 # <<>> /\ Write("udpv2", FirstPage(v2)) /\ v2' = AfterPage(v2)
        /\ UNCHANGED <<crc, wsPos, canPos, done, stream>>
    BY <1>6 DEF UdpDataV2Next, hostVars
  <2>2. Len(v2) > 0
    BY <1>i, <2>1
  <2>3. Live /\ V2Only => UdpPrefix(Data \o v2)
    BY <1>i DEF InOrder
  <2>4. InOrder' /\ From(v2', "udp")
    BY <1>i, <2>1, <2>2, <2>3, V2Step
  <2> QED BY <1>f, <1>i, <2>1, <2>4 DEF DataInv, AcceptedExact
<1>7. CASE UdpEnd
  <2>1. Finish("udp", Image("udp")) /\ UNCHANGED <<v2, crc, wsPos, canPos>>
    BY <1>7 DEF UdpEnd, hostVars
  <2>2. InOrder' /\ AcceptedExact'
    BY <1>i, <2>1, FinishEnds, EmptyInOrder, FinishExact
  <2> QED BY <1>f, <1>i, <2>1, <2>2 DEF DataInv
<1>8. ASSUME NEW n \in 1..MaxFrame, WsData(n) PROVE DataInv'
  <2> DEFINE d == SubSeq(Image("ws"), wsPos + 1, wsPos + n)
  <2>1. /\ wsPos + n <= N /\ wsPos' = wsPos + n /\ UNCHANGED <<v2, canPos, done, stream>>
        /\ \/ WriteOk(d) /\ writers' = writers \union {"ws"} /\ crc' = crc \o d
           \/ (WriteFails(d) \/ WriteRejected(d)) /\ UNCHANGED <<writers, crc>>
    BY <1>8, Zenon DEF WsData
  <2>2. n \in Nat /\ n > 0
    BY FwAssumption
  <2>3. /\ d \in Seq(ImgCell) /\ d \in Seq({"ws"} \X (1..N)) /\ Len(d) = n /\ From(d, "ws")
        /\ \A k \in 1..Len(d) : d[k] = <<"ws", wsPos + k>>
    BY <1>i, <2>1, <2>2, WsCells, Zenon
  <2> HIDE DEF d
  <2>4. wsPos' \in 0..N
    BY <1>i, <2>1, <2>2, FwAssumption
  <2>5. CASE WriteOk(d) /\ writers' = writers \union {"ws"} /\ crc' = crc \o d
    <3>1. ~V2Only'
      BY <2>5, Zenon DEF V2Only
    <3>2. "ws" \in Channel /\ "ws" # "can" /\ wsPos <= wsPos /\ wsPos' = wsPos + Len(d) /\ Len(d) > 0
      BY <1>i, <2>1, <2>2, <2>3 DEF Channel
    <3>3. InOrder'
      BY <1>i, <2>3, <2>5, <3>1, <3>2, WroteInOrder, Zenon
    <3>4. crc' \in Seq({"ws"} \X (1..N))
      BY <1>i, <2>3, <2>5, SMTT(40), ZenonT(20)
    <3> QED BY <1>f, <1>i, <2>1, <2>4, <3>3, <3>4 DEF DataInv, AcceptedExact
  <2>6. CASE (WriteFails(d) \/ WriteRejected(d)) /\ UNCHANGED <<writers, crc>>
    <3>1. InOrder'
      BY <1>i, <2>6, NotLive, EmptyInOrder
    <3> QED BY <1>f, <1>i, <2>1, <2>4, <2>6, <3>1 DEF DataInv, AcceptedExact
  <2> QED BY <2>1, <2>5, <2>6
<1>9. CASE WsEnd
  <2>1. wsPos' = N /\ UNCHANGED <<v2, canPos>>
    BY <1>9 DEF WsEnd
  <2>2. CASE session' = Abort /\ UNCHANGED <<crc, done>>
    <3>1. ~Live'
      BY <1>i, <2>2, AbortFacts DEF Live, SlotInv
    <3>2. InOrder'
      BY <3>1, EmptyInOrder
    <3> QED BY <1>f, <1>i, <2>1, <2>2, <3>2 DEF DataInv, AcceptedExact
  <2>3. CASE Finish("ws", crc) /\ crc' = <<>>
    <3>1. InOrder' /\ AcceptedExact'
      BY <1>i, <2>3, FinishEnds, EmptyInOrder, FinishExact
    <3> QED BY <1>e, <1>f, <1>i, <2>1, <2>3, <3>1 DEF DataInv
  <2> QED BY <1>9, <2>2, <2>3 DEF WsEnd
<1>10. CASE WsGone
  <2>1. InOrder'
    BY <1>i, <1>10, StillInOrder DEF WsGone
  <2> QED BY <1>e, <1>f, <1>i, <1>10, <2>1 DEF WsGone, DataInv, AcceptedExact
<1>11. ASSUME NEW i, NEW bad, CanKeyFrame(i, bad) PROVE DataInv'
  <2>1. InOrder'
    BY <1>i, <1>11, StillInOrder DEF CanKeyFrame
  <2> QED BY <1>f, <1>i, <1>11, <2>1 DEF CanKeyFrame, DataInv, AcceptedExact
<1>12. ASSUME NEW i \in 1..N, CanData(i) PROVE DataInv'
  <2> DEFINE d == <<<<"can", i>>>>
  <2>1. i > canPos /\ canPos' = i /\ Write("can", d) /\ UNCHANGED <<v2, crc, wsPos, done, stream>>
    BY <1>12 DEF CanData
  <2>2. d \in Seq(ImgCell) /\ Len(d) = 1 /\ d[1] = <<"can", i>>
    BY Pieces
  <2> HIDE DEF d
  <2>3. /\ i - 1 \in Int /\ canPos <= i - 1 /\ canPos' = (i - 1) + Len(d) /\ canPos' \in 0..N
        /\ \A k \in 1..Len(d) : k = 1 /\ (i - 1) + k = i
    BY <1>i, <2>1, <2>2, FwAssumption
  <2>4. (\A k \in 1..Len(d) : d[k] = <<"can", (i - 1) + k>>) /\ From(d, "can")
    BY <2>2, <2>3 DEF From
  <2>5. CASE WriteOk(d) /\ writers' = writers \union {"can"}
    <3>1. ~V2Only'
      BY <2>5 DEF V2Only
    <3>2. "can" \in Channel /\ "can" # "ws" /\ Len(d) > 0
      BY <2>2 DEF Channel
    <3>3. InOrder'
      BY <1>i, <2>2, <2>3, <2>4, <2>5, <3>1, <3>2, WroteInOrder, Zenon
    <3> QED BY <1>f, <1>i, <2>1, <2>3, <3>3 DEF DataInv, AcceptedExact
  <2>6. CASE WriteFails(d) \/ WriteRejected(d)
    <3>1. InOrder'
      BY <1>i, <2>6, NotLive, EmptyInOrder
    <3> QED BY <1>f, <1>i, <2>1, <2>3, <3>1 DEF DataInv, AcceptedExact
  <2> QED BY <2>1, <2>5, <2>6 DEF Write
<1>13. CASE CanConfirm
  <2>1. Finish("can", NoCrc) /\ canPos' = N /\ UNCHANGED <<v2, crc, wsPos>>
    BY <1>13 DEF CanConfirm
  <2>2. InOrder' /\ AcceptedExact'
    BY <1>i, <2>1, FinishEnds, EmptyInOrder, FinishExact
  <2> QED BY <1>f, <1>i, <2>1, <2>2 DEF DataInv
<1>14. CASE Reset
  <2>1. session' = Idle /\ v2' = <<>> /\ crc' = <<>> /\ wsPos' = N /\ canPos' = N
        /\ (done' = done \/ done' = NotDone)
    BY <1>14 DEF Reset
  <2>2. ~Live'
    BY <2>1 DEF Live, Idle
  <2>3. InOrder' /\ AcceptedExact'
    BY <1>i, <2>1, <2>2, EmptyInOrder, DoneKept
  <2> QED BY <1>e, <1>f, <1>i, <2>1, <2>3 DEF DataInv
<1> QED
  BY <1>u, <1>1, <1>2, <1>3, <1>4, <1>5, <1>6, <1>7, <1>8, <1>9, <1>10, <1>11, <1>12, <1>13, <1>14
  DEF Next

\* It holds when the device starts.
LEMMA DataInit ==
  ASSUME Init
  PROVE  DataInv
<1>1. FwInv
  BY FwInit
<1>2. ~Live
  BY DEF Init, Idle, Live
<1>3. InOrder
  BY <1>2 DEF InOrder
<1>4. AcceptedExact
  BY DEF Init, NotDone, AcceptedExact
<1>5. From(v2, "udp") /\ crc \in Seq({"ws"} \X (1..N)) /\ wsPos \in 0..N /\ canPos \in 0..N
  BY FwAssumption DEF Init, From
<1> QED BY <1>1, <1>3, <1>4, <1>5 DEF DataInv

\* An image that finish() accepted on a CRC is the image of the channel that ended
\* the upload, whatever the other channels wrote into the session; so is one that
\* CAN alone sent.  Neither frames that the bus loses nor a CRC left over from an
\* aborted WebSocket upload get past it.
THEOREM AcceptedIsImage == ClearOfTrailer => (Spec => []AcceptedExact)
<1> SUFFICES ASSUME ClearOfTrailer PROVE Spec => []AcceptedExact
  OBVIOUS
<1>1. Init => DataInv
  BY DataInit
<1>2. DataInv /\ [Next]_vars => DataInv'
  BY DataStep
<1>3. DataInv => AcceptedExact
  BY DEF DataInv
<1> QED BY <1>1, <1>2, <1>3, PTL DEF Spec

\* A session that only DATA_V2 wrote into holds a prefix of the image: lost,
\* repeated and reordered datagrams, and the other tasks that run between two pages
\* of a datagram, leave no gap.
THEOREM V2LeavesNoGap == ClearOfTrailer => (Spec => []V2InOrder)
<1> SUFFICES ASSUME ClearOfTrailer PROVE Spec => []V2InOrder
  OBVIOUS
<1>1. Init => DataInv
  BY DataInit
<1>2. DataInv /\ [Next]_vars => DataInv'
  BY DataStep
<1>3. DataInv => V2InOrder
  <2> SUFFICES ASSUME DataInv, Live, V2Only
               PROVE  /\ Received <= N
                      /\ \A i \in 1..Received :
                           <<"udp", i>> = IF i <= session.written THEN slot[i - 1]
                                          ELSE session.page[i - session.written]
    BY DEF V2InOrder, Live, V2Only
  <2>1. /\ Data \in Seq(ImgCell) /\ UdpPrefix(Data \o v2) /\ v2 \in Seq(ImgCell)
        /\ Received \in Nat /\ Len(Data) = Received
        /\ \A i \in 1..Received :
              Data[i] = IF i <= session.written THEN slot[i - 1] ELSE session.page[i - session.written]
    BY LiveFacts, DataFacts DEF DataInv, FwInv, InOrder
  <2>2. /\ Len(Data \o v2) = Len(Data) + Len(v2) /\ Len(v2) \in Nat
        /\ \A i \in 1..Len(Data) : (Data \o v2)[i] = Data[i]
    <3>1. Len(v2) \in Nat
      BY <2>1
    <3>2. \A q, d \in Seq(ImgCell) : /\ Len(q \o d) = Len(q) + Len(d)
                                    /\ \A i \in 1..Len(q) : (q \o d)[i] = q[i]
      BY Joined
    <3> QED BY <2>1, <3>1, <3>2, Zenon
  <2>3. ASSUME NEW i \in 1..Received PROVE Data[i] = <<"udp", i>>
    <3>1. i \in 1..Len(Data \o v2) /\ i \in 1..Len(Data)
      BY <2>1, <2>2
    <3> QED BY <2>1, <2>2, <3>1 DEF UdpPrefix
  <2>4. Received <= N
    <3> SUFFICES ASSUME Received # 0 PROVE Received <= N
      BY <2>1, FwAssumption
    <3>1. Received \in 1..Received
      BY <2>1
    <3>2. Data[Received] = <<"udp", Received>> /\ Data[Received] \in ImgCell
      BY <2>1, <2>3, <3>1
    <3>3. Data[Received][2] = Received /\ Data[Received][2] \in 1..N
      BY <3>2, CellParts
    <3> QED BY <3>3, FwAssumption
  <2> QED BY <2>1, <2>3, <2>4
<1> QED BY <1>1, <1>2, <1>3, PTL DEF Spec

=============================================================================
