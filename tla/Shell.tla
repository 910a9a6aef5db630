------------------------------- MODULE Shell -------------------------------
(***************************************************************************)
(* The console: the DMA ring of uart_raw.rs, the line editor, history and  *)
(* completion of shell.rs, and the terminal that shows what they write.    *)
(*                                                                         *)
(* The bytes of a key arrive in the ring at once and are taken out one by  *)
(* one by shell_task.  A line buffer is an array with a NUL behind the     *)
(* text.  The commands are those of RegMap and Modbus: here running a line *)
(* only records it.                                                        *)
(***************************************************************************)
EXTENDS Integers, Sequences, FiniteSets
LOCAL INSTANCE SequencesExt
LOCAL INSTANCE FiniteSetsExt

CONSTANTS
  Char,      \* printable characters
  LINE_MAX,  \* size of the line buffer (96)
  HIST_MAX,  \* lines remembered (8)
  RX_RING,   \* bytes of the DMA ring (256)
  Tree,      \* ROOT_CMDS: the prefix-closed set of command paths
  Groups,    \* key sequences that are typed or pasted in one go
  MaxGroups  \* bound on them

Index == 0 .. LINE_MAX - 1
NUL == "NUL"
Empty == [i \in Index |-> NUL]

\* The bytes that a terminal sends for a key, and the key they mean.
Bytes(k) ==
  CASE k \in Char -> <<k>>
    [] k = "Up" -> <<"ESC", "[", "A">>
    [] k = "Down" -> <<"ESC", "O", "B">>
    [] k = "Right" -> <<"ESC", "[", "C">>
    [] k = "CtrlRight" -> <<"ESC", "[", "5", "C">>
    [] k = "Left" -> <<"ESC", "[", "D">>
    [] k = "Home" -> <<"ESC", "[", "H">>
    [] k = "CRLF" -> <<"CR", "LF">>
    [] OTHER -> <<k>>
Meaning(k) ==
  CASE k \in {"CR", "LF", "CRLF"} -> "Enter"
    [] k = "CtrlRight" -> "Right"
    [] k \in {"BS", "DEL"} -> "Backspace"
    [] k = "TAB" -> "Tab"
    [] k = "Home" -> "Other"
    [] OTHER -> k

VARIABLES
  ring, head, RX_COUNT,  \* the ring, where the DMA writes, bytes taken (mod RX_RING)
  ed,                    \* the locals of shell_task
  hist,                  \* struct Hist
  screen,                \* the terminal's last row
  ran,                   \* the line dispatched last
  dead,                  \* an index out of bounds has panicked
  typed, part, groups    \* keys under way, bytes taken of the first, groups so far

edVars == <<ed, hist, screen, ran, dead>>
vars == <<ring, head, RX_COUNT, edVars, typed, part, groups>>

-----------------------------------------------------------------------------
(* Arrays.                                                                 *)

Slice(a, i, j) == [k \in 1..j - i |-> a[i + k - 1]]
Copied(a, i, s) == [k \in Index |-> IF k \in i..i + Len(s) - 1 THEN s[k - i + 1] ELSE a[k]]
\* Up to the first NUL.
CStr(a) == Slice(a, 0, Min({LINE_MAX} \cup {i \in Index : a[i] = NUL}))

-----------------------------------------------------------------------------
(* struct Hist.                                                            *)

NewHist == [lines |-> [i \in 0..HIST_MAX - 1 |-> Empty], len |-> 0, newest |-> 0]

Store(h, s) ==
  LET cur == h.lines[h.newest]
      i   == (h.newest + 1) % HIST_MAX
  IN  IF h.len # 0 /\ Slice(cur, 0, Len(s)) = s /\ cur[Len(s)] = NUL
      THEN h
      ELSE [lines |-> [h.lines EXCEPT ![i] = Copied(Empty, 0, s)], newest |-> i,
            len |-> IF h.len < HIST_MAX THEN h.len + 1 ELSE h.len]

\* The line nav steps back, for nav < len.
Get(h, nav) == CStr(h.lines[(h.newest + HIST_MAX - nav) % HIST_MAX])

-----------------------------------------------------------------------------
(* The terminal: log::raw.  A row is its text and the cursor; on is FALSE  *)
(* while a log line of another task stands where the line was.             *)

FreshRow == [text |-> <<>>, col |-> 0, on |-> TRUE]
Put(r, s) ==
  IF ~r.on THEN r
  ELSE [r EXCEPT !.text = SubSeq(@, 1, r.col) \o s \o SubSeq(@, r.col + Len(s) + 1, Len(@)),
                 !.col = @ + Len(s)]
Redraw(e) == [text |-> Slice(e.line, 0, e.n), col |-> e.pos, on |-> TRUE]
Moved(r, d) == IF r.on THEN [r EXCEPT !.col = @ + d] ELSE r
\* "\b \b"
Rubbed(r) == Moved(Put(Moved(r, -1), <<" ">>), -1)

-----------------------------------------------------------------------------
(* Tab completion.                                                         *)

\* complete_level: the table is a path of the tree whose commands fit next.
NoTable == [some |-> FALSE, path |-> <<>>]
Table(p) == {q \in Tree : Front(q) = p}
Below(t, w) ==
  LET p == Append(t.path, w)
  IN  IF t.some /\ p \in Tree /\ Table(p) # {} THEN [some |-> TRUE, path |-> p] ELSE NoTable

\* The walk over line[..n]; word is where the word under way starts, or -1.
CompleteLevel(line, n) ==
  LET walk[i \in 0..n] ==
        IF i = 0 THEN [tbl |-> [some |-> TRUE, path |-> <<>>], word |-> -1]
        ELSE LET s == walk[i - 1]
                 blank == line[i - 1] = " "
             IN  CASE blank /\ s.word >= 0 ->
                        [tbl |-> Below(s.tbl, Slice(line, s.word, i - 1)), word |-> -1]
                   [] ~blank /\ s.word < 0 -> [s EXCEPT !.word = i - 1]
                   [] OTHER -> s
  IN  walk[n]

\* The bytes b written at line[n..] while n + left < LINE_MAX.
Fill(line, n, b, left) ==
  LET k == Min({Len(b), Max({0, LINE_MAX - left - n})})
  IN  [line |-> Copied(line, n, SubSeq(b, 1, k)), n |-> n + k]

CommonLen(v, w) == Max({k \in 0..Min({Len(v), Len(w)}) : SubSeq(v, 1, k) = SubSeq(w, 1, k)})

\* complete: what becomes of line, n and the row, and whether it panics.
Complete(e, r) ==
  LET lev  == CompleteLevel(e.line, e.n)
      word == IF lev.word < 0 THEN <<>> ELSE Slice(e.line, lev.word, e.n)
      cand == IF lev.tbl.some THEN {Last(q) : q \in {p \in Table(lev.tbl.path) : IsPrefix(word, Last(p))}}
              ELSE {}
      c0   == CHOOSE c \in cand : TRUE
      lcp  == Min({CommonLen(c0, c) : c \in cand})
      one  == Fill(e.line, e.n, SubSeq(c0, Len(word) + 1, Len(c0)), 2)
      many == Fill(e.line, e.n, SubSeq(c0, Len(word) + 1, lcp), 1)
      line == Copied(one.line, one.n, <<" ">>)
      \* the row, or the whole line below the list of candidates
      all  == Put(FreshRow, Slice(many.line, 0, many.n))
  IN  CASE cand = {} -> [line |-> e.line, n |-> e.n, row |-> r, panic |-> FALSE]
        [] Cardinality(cand) = 1 /\ one.n + 1 >= LINE_MAX ->
             [line |-> e.line, n |-> e.n, row |-> r, panic |-> TRUE]
        [] Cardinality(cand) = 1 /\ one.n + 1 < LINE_MAX ->
             [line |-> Copied(line, one.n + 1, <<NUL>>), n |-> one.n + 1,
              row |-> Put(r, Slice(line, e.n, one.n + 1)), panic |-> FALSE]
        [] Cardinality(cand) > 1 ->
             [line |-> Copied(many.line, many.n, <<NUL>>), n |-> many.n, row |-> all, panic |-> FALSE]

-----------------------------------------------------------------------------
(* shell_task.                                                             *)

Init ==
  /\ ring = [i \in 0..RX_RING - 1 |-> NUL] /\ head = 0 /\ RX_COUNT = 0
  /\ ed = [line |-> Empty, draft |-> Empty, n |-> 0, pos |-> 0, esc |-> 0, nav |-> -1,
           prev_cr |-> FALSE]
  /\ hist = NewHist /\ screen = FreshRow /\ ran = <<>> /\ dead = FALSE
  /\ typed = <<>> /\ part = 0 /\ groups = 0

\* rx_available
Available == IF head >= RX_COUNT THEN head - RX_COUNT ELSE RX_RING - RX_COUNT + head

\* A group of keys arrives; the line is never so fast that the ring laps.
Arrive(g) ==
  LET b == FlattenSeq([i \in 1..Len(g) |-> Bytes(g[i])])
  IN  /\ groups < MaxGroups /\ Available + Len(b) < RX_RING
      /\ ring' = [i \in 0..RX_RING - 1 |->
                    LET k == ((i + RX_RING - head) % RX_RING) + 1
                    IN  IF k <= Len(b) THEN b[k] ELSE ring[i]]
      /\ head' = (head + Len(b)) % RX_RING
      /\ typed' = typed \o g
      /\ groups' = groups + 1
      /\ UNCHANGED <<RX_COUNT, edVars, part>>

\* getchar: one byte leaves the ring, whose cell the model forgets.  The key under way ends with its last
\* byte, or never when the task panics.
Takes(panic) ==
  /\ ~dead /\ Available > 0
  /\ RX_COUNT' = (RX_COUNT + 1) % RX_RING
  /\ ring' = [ring EXCEPT ![RX_COUNT] = NUL]
  /\ CASE panic -> UNCHANGED <<typed, part>>
       [] ~panic /\ part + 1 = Len(Bytes(Head(typed))) -> typed' = Tail(typed) /\ part' = 0
       [] OTHER -> part' = part + 1 /\ UNCHANGED typed
  /\ UNCHANGED <<head, groups>>
Taken == Takes(FALSE)

Byte == ring[RX_COUNT]

\* The bytes of an escape sequence; an arrow ends one.
Arrow == ed.esc # 0 /\ Byte \in {"A", "B", "C", "D"}
Escape ==
  /\ Taken
  /\ ed.esc # 0 \/ Byte = "ESC"
  /\ ~Arrow
  /\ ed' = [ed EXCEPT !.esc = CASE ed.esc = 0 -> 1
                                [] ed.esc = 1 /\ Byte \in {"[", "O"} -> 2
                                [] ed.esc = 2 /\ Byte \in {"5", ";"} -> 2
                                [] OTHER -> 0]
  /\ UNCHANGED <<hist, screen, ran, dead>>

Sideways ==
  /\ Taken /\ Arrow /\ Byte \in {"C", "D"}
  /\ LET d == CASE Byte = "C" /\ ed.pos < ed.n -> 1
                [] Byte = "D" /\ ed.pos > 0 -> -1
                [] OTHER -> 0
     IN  /\ ed' = [ed EXCEPT !.pos = @ + d, !.esc = 0]
         /\ screen' = Moved(screen, d)
  /\ UNCHANGED <<hist, ran, dead>>

\* The line replaced by s, and redrawn.
Shows(e, s) ==
  LET f == [e EXCEPT !.line = Copied(Empty, 0, s), !.n = Len(s), !.pos = Len(s)]
  IN  ed' = f /\ screen' = Redraw(f)

HistoryUp ==
  /\ Taken /\ Arrow /\ Byte = "A"
  /\ LET e == [ed EXCEPT !.esc = 0,
                 !.draft = IF ed.nav < 0 THEN ed.line ELSE @,
                 !.nav = IF @ < 0 \/ @ + 1 < hist.len THEN @ + 1 ELSE @]
     IN  IF e.nav < hist.len THEN Shows(e, Get(hist, e.nav)) ELSE ed' = e /\ UNCHANGED screen
  /\ UNCHANGED <<hist, ran, dead>>

HistoryDown ==
  /\ Taken /\ Arrow /\ Byte = "B"
  /\ LET e == [ed EXCEPT !.esc = 0, !.nav = IF @ < 0 THEN @ ELSE @ - 1]
     IN  CASE ed.nav < 0 \/ e.nav >= hist.len -> ed' = e /\ UNCHANGED screen
           [] ed.nav >= 0 /\ e.nav < 0 -> Shows(e, CStr(ed.draft))
           [] e.nav >= 0 /\ e.nav < hist.len -> Shows(e, Get(hist, e.nav))
  /\ UNCHANGED <<hist, ran, dead>>

\* A byte outside of an escape sequence.
Plain(c) == Taken /\ ed.esc = 0 /\ Byte = c

\* The LF of a CR LF.
Swallow ==
  /\ Plain("LF") /\ ed.prev_cr
  /\ ed' = [ed EXCEPT !.prev_cr = FALSE]
  /\ UNCHANGED <<hist, screen, ran, dead>>

EndOfLine ==
  /\ Plain("CR") \/ (Plain("LF") /\ ~ed.prev_cr)
  /\ LET e == [ed EXCEPT !.prev_cr = Byte = "CR"]
         s == Slice(ed.line, 0, ed.n)
     IN  IF ed.n # 0
         THEN /\ hist' = Store(hist, s)
              /\ ran' = s
              /\ ed' = [e EXCEPT !.nav = -1, !.n = 0, !.pos = 0, !.line[0] = NUL]
         ELSE ed' = e /\ UNCHANGED <<hist, ran>>
  /\ screen' = FreshRow
  /\ UNCHANGED dead

\* Mutant: the NUL is not moved down.
DroppedOpen(e) ==
  [e EXCEPT !.line = Copied(@, e.pos - 1, Slice(@, e.pos, e.n)), !.n = @ - 1, !.pos = @ - 1]

\* The character before the cursor removed.
Dropped(e) ==
  [e EXCEPT !.line = [Copied(@, e.pos - 1, Slice(@, e.pos, e.n)) EXCEPT ![e.n - 1] = NUL],
            !.n = @ - 1, !.pos = @ - 1]

Erase ==
  /\ Plain("BS") \/ Plain("DEL")
  /\ LET e == [ed EXCEPT !.prev_cr = FALSE]
         f == Dropped(e)
     IN  IF ed.pos > 0
         THEN ed' = f /\ screen' = IF f.pos = f.n THEN Rubbed(screen) ELSE Redraw(f)
         ELSE ed' = e /\ UNCHANGED screen
  /\ UNCHANGED <<hist, ran, dead>>

\* Mutant: the cursor stays where it is.
ToEndNot(r, e) == r

\* The cursor goes to the end of the line before it is completed.
ToEnd(r, e) == Moved(r, e.n - e.pos)

Completion ==
  /\ ed.esc = 0 /\ Byte = "TAB"
  /\ LET c == Complete(ed, ToEnd(screen, ed))
     IN  /\ Takes(c.panic)
         /\ dead' = c.panic
         /\ IF c.panic THEN UNCHANGED <<ed, screen>>
            ELSE /\ ed' = [ed EXCEPT !.prev_cr = FALSE, !.line = c.line, !.n = c.n, !.pos = c.n]
                 /\ screen' = c.row
  /\ UNCHANGED <<hist, ran>>

Insertion ==
  /\ \E c \in Char : Plain(c)
  /\ LET e == [ed EXCEPT !.prev_cr = FALSE]
         f == [e EXCEPT !.line = [Copied(@, e.pos, <<Byte>> \o Slice(@, e.pos, e.n)) EXCEPT ![e.n + 1] = NUL],
                        !.n = @ + 1, !.pos = @ + 1]
     IN  IF ed.n + 2 < LINE_MAX
         THEN ed' = f /\ screen' = IF ed.pos = ed.n THEN Put(screen, <<Byte>>) ELSE Redraw(f)
         ELSE ed' = e /\ UNCHANGED screen
  /\ UNCHANGED <<hist, ran, dead>>

\* Another task logs a line: log::log writes it in one go, at the cursor.
LogLine ==
  /\ screen.on
  /\ screen' = [text |-> <<>>, col |-> 0, on |-> FALSE]
  /\ UNCHANGED <<ring, head, RX_COUNT, ed, hist, ran, dead, typed, part, groups>>

ShellTask ==
  \/ Escape \/ Sideways \/ HistoryUp \/ HistoryDown
  \/ Swallow \/ EndOfLine \/ Erase \/ Completion \/ Insertion

Next == ShellTask \/ LogLine \/ \E g \in Groups : Arrive(g)
Spec == Init /\ [][Next]_vars

-----------------------------------------------------------------------------
(* Properties.                                                             *)

\* A CR LF is one key, handled at its first byte.
Waiting == IF part = 1 /\ Head(typed) = "CRLF" THEN Tail(typed) ELSE typed

Editor == INSTANCE LineEditor WITH
  left <- Slice(ed.line, 0, ed.pos), right <- Slice(ed.line, ed.pos, ed.n),
  past <- [i \in 1..hist.len |-> Get(hist, i - 1)], at <- ed.nav + 1,
  saved <- CStr(ed.draft), queue <- [i \in 1..Len(Waiting) |-> Meaning(Waiting[i])]

\* The bytes, arrays and indices of the shell are an editor with a history: each
\* key, however its bytes arrive, is handled once and in order, with the effect
\* that LineEditor states (shell.rs shell_task, Hist, complete; uart_raw.rs).
EditorSpec == Editor!Spec

\* The terminal shows the line that Enter would run, with the cursor where the
\* next character goes, unless a log line has been written over it since the
\* last redraw (shell.rs redraw and the partial echoes of shell_task).
Trimmed(s) == SubSeq(s, 1, Max({0} \cup {i \in 1..Len(s) : s[i] # " "}))
ScreenExact ==
  screen.on => /\ Trimmed(screen.text) = Trimmed(Slice(ed.line, 0, ed.n))
               /\ screen.col = ed.pos

\* The line and its NUL fit into the buffer, whatever is typed ("includes NUL",
\* shell.rs LINE_MAX).
LineFits == ~dead /\ ed.n < LINE_MAX
=============================================================================
