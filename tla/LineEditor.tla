----------------------------- MODULE LineEditor -----------------------------
(***************************************************************************)
(* What the console promises to the one who types: a line with a cursor, a *)
(* history of the last HIST_MAX lines, completion of the word being typed, *)
(* and the keys handled one by one in the order of typing.  There are no   *)
(* bytes, buffers or escape sequences here.                                *)
(***************************************************************************)
EXTENDS Integers, Sequences, FiniteSets
LOCAL INSTANCE SequencesExt
LOCAL INSTANCE FiniteSetsExt

CONSTANTS
  Char,      \* printable characters, " " among them
  LINE_MAX,  \* size of the line buffer
  HIST_MAX,  \* lines remembered
  Tree       \* the commands, as a prefix-closed set of paths of words

Key == Char \cup {"Enter", "Backspace", "Left", "Right", "Up", "Down", "Tab", "Other"}

VARIABLES
  left, right,  \* the text before and behind the cursor
  past,         \* the lines of the history, newest first
  at,           \* the line of the history shown, 0 for none
  saved,        \* the line typed before the history was entered
  queue,        \* keys typed and not yet handled
  ran           \* the line handed to the commands last

edVars == <<left, right, past, at, saved, ran>>
vars == <<edVars, queue>>

Init ==
  /\ left = <<>> /\ right = <<>> /\ past = <<>> /\ at = 0 /\ saved = <<>>
  /\ queue = <<>> /\ ran = <<>>

Text == left \o right
Show(t) == left' = t /\ right' = <<>>

-----------------------------------------------------------------------------
(* Completion.                                                             *)

\* The words of a text, the last of which is open when no blank follows it.
Starts(t) == {i \in 1..Len(t) : t[i] # " " /\ (i = 1 \/ t[i - 1] = " ")}
WordAt(t, i) ==
  SubSeq(t, i, Min({j \in i..Len(t) : j = Len(t) \/ t[j + 1] = " "}))
Words(t) == [k \in 1..Cardinality(Starts(t)) |->
               WordAt(t, CHOOSE i \in Starts(t) : Cardinality({j \in Starts(t) : j <= i}) = k)]
IsOpen(t) == t # <<>> /\ Last(t) # " "
Finished(t) == IF IsOpen(t) THEN Front(Words(t)) ELSE Words(t)
Typing(t) == IF IsOpen(t) THEN Last(Words(t)) ELSE <<>>

\* The commands that the open word may become.
Fitting(t) == {p[Len(p)] : p \in {q \in Tree : Front(q) = Finished(t) /\ IsPrefix(Typing(t), Last(q))}}

\* The longest text that all of the choices begin with.
Shared(S) ==
  LET w == CHOOSE v \in S : TRUE
  IN  SubSeq(w, 1, Max({k \in 0..Len(w) : \A v \in S : IsPrefix(SubSeq(w, 1, k), v)}))

\* As much of the rest of word w as fits into a text of m characters.
Grown(t, w, m) ==
  t \o SubSeq(w, Len(Typing(t)) + 1, Min({Len(w), Len(Typing(t)) + Max({m - Len(t), 0})}))

Completed(t) ==
  LET S == Fitting(t)
  IN  CASE S = {} -> t
        [] Cardinality(S) = 1 -> Append(Grown(t, Shared(S), LINE_MAX - 2), " ")
        [] OTHER -> Grown(t, Shared(S), LINE_MAX - 1)

-----------------------------------------------------------------------------
(* One key.                                                                *)

Insert(c) ==
  /\ left' = IF Len(Text) < LINE_MAX - 2 THEN Append(left, c) ELSE left
  /\ UNCHANGED <<right, past, at, saved, ran>>

Backspace ==
  /\ left' = IF left = <<>> THEN left ELSE Front(left)
  /\ UNCHANGED <<right, past, at, saved, ran>>

MoveLeft ==
  /\ IF left = <<>> THEN UNCHANGED <<left, right>>
     ELSE left' = Front(left) /\ right' = <<Last(left)>> \o right
  /\ UNCHANGED <<past, at, saved, ran>>

MoveRight ==
  /\ IF right = <<>> THEN UNCHANGED <<left, right>>
     ELSE left' = Append(left, Head(right)) /\ right' = Tail(right)
  /\ UNCHANGED <<past, at, saved, ran>>

\* An empty history is entered as well: the line is saved and stays.
Up ==
  /\ at' = IF at = 0 \/ at < Len(past) THEN at + 1 ELSE at
  /\ saved' = IF at = 0 THEN Text ELSE saved
  /\ IF at' <= Len(past) THEN Show(past[at']) ELSE UNCHANGED <<left, right>>
  /\ UNCHANGED <<past, ran>>

Down ==
  /\ at' = IF at = 0 THEN 0 ELSE at - 1
  /\ CASE at = 0 -> UNCHANGED <<left, right>>
       [] at = 1 -> Show(saved)
       [] at > 1 -> Show(past[at'])
  /\ UNCHANGED <<past, saved, ran>>

\* A line is remembered unless it repeats the one before; an empty line does
\* nothing, not even leave the history.
Enter ==
  /\ IF Text = <<>> THEN UNCHANGED edVars
     ELSE /\ past' = IF past # <<>> /\ past[1] = Text THEN past
                     ELSE SubSeq(<<Text>> \o past, 1, Min({HIST_MAX, Len(past) + 1}))
          /\ ran' = Text /\ at' = 0 /\ Show(<<>>) /\ UNCHANGED saved

Tab ==
  /\ Show(Completed(Text))
  /\ UNCHANGED <<past, at, saved, ran>>

Press(k) ==
  \/ k \in Char /\ Insert(k)
  \/ k = "Backspace" /\ Backspace
  \/ k = "Left" /\ MoveLeft
  \/ k = "Right" /\ MoveRight
  \/ k = "Up" /\ Up
  \/ k = "Down" /\ Down
  \/ k = "Enter" /\ Enter
  \/ k = "Tab" /\ Tab
  \/ k = "Other" /\ UNCHANGED edVars

Type == queue' \in Seq(Key) /\ IsPrefix(queue, queue') /\ UNCHANGED edVars
Handle == queue # <<>> /\ Press(Head(queue)) /\ queue' = Tail(queue)

Next == Handle \/ Type
Spec == Init /\ [][Next]_vars
=============================================================================
