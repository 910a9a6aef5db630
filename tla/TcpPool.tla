------------------------------- MODULE TcpPool -------------------------------
(***************************************************************************)
(* The fixed pool of FTP tasks and the rejector that turns away the client *)
(* after the last (ftpd.rs).  Timers are in ticks and due timers run       *)
(* before time goes on.                                                    *)
(***************************************************************************)
EXTENDS Integers, FiniteSets

CONSTANTS
  Slot,    \* serving tasks (three)
  WINDOW,  \* ticks the rejector listens before it looks again (50 ms)
  HOLD,    \* ticks behind a 421 (50 ms)
  POLL,    \* ticks between two looks at FTP_BUSY (5 ms)
  PAUSE    \* ticks between a session and the next listen (10 ms)

ASSUME PoolAssumption ==
  /\ IsFiniteSet(Slot) /\ Slot # {}
  /\ WINDOW \in Nat \ {0} /\ HOLD \in Nat \ {0} /\ POLL \in Nat \ {0} /\ PAUSE \in Nat \ {0}

VARIABLES
  FTP_BUSY,   \* occupied slots, as the code counts them
  pool,       \* "listen", "serve" or "pause" for each slot
  left,       \* ticks of its pause
  rej,        \* the rejector: "idle", "armed" (its socket listens), "hold"
  rejLeft,    \* ticks of its timer
  lingers,    \* its socket still carries a client that got the 421
  sinceFull   \* ticks since all slots were occupied (history)

poolVars == <<FTP_BUSY, pool, left, rej, rejLeft, lingers, sinceFull>>

N == Cardinality(Slot)
Serving == {s \in Slot : pool[s] = "serve"}

\* sinceFull is known up to WINDOW + 1 ticks; it is 0 while the pool is full.
Since(busy, t) == IF busy >= N THEN 0 ELSE t

PoolInit ==
  /\ FTP_BUSY = 0
  /\ pool = [s \in Slot |-> "listen"] /\ left = [s \in Slot |-> 0]
  /\ rej = "idle" /\ rejLeft = 0 /\ lingers = FALSE
  /\ sinceFull = WINDOW + 1

\* accept returned in ftp_task; fetch_add.
Take(s) ==
  /\ pool[s] = "listen"
  /\ pool' = [pool EXCEPT ![s] = "serve"]
  /\ FTP_BUSY' = FTP_BUSY + 1
  /\ sinceFull' = Since(FTP_BUSY', sinceFull)
  /\ UNCHANGED <<left, rej, rejLeft, lingers>>

\* Mutant of Leave: the count is not taken back.
LeaveCounted(s) ==
  /\ pool[s] = "serve"
  /\ pool' = [pool EXCEPT ![s] = "pause"] /\ left' = [left EXCEPT ![s] = PAUSE]
  /\ UNCHANGED <<FTP_BUSY, rej, rejLeft, lingers, sinceFull>>

\* session returned: fetch_sub, both sockets aborted, 10 ms.
Leave(s) ==
  /\ pool[s] = "serve"
  /\ pool' = [pool EXCEPT ![s] = "pause"] /\ left' = [left EXCEPT ![s] = PAUSE]
  /\ FTP_BUSY' = FTP_BUSY - 1
  /\ UNCHANGED <<rej, rejLeft, lingers, sinceFull>>

Relisten(s) ==
  /\ pool[s] = "pause" /\ left[s] = 0
  /\ pool' = [pool EXCEPT ![s] = "listen"]
  /\ UNCHANGED <<FTP_BUSY, left, rej, rejLeft, lingers, sinceFull>>

\* The loop of ftp_reject_task.  accept on a socket that still carries a client
\* fails at once, and that client is aborted.
Look ==
  /\ rej = "idle" /\ rejLeft = 0
  /\ \/ /\ FTP_BUSY >= N /\ ~lingers
        /\ rej' = "armed" /\ rejLeft' = WINDOW /\ UNCHANGED lingers
     \/ /\ FTP_BUSY >= N /\ lingers
        /\ lingers' = FALSE /\ UNCHANGED <<rej, rejLeft>>
     \/ /\ FTP_BUSY < N
        /\ rejLeft' = POLL /\ UNCHANGED <<rej, lingers>>
  /\ UNCHANGED <<FTP_BUSY, pool, left, sinceFull>>

\* A client reaches the rejector: 421, then 50 ms.
TurnAway ==
  /\ rej = "armed"
  /\ rej' = "hold" /\ rejLeft' = HOLD /\ lingers' = TRUE
  /\ UNCHANGED <<FTP_BUSY, pool, left, sinceFull>>

\* Mutant of Disarm: the wait starts again without a look at FTP_BUSY.
DisarmLatches ==
  /\ rej = "armed" /\ rejLeft = 0
  /\ rejLeft' = WINDOW
  /\ UNCHANGED <<FTP_BUSY, pool, left, rej, lingers, sinceFull>>

\* The 50 ms pass without a client: abort.
Disarm ==
  /\ rej = "armed" /\ rejLeft = 0
  /\ rej' = "idle"
  /\ UNCHANGED <<FTP_BUSY, pool, left, rejLeft, lingers, sinceFull>>

HoldEnds ==
  /\ rej = "hold" /\ rejLeft = 0
  /\ rej' = "idle"
  /\ UNCHANGED <<FTP_BUSY, pool, left, rejLeft, lingers, sinceFull>>

\* A timer that is due runs first.
Tick ==
  /\ rejLeft > 0 /\ \A s \in Slot : pool[s] = "pause" => left[s] > 0
  /\ rejLeft' = rejLeft - 1
  /\ left' = [s \in Slot |-> IF left[s] > 0 THEN left[s] - 1 ELSE 0]
  /\ sinceFull' = Since(FTP_BUSY, IF sinceFull <= WINDOW THEN sinceFull + 1 ELSE sinceFull)
  /\ UNCHANGED <<FTP_BUSY, pool, rej, lingers>>
=============================================================================
