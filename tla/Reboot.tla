------------------------------- MODULE Reboot -------------------------------
(***************************************************************************)
(* The ways the device restarts and the clocks they run on: the heartbeat  *)
(* task with its delayed-reboot polls and its one-second tick (main.rs,    *)
(* appstate.rs, reboot.rs, systime.rs), the UDP configuration commands     *)
(* REBOOT and FACTORY_RESET with the inline reset of udp_task              *)
(* (udp_cfg.rs, net.rs), POST /api/reboot (httpd.rs), the REBOOT register  *)
(* (regmap.rs) and the CAN REBOOT command (fw_can.rs).                     *)
(*                                                                         *)
(* Time is counted in units (50 ms in the instances).  A task whose timer  *)
(* has expired runs at most Late units later: other tasks of the           *)
(* cooperative executor may be running until then.                         *)
(***************************************************************************)
EXTENDS Integers

CONSTANTS
  Wrap,       \* now_ms() counts 0 .. Wrap - 1 and starts again
  Word,       \* the range of the u32 in which it is subtracted
  Beat,       \* period of the heartbeat (100 ms)
  SecBeats,   \* beats per second of the epoch (10)
  Cold,       \* reboot::cold (100 ms)
  Grace,      \* appstate::set_reboot_status (250 ms)
  WebDelay,   \* POST /api/reboot (150 ms)
  CanDrain,   \* CAN REBOOT before the history flush (100 ms)
  CanFlush,   \* and after it (500 ms)
  Window,     \* confirmation window of FACTORY_RESET (5000 ms)
  Late,       \* bound on how late an expired timer is served
  MaxReqs,    \* bound on the requests served between two resets
  MaxTime     \* bound on the uptime explored

ASSUME TimingAssumption ==
  /\ {Wrap, Word, Beat, SecBeats, Cold, Grace} \subseteq Nat \ {0}
  /\ {WebDelay, CanDrain, CanFlush, Window, Late, MaxReqs,
      MaxTime} \subseteq Nat
  /\ 2 * (Wrap + Cold) <= Word
  /\ Cold <= CanDrain + CanFlush
  /\ Window < Wrap

VARIABLES
  now,        \* Instant::now(), time since boot
  beat,       \* when the heartbeat's ticker fires next
  ticks,      \* the heartbeat's beat counter, modulo SecBeats
  epoch,      \* EPOCH, as seconds since boot
  deadline,   \* DEADLINE_MS, 0 when none
  rebootAt,   \* REBOOT_AT
  udp,        \* udp_task: what it awaits and until when
  factory,    \* factory_pending_ms
  pending,    \* reboot_pending or factory_reboot_pending
  web,        \* the HTTP task that serves /api/reboot
  can,        \* the CAN task that serves REBOOT
  asked,      \* time of the latest FACTORY_RESET datagram, for the properties
  erased,     \* FACTORY_RESET has erased the configuration since boot
  first, last,\* times of the first and latest reboot request since boot
  reqs        \* requests served since boot, for the bound

vars == <<now, beat, ticks, epoch, deadline, rebootAt, udp, factory, pending,
          web, can, asked, erased, first, last, reqs>>
udpVars == <<udp, factory, pending, asked, erased>>
beatVars == <<beat, ticks, epoch>>

NoTime == -1
Waits(pc, t) == [pc |-> pc, until |-> t]
Idle == Waits("idle", NoTime)

Init ==
  /\ now = 0 /\ beat = Beat /\ ticks = 0 /\ epoch = 0
  /\ deadline = 0 /\ rebootAt = NoTime
  /\ udp = Idle /\ factory = 0 /\ pending = FALSE
  /\ web = Idle /\ can = Idle
  /\ asked = NoTime /\ erased = FALSE /\ first = NoTime /\ last = NoTime
  /\ reqs = 0

\* A reset: every task starts again from main().
Reboots ==
  /\ now' = 0 /\ beat' = Beat /\ ticks' = 0 /\ epoch' = 0
  /\ deadline' = 0 /\ rebootAt' = NoTime
  /\ udp' = Idle /\ factory' = 0 /\ pending' = FALSE
  /\ web' = Idle /\ can' = Idle
  /\ asked' = NoTime /\ erased' = FALSE /\ first' = NoTime /\ last' = NoTime
  /\ reqs' = 0

\* A reboot has been promised to a client.
Requested == /\ first' = IF first = NoTime THEN now ELSE first
             /\ last' = now
Unrequested == UNCHANGED <<first, last>>

\* A client's request is served.
Serves == reqs < MaxReqs /\ reqs' = reqs + 1
-----------------------------------------------------------------------------
\* reboot::now_ms and net::now_ms32: the tick counter is cut to 32 bits before
\* it is divided, so the result wraps long before the range of its type does.
NowMs == now % Wrap
WrappingSub(a, b) == (a - b) % Word

\* reboot::schedule_delayed_ms and reboot::due
Schedule == deadline' = (NowMs + Cold) % Word

DueExactly(d) == d # 0 /\ NowMs = d
DueNoSentinel(d) == WrappingSub(NowMs, d) < Word \div 2
Due(d) ==
  /\ d # 0
  /\ WrappingSub(NowMs, d) < Word \div 2

\* ticker.next(): the next beat is one period after this one, however late
\* this one is served.
NextBeatDrifting == now + Beat
NextBeat == beat + Beat

\* Beats are counted modulo a second: the watchdog, the link poll and the LED
\* use other multiples of the same count.
Counted == (ticks + 1) % SecBeats

\* One pass of the heartbeat loop: the delayed requests, the reset when it is
\* due, otherwise the one-second tick.
Heartbeat ==
  /\ now >= beat
  /\ LET granted == rebootAt # NoTime /\ now >= rebootAt
     IN \/ /\ ~granted /\ Due(deadline)
           /\ Reboots
        \/ /\ granted \/ ~Due(deadline)
           /\ IF granted THEN Schedule ELSE UNCHANGED deadline
           /\ rebootAt' = IF granted THEN NoTime ELSE rebootAt
           /\ beat' = NextBeat
           /\ ticks' = Counted
           /\ epoch' = IF ticks' = 0 THEN epoch + 1 ELSE epoch
           /\ Unrequested
           /\ UNCHANGED <<reqs, now, udpVars, web, can>>

\* set_reboot_status(true): the WebSocket's reboot register, factory reset and
\* end of upload, and the shell's reboot and io factory.
SetRebootStatus ==
  /\ Serves
  /\ rebootAt' = now + Grace
  /\ Requested
  /\ UNCHANGED <<now, beatVars, deadline, udpVars, web, can>>

\* RegHooks::reboot_cold, from a write to the REBOOT register.
RebootCold ==
  /\ Serves
  /\ Schedule
  /\ Requested
  /\ UNCHANGED <<now, beatVars, rebootAt, udpVars, web, can>>
-----------------------------------------------------------------------------
\* POST /api/reboot answers, waits, and then asks for the cold reboot.
ApiReboot ==
  /\ Serves
  /\ web = Idle
  /\ web' = Waits("delay", now + WebDelay)
  /\ Requested
  /\ UNCHANGED <<now, beatVars, deadline, rebootAt, udpVars, can>>

ApiRebootCold ==
  /\ web.pc = "delay" /\ now >= web.until
  /\ web' = Idle
  /\ Schedule
  /\ Unrequested
  /\ UNCHANGED <<reqs, now, beatVars, rebootAt, udpVars, can>>

\* CAN REBOOT: drain, flush, reset inline.
CanReboot ==
  /\ Serves
  /\ can = Idle
  /\ can' = Waits("drain", now + CanDrain)
  /\ Requested
  /\ UNCHANGED <<now, beatVars, deadline, rebootAt, udpVars, web>>

CanSync ==
  /\ can.pc = "drain" /\ now >= can.until
  /\ can' = Waits("flush", now + CanFlush)
  /\ Unrequested
  /\ UNCHANGED <<reqs, now, beatVars, deadline, rebootAt, udpVars, web>>

CanReset ==
  /\ can.pc = "flush" /\ now >= can.until
  /\ Reboots
-----------------------------------------------------------------------------
\* The reply to a datagram is handed to the socket, which may make the task
\* wait.
Replying == udp' = Waits("reply", NoTime)

UdpReboot ==
  /\ Serves
  /\ udp = Idle
  /\ pending' = TRUE
  /\ Replying /\ Unrequested
  /\ UNCHANGED <<now, beatVars, deadline, rebootAt, factory, asked, erased,
                 web, can>>

\* UdpCfgState::factory_reset: the second command within the window erases.
\* factory_confirmed is set and cleared in the same call.
ConfirmsAnyLater == factory # 0 \/ WrappingSub(NowMs, factory) <= Window
Confirms == WrappingSub(NowMs, factory) <= Window

UdpFactoryReset ==
  /\ Serves
  /\ udp = Idle
  /\ IF Confirms
     THEN /\ erased' = TRUE
          /\ pending' = TRUE
          /\ UNCHANGED factory
     ELSE /\ factory' = NowMs
          /\ UNCHANGED <<erased, pending>>
  /\ asked' = now
  /\ Replying /\ Unrequested
  /\ UNCHANGED <<now, beatVars, deadline, rebootAt, web, can>>

\* Every other command that is answered.
UdpOther ==
  /\ udp = Idle
  /\ Replying /\ Unrequested
  /\ UNCHANGED <<reqs, now, beatVars, deadline, rebootAt, factory, pending,
                 asked, erased, web, can>>

\* The reply has left: take_reboot_pending decides whether the task goes
\* silent until the reset.
UdpSent ==
  /\ udp.pc = "reply"
  /\ pending' = FALSE
  /\ IF pending THEN udp' = Waits("silent", now + Cold) /\ Requested
                ELSE udp' = Idle /\ Unrequested
  /\ UNCHANGED <<reqs, now, beatVars, deadline, rebootAt, factory, asked,
                 erased, web, can>>

UdpReset ==
  /\ udp.pc = "silent" /\ now >= udp.until
  /\ Reboots
-----------------------------------------------------------------------------
\* Time passes, as long as no expired timer has waited longer than Late.
InTime(t) == t = NoTime \/ now < t + Late

Tick ==
  /\ now < MaxTime
  /\ InTime(beat) /\ InTime(udp.until) /\ InTime(web.until) /\ InTime(can.until)
  /\ now' = now + 1
  /\ Unrequested
  /\ UNCHANGED <<reqs, beatVars, deadline, rebootAt, udpVars, web, can>>

Next ==
  \/ Tick \/ Heartbeat \/ SetRebootStatus \/ RebootCold
  \/ ApiReboot \/ ApiRebootCold
  \/ CanReboot \/ CanSync \/ CanReset
  \/ UdpReboot \/ UdpFactoryReset \/ UdpOther \/ UdpSent \/ UdpReset

Spec == Init /\ [][Next]_vars
-----------------------------------------------------------------------------
\* The longest a promised reboot may take: the slower of the delayed request
\* (granted at one beat, due at a later one) and the CAN command.
Poll == Beat - 1 + Late
Bigger(a, b) == IF a > b THEN a ELSE b
RebootBound ==
  Bigger(Bigger(Grace + Poll + Cold + Poll, CanDrain + Late + CanFlush + Late),
         WebDelay + Late + Cold + Poll)

\* now_ms does not wrap between times s and t.
NoWrap(s, t) == s \div Wrap = t \div Wrap

\* Once a reboot has been promised on any channel, the device has restarted
\* before RebootBound has passed since the latest promise, whatever the other
\* channels ask for in between: requests overwrite the one deadline and the
\* one REBOOT_AT they share, and none of them gets lost (appstate.rs
\* reboot_due, reboot.rs due, net.rs udp_task).  The exception is a promise
\* with a wrap of now_ms in that time, whose deadline may lie behind the last
\* value that now_ms takes.  A deadline lost at an earlier wrap does not delay
\* the next promise.
RebootInTime ==
  last # NoTime /\ NoWrap(last, last + RebootBound) => now - last <= RebootBound

\* Without the exception, as reboot.rs has it ("wraps safely via
\* wrapping_sub"): false, now_ms wraps at a number that is no power of two.
RebootAlwaysInTime == last # NoTime => now - last <= RebootBound

\* The device restarts only on request, and the first request leaves the
\* Cold delay for its reply to reach the wire (reboot.rs: "short delay (100ms)
\* so the UDP reply can leave the device first").
NoEarlyReset == [][now' < now => first # NoTime /\ now - first >= Cold]_vars

\* When the confirmation window was last opened: by the latest FACTORY_RESET,
\* or at power-up, where a single command is enough.
Opened == IF asked = NoTime THEN 0 ELSE asked

\* FACTORY_RESET erases only within the confirmation window behind an earlier
\* FACTORY_RESET or power-up, or in the same window any number of wraps of
\* now_ms later (udp_cfg.rs factory_reset).
FactoryTwoStep ==
  [][erased' /\ ~erased =>
       \E k \in 0 .. now \div Wrap : now - Opened \in k * Wrap .. k * Wrap + Window]_vars

\* Without the windows that the wrap opens again: false, one command is enough
\* at any wrap.
FactoryAlwaysTwoStep == [][erased' /\ ~erased => now - Opened <= Window]_vars

\* The epoch keeps pace with real time although beats are served late: the
\* heartbeat derives the second from a ticker, and late beats do not add up
\* (main.rs heartbeat, systime.rs tick_1hz).
EpochKeepsPace ==
  /\ epoch * SecBeats * Beat <= now
  /\ now < (epoch + 1) * SecBeats * Beat + Late + 1
=============================================================================
