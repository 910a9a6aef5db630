----------------------------- MODULE HistoryFiles -----------------------------
(***************************************************************************)
(* The history files: samples go through QUEUE to the storage task, which  *)
(* appends them to the open data_*.raw file, rotates a full file, removes  *)
(* the oldest ones, and shares littlefs with the FTP and download handles. *)
(*                                                                         *)
(* Records are numbered in the order they are sampled.  make_hist_name has *)
(* no year in it, so a name is the time modulo a year and names compare    *)
(* like numbers.  `fate` follows every record.  littlefs keeps every open  *)
(* file in a list (mlist) through a node that lives in the opener's        *)
(* allocation cell: opening through a linked cell makes the list cyclic.   *)
(***************************************************************************)
EXTENDS Integers, Sequences, FiniteSets

CONSTANTS
  Year,       \* time units in a year
  Start,      \* time at which the behaviour begins
  MaxTime,    \* bound: time at which it ends
  MaxLen,     \* records in a file (HIST_FILE_MAX)
  MaxFiles,   \* HIST_MAX_FILES (10)
  NamesCap,   \* capacity of `names` in cleanup_old_files (12)
  QueueCap,   \* capacity of QUEUE (8)
  Slots,      \* allocation cells of FTP transfers and of the download
  Faults,     \* kinds of file system errors that are considered
  MaxFaults,  \* bound: errors in a behaviour
  MaxRecs     \* bound: records in a behaviour

\* A write, close or sync of the open file fails; the directory cannot be read for
\* the latest file; the retained file cannot be opened, or not written to after it
\* was; the new file cannot be created, or not written to; the directory cannot be
\* read for the cleanup, or a file not removed; an FTP upload cannot be closed; the
\* power goes during a rotation.
FaultKinds ==
  {"write", "close", "sync", "find", "reopen", "first", "create", "newfirst", "list", "remove",
   "slotclose", "power"}

ASSUME HistoryAssumption ==
  /\ Year \in Nat \ {0} /\ Start \in Nat /\ MaxTime \in Nat
  /\ MaxLen \in Nat \ {0} /\ MaxFiles \in Nat \ {0} /\ QueueCap \in Nat
  /\ NamesCap \in Nat /\ MaxFiles < NamesCap
  /\ Faults \subseteq FaultKinds /\ MaxFaults \in Nat /\ MaxRecs \in Nat
  /\ "hist" \notin Slots

VARIABLES
  clock,
  disk,      \* committed contents of the data_*.raw files
  file,      \* OPEN_FILE
  st,        \* HistState: the retained name
  slots,     \* the handles (dl, wr) each slot holds
  linked,    \* cells whose node is in mlist
  cyclic,    \* cells whose reuse has made mlist cyclic
  bad,       \* FS_BAD
  enabled,   \* holding register HISTORY_ENABLE
  paused,    \* fw::active()
  queue,     \* QUEUE
  fate,      \* what became of each record (history variable)
  promised,  \* records that the Sync of a requested reboot must store
  rebooting, \* progress of that Sync: "no", "asked" or "flushed"
  faults     \* bounded counter

fsVars == <<disk, file, st, linked, cyclic, bad, fate, faults>>
vars == <<clock, fsVars, slots, enabled, paused, queue, promised, rebooting>>

Name == 0..Year - 1
NoName == Year
NoFile == [name |-> NoName, len |-> 0, buf |-> <<>>, erred |-> FALSE, orphan |-> "no"]
IsOpen == file.name # NoName
Visible == IsOpen /\ file.orphan = "no"

Recs(s) == {s[i] : i \in DOMAIN s}
Held(d) == UNION {Recs(d[nm]) : nm \in DOMAIN d}
OnDisk == Held(disk)
Mark(f, rs, what) == [r \in DOMAIN f |-> IF r \in rs THEN what ELSE f[r]]
WithFile(d, nm) == [x \in DOMAIN d \union {nm} |-> IF x \in DOMAIN d THEN d[x] ELSE <<>>]
Without(d, names) == [x \in DOMAIN d \ names |-> d[x]]

\* A commit walks mlist: the storage task hangs once the list is cyclic.
Runs == cyclic = {}

\* The errors k happen in this step.
Fail(k) ==
  /\ k \subseteq Faults /\ faults + Cardinality(k) <= MaxFaults
  /\ faults' = faults + Cardinality(k)

-----------------------------------------------------------------------------
(* hist_write.                                                             *)

\* make_hist_name(now_epoch())
NewName == clock % Year

\* find_latest
Latest(d) == IF DOMAIN d = {} THEN NoName ELSE CHOOSE x \in DOMAIN d : \A y \in DOMAIN d : y <= x

\* Mutant of Removed: the newest names are taken for the oldest.
RemovedNewest(d) ==
  {nm \in DOMAIN d : Cardinality({x \in DOMAIN d : x > nm}) < Cardinality(DOMAIN d) - MaxFiles}

\* cleanup_old_files: littlefs lists a directory in name order.
Removed(d) ==
  LET n == Cardinality(DOMAIN d)
      seen == IF n < NamesCap THEN n ELSE NamesCap
  IN  {nm \in DOMAIN d : Cardinality({x \in DOMAIN d : x < nm}) < seen - MaxFiles}

\* What may go: the errors of the listing and of a removal are ignored.
Cleaned(d, k) ==
  IF "list" \in k THEN {{}}
  ELSE IF "remove" \in k THEN {Removed(d) \ {x} : x \in Removed(d)} ELSE {Removed(d)}

\* The fast path: the record goes into the cache of the open file.
WriteFast(r) ==
  /\ IsOpen /\ file.len < MaxLen
  /\ file' = [file EXCEPT !.len = @ + 1, !.buf = Append(@, r), !.erred = FALSE]
  /\ fate' = Mark(fate, {r}, IF Visible THEN "buffered" ELSE "orphaned")
  /\ UNCHANGED <<disk, st, linked, cyclic, bad, faults>>

\* The open file is full or the write failed; it is closed, if there is one.  A
\* file with an error is closed without storing what is buffered.
Slow(k) ==
  /\ ~IsOpen \/ file.len >= MaxLen \/ "write" \in k
  /\ "write" \in k => IsOpen /\ file.len < MaxLen
  /\ "close" \in k => IsOpen /\ ~file.erred /\ "write" \notin k
  /\ "find" \in k => st = NoName

Stored(k) == Visible /\ ~file.erred /\ k \intersect {"write", "close"} = {}

\* close_or_poison and lfs_file_close_: the node leaves mlist whatever the sync
\* returned (the comment at FS_BAD says that it stays on an error).
Unlinked == IF IsOpen THEN linked \ {"hist"} ELSE linked
Closed(k) == IF Stored(k) THEN [disk EXCEPT ![file.name] = @ \o file.buf] ELSE disk
ClosedFate(k) ==
  IF Visible THEN Mark(fate, Recs(file.buf), IF Stored(k) THEN "kept" ELSE "lost") ELSE fate

\* open_append: opened, one record appended and synced: the contents of the directory and the
\* handle afterwards.
\*   Mutant: the file is opened without O_APPEND.
AppendedAtStart(d, nm, r, k) == IF "sync" \in k THEN d ELSE [d EXCEPT ![nm] = <<r>>]

Appended(d, nm, r, k) == IF "sync" \in k THEN d ELSE [d EXCEPT ![nm] = Append(@, r)]
Handle(d, nm, r, k, removed) ==
  [name |-> nm, len |-> Len(d[nm]) + 1, buf |-> IF "sync" \in k THEN <<r>> ELSE <<>>,
   erred |-> "sync" \in k, orphan |-> IF nm \in removed THEN "retention" ELSE "no"]
NewFate(k) == IF "sync" \in k THEN "unsynced" ELSE "kept"

Retained(k) ==
  IF st # NoName THEN st ELSE IF "find" \in k THEN NoName ELSE Latest(Closed(k))
CanReopen(k) ==
  LET d == Closed(k) IN Retained(k) \in DOMAIN d /\ Len(d[Retained(k)]) < MaxLen
NotReopened(k) == Cardinality(k \intersect {"reopen", "first"}) = IF CanReopen(k) THEN 1 ELSE 0

\* Opening with a node that is still in mlist.
Cycle(again) == cyclic' = IF again THEN cyclic \union {"hist"} ELSE cyclic

\* open_append(.., false) on the retained or the latest name.
Reopen(r, k) ==
  LET d == Closed(k)
      nm == Retained(k)
  IN  /\ CanReopen(k)
      /\ k \intersect {"reopen", "first", "create", "newfirst", "list", "remove"} = {}
      /\ disk' = Appended(d, nm, r, k) /\ file' = Handle(d, nm, r, k, {}) /\ st' = nm
      /\ fate' = Mark(ClosedFate(k), {r}, NewFate(k))
      /\ linked' = linked \union {"hist"} /\ Cycle("hist" \in Unlinked)

\* A first write that failed has left the retained file open, and its cell linked.
Relinks(k) == "hist" \in Unlinked \/ "first" \in k

\* open_append(.., true) on a new name, then cleanup_old_files.
Create(r, k) ==
  LET nm == NewName
      d == WithFile(Closed(k), nm)
      all == Appended(d, nm, r, k)
  IN  /\ NotReopened(k) /\ k \intersect {"create", "newfirst"} = {} /\ ~({"list", "remove"} \subseteq k)
      /\ \E removed \in Cleaned(all, k) :
           /\ disk' = Without(all, removed) /\ file' = Handle(d, nm, r, k, removed)
           /\ fate' = Mark(Mark(ClosedFate(k), {r}, NewFate(k)),
                           UNION {Recs(all[x]) : x \in removed}, "retired")
      /\ st' = nm
      /\ linked' = linked \union {"hist"} /\ Cycle(Relinks(k))

\* The new file cannot be opened, or not written to: then it stays open, and
\* nothing is cleaned up.
NotCreated(r, k) ==
  LET nm == NewName
      d == WithFile(Closed(k), nm)
  IN  /\ NotReopened(k) /\ k \intersect {"sync", "list", "remove"} = {}
      /\ Cardinality(k \intersect {"create", "newfirst"}) = 1
      /\ IF "create" \in k
         THEN disk' = Closed(k) /\ file' = NoFile /\ linked' = Unlinked
         ELSE /\ disk' = d /\ linked' = linked \union {"hist"}
              /\ file' = [name |-> nm, len |-> Len(d[nm]), buf |-> <<>>, erred |-> TRUE, orphan |-> "no"]
      /\ st' = nm
      /\ fate' = Mark(ClosedFate(k), {r}, "lost") /\ Cycle(Relinks(k))

WriteSlow(r) ==
  \E k \in SUBSET (Faults \ {"slotclose", "power"}) :
    /\ Fail(k) /\ Slow(k)
    /\ bad' = (bad \/ "close" \in k)
    /\ Reopen(r, k) \/ Create(r, k) \/ NotCreated(r, k)

-----------------------------------------------------------------------------
(* The storage task: handle_cmd.                                           *)

Take(op) == Runs /\ queue # <<>> /\ Head(queue).op = op /\ queue' = Tail(queue)

MayWrite == enabled /\ ~paused /\ ~bad

DoWrite ==
  /\ Take("write")
  /\ LET r == Head(queue).rec IN
     IF MayWrite THEN WriteFast(r) \/ WriteSlow(r)
     ELSE fate' = Mark(fate, {r}, "lost") /\ UNCHANGED <<disk, file, st, linked, cyclic, bad, faults>>
  /\ UNCHANGED <<clock, slots, enabled, paused, promised, rebooting>>

\* CloseKeepName: the name is kept.
DoClose ==
  /\ Take("close")
  /\ \E k \in SUBSET (Faults \intersect {"close"}) :
       /\ Fail(k) /\ ("close" \in k => IsOpen /\ ~file.erred)
       /\ disk' = Closed(k) /\ fate' = ClosedFate(k) /\ file' = NoFile
       /\ linked' = Unlinked /\ bad' = (bad \/ "close" \in k)
  /\ UNCHANGED <<clock, st, cyclic, slots, enabled, paused, promised, rebooting>>

\* hist_sync: for Sync, and before a listing or an open for reading.  A file
\* with an error is not synced; errors are ignored.
HistSync(k) ==
  /\ "sync" \in k => Visible /\ ~file.erred
  /\ IF Visible /\ ~file.erred /\ "sync" \notin k
     THEN /\ disk' = Closed({}) /\ fate' = ClosedFate({})
          /\ file' = [file EXCEPT !.buf = <<>>]
     ELSE /\ file' = [file EXCEPT !.erred = @ \/ "sync" \in k] /\ UNCHANGED disk
          /\ fate' = IF "sync" \in k THEN Mark(fate, Recs(file.buf), "unsynced") ELSE fate
  /\ UNCHANGED <<st, cyclic>>

DoSync ==
  /\ Take("sync")
  /\ \E k \in SUBSET (Faults \intersect {"sync"}) : Fail(k) /\ HistSync(k)
  /\ rebooting' = "flushed"
  /\ UNCHANGED <<clock, linked, bad, slots, enabled, paused, promised>>

\* Del, FtpRemove, FtpRename: a name leaves the history.  If the file is open its
\* handle lives on without a directory entry.
DoRemove(nm) ==
  /\ Runs /\ nm \in DOMAIN disk
  /\ disk' = Without(disk, {nm})
  /\ IF Visible /\ file.name = nm
     THEN /\ file' = [file EXCEPT !.orphan = "user"]
          /\ fate' = Mark(fate, Recs(disk[nm]) \union Recs(file.buf), "deleted")
     ELSE file' = file /\ fate' = Mark(fate, Recs(disk[nm]), "deleted")
  /\ UNCHANGED <<clock, st, linked, cyclic, bad, faults, slots, enabled, paused, queue, promised,
                 rebooting>>

\* Mutant of HeldHandles: only the read handle is closed.
HeldHandlesRead(s) == slots[s] \intersect {"dl"}

\* slot_close_all and the first lines of file_open: what is closed before the
\* cell is used again.
HeldHandles(s) == slots[s]

\* ftp_open_read, ftp_open_write, file_open
DoOpen(s, h) ==
  \E k \in SUBSET (Faults \intersect {"slotclose", "sync"}), ok \in BOOLEAN :
    LET l == IF HeldHandles(s) # {} THEN linked \ {s} ELSE linked
        fenced == bad \/ "slotclose" \in k
    IN  /\ Runs /\ Fail(k) /\ ("slotclose" \in k => "wr" \in slots[s])
        /\ IF h = "dl" THEN HistSync(k \ {"slotclose"})
           ELSE "sync" \notin k /\ UNCHANGED <<disk, file, st, fate>>
        /\ bad' = fenced
        /\ IF ~fenced /\ ok
           THEN /\ slots' = [slots EXCEPT ![s] = {h}] /\ linked' = l \union {s}
                /\ cyclic' = IF s \in l THEN cyclic \union {s} ELSE cyclic
           ELSE slots' = [slots EXCEPT ![s] = {}] /\ linked' = l /\ UNCHANGED cyclic
        /\ UNCHANGED <<clock, enabled, paused, queue, promised, rebooting>>

\* ftp_close_write; ftp_read_chunk and file_chunk at the end of the file.
DoSlotClose(s, h) ==
  \E k \in SUBSET (Faults \intersect {"slotclose"}) :
    /\ Runs /\ h \in slots[s] /\ Fail(k) /\ ("slotclose" \in k => h = "wr")
    /\ slots' = [slots EXCEPT ![s] = @ \ {h}] /\ linked' = linked \ {s}
    /\ bad' = (bad \/ "slotclose" \in k)
    /\ UNCHANGED <<clock, disk, file, st, cyclic, fate, enabled, paused, queue, promised, rebooting>>

-----------------------------------------------------------------------------
(* The other tasks.                                                        *)

Cmd(op, r) == [op |-> op, rec |-> r]

TrySend(cmd) == queue' = IF Len(queue) < QueueCap THEN Append(queue, cmd) ELSE queue

\* di_task, ai_task: send_history_data
Sample ==
  LET r == Len(fate) + 1 IN
  /\ Len(fate) < MaxRecs
  /\ TrySend(Cmd("write", r))
  /\ fate' = Append(fate, IF Len(queue) < QueueCap THEN "queued" ELSE "lost")
  /\ UNCHANGED <<clock, disk, file, st, linked, cyclic, bad, faults, slots, enabled, paused,
                 promised, rebooting>>

\* A write of HISTORY_ENABLE: history_enable_write
SetHistory ==
  /\ enabled' = ~enabled
  /\ IF enabled THEN TrySend(Cmd("close", 0)) ELSE queue' = queue
  /\ UNCHANGED <<clock, fsVars, slots, paused, promised, rebooting>>

\* A firmware upgrade begins or ends.
Upgrade ==
  /\ paused' = ~paused
  /\ UNCHANGED <<clock, fsVars, slots, enabled, queue, promised, rebooting>>

\* Mutant of RebootSync: the Sync overtakes the commands that are waiting.
RebootSyncFirst == queue' = IF Len(queue) < QueueCap THEN <<Cmd("sync", 0)>> \o queue ELSE queue

RebootSync == TrySend(Cmd("sync", 0))

\* A reboot requested over the Modbus register, UDP, CAN, the shell's reboot or the
\* end of a firmware upload: Sync is queued first, and the reset comes after a delay
\* that does not depend on it.  The other requests (POST /api/reboot, the web's
\* REBOOT register, the factory resets of the web and the shell) queue none, and a
\* full queue drops it: they are no more than the Reset that follows.
RequestReboot ==
  /\ rebooting = "no" /\ Len(queue) < QueueCap
  /\ rebooting' = "asked" /\ RebootSync
  /\ promised' = {r \in DOMAIN fate : fate[r] \in {"queued", "buffered"}}
  /\ UNCHANGED <<clock, fsVars, slots, enabled, paused>>

\* What a reset finds on the flash: the committed files, or those of a rotation
\* that had not come to cleanup_old_files yet.
Rotating == queue # <<>> /\ Head(queue).op = "write" /\ MayWrite /\ Runs /\ Slow({}) /\ ~CanReopen({})
Rotated ==
  LET d == WithFile(Closed({}), NewName)
  IN  {Closed({}), d, Appended(d, NewName, Head(queue).rec, {})}

\* A requested reset, with or without a Sync handled before it, or any other: what
\* is not on the flash is lost.
Reset ==
  /\ \/ disk' = disk /\ UNCHANGED faults
     \/ Fail({"power"}) /\ Rotating /\ disk' \in Rotated
  /\ fate' = [r \in DOMAIN fate |->
                IF fate[r] \in {"queued", "buffered", "unsynced"}
                THEN IF r \in Held(disk') THEN "kept" ELSE "lost"
                ELSE fate[r]]
  /\ file' = NoFile /\ st' = NoName /\ linked' = {} /\ cyclic' = {} /\ bad' = FALSE
  /\ slots' = [s \in Slots |-> {}] /\ queue' = <<>> /\ paused' = FALSE
  /\ enabled' \in BOOLEAN
  /\ promised' = {} /\ rebooting' = "no"
  /\ UNCHANGED clock

\* tick_1hz
Tick ==
  /\ clock < MaxTime /\ clock' = clock + 1
  /\ UNCHANGED <<fsVars, slots, enabled, paused, queue, promised, rebooting>>

\* set_timestamp: the time is set over Modbus, UDP or the web.
SetTime(t) ==
  /\ clock' = t
  /\ UNCHANGED <<fsVars, slots, enabled, paused, queue, promised, rebooting>>

Init ==
  /\ clock = Start /\ disk = [x \in {} |-> <<>>] /\ file = NoFile /\ st = NoName
  /\ slots = [s \in Slots |-> {}] /\ linked = {} /\ cyclic = {} /\ bad = FALSE
  /\ enabled = TRUE /\ paused = FALSE /\ queue = <<>> /\ fate = <<>>
  /\ promised = {} /\ rebooting = "no" /\ faults = 0

Next ==
  \/ DoWrite \/ DoClose \/ DoSync
  \/ \E nm \in Name : DoRemove(nm)
  \/ \E s \in Slots, h \in {"dl", "wr"} : DoOpen(s, h) \/ DoSlotClose(s, h)
  \/ Sample \/ SetHistory \/ Upgrade \/ RequestReboot \/ Reset \/ Tick
  \/ \E t \in 0..MaxTime : SetTime(t)

Spec == Init /\ [][Next]_vars

-----------------------------------------------------------------------------
(* Properties.                                                             *)

\* No transfer is opened through an allocation cell whose node is still in mlist,
\* whatever has failed or was aborted: the list would become cyclic and the next
\* commit would not end.  The cell of the history file is never opened so either,
\* unless a call of littlefs has failed.
NoRelink == cyclic \subseteq {"hist"} /\ (cyclic # {} => faults > 0)

\* No file at all is opened so: what the fence is for, and what the failure of the
\* first write to a reopened file breaks.
NeverCyclic == cyclic = {}

\* A record that was synced stays on the flash, once and in order, until its
\* file is removed - through rotations, errors, reopening and resets.
SyncedKept ==
  /\ \A r \in DOMAIN fate : fate[r] = "kept" <=> r \in OnDisk
  /\ \A nm \in DOMAIN disk : \A i, j \in DOMAIN disk[nm] : i < j => disk[nm][i] < disk[nm][j]

\* The names that cleanup_old_files removes in a step, the new file's included.
RotatedOut ==
  (DOMAIN disk \ DOMAIN disk')
    \union (IF fate'[Head(queue).rec] = "retired" THEN {NewName} ELSE {})

\* Retention leaves at most HIST_MAX_FILES files, and one more per error or loss of
\* power; and it removes a file only while that many with greater names stay, however
\* the clock was set.
RetentionNewest ==
  [][/\ Cardinality(DOMAIN disk') <= MaxFiles + faults'
     /\ Take("write") => \A nm \in RotatedOut :
                           Cardinality({x \in DOMAIN disk' : x > nm}) >= MaxFiles]_vars

\* cleanup_old_files removes the oldest records: what there is on the flash is newer
\* than whatever was removed (the comment there: name order = time order).
RetentionOldest ==
  \A r \in DOMAIN fate : fate[r] = "retired" => \A s \in OnDisk : s > r

\* Once the Sync of a requested reboot has been handled, no reset loses a record
\* that was sampled before the request, but for those whose sync failed.
FlushSurvivesReset ==
  [][rebooting = "flushed" /\ rebooting' = "no" =>
       \A r \in promised : fate'[r] = "lost" => fate[r] \in {"lost", "unsynced"}]_vars
=============================================================================
