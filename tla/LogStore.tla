------------------------------ MODULE LogStore ------------------------------
(***************************************************************************)
(* The log of the controller: the other threads put messages into a queue  *)
(* (LogService.c), and the logger thread writes them to flash              *)
(* (DataLogger.c).  A reading waits in a buffer in RAM until the buffer is *)
(* full, the flush period is over or a flush is asked for; an error is     *)
(* appended to its file at once; a start is counted in a file of its own   *)
(* and noted in the error log.                                             *)
(*                                                                         *)
(* Messages carry the number of their submission in place of their text.   *)
(* LittleFS is external: a file changes when it is closed, wholly or not   *)
(* at all.  DataLogger_RollDay is never called, so each kind of entry has  *)
(* one file.  A sender that may wait 50 ms is a sender that submits later. *)
(***************************************************************************)
EXTENDS Naturals, Sequences

CONSTANTS
    Depth,        \* LOGSERVICE_QUEUE_DEPTH
    BufSize,      \* CSV_BUF_SIZE
    LineSizes,    \* lengths a formatted reading may have
    MaxMessages,  \* bound on the number of messages
    MaxStarts,    \* bound on the number of starts
    Faults        \* the faults of this instance, a subset of FaultKinds

\* A power loss; flash that does not mount; a failed write of the start count,
\* or of a data or log file (a full flash, for instance).
FaultKinds == {"power", "mount", "count", "files"}

ASSUME SizesAssumption == /\ Depth \in Nat /\ BufSize \in Nat \ {0}
                          /\ LineSizes \subseteq 1..(BufSize - 1)
ASSUME BoundsAssumption == MaxMessages \in Nat /\ MaxStarts \in Nat
ASSUME FaultsAssumption == Faults \subseteq FaultKinds

VARIABLES
    pc,       \* what the logger thread is about to do, or "off"
    queue,    \* s_log_queue
    ready,    \* logger_ready
    due,      \* LOGSERVICE_FLUSH_PERIOD_MS have passed since last_flush_tick
    buf,      \* the readings in s_csv_buf
    len,      \* s_csv_len
    data,     \* flash: the readings of the data file
    errors,   \* flash: the errors of the log file
    starts,   \* flash: the counts of its BOOT lines
    meta,     \* flash: the boot_count of /meta.dat, 0 without one
    count,    \* s_meta.boot_count
    leaving,  \* the maintenance thread has asked for a flush and will reset
    next,     \* number of the next message
    failed    \* history: a data file could not be written since the start

buffer == <<buf, len, data, failed>>
boot == <<starts, meta, count>>
vars == <<pc, queue, ready, due, errors, leaving, next, buffer, boot>>

Kinds == {"reading", "error", "flush"}
Messages == [kind : Kinds, number : Nat]

-----------------------------------------------------------------------------
Init == /\ pc = "off" /\ queue = <<>> /\ ready = FALSE /\ due = FALSE
        /\ buf = <<>> /\ len = 0 /\ data = <<>> /\ failed = FALSE
        /\ errors = <<>> /\ starts = <<>> /\ meta = 0 /\ count = 0
        /\ leaving = FALSE /\ next = 1

\* A reset: RAM is lost, the files stay.
Off == /\ pc' = "off" /\ queue' = <<>> /\ ready' = FALSE /\ due' = FALSE
       /\ buf' = <<>> /\ len' = 0 /\ failed' = FALSE
       /\ count' = 0 /\ leaving' = FALSE
       /\ UNCHANGED <<data, errors, starts, meta, next>>

PowerLoss == pc # "off" /\ "power" \in Faults /\ Off

\* LogService_Init, and the threads start.
PowerOn == /\ pc = "off" /\ meta < MaxStarts
           /\ pc' = "init"
           /\ UNCHANGED <<queue, ready, due, errors, leaving, next, buffer, boot>>

(***************************************************************************)
(* The senders.                                                            *)
(***************************************************************************)
\* LogService_SubmitMessage: what does not fit is dropped.
Submit(kind) ==
    /\ pc # "off" /\ next <= MaxMessages
    /\ queue' = IF Len(queue) < Depth
                THEN Append(queue, [kind |-> kind, number |-> next])
                ELSE queue
    /\ next' = next + 1
    /\ UNCHANGED <<pc, ready, due, errors, buffer, boot>>

SubmitSensor == Submit("reading") /\ UNCHANGED leaving
SubmitErrorf == Submit("error") /\ UNCHANGED leaving

\* App_HandlePendingUpgrade and ota_prepare: the reset follows 20 ms or 50 ms
\* later, wherever the logger is by then.
HandlePendingUpgrade == ~leaving /\ Submit("flush") /\ leaving' = TRUE
UpgradeReset == leaving /\ Off

(***************************************************************************)
(* The logger thread starts: DataLogger_Init.                              *)
(***************************************************************************)
\* A write of v over old, which may fail.
Written(v, old, fault) == IF fault \in Faults THEN {v, old} ELSE {v}

MountFails == /\ pc = "init" /\ "mount" \in Faults
              /\ pc' = "recv"
              /\ UNCHANGED <<queue, ready, due, errors, leaving, next, buffer,
                             boot>>

\* Mutant of CountStart: the count is saved before it is incremented.
CountStartUnsaved == /\ pc = "init"
                     /\ count' = meta + 1
                     /\ meta' = meta
                     /\ pc' = "boot"
                     /\ UNCHANGED <<queue, ready, due, errors, leaving, next,
                                    buffer, starts>>

\* meta_load, boot_count++, meta_save
CountStart == /\ pc = "init"
              /\ count' = meta + 1
              /\ meta' \in Written(count', meta, "count")
              /\ pc' = "boot"
              /\ UNCHANGED <<queue, ready, due, errors, leaving, next, buffer,
                             starts>>

\* The line "BOOT count=n"; the logger is ready.
LogBoot == /\ pc = "boot"
           /\ starts' \in Written(Append(starts, count), starts, "files")
           /\ pc' = "recv" /\ ready' = TRUE
           /\ UNCHANGED <<queue, due, errors, leaving, next, buffer, meta, count>>

(***************************************************************************)
(* Its loop: one message, or a second without one, then the flush period.  *)
(***************************************************************************)
\* Mutant of Flush: the length is not reset.
FlushKeeps == /\ data' \in Written(data \o buf, data, "files")
              /\ failed' = (failed \/ (buf # <<>> /\ data' = data))
              /\ UNCHANGED <<buf, len>>

\* flush_csv_buffer: the buffer is cleared whatever became of the write.
Flush == /\ data' \in Written(data \o buf, data, "files")
         /\ failed' = (failed \/ (buf # <<>> /\ data' = data))
         /\ buf' = <<>> /\ len' = 0

Take(kind) == /\ pc = "recv" /\ pc' = "check"
              /\ queue # <<>> /\ queue' = Tail(queue)
              /\ ready /\ Head(queue).kind = kind
              /\ UNCHANGED <<ready, leaving, next, boot>>

\* Mutant of LogSensor: the room for the line itself is not checked.
LogSensorTight ==
    /\ Take("reading")
    /\ \E n \in LineSizes :
        \/ /\ len < BufSize
           /\ buf' = Append(buf, Head(queue).number) /\ len' = len + n
           /\ UNCHANGED <<data, failed>>
        \/ /\ len >= BufSize
           /\ data' \in Written(data \o buf, data, "files")
           /\ failed' = (failed \/ data' = data)
           /\ buf' = <<Head(queue).number>> /\ len' = n
    /\ UNCHANGED <<due, errors>>

\* DataLogger_LogSensor: a line that does not fit has the buffer flushed first.
LogSensor ==
    /\ Take("reading")
    /\ \E n \in LineSizes :
        \/ /\ len + n < BufSize
           /\ buf' = Append(buf, Head(queue).number) /\ len' = len + n
           /\ UNCHANGED <<data, failed>>
        \/ /\ len + n >= BufSize
           /\ data' \in Written(data \o buf, data, "files")
           /\ failed' = (failed \/ data' = data)
           /\ buf' = <<Head(queue).number>> /\ len' = n
    /\ UNCHANGED <<due, errors>>

\* DataLogger_LogError
LogError == /\ Take("error")
            /\ errors' \in Written(Append(errors, Head(queue).number), errors,
                                   "files")
            /\ UNCHANGED <<due, buffer>>

FlushAsked == /\ Take("flush")
              /\ Flush /\ due' = FALSE
              /\ UNCHANGED errors

\* Without flash the queue is only emptied.
Discard == /\ pc = "recv" /\ pc' = "check"
           /\ queue # <<>> /\ queue' = Tail(queue)
           /\ ~ready
           /\ UNCHANGED <<ready, due, errors, leaving, next, buffer, boot>>

RecvTimeout == /\ pc = "recv" /\ pc' = "check"
               /\ queue = <<>>
               /\ UNCHANGED <<queue, ready, due, errors, leaving, next, buffer,
                              boot>>

\* Mutant of FlushInTime: only a message has the period looked at.
FlushNever == /\ pc = "check" /\ pc' = "recv"
              /\ UNCHANGED <<queue, ready, due, errors, leaving, next, buffer,
                             boot>>

FlushInTime ==
    /\ pc = "check" /\ pc' = "recv"
    /\ IF ready /\ due THEN Flush /\ due' = FALSE ELSE UNCHANGED <<due, buffer>>
    /\ UNCHANGED <<queue, ready, errors, leaving, next, boot>>

FlushDue == /\ pc # "off" /\ ~due
            /\ due' = TRUE
            /\ UNCHANGED <<pc, queue, ready, errors, leaving, next, buffer, boot>>

-----------------------------------------------------------------------------
Logger == \/ MountFails \/ CountStart \/ LogBoot
          \/ LogSensor \/ LogError \/ FlushAsked \/ Discard
          \/ RecvTimeout \/ FlushInTime

Next == \/ PowerOn \/ PowerLoss
        \/ SubmitSensor \/ SubmitErrorf \/ HandlePendingUpgrade \/ UpgradeReset
        \/ Logger \/ FlushDue

Spec == Init /\ [][Next]_vars

\* The threads above the logger sleep between their turns, and time passes.
FairSpec == Spec /\ WF_vars(Logger) /\ WF_vars(FlushDue)

-----------------------------------------------------------------------------
\* Every variable has its type: the queue keeps its depth, and no line is
\* copied past the end of the buffer, whatever the lengths of the lines.
TypeOK == /\ pc \in {"off", "init", "boot", "recv", "check"}
          /\ queue \in Seq(Messages) /\ Len(queue) <= Depth
          /\ ready \in BOOLEAN /\ due \in BOOLEAN
          /\ leaving \in BOOLEAN /\ failed \in BOOLEAN
          /\ buf \in Seq(Nat) /\ len \in 0..(BufSize - 1)
          /\ data \in Seq(Nat) /\ errors \in Seq(Nat) /\ starts \in Seq(Nat)
          /\ meta \in Nat /\ count \in Nat /\ next \in Nat \ {0}

Increasing(s) == \A i, j \in DOMAIN s : i < j => s[i] < s[j]

\* Both files keep the order of submission and hold nothing twice, through
\* drops, flushes for three reasons, failed writes and restarts.
InOrder == Increasing(data) /\ Increasing(errors)

\* No two starts have the same count in the log, wherever the power is lost,
\* as long as the count itself can be saved.
StartsNumbered == "count" \notin Faults => Increasing(starts)

Held(n) == \/ \E i \in DOMAIN buf : buf[i] = n
           \/ \E i \in DOMAIN queue :
                queue[i] = [kind |-> "reading", number |-> n]
Stored(n) == \E i \in DOMAIN data : data[i] = n

\* A reading that was taken reaches flash, however few follow it, unless a
\* restart comes first or a write fails.
ReadingsStored ==
    \A n \in 1..MaxMessages :
        ready /\ Held(n) ~> Stored(n) \/ pc = "off" \/ failed
=============================================================================
