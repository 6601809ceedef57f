------------------------------- MODULE DiagLog -------------------------------
(***************************************************************************)
(* The diagnostic log of one process (packages/agent/src/diag-log.ts): a    *)
(* queue of lines that a timer writes in batches to a file, which rotates   *)
(* through a few generations on machines that may refuse any operation on   *)
(* it.  Sizes count lines; a failing append may leave part of its batch.    *)
(***************************************************************************)
EXTENDS Integers

CONSTANTS
  MaxQueue,       \* MAX_QUEUE_LINES
  MaxFile,        \* MAX_FILE_BYTES
  Generations,    \* MAX_GENERATIONS
  Overflow,       \* OVERFLOW_MULTIPLE
  FlushRounds,    \* the rounds of flushDiagLog
  Disk            \* bound: how large a file gets, and how far a count of it is followed

\* A full queue and the line that confesses a loss fit in a file.
ASSUME DiagAssumption ==
  /\ MaxQueue \in Nat /\ MaxFile \in Nat /\ MaxQueue < MaxFile
  /\ Generations \in Nat \ {0} /\ Overflow \in Nat /\ FlushRounds \in Nat \ {0} /\ Disk \in Nat

Missing == -1

VARIABLES
  queue,     \* the lines that wait
  dropped,   \* lines were dropped since the last confession
  timer,     \* the flush is scheduled
  writing,   \* the write in flight: no, rotating, appending
  batch,     \* its lines
  size,      \* what the process believes the live file to hold
  file,      \* what the live file (0) and each generation hold
  rounds     \* flushDiagLog's, before an exit; -1 when there is none

diagVars == <<queue, dropped, timer, writing, batch, size, file, rounds>>

-----------------------------------------------------------------------------
(* The queue.                                                               *)

\* A timer, unless one is set or a write is in flight, which schedules again.
FlushScheduled == IF writing = "no" THEN TRUE ELSE timer

\* One line of the program's; a full queue takes none.
diag ==
  /\ IF queue >= MaxQueue
       THEN dropped' = TRUE /\ UNCHANGED <<queue, timer>>
       ELSE queue' = queue + 1 /\ timer' = FlushScheduled /\ UNCHANGED dropped
  /\ UNCHANGED <<writing, batch, size, file, rounds>>

\* The batch leaves the queue before anything is written.
Begun ==
  /\ writing' = IF size + queue > MaxFile THEN "rotating" ELSE "appending"
  /\ batch' = queue /\ queue' = 0

flush ==
  /\ timer /\ timer' = FALSE
  /\ IF writing = "no" /\ queue > 0 THEN Begun ELSE UNCHANGED <<writing, batch, queue>>
  /\ UNCHANGED <<dropped, size, file, rounds>>

\* What is in the live file; an append creates one.
Lines(f) == IF f[0] = Missing THEN 0 ELSE f[0]

\* A loss is confessed once a write succeeded.  What is in the queue by then is
\* scheduled.
WriteEnds(lines) ==
  /\ writing' = "no" /\ batch' = 0
  /\ queue' = lines /\ timer' = IF lines > 0 THEN TRUE ELSE timer

AppendBatch ==
  /\ writing = "appending"
  /\ Lines(file) + batch <= Disk /\ size + batch <= Disk
  /\ file' = [file EXCEPT ![0] = Lines(file) + batch]
  /\ size' = size + batch
  /\ dropped' = FALSE
  /\ WriteEnds(IF dropped THEN queue + 1 ELSE queue)
  /\ UNCHANGED rounds

AppendFails ==
  /\ writing = "appending"
  /\ \/ UNCHANGED file
     \/ \E part \in 1 .. batch :
          Lines(file) + part <= Disk /\ file' = [file EXCEPT ![0] = Lines(file) + part]
  /\ WriteEnds(queue)
  /\ UNCHANGED <<dropped, size, rounds>>

-----------------------------------------------------------------------------
(* Rotation.                                                                *)

\* The renames, from the oldest: those of moved succeed.  A rename replaces.
Shifted(moved) ==
  [i \in 0 .. Generations |->
     IF i \in moved THEN file[i - 1] ELSE IF i + 1 \in moved THEN Missing ELSE file[i]]
Movable == SUBSET {i \in 1 .. Generations : file[i - 1] # Missing}

\* The counter, derived from the file itself unless that fails.
Recounted(f, fails) == IF fails THEN size ELSE Lines(f)

Emptied(f) == [i \in 0 .. Generations |-> IF i = 0 THEN 0 ELSE f[i]]
Copied(f) == [i \in 0 .. Generations |-> IF i = 1 THEN f[0] ELSE f[i]]
Rotated(f, n) == file' = f /\ size' = n

\* The live file is emptied in place, or refuses that too.
Truncated(f) ==
  \/ f[0] # Missing /\ Rotated(Emptied(f), 0)
  \/ \E fails \in BOOLEAN : Rotated(f, Recounted(f, fails))

\* The live file stayed: its content is copied aside where no generation is
\* seen to stand, and it is emptied when some history is kept; when none is, not
\* before it has outgrown its bound several times.
\* Mutant: without a look at what is kept.
InPlace_Blind(f) == Truncated(f)
InPlace(f) ==
  \/ f[1] # Missing /\ Truncated(f)
  \/ f[0] # Missing /\ Truncated(Copied(f))
  \/ (\E i \in 2 .. Generations : f[i] # Missing) /\ Truncated(f)
  \/ \E fails \in BOOLEAN :
       IF Recounted(f, fails) >= MaxFile * Overflow THEN Truncated(f)
       ELSE Rotated(f, Recounted(f, fails))

Rotate ==
  /\ writing = "rotating" /\ writing' = "appending"
  /\ \E moved \in Movable :
       IF 1 \in moved THEN Rotated(Shifted(moved), 0) ELSE InPlace(Shifted(moved))
  /\ UNCHANGED <<queue, dropped, timer, batch, rounds>>

-----------------------------------------------------------------------------
(* The process and its surroundings.                                        *)

\* exitAfterDiagFlush: the timer is cleared, and whatever waits is written in a
\* bounded number of rounds; the wait for a write in flight uses one up as well.
Exit ==
  /\ rounds = -1 /\ rounds' = 0
  /\ timer' = FALSE
  /\ UNCHANGED <<queue, dropped, writing, batch, size, file>>
FlushRound ==
  /\ rounds \in 0 .. FlushRounds - 1 /\ rounds' = rounds + 1
  /\ \/ writing # "no" /\ UNCHANGED <<writing, batch, queue>>
     \/ writing = "no" /\ queue > 0 /\ Begun
  /\ UNCHANGED <<dropped, timer, size, file>>

\* The process ends, by its exit (whose wait has a limit) or otherwise, and
\* initDiagLog of the next one looks at the file.
NextProcess ==
  /\ queue' = 0 /\ dropped' = FALSE /\ timer' = FALSE /\ writing' = "no" /\ batch' = 0
  /\ size' = Lines(file) /\ rounds' = -1
  /\ UNCHANGED file

\* A virus scanner, or an operator, takes the live file away.
Quarantine ==
  /\ file' = [file EXCEPT ![0] = Missing]
  /\ UNCHANGED <<queue, dropped, timer, writing, batch, size, rounds>>

-----------------------------------------------------------------------------
DiagInit ==
  /\ queue = 0 /\ dropped = FALSE /\ timer = FALSE /\ writing = "no" /\ batch = 0
  /\ size = 0 /\ file = [i \in 0 .. Generations |-> Missing] /\ rounds = -1

DiagNext ==
  \/ diag \/ flush \/ AppendBatch \/ AppendFails \/ Rotate
  \/ Exit \/ FlushRound \/ NextProcess \/ Quarantine

DiagSpec == DiagInit /\ [][DiagNext]_diagVars
-----------------------------------------------------------------------------
DiagTypeOK ==
  /\ queue \in 0 .. MaxQueue + 1 /\ dropped \in BOOLEAN /\ timer \in BOOLEAN
  /\ writing \in {"no", "rotating", "appending"} /\ batch \in 0 .. MaxQueue + 1
  /\ size \in Nat /\ file \in [0 .. Generations -> {Missing} \cup Nat]
  /\ rounds \in -1 .. FlushRounds

\* A line in the queue is on its way: the timer is set, or a write will set it
\* when it ends, or an exit is about to write.
QueueIsServed == queue > 0 => timer \/ writing # "no" \/ rounds = 0

\* What the log is kept for: something is recorded in one of its files.
Kept(f) == \E i \in 0 .. Generations : f[i] > 0
Overgrown == size >= MaxFile * Overflow \/ file[0] >= MaxFile * Overflow

\* A rotation may cost a generation but never all there is, whatever the machine
\* refuses, unless the live file holds it all and has outgrown its bound.
EvidenceKept ==
  [][writing = "rotating" /\ writing' = "appending" /\ Kept(file)
       => Kept(file') \/ Overgrown]_diagVars
=============================================================================
