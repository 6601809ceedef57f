--------------------------- MODULE ConnectionProofs ---------------------------
(***************************************************************************)
(* The relay connection and what the agent keeps beside it: what a connection *)
(* leaves behind, the queue and the files of its diagnostic log, the names of  *)
(* screenshots.  For any number of transfers and jobs, every size of queue,    *)
(* file and history, every list of displays.                                  *)
(***************************************************************************)
EXTENDS Connection, DiagLog, Screenshot, FiniteSetTheorems, TLAPS

-----------------------------------------------------------------------------
(* What a connection leaves behind.                                         *)

Timer == {"dead", "reauth", "debounce", "reconcile", "screen", "gpu", "app", "jobs", "poll"}
TransferState ==
  [pc : {"none", "sending", "fetching", "writing", "dressing"}, aborted : BOOLEAN]
Work == [armed : SUBSET Timer, command : BOOLEAN, xfer : [Transfer -> TransferState]]
Link == [pc : {"down", "connecting", "open", "closing", "cut"}, settled : BOOLEAN]

LinkTypeOK ==
  /\ link \in Link
  /\ work \in Work
  /\ disk \in [replaced : BOOLEAN, part : BOOLEAN]

\* Nothing is armed or running, and what winds up has been told to.
Still(w) ==
  /\ w.armed = {} /\ ~w.command
  /\ \A t \in Transfer : w.xfer[t].pc # "none" => w.xfer[t].aborted

\* A settled connection never arms again what its last handler would not stop: this
\* is why one handler suffices that stops everything but those two.
LinkInv ==
  /\ LinkTypeOK
  /\ ~disk.replaced
  /\ link.pc \in {"down", "cut"} => link.settled
  /\ link.pc = "connecting" => ~link.settled
  /\ ~Receiving => Still(work)
  /\ link.settled => work.armed \cap {"reauth", "reconcile"} = {}

LEMMA LinkFacts ==
  ASSUME LinkInv
  PROVE  /\ link.pc \in {"down", "connecting", "open", "closing", "cut"} /\ link.settled \in BOOLEAN
         /\ link = [pc |-> link.pc, settled |-> link.settled]
         /\ work = [armed |-> work.armed, command |-> work.command, xfer |-> work.xfer]
         /\ work.armed \subseteq Timer
         /\ work.command \in BOOLEAN
         /\ work.xfer \in [Transfer -> TransferState]
         /\ disk.replaced = FALSE /\ disk.part \in BOOLEAN
BY DEF LinkInv, LinkTypeOK, Link, Work

\* Every transfer is told to stop, whatever it was doing.
LEMMA AbortedIsTold ==
  ASSUME NEW w \in Work
  PROVE  /\ Aborted(w) \in [Transfer -> TransferState]
         /\ \A t \in Transfer : Aborted(w)[t].pc # "none" => Aborted(w)[t].aborted
<1>1. ASSUME NEW t \in Transfer
      PROVE  /\ Aborted(w)[t] \in TransferState
             /\ Aborted(w)[t].pc # "none" => Aborted(w)[t].aborted
  <2>1. w.xfer[t] \in TransferState
    BY DEF Work
  <2>2. Aborted(w)[t] = [pc |-> w.xfer[t].pc, aborted |-> w.xfer[t].pc # "none"]
    BY <2>1 DEF Aborted, TransferState
  <2>3. /\ w.xfer[t].pc = "none" => Aborted(w)[t] = [pc |-> w.xfer[t].pc, aborted |-> FALSE]
        /\ w.xfer[t].pc # "none" => Aborted(w)[t] = [pc |-> w.xfer[t].pc, aborted |-> TRUE]
    BY <2>2
  <2>4. w.xfer[t].pc \in {"none", "sending", "fetching", "writing", "dressing"}
    BY <2>1 DEF TransferState
  <2>5. ASSUME NEW told \in BOOLEAN PROVE [pc |-> w.xfer[t].pc, aborted |-> told] \in TransferState
    BY <2>4 DEF TransferState
  <2>6. w.xfer[t].pc # "none" => Aborted(w)[t].aborted = TRUE
    BY <2>3
  <2>7. \/ Aborted(w)[t] = [pc |-> w.xfer[t].pc, aborted |-> FALSE]
        \/ Aborted(w)[t] = [pc |-> w.xfer[t].pc, aborted |-> TRUE]
    BY <2>3
  <2>8. Aborted(w)[t] \in TransferState
    BY <2>5, <2>7, Zenon
  <2>9. Aborted(w)[t].pc = w.xfer[t].pc
    BY <2>2
  <2> QED BY <2>6, <2>8, <2>9
<1> QED BY <1>1 DEF Aborted

LEMMA SettledIsWork ==
  ASSUME NEW w \in Work
  PROVE  /\ Settled(w) \in Work
         /\ Settled(w).armed = w.armed \cap {"screen"}
         /\ ~Settled(w).command
         /\ \A t \in Transfer : Settled(w).xfer[t].pc # "none" => Settled(w).xfer[t].aborted
BY AbortedIsTold DEF Settled, Work, Timer

LEMMA StoppedIsWork ==
  ASSUME NEW w \in Work
  PROVE  /\ Stopped(w) \in Work
         /\ Stopped(w).armed = w.armed \cap {"reauth", "reconcile"}
         /\ ~Stopped(w).command
         /\ \A t \in Transfer : Stopped(w).xfer[t].pc # "none" => Stopped(w).xfer[t].aborted
BY AbortedIsTold DEF Stopped, Work, Timer

\* The two together stop all: what one leaves armed the other does not.
LEMMA NothingLeft ==
  ASSUME NEW w \in Work
  PROVE  Settled(Stopped(w)) \in Work /\ Still(Settled(Stopped(w)))
<1>1. Stopped(w) \in Work /\ Stopped(w).armed \cap {"screen"} = {}
  BY StoppedIsWork
<1> QED BY <1>1, SettledIsWork DEF Still

-----------------------------------------------------------------------------
(* The steps that only change what is armed, and those of one transfer.        *)

\* Work that only a live connection takes on, and never the two timers.
LEMMA ArmedLater ==
  ASSUME LinkInv, NEW set, NEW command \in BOOLEAN,
         set \subseteq Timer,
         ~Receiving => set = {} /\ ~command,
         link.settled => set \cap {"reauth", "reconcile"} = {},
         work' = [work EXCEPT !.armed = set, !.command = command],
         link' = link \/ (link.pc = "open" /\ link' = [link EXCEPT !.pc = "closing"]),
         disk' = disk
  PROVE  LinkInv'
<1>1. work' = [armed |-> set, command |-> command, xfer |-> work.xfer]
  BY LinkFacts
<1>2. work' \in Work /\ work'.armed = set /\ work'.command = command /\ work'.xfer = work.xfer
  BY <1>1, LinkFacts DEF Work
<1>3. /\ link' \in Link /\ link'.settled = link.settled /\ (Receiving' <=> Receiving)
      /\ link'.pc = link.pc \/ (link.pc = "open" /\ link'.pc = "closing")
  BY LinkFacts DEF Link, Receiving
<1>4. ~Receiving => Still(work)'
  BY <1>2 DEF LinkInv, Still
<1> QED BY <1>2, <1>3, <1>4 DEF LinkInv, LinkTypeOK

\* A step of a transfer that stays told, or of one on a live connection.
LEMMA TransferMoves ==
  ASSUME LinkInv, NEW t \in Transfer, NEW next \in TransferState, Step(t, next),
         ~Receiving => next.pc = "none" \/ next.aborted,
         link' = link, disk' = [disk EXCEPT !.replaced = FALSE, !.part = disk'.part], disk'.part \in BOOLEAN
  PROVE  LinkInv'
<1>1. work' = [armed |-> work.armed, command |-> work.command, xfer |-> [work.xfer EXCEPT ![t] = next]]
  BY LinkFacts DEF Step
<1>2. work' \in Work /\ work'.armed = work.armed /\ work'.command = work.command
  BY <1>1, LinkFacts DEF Work
<1>3. \A u \in Transfer : work'.xfer[u] = IF u = t THEN next ELSE work.xfer[u]
  BY <1>1, LinkFacts
<1>4. disk' \in [replaced : BOOLEAN, part : BOOLEAN] /\ disk'.replaced = FALSE
  BY LinkFacts DEF LinkInv, LinkTypeOK
<1>5. ~Receiving' => Still(work)'
  BY <1>2, <1>3 DEF LinkInv, Still, Receiving
<1> QED BY <1>2, <1>4, <1>5 DEF LinkInv, LinkTypeOK

\* The connection ends, and nothing is left.
LEMMA LinkEnds ==
  ASSUME LinkInv, work' \in Work, work'.armed \cap {"reauth", "reconcile"} = {},
         NEW end \in {"down", "cut"}, end = "down" => Still(work'),
         link' = [link EXCEPT !.pc = end, !.settled = TRUE], disk' = disk
  PROVE  LinkInv'
<1>1. link' = [pc |-> end, settled |-> TRUE]
  BY LinkFacts
<1>2. link' \in Link
  BY <1>1 DEF Link
<1> QED BY <1>1, <1>2 DEF LinkInv, LinkTypeOK, Receiving

LEMMA NoWorkIsStill == NoWork \in Work /\ Still(NoWork) /\ NoWork.armed = {}
BY DEF NoWork, Work, Still, None, TransferState, Timer

LEMMA LinkInvInit == Init => LinkInv
<1> SUFFICES ASSUME Init PROVE LinkInv
  OBVIOUS
<1>1. link \in Link /\ link.pc = "down" /\ link.settled
  BY DEF Init, Link
<1>2. disk \in [replaced : BOOLEAN, part : BOOLEAN] /\ ~disk.replaced
  BY DEF Init
<1> QED BY <1>1, <1>2, NoWorkIsStill DEF Init, LinkInv, LinkTypeOK

LEMMA LinkInvStep == LinkInv /\ [Next]_vars => LinkInv'
<1> SUFFICES ASSUME LinkInv, [Next]_vars PROVE LinkInv'
  OBVIOUS
<1> USE LinkFacts
<1>w. work \in Work
  BY DEF LinkInv, LinkTypeOK
<1>1. CASE Connect
  <2>1. link' \in Link /\ link'.pc = "connecting" /\ ~link'.settled
    BY <1>1 DEF Connect, Link
  <2> QED BY <1>1, <2>1 DEF Connect, LinkInv, LinkTypeOK, Receiving
<1>2. CASE ConnectFails
  <2>1. Still(work) /\ work' = work
    BY <1>2 DEF ConnectFails, LinkInv, Receiving
  <2>2. Still(work') /\ work' \in Work /\ work'.armed \cap {"reauth", "reconcile"} = {}
    BY <2>1, <1>w DEF Still
  <2> QED BY <1>2, <2>2, LinkEnds DEF ConnectFails
<1>3. ASSUME NEW gpu \in BOOLEAN, Open(gpu) PROVE LinkInv'
  <2>1. link' \in Link /\ link'.pc = "open" /\ ~link'.settled
    BY <1>3 DEF Open, Link, LinkInv
  <2>2. work' \in Work
    BY <1>3 DEF Open, Work, Timer
  <2> QED BY <1>3, <2>1, <2>2 DEF Open, LinkInv, LinkTypeOK, Receiving
<1>4. CASE LinkDead
  <2>1. CASE link.settled
    <3> DEFINE left == work.armed \ {"dead"}
    <3>1. /\ work' = [work EXCEPT !.armed = left, !.command = work.command]
          /\ link' = link /\ disk' = disk
      BY <1>4, <2>1 DEF LinkDead
    <3>2. left \subseteq Timer /\ (~Receiving => left = {} /\ ~work.command)
          /\ (link.settled => left \cap {"reauth", "reconcile"} = {})
      BY DEF LinkInv, Still
    <3> HIDE DEF left
    <3> QED BY <3>1, <3>2, ArmedLater
  <2>2. CASE ~link.settled
    <3>1. /\ link' = [link EXCEPT !.pc = "cut", !.settled = TRUE]
          /\ work' = Settled(work) /\ disk' = disk
      BY <1>4, <2>2 DEF LinkDead
    <3>2. work' \in Work /\ work'.armed \cap {"reauth", "reconcile"} = {}
      BY <3>1, <1>w, SettledIsWork
    <3> QED BY <3>1, <3>2, LinkEnds
  <2> QED BY <2>1, <2>2
<1>5. CASE SocketError
  BY <1>5, <1>w, NothingLeft, LinkEnds DEF SocketError, Still
<1>6. CASE Closed
  <2>1. work' \in Work /\ Still(work')
    <3>1. CASE link.settled
      <4>1. work' = Stopped(work) /\ Stopped(work).armed = {}
        BY <1>6, <3>1, <1>w, StoppedIsWork DEF Closed, LinkInv
      <4> QED BY <4>1, <1>w, StoppedIsWork DEF Still
    <3>2. CASE ~link.settled
      BY <1>6, <3>2, <1>w, NothingLeft DEF Closed
    <3> QED BY <3>1, <3>2
  <2> QED BY <1>6, <2>1, LinkEnds DEF Closed, Still
<1>7. CASE ReauthDue
  <2> DEFINE left == work.armed \ {"reauth"}
  <2>1. /\ work' = [work EXCEPT !.armed = left, !.command = work.command]
        /\ link' = link \/ (link.pc = "open" /\ link' = [link EXCEPT !.pc = "closing"])
        /\ disk' = disk
    BY <1>7 DEF ReauthDue
  <2>2. left \subseteq Timer /\ (~Receiving => left = {} /\ ~work.command)
        /\ (link.settled => left \cap {"reauth", "reconcile"} = {})
    BY DEF LinkInv, Still
  <2> HIDE DEF left
  <2> QED BY <2>1, <2>2, ArmedLater
<1>8. CASE Disable
  <2>1. /\ link' \in Link /\ link'.settled = link.settled /\ (Receiving' <=> Receiving)
        /\ link'.pc = link.pc \/ (link.pc = "open" /\ link'.pc = "closing")
    BY <1>8 DEF Disable, Link, Receiving
  <2>2. /\ work' \in Work /\ work'.armed = work.armed
        /\ ~Receiving => work' = work
    <3>1. work' = work \/ work' = [armed |-> work.armed, command |-> work.command, xfer |-> Aborted(work)]
      BY <1>8 DEF Disable
    <3>2. ~Receiving => work' = work
      BY <1>8 DEF Disable, Receiving
    <3> QED BY <3>1, <3>2, <1>w, AbortedIsTold DEF Work
  <2> QED BY <1>8, <2>1, <2>2 DEF Disable, LinkInv, LinkTypeOK
<1>9. CASE Enable
  BY <1>9 DEF Enable, LinkInv, LinkTypeOK, Receiving
<1>10. ASSUME NEW app \in BOOLEAN, Beat(app) PROVE LinkInv'
  <2> DEFINE set == work.armed \cup {"dead"} \cup (IF app THEN {"app"} ELSE {})
  <2>1. /\ work' = [work EXCEPT !.armed = set, !.command = work.command]
        /\ Receiving /\ link' = link /\ disk' = disk
    BY <1>10 DEF Beat
  <2>2. set \subseteq Timer /\ (link.settled => set \cap {"reauth", "reconcile"} = {})
    BY DEF LinkInv, Timer
  <2> HIDE DEF set
  <2> QED BY <2>1, <2>2, ArmedLater
<1>11. CASE Exec
  BY <1>11, ArmedLater DEF Exec, LinkInv
<1>12. CASE CommandEnds
  BY <1>12, ArmedLater DEF CommandEnds, LinkInv, Still
<1>13. CASE JobCall
  <2> DEFINE set == work.armed \cup (IF link.settled THEN {} ELSE {"jobs"})
  <2>1. /\ work' = [work EXCEPT !.armed = set, !.command = work.command]
        /\ Receiving /\ link' = link /\ disk' = disk
    BY <1>13 DEF JobCall
  <2>2. set \subseteq Timer /\ (link.settled => set \cap {"reauth", "reconcile"} = {})
    BY DEF LinkInv, Timer
  <2> HIDE DEF set
  <2> QED BY <2>1, <2>2, ArmedLater
<1>14. ASSUME NEW told \in BOOLEAN, work' = Scheduled(told), link' = link, disk' = disk PROVE LinkInv'
  <2>1. CASE work' = work
    <3>1. work' = [work EXCEPT !.armed = work.armed, !.command = work.command]
      BY <2>1
    <3> QED BY <1>14, <3>1, ArmedLater DEF LinkInv, Still
  <2>2. CASE work' # work
    <3>1. "jobs" \in work.armed
          /\ work' = [work EXCEPT !.armed = work.armed \cup {"debounce"}, !.command = work.command]
      BY <1>14, <2>2 DEF Scheduled
    <3>2. Receiving
      BY <3>1 DEF LinkInv, Still
    <3>3. work.armed \cup {"debounce"} \subseteq Timer
          /\ (link.settled => (work.armed \cup {"debounce"}) \cap {"reauth", "reconcile"} = {})
      BY DEF LinkInv, Timer
    <3> QED BY <1>14, <3>1, <3>2, <3>3, ArmedLater
  <2> QED BY <2>1, <2>2
<1>15. CASE JobStarts
  BY <1>15, <1>14 DEF JobStarts
<1>16. ASSUME NEW told \in BOOLEAN, JobEnds(told) PROVE LinkInv'
  BY <1>16, <1>14 DEF JobEnds
<1>17. CASE Recounts
  <2>1. PICK due \in {"debounce", "poll"} : Recount(due) \/ CannotCount(due)
    BY <1>17 DEF Recounts
  <2> DEFINE counted == (work.armed \ {"debounce", "poll"})
                    \cup (IF due = "poll" /\ "debounce" \in work.armed THEN {"debounce"} ELSE {})
                    \cup (IF Polls(jobs.running) THEN {"poll"} ELSE {})
             set == IF Recount(due) THEN counted ELSE work.armed \ ({due} \ {"poll"})
  <2>2. /\ work' = [work EXCEPT !.armed = set, !.command = work.command]
        /\ due \in work.armed /\ link' = link /\ disk' = disk
    <3>1. CASE Recount(due)
      BY <3>1 DEF Recount
    <3>2. CASE ~Recount(due)
      BY <2>1, <3>2 DEF CannotCount
    <3> QED BY <3>1, <3>2
  <2>3. Receiving
    BY <2>2 DEF LinkInv, Still
  <2>4. set \subseteq Timer /\ (link.settled => set \cap {"reauth", "reconcile"} = {})
    BY DEF LinkInv, Timer
  <2> HIDE DEF set
  <2> QED BY <2>2, <2>3, <2>4, ArmedLater
<1>18. ASSUME NEW t \in Transfer, NEW kind \in {"pull", "push"}, TransferStarts(t, kind) PROVE LinkInv'
  <2> DEFINE next == [pc |-> IF kind = "pull" THEN "sending" ELSE "fetching", aborted |-> FALSE]
  <2>1. /\ next \in TransferState /\ Step(t, next) /\ Receiving /\ link' = link
        /\ \E stays \in BOOLEAN : disk' = [disk EXCEPT !.part = stays]
    BY <1>18 DEF TransferStarts, TransferState
  <2>2. disk' = [disk EXCEPT !.replaced = FALSE, !.part = disk'.part] /\ disk'.part \in BOOLEAN
    BY <2>1 DEF LinkInv, LinkTypeOK
  <2> HIDE DEF next
  <2> QED BY <2>1, <2>2, TransferMoves
<1>19. ASSUME NEW t \in Transfer, TransferEnds(t) \/ Fetched(t) \/ Written(t) \/ Replace(t) PROVE LinkInv'
  <2>1. work.xfer[t] \in TransferState
    OBVIOUS
  <2>2. PICK next \in TransferState :
          Step(t, next) /\ (next.pc = "none" \/ (~work.xfer[t].aborted /\ work.xfer[t].pc # "none"))
    <3>0. None \in TransferState /\ None.pc = "none"
      BY DEF None, TransferState
    <3>1. CASE TransferEnds(t) \/ Replace(t)
      BY <3>0, <3>1 DEF TransferEnds, Replace
    <3>2. CASE Fetched(t)
      BY <3>2, <2>1 DEF Fetched, TransferState
    <3>3. CASE Written(t)
      BY <3>3, <2>1 DEF Written, TransferState
    <3> QED BY <1>19, <3>1, <3>2, <3>3
  <2>3. ~Receiving => next.pc = "none" \/ next.aborted
    BY <2>2 DEF LinkInv, Still
  <2>4. /\ link' = link /\ disk' = [disk EXCEPT !.replaced = FALSE, !.part = disk'.part]
        /\ disk'.part \in BOOLEAN
    BY <1>19, <2>1 DEF TransferEnds, Fetched, Written, Replace, Withdrawn, LinkInv, LinkTypeOK, TransferState
  <2> QED BY <2>2, <2>3, <2>4, TransferMoves
<1>20. CASE Restart
  <2>1. link' \in Link /\ link'.pc = "down" /\ link'.settled
    BY <1>20 DEF Restart, Link
  <2>2. disk' \in [replaced : BOOLEAN, part : BOOLEAN] /\ ~disk'.replaced
    BY <1>20, LinkFacts DEF Restart, LinkInv, LinkTypeOK
  <2> QED BY <1>20, <2>1, <2>2, NoWorkIsStill DEF Restart, LinkInv, LinkTypeOK
<1>21. CASE UNCHANGED vars
  BY <1>21 DEF vars, LinkInv, LinkTypeOK, Receiving, Still
<1> QED BY <1>1, <1>2, <1>3, <1>4, <1>5, <1>6, <1>7, <1>8, <1>9, <1>10, <1>11, <1>12, <1>13,
           <1>15, <1>16, <1>17, <1>18, <1>19, <1>20, <1>21 DEF Next

\* Whatever ended a connection, and whatever message came too late, nothing of it is
\* armed, listening or running once its socket is gone, and no transfer it ordered
\* replaces a file after it was stopped: for any number of transfers and jobs.
THEOREM LinkLeavesNothing == Spec => []NothingOutlivesTheLink
<1>1. LinkInv => NothingOutlivesTheLink
  BY DEF LinkInv, NothingOutlivesTheLink, Receiving, Still
<1> QED BY <1>1, LinkInvInit, LinkInvStep, PTL DEF Spec

-----------------------------------------------------------------------------
(* What the relay is still to be told.                                       *)

\* The count the relay shows is the true one, or a timer is armed that will report, or
\* the last count failed.
CountIsDue ==
  link.pc = "open" /\ report.shown # jobs.running =>
    report.missed \/ {"debounce", "poll"} \cap work.armed # {}

CountTypeOK ==
  /\ jobs \in [running : Nat, asked : BOOLEAN]
  /\ report \in [last : Int, stopped : BOOLEAN, missed : BOOLEAN, shown : Int]

\* As long as anything runs the next report is timed.  A connection that is open has not
\* been settled, listens to the manager it has called, and showed what it reported last.
CountInv ==
  /\ CountTypeOK
  /\ link.pc = "connecting" => ~jobs.asked /\ ~report.stopped /\ report.last = Unknown
  /\ link.pc = "open" =>
       /\ ~link.settled /\ ~report.stopped /\ report.shown = report.last
       /\ jobs.asked => "jobs" \in work.armed
       /\ \/ {"debounce", "poll"} \cap work.armed # {}
          \/ jobs.running = 0 /\ report.shown = 0
          \/ report.missed

\* A step of an open connection that takes back no timer.
LEMMA CountKept ==
  ASSUME CountInv, UNCHANGED <<jobs, report>>,
         link'.pc \in {"connecting", "open"} => link' = link,
         work.armed \ {"dead", "reauth"} \subseteq work'.armed
  PROVE  CountInv'
BY DEF CountInv, CountTypeOK

LEMMA CountTypeStep == ASSUME CountTypeOK, Next PROVE CountTypeOK'
<1>u. Unknown \in Int
  BY DEF Unknown
<1>1. CASE UNCHANGED <<jobs, report>>
  BY <1>1 DEF CountTypeOK
<1>2. ASSUME UNCHANGED jobs,
             \/ report' = ReportStopped
             \/ report' = [report EXCEPT !.shown = Unknown]
      PROVE  CountTypeOK'
  BY <1>u, <1>2 DEF CountTypeOK, ReportStopped
<1>3. CASE Connect
  BY <1>u, <1>3 DEF Connect, CountTypeOK
<1>4. CASE LinkDead \/ SocketError \/ Closed
  <2>1. UNCHANGED jobs /\ (report' = report \/ report' = ReportStopped)
    BY <1>4 DEF LinkDead, SocketError, Closed
  <2> QED BY <1>1, <1>2, <2>1
<1>9. ASSUME NEW gpu \in BOOLEAN, Open(gpu) PROVE CountTypeOK'
  BY <1>2, <1>9 DEF Open
<1>5. CASE JobCall \/ JobStarts
  <2>1. jobs.running + 1 \in Nat
    BY DEF CountTypeOK
  <2>2. UNCHANGED report
    BY <1>5 DEF JobCall, JobStarts
  <2>3. jobs' = [jobs EXCEPT !.asked = TRUE] \/ jobs' = [jobs EXCEPT !.running = jobs.running + 1]
    BY <1>5 DEF JobCall, JobStarts
  <2> QED BY <2>1, <2>2, <2>3 DEF CountTypeOK
<1>8. ASSUME NEW b \in BOOLEAN, JobEnds(b) PROVE CountTypeOK'
  <2>1. jobs.running - 1 \in Nat
    BY <1>8 DEF JobEnds, CountTypeOK
  <2> QED BY <1>8, <2>1 DEF JobEnds, CountTypeOK
<1>6. CASE Recounts
  <2>1. UNCHANGED jobs /\ jobs.running \in Int
    BY <1>6 DEF Recounts, Recount, CannotCount, CountTypeOK
  <2>2. PICK n \in {jobs.running, report.shown} :
          \/ report' = [report EXCEPT !.missed = TRUE]
          \/ report' = [report EXCEPT !.last = jobs.running, !.missed = FALSE, !.shown = n]
    BY <1>6 DEF Recounts, Recount, CannotCount
  <2> QED BY <2>1, <2>2 DEF CountTypeOK
<1>7. CASE \/ ConnectFails \/ ReauthDue \/ Disable \/ Enable \/ Exec \/ CommandEnds \/ Restart
           \/ \E b \in BOOLEAN : Beat(b)
           \/ \E t \in Transfer :
                \/ \E kind \in {"pull", "push"} : TransferStarts(t, kind)
                \/ TransferEnds(t) \/ Fetched(t) \/ Written(t) \/ Replace(t)
  BY <1>1, <1>7 DEF ConnectFails, ReauthDue, Disable, Enable, Exec, CommandEnds, Restart, Beat,
                    TransferStarts, TransferEnds, Fetched, Written, Replace
<1> QED BY <1>3, <1>4, <1>5, <1>6, <1>7, <1>8, <1>9 DEF Next

LEMMA CountInvStep == LinkInv /\ CountInv /\ [Next]_vars => CountInv'
<1> SUFFICES ASSUME LinkInv, CountInv, [Next]_vars PROVE CountInv'
  OBVIOUS
<1>f. /\ link.settled \in BOOLEAN /\ work.armed \subseteq Timer
      /\ link = [pc |-> link.pc, settled |-> link.settled]
      /\ work = [armed |-> work.armed, command |-> work.command, xfer |-> work.xfer]
  BY LinkFacts
<1>t. CountTypeOK /\ CountTypeOK'
  BY CountTypeStep DEF CountInv, CountTypeOK, vars
<1>r. /\ jobs = [running |-> jobs.running, asked |-> jobs.asked] /\ jobs.running \in Nat
      /\ report = [last |-> report.last, stopped |-> report.stopped, missed |-> report.missed,
                   shown |-> report.shown]
  BY <1>t DEF CountTypeOK
<1>1. CASE Connect
  <2>1. /\ link' = [pc |-> "connecting", settled |-> FALSE]
        /\ jobs' = [jobs EXCEPT !.asked = FALSE]
        /\ report' = [report EXCEPT !.last = Unknown, !.stopped = FALSE, !.missed = FALSE]
    BY <1>1 DEF Connect
  <2>2. link'.pc = "connecting" /\ ~jobs'.asked /\ ~report'.stopped /\ report'.last = Unknown
    BY <1>r, <2>1
  <2> QED BY <1>t, <2>2 DEF CountInv
<1>11. CASE ConnectFails \/ Restart
  <2>1. link'.pc = "down"
    <3>1. CASE ConnectFails
      BY <1>f, <3>1 DEF ConnectFails
    <3>2. CASE Restart
      BY <3>2 DEF Restart
    <3> QED BY <1>11, <3>1, <3>2
  <2> QED BY <1>t, <2>1 DEF CountInv
<1>2. ASSUME NEW gpu \in BOOLEAN, Open(gpu) PROVE CountInv'
  BY <1>t, <1>r, <1>2, <1>f DEF Open, LinkInv, CountInv
<1>3. CASE SocketError \/ Closed \/ (LinkDead /\ ~link.settled)
  <2>1. UNCHANGED jobs /\ link'.pc \in {"cut", "down"}
        /\ (report' = report \/ report' = ReportStopped)
    BY <1>f, <1>3 DEF SocketError, Closed, LinkDead
  <2> QED BY <1>t, <1>r, <2>1 DEF CountInv, ReportStopped
<1>4. CASE \/ LinkDead /\ link.settled
           \/ ReauthDue \/ Disable \/ Enable \/ Exec \/ CommandEnds \/ UNCHANGED vars
  <2>1. UNCHANGED <<jobs, report>> /\ (link'.pc \in {"connecting", "open"} => link' = link)
    BY <1>4, <1>f DEF LinkDead, ReauthDue, Disable, Enable, Exec, CommandEnds, vars
  <2>2. work.armed \ {"dead", "reauth"} \subseteq work'.armed
    BY <1>4, <1>f DEF LinkDead, ReauthDue, Disable, Enable, Exec, CommandEnds, vars
  <2> QED BY <2>1, <2>2, CountKept
<1>5. ASSUME NEW b \in BOOLEAN, Beat(b) PROVE CountInv'
  BY <1>5, <1>f, CountKept DEF Beat
<1>6. ASSUME NEW t \in Transfer,
             \/ \E kind \in {"pull", "push"} : TransferStarts(t, kind)
             \/ TransferEnds(t) \/ Fetched(t) \/ Written(t) \/ Replace(t)
      PROVE  CountInv'
  <2>1. work'.armed = work.armed /\ UNCHANGED <<link, jobs, report>>
    BY <1>6, <1>f DEF TransferStarts, TransferEnds, Fetched, Written, Replace, Step
  <2> QED BY <2>1, CountKept
<1>7. CASE JobCall
  <2>1. /\ UNCHANGED <<link, report>> /\ jobs'.running = jobs.running /\ work.armed \subseteq work'.armed
        /\ link.pc # "connecting" /\ (~link.settled => "jobs" \in work'.armed)
    BY <1>r, <1>7, <1>f DEF JobCall, Receiving
  <2> QED BY <1>t, <2>1 DEF CountInv
<1>8. CASE JobStarts
  <2>1. link' = link /\ report' = report /\ jobs'.asked = jobs.asked /\ jobs.asked /\ work' = Scheduled(TRUE)
    BY <1>t, <1>r, <1>8 DEF JobStarts
  <2>2. CASE link.pc = "open"
    <3>1. work'.armed = work.armed \cup {"debounce"}
      BY <1>f, <2>1, <2>2 DEF Scheduled, CountInv
    <3> QED BY <1>t, <1>r, <2>1, <2>2, <3>1 DEF CountInv
  <2>3. CASE link.pc # "open"
    BY <1>t, <1>r, <1>8, <2>1, <2>3 DEF CountInv, Receiving, JobStarts
  <2> QED BY <2>2, <2>3
<1>9. ASSUME NEW told \in BOOLEAN, JobEnds(told) PROVE CountInv'
  <2>1. link' = link /\ report' = report /\ jobs.running > 0 /\ work' = Scheduled(told)
        /\ jobs' = [jobs EXCEPT !.running = jobs.running - 1]
    BY <1>t, <1>r, <1>9 DEF JobEnds
  <2>2. work.armed \subseteq work'.armed
    BY <1>f, <2>1 DEF Scheduled
  <2>3. jobs.asked' = jobs.asked /\ jobs.running # 0
    BY <1>r, <2>1
  <2> QED BY <1>t, <1>r, <2>1, <2>2, <2>3 DEF CountInv
<1>10. CASE Recounts
  <2>1. PICK which \in {"debounce", "poll"} : Recount(which) \/ CannotCount(which)
    BY <1>10 DEF Recounts
  <2>5. CASE CannotCount(which)
    <3>1. /\ UNCHANGED <<link, jobs>> /\ which \in work.armed
          /\ "jobs" \in work.armed => "jobs" \in work'.armed
          /\ report' = [report EXCEPT !.missed = TRUE]
      BY <1>f, <2>5 DEF CannotCount
    <3>2. link.pc # "connecting"
      BY <3>1 DEF LinkInv, Still, Receiving
    <3>3. report'.missed /\ report'.last = report.last /\ report'.stopped = report.stopped
          /\ report'.shown = report.shown
      BY <1>r, <3>1
    <3>4. /\ link'.pc = link.pc /\ link'.settled = link.settled /\ jobs'.asked = jobs.asked
          /\ "jobs" \in work.armed => "jobs" \in work'.armed
      BY <3>1
    <3> QED BY <1>t, <3>2, <3>3, <3>4 DEF CountInv
  <2>6. CASE Recount(which)
    <3>2. /\ UNCHANGED <<link, jobs>>
          /\ "jobs" \in work.armed => "jobs" \in work'.armed
          /\ jobs.running > 0 => "poll" \in work'.armed
      BY <1>f, <2>6 DEF Recount, Polls
    <3>3. CASE link.pc = "open"
      <4>1. report'.last = jobs.running /\ report'.shown = jobs.running /\ ~report'.stopped
        BY <1>f, <1>r, <2>6, <3>3 DEF Recount, CountInv
      <4> QED BY <1>t, <1>r, <3>2, <3>3, <4>1 DEF CountInv
    <3>4. CASE link.pc # "open"
      <4>1. link.pc # "connecting"
        BY <2>6 DEF Recount, LinkInv, Still, Receiving
      <4> QED BY <1>t, <1>r, <3>2, <3>4, <4>1 DEF CountInv
    <3> QED BY <3>3, <3>4
  <2> QED BY <2>1, <2>5, <2>6
<1> QED BY <1>1, <1>2, <1>3, <1>4, <1>5, <1>6, <1>7, <1>8, <1>9, <1>10, <1>11 DEF Next

\* On an open connection whose relay shows another number of running jobs than there
\* are, a timer is armed that reports, also after ends nobody was told of, unless the
\* last count failed
\* (job-state-reporter.ts report, schedule): the safety half of CountConverges, for any
\* number of jobs and connections.
THEOREM WrongCountIsDue == Spec => []CountIsDue
<1>1. Init => CountInv
  BY DEF Init, CountInv, CountTypeOK, Unreported, Unknown
<1>2. CountInv => CountIsDue
  BY DEF CountInv, CountIsDue
<1> QED BY <1>1, <1>2, LinkInvInit, LinkInvStep, CountInvStep, PTL DEF Spec

-----------------------------------------------------------------------------
(* The queue of the diagnostic log is always served, and a rotation never      *)
(* costs all there is.                                                       *)

\* No generation is empty, a rotation only begins on a live file that is not, and
\* the lines that come during a write leave room for the confession after it.
FilesOK ==
  /\ file[0] = 0 => size = 0
  /\ \A i \in 1 .. Generations : file[i] # 0
  /\ writing # "no" => batch >= 1 /\ queue <= MaxQueue
  /\ writing = "rotating" => size + batch > MaxFile

DiagInv == DiagTypeOK /\ QueueIsServed /\ FilesOK

\* The live file a rotation meets is not empty.
LEMMA RotatedIsReal ==
  ASSUME DiagInv, writing = "rotating"
  PROVE  file[0] # 0
BY DiagAssumption DEF DiagInv, DiagTypeOK, FilesOK

\* The renames keep the type of the files and leave no empty generation.
LEMMA ShiftedIsReal ==
  ASSUME DiagInv, writing = "rotating", NEW moved \in Movable
  PROVE  /\ Shifted(moved) \in [0 .. Generations -> {Missing} \cup Nat]
         /\ \A i \in 1 .. Generations : Shifted(moved)[i] # 0
         /\ 1 \in moved => Shifted(moved)[0] = Missing /\ Shifted(moved)[1] > 0
         /\ 1 \notin moved => Shifted(moved)[0] = file[0]
<1> DEFINE f == Shifted(moved)
<1>1. /\ Generations \in Nat \ {0}
      /\ file \in [0 .. Generations -> {Missing} \cup Nat]
      /\ \A i \in 1 .. Generations : file[i] # 0
  BY DiagAssumption DEF DiagInv, DiagTypeOK, FilesOK
<1>2. file[0] # 0
  BY RotatedIsReal
<1>3. /\ moved \subseteq 1 .. Generations
      /\ \A i \in moved : file[i - 1] # Missing
  BY DEF Movable
<1>4. \A i \in 0 .. Generations :
        f[i] = IF i \in moved THEN file[i - 1]
               ELSE IF i + 1 \in moved THEN Missing ELSE file[i]
  BY DEF Shifted
<1>5. ASSUME NEW i \in 0 .. Generations PROVE f[i] \in {Missing} \cup Nat
  BY <1>1, <1>3, <1>4 DEF Missing
<1>6. f \in [0 .. Generations -> {Missing} \cup Nat]
  BY <1>5 DEF Shifted
<1>7. ASSUME NEW i \in 1 .. Generations PROVE f[i] # 0
  <2>1. CASE i \in moved
    <3>1. i - 1 = 0 \/ i - 1 \in 1 .. Generations
      BY <1>1
    <3> QED BY <1>1, <1>2, <1>4, <2>1, <3>1
  <2>2. CASE i \notin moved
    BY <1>1, <1>4, <2>2 DEF Missing
  <2> QED BY <2>1, <2>2
<1>8. 1 \in moved => f[0] = Missing /\ f[1] > 0
  <2> HAVE 1 \in moved
  <2>1. file[0] \in Nat /\ file[0] > 0
    BY <1>1, <1>2, <1>3 DEF Missing
  <2> QED BY <1>1, <1>3, <1>4, <2>1 DEF Missing
<1>9. 1 \notin moved => f[0] = file[0]
  BY <1>1, <1>3, <1>4
<1> QED BY <1>6, <1>7, <1>8, <1>9

\* What a rotation that could not move the live file may do, over files that
\* hold no empty generation: nothing but emptying it, perhaps after a copy.
LEMMA InPlaceOutcome ==
  ASSUME DiagInv, NEW f \in [0 .. Generations -> {Missing} \cup Nat],
         f[0] # 0, \A i \in 1 .. Generations : f[i] # 0, InPlace(f)
  PROVE  /\ file' \in [0 .. Generations -> {Missing} \cup Nat] /\ size' \in Nat
         /\ \A i \in 1 .. Generations : file'[i] # 0
         /\ file'[0] = 0 => size' = 0
         /\ \/ file' = f
            \/ Kept(file')
            \/ \E fails \in BOOLEAN : Recounted(f, fails) >= MaxFile * Overflow
<1> DEFINE Real(g) ==
      /\ g \in [0 .. Generations -> {Missing} \cup Nat]
      /\ g[0] # 0 /\ \A i \in 1 .. Generations : g[i] # 0
    Good(g) ==
      /\ file' \in [0 .. Generations -> {Missing} \cup Nat] /\ size' \in Nat
      /\ \A i \in 1 .. Generations : file'[i] # 0
      /\ file'[0] = 0 => size' = 0
      /\ file' \in {g, Emptied(g)}
<1>1. size \in Nat /\ Generations \in Nat \ {0}
  BY DiagAssumption DEF DiagInv, DiagTypeOK
<1>2. ASSUME NEW g, Real(g) PROVE \A fails \in BOOLEAN : Recounted(g, fails) \in Nat
  BY <1>1, <1>2 DEF Recounted, Lines, Missing
<1>3. ASSUME NEW g, Real(g), Truncated(g) PROVE Good(g)
  <2>1. CASE Rotated(Emptied(g), 0)
    BY <1>1, <1>3, <2>1 DEF Rotated, Emptied
  <2>2. CASE \E fails \in BOOLEAN : Rotated(g, Recounted(g, fails))
    BY <1>2, <1>3, <2>2 DEF Rotated
  <2> QED BY <1>3, <2>1, <2>2 DEF Truncated
<1>4. Real(f)
  OBVIOUS
<1>5. ASSUME NEW g, Real(g), NEW i \in 1 .. Generations, g[i] # Missing
      PROVE  Kept(g) /\ Kept(Emptied(g))
  <2>1. g[i] > 0 /\ i \in 0 .. Generations
    BY <1>5 DEF Missing
  <2>2. Emptied(g)[i] = g[i]
    BY <1>5 DEF Emptied
  <2> QED BY <2>1, <2>2 DEF Kept
<1> HIDE DEF Real
<1>6. CASE f[1] # Missing /\ Truncated(f)
  <2>1. Good(f)
    BY <1>3, <1>4, <1>6
  <2>2. Kept(f) /\ Kept(Emptied(f))
    BY <1>1, <1>4, <1>5, <1>6
  <2> QED BY <2>1, <2>2
<1>7. CASE f[0] # Missing /\ Truncated(Copied(f))
  <2>1. Real(Copied(f)) /\ Copied(f)[1] # Missing
    BY <1>1, <1>7 DEF Copied, Real, Missing
  <2>2. Good(Copied(f))
    BY <1>3, <1>7, <2>1
  <2>3. Kept(Copied(f)) /\ Kept(Emptied(Copied(f)))
    BY <1>1, <1>5, <2>1
  <2> QED BY <2>2, <2>3
<1>8. CASE (\E i \in 2 .. Generations : f[i] # Missing) /\ Truncated(f)
  <2>1. Good(f)
    BY <1>3, <1>4, <1>8
  <2>2. PICK i \in 2 .. Generations : f[i] # Missing
    BY <1>8
  <2>3. Kept(f) /\ Kept(Emptied(f))
    BY <1>1, <1>4, <1>5, <2>2
  <2> QED BY <2>1, <2>3
<1>9. CASE \E fails \in BOOLEAN :
             IF Recounted(f, fails) >= MaxFile * Overflow THEN Truncated(f)
             ELSE Rotated(f, Recounted(f, fails))
  <2>1. PICK fails \in BOOLEAN :
          IF Recounted(f, fails) >= MaxFile * Overflow THEN Truncated(f)
          ELSE Rotated(f, Recounted(f, fails))
    BY <1>9
  <2>2. CASE Recounted(f, fails) >= MaxFile * Overflow
    <3>1. Good(f)
      BY <1>3, <1>4, <2>1, <2>2
    <3> QED BY <2>2, <3>1
  <2>3. CASE ~(Recounted(f, fails) >= MaxFile * Overflow)
    <3>1. Rotated(f, Recounted(f, fails)) /\ Recounted(f, fails) \in Nat
      BY <1>2, <1>4, <2>1, <2>3
    <3> QED BY <3>1 DEF Rotated
  <2> QED BY <2>2, <2>3
<1> QED BY <1>6, <1>7, <1>8, <1>9 DEF InPlace

-----------------------------------------------------------------------------
LEMMA DiagInvInit == DiagInit => DiagInv
<1> SUFFICES ASSUME DiagInit PROVE DiagInv
  OBVIOUS
<1>1. dropped \in BOOLEAN /\ timer \in BOOLEAN
  BY DEF DiagInit
<1>2. queue \in 0 .. MaxQueue + 1 /\ batch \in 0 .. MaxQueue + 1 /\ size \in Nat
  BY DiagAssumption DEF DiagInit
<1>3. /\ writing \in {"no", "rotating", "appending"} /\ rounds \in -1 .. FlushRounds
      /\ file \in [0 .. Generations -> {Missing} \cup Nat]
  BY DiagAssumption DEF DiagInit
<1>4. QueueIsServed /\ FilesOK
  BY DiagAssumption DEF DiagInit, QueueIsServed, FilesOK, Missing
<1> QED BY <1>1, <1>2, <1>3, <1>4 DEF DiagInv, DiagTypeOK

LEMMA RotateInv == DiagInv /\ Rotate => DiagInv'
<1> SUFFICES ASSUME DiagInv, Rotate PROVE DiagInv'
  OBVIOUS
<1>1. writing = "rotating" /\ writing' = "appending"
      /\ UNCHANGED <<queue, dropped, timer, batch, rounds>>
  BY DEF Rotate
<1>2. PICK moved \in Movable :
        IF 1 \in moved THEN Rotated(Shifted(moved), 0) ELSE InPlace(Shifted(moved))
  BY DEF Rotate
<1>3. /\ file' \in [0 .. Generations -> {Missing} \cup Nat] /\ size' \in Nat
      /\ \A i \in 1 .. Generations : file'[i] # 0
      /\ file'[0] = 0 => size' = 0
  <2>1. CASE 1 \in moved
    BY <1>1, <1>2, <2>1, ShiftedIsReal DEF Rotated
  <2>2. CASE 1 \notin moved
    <3> DEFINE f == Shifted(moved)
    <3>1. /\ f \in [0 .. Generations -> {Missing} \cup Nat]
          /\ f[0] # 0 /\ \A i \in 1 .. Generations : f[i] # 0
      BY <1>1, <2>2, ShiftedIsReal, RotatedIsReal
    <3>2. InPlace(f)
      BY <1>2, <2>2
    <3> QED BY <3>1, <3>2, InPlaceOutcome
  <2> QED BY <2>1, <2>2
<1>4. DiagTypeOK'
  BY <1>1, <1>3 DEF DiagInv, DiagTypeOK
<1>5. QueueIsServed'
  BY <1>1 DEF QueueIsServed
<1>6. FilesOK'
  BY <1>1, <1>3 DEF DiagInv, FilesOK
<1> QED BY <1>4, <1>5, <1>6 DEF DiagInv

LEMMA DiagInvNext == DiagInv /\ [DiagNext]_diagVars => DiagInv'
<1> SUFFICES ASSUME DiagInv, [DiagNext]_diagVars PROVE DiagInv'
  OBVIOUS
<1> USE DiagAssumption
<1>1. CASE diag
  <2>1. dropped' \in BOOLEAN /\ timer' \in BOOLEAN
    BY <1>1 DEF diag, FlushScheduled, DiagInv, DiagTypeOK
  <2>2. queue' \in 0 .. MaxQueue + 1
    BY <1>1 DEF diag, DiagInv, DiagTypeOK
  <2>3. DiagTypeOK'
    BY <1>1, <2>1, <2>2 DEF diag, DiagInv, DiagTypeOK
  <2>4. QueueIsServed'
    BY <1>1 DEF diag, FlushScheduled, DiagInv, QueueIsServed
  <2>5. FilesOK'
    BY <1>1 DEF diag, DiagInv, DiagTypeOK, FilesOK
  <2> QED BY <2>3, <2>4, <2>5 DEF DiagInv
<1>2. CASE flush
  <2>1. dropped' \in BOOLEAN /\ timer' \in BOOLEAN
    BY <1>2 DEF flush, DiagInv, DiagTypeOK
  <2>2. /\ queue' \in 0 .. MaxQueue + 1 /\ batch' \in 0 .. MaxQueue + 1
        /\ writing' \in {"no", "rotating", "appending"}
    BY <1>2 DEF flush, Begun, DiagInv, DiagTypeOK
  <2>3. DiagTypeOK'
    BY <1>2, <2>1, <2>2 DEF flush, DiagInv, DiagTypeOK
  <2>4. QueueIsServed' /\ FilesOK'
    BY <1>2 DEF flush, Begun, DiagInv, DiagTypeOK, QueueIsServed, FilesOK
  <2> QED BY <2>3, <2>4 DEF DiagInv
<1>3. CASE AppendBatch
  <2>1. Lines(file) \in Nat /\ file \in [0 .. Generations -> {Missing} \cup Nat]
    BY DEF DiagInv, DiagTypeOK, Lines, Missing
  <2>2. batch \in Nat /\ batch >= 1 /\ size \in Nat
    BY <1>3 DEF AppendBatch, DiagInv, DiagTypeOK, FilesOK
  <2>3. /\ file' = [file EXCEPT ![0] = Lines(file) + batch]
        /\ size' = size + batch /\ dropped' = FALSE /\ UNCHANGED rounds
        /\ WriteEnds(IF dropped THEN queue + 1 ELSE queue)
    BY <1>3 DEF AppendBatch
  <2>4. /\ file'[0] = Lines(file) + batch
        /\ \A i \in 1 .. Generations : file'[i] = file[i]
    BY <2>1, <2>3
  <2>5. queue' \in 0 .. MaxQueue + 1
    BY <1>3, <2>3 DEF AppendBatch, WriteEnds, DiagInv, DiagTypeOK, FilesOK
  <2>6. dropped' \in BOOLEAN /\ timer' \in BOOLEAN
    BY <2>3 DEF WriteEnds, DiagInv, DiagTypeOK
  <2>7. /\ size' \in Nat /\ file' \in [0 .. Generations -> {Missing} \cup Nat]
        /\ writing' = "no" /\ batch' = 0
    BY <2>1, <2>2, <2>3 DEF WriteEnds
  <2>8. DiagTypeOK'
    BY <2>3, <2>5, <2>6, <2>7 DEF DiagInv, DiagTypeOK
  <2>9. QueueIsServed'
    BY <2>3 DEF WriteEnds, QueueIsServed
  <2>10. FilesOK'
    BY <2>1, <2>2, <2>4, <2>7 DEF DiagInv, FilesOK
  <2> QED BY <2>8, <2>9, <2>10 DEF DiagInv
<1>4. CASE AppendFails
  <2>1. Lines(file) \in Nat /\ file \in [0 .. Generations -> {Missing} \cup Nat]
    BY DEF DiagInv, DiagTypeOK, Lines, Missing
  <2>2. WriteEnds(queue) /\ UNCHANGED <<dropped, size, rounds>>
    BY <1>4 DEF AppendFails
  <2>3. /\ file' \in [0 .. Generations -> {Missing} \cup Nat]
        /\ file'[0] = file[0] \/ file'[0] > 0
        /\ \A i \in 1 .. Generations : file'[i] = file[i]
    <3>1. CASE UNCHANGED file
      BY <2>1, <3>1
    <3>2. CASE \E part \in 1 .. batch :
                 /\ Lines(file) + part <= Disk
                 /\ file' = [file EXCEPT ![0] = Lines(file) + part]
      <4>1. PICK part \in 1 .. batch : file' = [file EXCEPT ![0] = Lines(file) + part]
        BY <3>2
      <4>2. Lines(file) + part \in Nat /\ Lines(file) + part > 0
        BY <2>1 DEF DiagInv, DiagTypeOK
      <4> QED BY <2>1, <4>1, <4>2
    <3> QED BY <1>4, <3>1, <3>2 DEF AppendFails
  <2>4. dropped' \in BOOLEAN /\ timer' \in BOOLEAN
    BY <2>2 DEF WriteEnds, DiagInv, DiagTypeOK
  <2>5. DiagTypeOK'
    <3>1. queue' = queue /\ writing' = "no" /\ batch' = 0 /\ UNCHANGED <<size, rounds>>
      BY <2>2 DEF WriteEnds
    <3> QED BY <2>3, <2>4, <3>1 DEF DiagInv, DiagTypeOK
  <2>6. QueueIsServed'
    BY <2>2 DEF WriteEnds, QueueIsServed
  <2>7. writing' = "no" /\ size' = size
    BY <2>2 DEF WriteEnds
  <2>8. FilesOK'
    BY <2>3, <2>7 DEF DiagInv, FilesOK
  <2> QED BY <2>5, <2>6, <2>8 DEF DiagInv
<1>5. CASE Rotate
  BY <1>5, RotateInv
<1>6. CASE Exit
  <2>0. rounds' \in -1 .. FlushRounds /\ timer' \in BOOLEAN
    <3>1. rounds' = 0 /\ timer' = FALSE
      BY <1>6 DEF Exit
    <3>2. 0 \in -1 .. FlushRounds
      BY DiagAssumption
    <3> QED BY <3>1, <3>2
  <2>1. DiagTypeOK'
    BY <1>6, <2>0 DEF Exit, DiagInv, DiagTypeOK
  <2>2. QueueIsServed'
    BY <1>6 DEF Exit, QueueIsServed
  <2>3. FilesOK'
    <3>1. UNCHANGED <<queue, writing, batch, size, file>>
      BY <1>6 DEF Exit
    <3> QED BY <3>1 DEF DiagInv, FilesOK
  <2> QED BY <2>1, <2>2, <2>3 DEF DiagInv
<1>7. CASE FlushRound
  BY <1>7 DEF FlushRound, Begun, DiagInv, DiagTypeOK, QueueIsServed, FilesOK
<1>8. CASE NextProcess
  <2>1. Lines(file) \in Nat /\ (file[0] = 0 => Lines(file) = 0)
    BY DEF DiagInv, DiagTypeOK, Lines, Missing
  <2>2. dropped' \in BOOLEAN /\ timer' \in BOOLEAN
    BY <1>8 DEF NextProcess
  <2>3. DiagTypeOK'
    BY <1>8, <2>1, <2>2 DEF NextProcess, DiagInv, DiagTypeOK
  <2>4. QueueIsServed' /\ FilesOK'
    BY <1>8, <2>1 DEF NextProcess, DiagInv, QueueIsServed, FilesOK
  <2> QED BY <2>3, <2>4 DEF DiagInv
<1>9. CASE Quarantine
  BY <1>9 DEF Quarantine, DiagInv, DiagTypeOK, QueueIsServed, FilesOK, Missing
<1>10. CASE UNCHANGED diagVars
  BY <1>10 DEF diagVars, DiagInv, DiagTypeOK, QueueIsServed, FilesOK
<1> QED
  BY <1>1, <1>2, <1>3, <1>4, <1>5, <1>6, <1>7, <1>8, <1>9, <1>10 DEF DiagNext

LEMMA DiagInvHolds == DiagSpec => []DiagInv
BY DiagInvInit, DiagInvNext, PTL DEF DiagSpec

\* The state of the log stays within its types: the queue is as long as its limit
\* and the one confession that diag-log.ts:521 adds past it.
THEOREM DiagTypeCorrect == DiagSpec => []DiagTypeOK
<1>1. DiagInv => DiagTypeOK
  BY DEF DiagInv
<1> QED BY <1>1, DiagInvHolds, PTL

\* No line is left in the queue with nothing under way that writes it: a timer,
\* a write that schedules when it ends (diag-log.ts:496), or an exit's flush.
THEOREM QueueAlwaysServed == DiagSpec => []QueueIsServed
<1>1. DiagInv => QueueIsServed
  BY DEF DiagInv
<1> QED BY <1>1, DiagInvHolds, PTL

-----------------------------------------------------------------------------
\* The renames themselves lose no more than the oldest generation.
LEMMA ShiftedKeeps ==
  ASSUME DiagInv, writing = "rotating", NEW moved \in Movable, Kept(file)
  PROVE  Kept(Shifted(moved))
<1> DEFINE f == Shifted(moved)
<1>1. /\ Generations \in Nat \ {0}
      /\ file \in [0 .. Generations -> {Missing} \cup Nat]
  BY DiagAssumption DEF DiagInv, DiagTypeOK
<1>2. CASE 1 \in moved
  BY <1>1, <1>2, ShiftedIsReal DEF Kept
<1>3. CASE 1 \notin moved /\ file[0] > 0
  BY <1>1, <1>3, ShiftedIsReal DEF Kept
<1>4. CASE 1 \notin moved /\ ~(file[0] > 0)
  <2>1. PICK i \in 1 .. Generations : file[i] > 0
    BY <1>1, <1>4 DEF Kept
  <2>2. /\ moved \subseteq 1 .. Generations
        /\ \A n \in 0 .. Generations :
             f[n] = IF n \in moved THEN file[n - 1]
                    ELSE IF n + 1 \in moved THEN Missing ELSE file[n]
    BY DEF Movable, Shifted
  <2>3. \E n \in 1 .. Generations : f[n] # Missing
    <3>1. CASE i + 1 \in moved
      <4>1. i + 1 \in 1 .. Generations /\ (i + 1) - 1 = i
        BY <1>1, <2>2, <3>1
      <4>2. f[i + 1] = file[i]
        BY <2>2, <3>1, <4>1
      <4> QED BY <2>1, <4>1, <4>2 DEF Missing
    <3>2. CASE i \in moved
      <4>1. file[i - 1] # Missing
        BY <3>2 DEF Movable
      <4>2. f[i] = file[i - 1]
        BY <2>2, <3>2
      <4> QED BY <4>1, <4>2
    <3>3. CASE i \notin moved /\ i + 1 \notin moved
      BY <2>1, <2>2, <3>3 DEF Missing
    <3> QED BY <3>1, <3>2, <3>3
  <2>4. PICK n \in 1 .. Generations : f[n] # Missing
    BY <2>3
  <2>5. f[n] \in {Missing} \cup Nat /\ f[n] # 0 /\ n \in 0 .. Generations
    BY <1>1, ShiftedIsReal
  <2>6. f[n] > 0
    BY <2>4, <2>5 DEF Missing
  <2> QED BY <2>5, <2>6 DEF Kept
<1> QED BY <1>2, <1>3, <1>4

\* A rotation may cost a generation but never the only copy of the log: neither
\* a refused rename nor a refused copy ends in an emptied file, unless the file
\* has outgrown its bound (diag-log.ts:611-646).
THEOREM EvidenceIsKept == DiagSpec => EvidenceKept
<1>1. ASSUME DiagInv, [DiagNext]_diagVars,
             writing = "rotating" /\ writing' = "appending" /\ Kept(file)
      PROVE  Kept(file') \/ Overgrown
  <2>1. Rotate
    BY <1>1 DEF DiagNext, diagVars, diag, flush, Begun, AppendBatch, AppendFails, WriteEnds,
                Exit, FlushRound, NextProcess, Quarantine
  <2>2. PICK moved \in Movable :
          IF 1 \in moved THEN Rotated(Shifted(moved), 0) ELSE InPlace(Shifted(moved))
    BY <2>1 DEF Rotate
  <2>3. Kept(Shifted(moved))
    BY <1>1, ShiftedKeeps
  <2>4. CASE 1 \in moved
    BY <2>2, <2>3, <2>4 DEF Rotated
  <2>5. CASE 1 \notin moved
    <3> DEFINE f == Shifted(moved)
    <3>1. /\ f \in [0 .. Generations -> {Missing} \cup Nat]
          /\ f[0] = file[0] /\ f[0] # 0 /\ \A i \in 1 .. Generations : f[i] # 0
      BY <1>1, <2>5, ShiftedIsReal, RotatedIsReal
    <3>2. \/ file' = f
          \/ Kept(file')
          \/ \E fails \in BOOLEAN : Recounted(f, fails) >= MaxFile * Overflow
      BY <1>1, <2>2, <2>5, <3>1, InPlaceOutcome
    <3>3. CASE \E fails \in BOOLEAN : Recounted(f, fails) >= MaxFile * Overflow
      <4>1. PICK fails \in BOOLEAN : Recounted(f, fails) >= MaxFile * Overflow
        BY <3>3
      <4>2. Recounted(f, fails) = size \/ Recounted(f, fails) = file[0]
            \/ Recounted(f, fails) = 0
        BY <3>1 DEF Recounted, Lines
      <4>3. size \in Nat /\ MaxFile * Overflow \in Nat
        BY <1>1, DiagAssumption DEF DiagInv, DiagTypeOK
      <4> QED BY <4>1, <4>2, <4>3 DEF Overgrown
    <3> QED BY <2>3, <3>2, <3>3
  <2> QED BY <2>4, <2>5
<1>2. DiagInv /\ [DiagNext]_diagVars
        => [writing = "rotating" /\ writing' = "appending" /\ Kept(file)
              => Kept(file') \/ Overgrown]_diagVars
  BY <1>1
<1> QED BY <1>2, DiagInvHolds, PTL DEF DiagSpec, EvidenceKept

-----------------------------------------------------------------------------
(* The names screenshots carry.                                              *)

(* An entry of the reordered list is an entry of the list but for its flag.   *)
SameDisplay(a, b) == a.of = b.of /\ a.size = b.size /\ a.rect = b.rect

(* normalizeDisplays only reorders: both lists hold the same displays.        *)
LEMMA OnlyReorders ==
  ASSUME NEW Display, NEW Size, NEW Rect, NEW list \in Seq(Entry(Display, Size, Rect))
  PROVE  LET displays == normalizeDisplays(list)
         IN  /\ displays \in Seq(Entry(Display, Size, Rect))
             /\ Len(displays) = Len(list)
             /\ \A i \in DOMAIN displays : \E j \in DOMAIN list : SameDisplay(displays[i], list[j])
             /\ \A j \in DOMAIN list : \E i \in DOMAIN displays : SameDisplay(displays[i], list[j])
PROOF
<1> DEFINE displays == normalizeDisplays(list)
<1>0. /\ Len(list) \in Nat
      /\ DOMAIN list = 1 .. Len(list)
      /\ \A i \in DOMAIN list : list[i] \in Entry(Display, Size, Rect)
  OBVIOUS
<1>1. CASE Cardinality(PrimaryAt(list)) = 1
  <2> DEFINE p == CHOOSE q \in PrimaryAt(list) : TRUE
             Moved(i) == IF i = 1 THEN p ELSE IF i <= p THEN i - 1 ELSE i
  <2>1. PrimaryAt(list) # {}
    <3>1. Cardinality({}) = 0
      BY FS_EmptySet
    <3> QED BY <1>1, <3>1
  <2>2. p \in DOMAIN list
    BY <2>1 DEF PrimaryAt
  <2>3. displays = [i \in DOMAIN list |-> list[Moved(i)]]
    BY <1>1 DEF normalizeDisplays
  <2>4. \A i \in DOMAIN list : Moved(i) \in DOMAIN list
    BY <1>0, <2>2
  <2> HIDE DEF p
  <2>5. displays \in Seq(Entry(Display, Size, Rect)) /\ Len(displays) = Len(list)
        /\ DOMAIN displays = DOMAIN list
    BY <1>0, <2>3, <2>4
  <2>6. ASSUME NEW i \in DOMAIN displays
        PROVE  \E j \in DOMAIN list : SameDisplay(displays[i], list[j])
    BY <2>3, <2>4, <2>5 DEF SameDisplay
  <2>7. ASSUME NEW j \in DOMAIN list
        PROVE  \E i \in DOMAIN displays : SameDisplay(displays[i], list[j])
    <3>1. PICK i \in DOMAIN list : Moved(i) = j
      <4>1. CASE j = p
        BY <1>0, <2>2, <4>1
      <4>2. CASE j < p
        <5>1. j + 1 \in DOMAIN list /\ Moved(j + 1) = j
          BY <1>0, <2>2, <4>2
        <5> QED BY <5>1
      <4>3. CASE j > p
        BY <1>0, <2>2, <4>3
      <4> QED BY <1>0, <2>2, <4>1, <4>2, <4>3
    <3>2. displays[i] = list[j]
      BY <2>3, <3>1
    <3> QED BY <2>5, <3>1, <3>2 DEF SameDisplay
  <2> QED BY <2>5, <2>6, <2>7
<1>2. CASE Cardinality(PrimaryAt(list)) # 1
  <2>1. displays = [i \in DOMAIN list |-> [list[i] EXCEPT !.primary = FALSE]]
    BY <1>2 DEF normalizeDisplays
  <2>2. ASSUME NEW i \in DOMAIN list
        PROVE  /\ displays[i] \in Entry(Display, Size, Rect)
               /\ SameDisplay(displays[i], list[i])
    <3>1. displays[i] = [list[i] EXCEPT !.primary = FALSE]
      BY <2>1
    <3>2. list[i] \in Entry(Display, Size, Rect)
      BY <1>0
    <3> HIDE DEF displays
    <3> QED BY <3>1, <3>2 DEF Entry, SameDisplay
  <2>3. displays \in Seq(Entry(Display, Size, Rect)) /\ Len(displays) = Len(list)
        /\ DOMAIN displays = DOMAIN list
    <3> DEFINE unflagged(i) == [list[i] EXCEPT !.primary = FALSE]
    <3>1. displays = [i \in 1 .. Len(list) |-> unflagged(i)]
      BY <1>0, <2>1
    <3>2. \A i \in 1 .. Len(list) : displays[i] \in Entry(Display, Size, Rect)
      BY <1>0, <2>2
    <3> HIDE DEF displays, unflagged
    <3>3. \A i \in 1 .. Len(list) : unflagged(i) \in Entry(Display, Size, Rect)
      BY <3>1, <3>2
    <3> QED BY <1>0, <3>1, <3>3
  <2> QED BY <2>2, <2>3
<1> QED BY <1>1, <1>2

(* After reordering, the display an answer calls primary is the machine's.    *)
LEMMA PrimaryIsMain ==
  ASSUME NEW Display, NEW Size, NEW Rect, NEW list \in Seq(Entry(Display, Size, Rect)),
         NEW machine, Truthful(list, machine),
         0 \in primaryIndex(normalizeDisplays(list))
  PROVE  normalizeDisplays(list)[1].of = machine.main
PROOF
<1> DEFINE displays == normalizeDisplays(list)
<1>0. Len(displays) = Len(list) /\ displays \in Seq(Entry(Display, Size, Rect))
  BY OnlyReorders
<1>a. Len(list) \in Nat /\ DOMAIN list = 1 .. Len(list)
  OBVIOUS
<1>1. displays # << >> /\ displays[1].primary /\ 1 \in DOMAIN list
  <2> HIDE DEF displays
  <2>1. displays # << >> /\ displays[1].primary
    BY DEF primaryIndex, displays
  <2> QED BY <1>0, <1>a, <2>1
<1>2. Cardinality(PrimaryAt(list)) = 1
  <2> SUFFICES ASSUME Cardinality(PrimaryAt(list)) # 1 PROVE FALSE
    OBVIOUS
  <2>1. displays[1] = [list[1] EXCEPT !.primary = FALSE]
    BY <1>1 DEF normalizeDisplays
  <2>2. list[1] \in Entry(Display, Size, Rect)
    BY <1>1
  <2> QED BY <1>1, <2>1, <2>2 DEF Entry
<1>3. IsFiniteSet(PrimaryAt(list))
  <2>1. PrimaryAt(list) \subseteq 1 .. Len(list)
    BY DEF PrimaryAt
  <2>2. IsFiniteSet(1 .. Len(list))
    BY FS_Interval
  <2> QED BY <2>1, <2>2, FS_Subset
<1>4. PICK p : PrimaryAt(list) = {p}
  BY <1>2, <1>3, FS_Singleton
<1>5. displays[1] = list[p]
  <2>1. (CHOOSE q \in PrimaryAt(list) : TRUE) = p
    BY <1>4
  <2> QED BY <1>1, <1>2, <2>1 DEF normalizeDisplays
<1>6. p \in DOMAIN list
  BY <1>4 DEF PrimaryAt
<1> QED BY <1>4, <1>5, <1>6 DEF Truthful

(* On macOS a reply that states a display carries this display's pixels,      *)
(* however screencapture numbers the displays, whatever the request, and      *)
(* whether or not the picture's size can be read.                             *)
THEOREM MacLabelIsHonest ==
  ASSUME NEW Display, NEW Size, NEW Rect, NEW list \in Seq(Entry(Display, Size, Rect)),
         NEW machine, Truthful(list, machine),
         NEW n \in Int, NEW request \in {Undefined, All, AtIndex(n)},
         NEW run, NEW cap
  PROVE  HonestLabel(captureMac(machine, request, list, run, cap))
PROOF
<1> DEFINE displays == normalizeDisplays(list)
           selected == validateIndex(request, displays)
           index == CHOOSE m \in selected : TRUE
           rect == macRectCapture(request, index, displays)
           pixels == Pictured(machine, request, rect, index)
           measured == IF run.readable THEN {machine.frame[pixels]} ELSE {}
           stated == IF \E r \in rect : rectAspectMatches(r, measured) THEN {index}
                     ELSE confirmMacDisplay(request, index, displays, measured)
           shot == captureMac(machine, request, list, run, cap)
<1>1. CASE \/ request.kind = "all" \/ selected = {}
           \/ run.end # "resolved" \/ run.bytes > cap
  BY <1>1 DEF captureMac, HonestLabel, Refused
<1>2. CASE ~(\/ request.kind = "all" \/ selected = {}
             \/ run.end # "resolved" \/ run.bytes > cap)
  <2>1. /\ shot.refused = FALSE /\ shot.display = stated
        /\ shot.displays = displays /\ shot.pixels = {pixels}
    BY <1>2 DEF captureMac
  <2>0. DOMAIN list = 1 .. Len(list) /\ Len(list) \in Nat
    OBVIOUS
  <2>2. /\ displays \in Seq(Entry(Display, Size, Rect))
        /\ Len(displays) = Len(list)
        /\ \A i \in DOMAIN displays : \E j \in DOMAIN list : SameDisplay(displays[i], list[j])
        /\ \A j \in DOMAIN list : \E i \in DOMAIN displays : SameDisplay(displays[i], list[j])
    BY OnlyReorders
  <2>3. index \in selected /\ index \in Int
        /\ (request.kind = "index" => 0 <= index)
        /\ (request.kind = "undefined" => index = 0)
        /\ (request.kind = "index" /\ displays # << >> => index + 1 \in DOMAIN displays)
    <3>1. index \in selected
      BY <1>2
    <3>2. request.kind \in {"undefined", "index"} /\ request.index \in Int
      BY <1>2 DEF Undefined, All, AtIndex
    <3> HIDE DEF index, displays
    <3>3. CASE request.kind = "undefined"
      <4>1. selected = {0}
        BY <3>3 DEF validateIndex
      <4> QED BY <3>1, <3>3, <4>1
    <3>4. CASE request.kind = "index"
      BY <2>2, <3>1, <3>2, <3>4 DEF validateIndex
    <3> QED BY <3>1, <3>2, <3>3, <3>4
  <2>4. 0 \in primaryIndex(displays) => displays[1].of = machine.main
    BY PrimaryIsMain
  <2>5. primaryIndex(displays) \subseteq {0}
        /\ (0 \in primaryIndex(displays) => 1 \in DOMAIN displays)
    BY <2>2 DEF primaryIndex
  <2> HIDE DEF displays, index, rect, pixels, selected, shot
  <2>6. ASSUME NEW m \in stated
        PROVE  /\ stated = {m} /\ m + 1 \in DOMAIN displays
               /\ displays[m + 1].of = pixels
    <3>1. CASE \E r \in rect : rectAspectMatches(r, measured)
      <4>1. stated = {index} /\ m = index
        BY <3>1
      <4>2. PICK r \in rect : TRUE
        BY <3>1
      <4>3. /\ index + 1 \in DOMAIN displays /\ rect \subseteq displays[index + 1].rect
            /\ request.kind = "index"
        <5>1. /\ request.kind # "undefined" /\ ~(index >= Len(displays))
              /\ rect \subseteq displays[index + 1].rect
          BY <4>2 DEF rect, macRectCapture
        <5>2. request.kind = "index"
          BY <1>2, <5>1 DEF Undefined, All, AtIndex
        <5> QED BY <2>2, <2>3, <5>1, <5>2
      <4>4. PICK r0 \in rect : pixels = machine.at[r0]
        BY <4>2 DEF pixels, Pictured
      <4>5. PICK j \in DOMAIN list : SameDisplay(displays[index + 1], list[j])
        BY <2>2, <4>3
      <4> QED BY <4>1, <4>3, <4>4, <4>5 DEF SameDisplay, Truthful
    <3>2. CASE ~\E r \in rect : rectAspectMatches(r, measured)
      <4>0. m \in confirmMacDisplay(request, index, displays, measured)
            /\ stated = confirmMacDisplay(request, index, displays, measured)
        BY <3>2
      <4>1. CASE request.kind = "undefined"
        <5>1. m \in primaryIndex(displays) /\ stated = primaryIndex(displays)
          BY <4>0, <4>1 DEF confirmMacDisplay
        <5>2. m = 0 /\ stated = {0}
          BY <2>5, <5>1
        <5>3. rect = {} /\ pixels = machine.main
          BY <4>1 DEF rect, macRectCapture, pixels, Pictured
        <5> QED BY <2>4, <2>5, <5>1, <5>2, <5>3
      <4>2. CASE request.kind # "undefined" /\ index \in primaryIndex(displays)
        <5>1. m = index /\ stated = {index}
          BY <4>0, <4>2 DEF confirmMacDisplay
        <5>2. index = 0 /\ index + 1 = 1
          BY <2>5, <4>2
        <5>3. rect = {}
          BY <4>2 DEF rect, macRectCapture
        <5>4. pixels = machine.main
          BY <5>2, <5>3 DEF pixels, Pictured
        <5>5. m + 1 = 1
          BY <5>1, <5>2
        <5> QED BY <2>4, <2>5, <4>2, <5>1, <5>2, <5>4, <5>5
      <4>3. CASE /\ request.kind # "undefined" /\ index \notin primaryIndex(displays)
                 /\ Len(displays) = 1 /\ index = 0
        <5>1. m = index /\ stated = {index} /\ 1 \in DOMAIN displays
          BY <2>2, <4>0, <4>3 DEF confirmMacDisplay
        <5>2. PICK j \in DOMAIN list : SameDisplay(displays[1], list[j])
          BY <2>2, <5>1
        <5>3. j = 1 /\ DOMAIN list = {1} /\ index + 1 = 1 /\ m + 1 = 1
          BY <2>0, <2>2, <4>3, <5>1
        <5>4. CASE rect = {}
          <6>1. pixels = machine.main
            BY <4>3, <5>4 DEF pixels, Pictured
          <6>2. machine.main = list[1].of
            BY <5>3 DEF Truthful
          <6> QED BY <4>3, <5>1, <5>2, <5>3, <6>1, <6>2 DEF SameDisplay
        <5>5. CASE rect # {}
          <6>1. PICK r0 \in rect : pixels = machine.at[r0]
            BY <5>5 DEF pixels, Pictured
          <6>2. r0 \in displays[1].rect
            BY <4>3, <5>3, <6>1 DEF rect, macRectCapture
          <6>3. machine.at[r0] = list[j].of
            BY <5>2, <6>2 DEF SameDisplay, Truthful
          <6> QED BY <5>1, <5>2, <5>3, <6>1, <6>3 DEF SameDisplay
        <5> QED BY <5>4, <5>5
      <4>4. CASE /\ request.kind # "undefined" /\ index \notin primaryIndex(displays)
                 /\ ~(Len(displays) = 1 /\ index = 0)
        <5> DEFINE SameSize == {i \in DOMAIN displays : displays[i].size \in measured}
        <5>1. m = index /\ stated = {index} /\ SameSize = {index + 1}
          BY <4>0, <4>4 DEF confirmMacDisplay
        <5>2. /\ index + 1 \in DOMAIN displays
              /\ displays[index + 1].size = machine.frame[pixels]
          BY <5>1
        <5>3. PICK i \in DOMAIN displays : displays[i].of = pixels
          <6>0. PICK k \in DOMAIN list : SameDisplay(displays[index + 1], list[k])
            BY <2>2, <5>2
          <6>1. PICK j \in DOMAIN list : list[j].of = pixels
            <7>1. CASE rect # {}
              <8>1. PICK r0 \in rect : pixels = machine.at[r0]
                BY <7>1 DEF pixels, Pictured
              <8>2. r0 \in displays[index + 1].rect
                BY <7>1, <8>1 DEF rect, macRectCapture
              <8> QED BY <6>0, <8>1, <8>2 DEF SameDisplay, Truthful
            <7>2. CASE rect = {}
              <8>1. index + 1 \in DOMAIN list
                BY <2>2, <5>2
              <8>2. pixels \in {machine.main, machine.number[index + 1]}
                BY <7>2 DEF pixels, Pictured
              <8>3. list # << >>
                BY <6>0
              <8> QED BY <8>1, <8>2, <8>3 DEF Truthful
            <7> QED BY <7>1, <7>2
          <6> QED BY <2>2, <6>1 DEF SameDisplay
        <5>4. displays[i].size = displays[index + 1].size
          <6>1. PICK a \in DOMAIN list : SameDisplay(displays[i], list[a])
            BY <2>2
          <6>2. PICK b \in DOMAIN list : SameDisplay(displays[index + 1], list[b])
            BY <2>2, <5>2
          <6>3. machine.frame[list[a].of] = list[b].size
            BY <5>2, <5>3, <6>1, <6>2 DEF SameDisplay
          <6> QED BY <6>1, <6>2, <6>3 DEF SameDisplay, Truthful
        <5>5. measured = {machine.frame[pixels]}
          BY <5>1, <5>2
        <5>6. i \in SameSize
          BY <5>2, <5>4, <5>5
        <5> QED BY <5>1, <5>2, <5>3, <5>6
      <4> QED BY <4>1, <4>2, <4>3, <4>4
    <3> QED BY <3>1, <3>2
  <2>7. HonestLabel(shot)
    <3>1. CASE stated = {}
      BY <2>1, <3>1 DEF HonestLabel
    <3>2. CASE stated # {}
      <4>1. PICK m \in stated : TRUE
        BY <3>2
      <4>2. stated = {m} /\ m + 1 \in DOMAIN displays /\ displays[m + 1].of = pixels
        BY <2>6, <4>1
      <4> HIDE DEF stated
      <4>3. {displays[k + 1].of : k \in stated} = {pixels}
        BY <4>2
      <4> QED BY <2>1, <4>2, <4>3 DEF HonestLabel
    <3> QED BY <3>1, <3>2
  <2> QED BY <2>7 DEF shot
<1> QED BY <1>1, <1>2
=============================================================================
