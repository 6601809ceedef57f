--------------------------- MODULE JobEventsProofs ---------------------------
(***************************************************************************)
(* Theorems about JobEvents, for every set of webhook jobs, any replay cap,  *)
(* any order of their ends, and any number of lost connections and crashes:  *)
(* the state is well-typed, and, as long as terminal records can be written,  *)
(* reporting implements EventDelivery.                                       *)
(***************************************************************************)
EXTENDS JobEvents, FiniteSetTheorems, TLAPS

\* What ties the disk, the windows, the wire and the relay together: only running
\* records are in a window or on their way out, none while its start goes on, and an
\* event that was ever sent belongs to a record that has ended.
Tied ==
  /\ starting \cap (retiring \cup undoing) = {}
  /\ starting \cup retiring \cup undoing \subseteq Running
  /\ acks \subseteq known
  /\ \A j \in events \cup known : rec[j] \in {"ended", "expired"}

IInv == TypeOK /\ Tied

-----------------------------------------------------------------------------
(* The scan.                                                                  *)

\* What a scan keeps of the events it finds is a set of them, no larger than the
\* cap; and if it leaves one out, it keeps as many as the cap allows.
LEMMA NewestKeeps ==
  ASSUME NEW U \in SUBSET Job, NEW K \in Newest(U)
  PROVE  /\ K \subseteq U /\ IsFiniteSet(K)
         /\ Cardinality(K) \in Nat /\ Cardinality(K) <= ReplayMax
         /\ U \ K # {} => Cardinality(K) = ReplayMax
         /\ \A i \in K, j \in U \ K : EndedAt[i] >= EndedAt[j]
<1>1. IsFiniteSet(U)
  BY JobAssumption, FS_Subset
<1>2. K \subseteq U
  BY DEF Newest
<1>3. IsFiniteSet(K)
  BY <1>1, <1>2, FS_Subset
<1>4. Cardinality(K) \in Nat /\ Cardinality(U) \in Nat
  BY <1>1, <1>3, FS_CardinalityType
<1>5. Cardinality(K) = Cardinality(U) => K = U
  BY <1>1, <1>2, FS_Subset
<1>6. Cardinality(K) = IF Cardinality(U) <= ReplayMax THEN Cardinality(U) ELSE ReplayMax
  BY DEF Newest
<1>7. \A i \in K, j \in U \ K : EndedAt[i] >= EndedAt[j]
  BY DEF Newest
<1> QED BY <1>2, <1>3, <1>4, <1>5, <1>6, <1>7, ReplayAssumption

\* The events a scan finds owed are events of jobs, and so is what it writes.
LEMMA ScanType ==
  ASSUME TypeOK, NEW young
  PROVE  /\ Settleable(young) \subseteq Over
         /\ Over \subseteq Running /\ Running \subseteq Job
         /\ Unacked(Settleable(young)) \subseteq Job
BY DEF Settleable, Over, Running, Unacked, TypeOK

LEMMA WrittenType == ASSUME NEW S, NEW outcomes, NEW W \in Written(S, outcomes) PROVE W \subseteq S
BY DEF Written

-----------------------------------------------------------------------------
(* Type correctness.                                                          *)

LEMMA InitIInv == Init => IInv
<1> SUFFICES ASSUME Init PROVE IInv OBVIOUS
<1>1. Cardinality({}) = 0
  BY FS_EmptySet
<1>2. rec \in [Job -> {"new", "running", "ended", "undone", "expired"}]
      /\ proc \in [Job -> {"none", "alive", "over"}]
  BY DEF Init
<1>3. owed \subseteq Job /\ Cardinality(owed) <= ReplayMax
  BY <1>1, ReplayAssumption DEF Init
<1>4. /\ manager \in BOOLEAN /\ attached \in BOOLEAN /\ timer \in BOOLEAN /\ flush \in BOOLEAN
      /\ link \in {"down", "up"} /\ pending \in {"yes", "no", "unknown"}
      /\ drops \in Nat /\ crashes \in Nat
  BY DEF Init
<1>5. /\ unacked \subseteq Job /\ pidless \subseteq Job /\ undoing \subseteq Job
      /\ starting \subseteq Job /\ retiring \subseteq Job /\ settled \subseteq Job
      /\ child \subseteq Job /\ sent \subseteq Job
      /\ events \subseteq Job /\ acks \subseteq Job /\ known \subseteq Job
  BY DEF Init
<1>6. Tied
  BY DEF Init, Tied
<1> QED BY <1>2, <1>3, <1>4, <1>5, <1>6 DEF IInv, TypeOK

LEMMA SettleType ==
  ASSUME TypeOK, NEW j \in Job, NEW ok, Settle(j, ok)
  PROVE  /\ rec' \in [Job -> {"new", "running", "ended", "undone", "expired"}]
         /\ unacked' \subseteq Job /\ pidless' \subseteq Job /\ undoing' \subseteq Job
         /\ settled' \subseteq Job
         /\ attached' \in BOOLEAN /\ timer' \in BOOLEAN /\ flush' \in BOOLEAN
         /\ sent' \subseteq Job /\ owed' = owed
         /\ pending' \in {"yes", "no", "unknown"}
<1>1. rec' \in [Job -> {"new", "running", "ended", "undone", "expired"}]
  BY DEF Settle, TypeOK
<1>2. unacked' \subseteq Job /\ pidless' \subseteq Job /\ undoing' \subseteq Job /\ settled' \subseteq Job
  BY DEF Settle, TypeOK
<1>3. flush' \in BOOLEAN /\ pending' \in {"yes", "no", "unknown"}
  BY DEF Settle, TypeOK, Notified, Unnoticed
<1>4. attached' = attached /\ timer' = timer /\ sent' = sent /\ owed' = owed
  BY DEF Settle
<1> QED BY <1>1, <1>2, <1>3, <1>4 DEF TypeOK

LEMMA CycleType ==
  ASSUME TypeOK, NEW young, NEW resend, NEW flushing \in BOOLEAN, Cycle(young, resend, flushing),
         link' \in {"down", "up"}
  PROVE  TypeOK'
<1> DEFINE E == Settleable(young)
<1>a. PICK K \in Newest(Unacked(E)) :
        \E wrote \in Written(E \ Discarded(E), SettleWrites),
           marked \in Written(Unacked(E) \ K, MarkWrites) :
          CycleOf(E, K, wrote, marked, resend, flushing)
  BY DEF Cycle
<1>1. PICK wrote \in Written(E \ Discarded(E), SettleWrites),
           marked \in Written(Unacked(E) \ K, MarkWrites) :
        CycleOf(E, K, wrote, marked, resend, flushing)
  BY <1>a
<1>2. E \subseteq Job /\ Unacked(E) \in SUBSET Job
  BY ScanType
<1>3. K \subseteq Job /\ Cardinality(K) <= ReplayMax
  BY <1>2, NewestKeeps
<1>4. wrote \subseteq Job /\ marked \subseteq Job
  BY <1>2, WrittenType
<1> HIDE DEF E
<1>5. rec' \in [Job -> {"new", "running", "ended", "undone", "expired"}]
  BY <1>1 DEF CycleOf, TypeOK
<1>6. unacked' \subseteq Job /\ pidless' \subseteq Job /\ undoing' \subseteq Job /\ settled' \subseteq Job
  BY <1>1, <1>2, <1>4 DEF CycleOf, TypeOK
<1>7. attached' \in BOOLEAN /\ timer' \in BOOLEAN /\ flush' \in BOOLEAN
      /\ pending' \in {"yes", "no", "unknown"}
  BY <1>1 DEF CycleOf, TypeOK, StillPending
<1>8. owed' = K /\ sent' \subseteq Job /\ events' \subseteq Job
  BY <1>1, <1>3 DEF CycleOf, TypeOK
<1>9. UNCHANGED <<manager, starting, retiring, child, acks, known, proc, bounds>>
  BY <1>1 DEF CycleOf
<1> QED BY <1>3, <1>5, <1>6, <1>7, <1>8, <1>9 DEF TypeOK, bounds

LEMMA JobType ==
  ASSUME TypeOK, NEW j \in Job, JobStep(j) PROVE TypeOK'
<1>1. CASE StartJob(j)
  BY <1>1 DEF StartJob, TypeOK, wire, bounds
<1>2. CASE StartSucceeds(j)
  BY <1>2 DEF StartSucceeds, TypeOK, wire, bounds, reporter
<1>3. CASE StartGivenUp(j)
  BY <1>3 DEF StartGivenUp, TypeOK, wire, bounds, reporter
<1>4. CASE ProcEnds(j)
  BY <1>4 DEF ProcEnds, TypeOK, disk, memory, wire, bounds, reporter
<1>5. ASSUME NEW ok, StartRetired(j, ok) PROVE TypeOK'
  BY <1>5 DEF StartRetired, TypeOK, wire, bounds, reporter
<1>6. ASSUME NEW ok, ExitEvent(j, ok) PROVE TypeOK'
  <2>1. CASE j \in retiring
    BY <1>6, <2>1 DEF ExitEvent, TypeOK, wire, bounds, reporter, disk, Over, Live
  <2>2. CASE j \in Over
    BY <1>6, <2>2, SettleType DEF ExitEvent, TypeOK, wire, bounds, Over, Live
  <2>3. CASE j \notin retiring \cup Over
    BY <1>6, <2>3 DEF ExitEvent, TypeOK, wire, bounds, reporter, disk
  <2> QED BY <2>1, <2>2, <2>3
<1>7. ASSUME NEW ok, Refresh(j, ok) PROVE TypeOK'
  BY <1>7, SettleType DEF Refresh, TypeOK, wire, bounds
<1>8. ASSUME NEW ok, NEW spawned \in BOOLEAN, CancelStarting(j, spawned, ok) PROVE TypeOK'
  BY <1>8, SettleType DEF CancelStarting, TypeOK, wire, bounds
<1> QED BY <1>1, <1>2, <1>3, <1>4, <1>5, <1>6, <1>7, <1>8 DEF JobStep

LEMMA WireType ==
  ASSUME TypeOK, NEW j \in Job,
         RelayRecords(j) \/ RelayIgnores(j) \/ \E ok \in MarkWrites : Ack(j, ok)
  PROVE  TypeOK'
<1>1. CASE RelayRecords(j)
  BY <1>1 DEF RelayRecords, TypeOK, disk, memory, reporter, bounds
<1>2. CASE RelayIgnores(j)
  BY <1>2 DEF RelayIgnores, TypeOK, disk, memory, reporter, bounds
<1>3. ASSUME NEW ok, Ack(j, ok) PROVE TypeOK'
  <2>1. IsFiniteSet(owed)
    BY JobAssumption, FS_Subset DEF TypeOK
  <2>2. owed' \subseteq owed
    BY <1>3 DEF Ack
  <2>3. Cardinality(owed') <= Cardinality(owed)
    BY <2>1, <2>2, FS_Subset
  <2>4. Cardinality(owed') \in Nat /\ Cardinality(owed) \in Nat
    BY <2>1, <2>2, FS_Subset, FS_CardinalityType
  <2>5. owed' \subseteq Job /\ Cardinality(owed') <= ReplayMax
    BY <2>2, <2>3, <2>4, ReplayAssumption DEF TypeOK
  <2>6. sent' \subseteq Job /\ unacked' \subseteq Job /\ acks' \subseteq Job
    BY <1>3 DEF Ack, TypeOK
  <2>7. UNCHANGED <<rec, pidless, undoing, memory, attached, pending, timer, flush, link, events,
                    known, proc, bounds>>
    BY <1>3 DEF Ack
  <2> QED BY <2>5, <2>6, <2>7 DEF TypeOK, memory, bounds
<1> QED BY <1>1, <1>2, <1>3

LEMMA ManagerType ==
  ASSUME TypeOK, NEW E \in SUBSET Over, NEW old \in SUBSET Job, NEW wrote \in SUBSET E,
         CreateManager(E, wrote, old)
  PROVE  TypeOK'
<1>1. E \subseteq Job
  BY ScanType
<1>2. rec' \in [Job -> {"new", "running", "ended", "undone", "expired"}]
  BY DEF CreateManager, TypeOK
<1>3. unacked' \subseteq Job /\ pidless' \subseteq Job /\ undoing' \subseteq Job /\ settled' \subseteq Job
  BY <1>1 DEF CreateManager, TypeOK
<1>4. manager' \in BOOLEAN /\ attached' \in BOOLEAN
  BY DEF CreateManager
<1>5. UNCHANGED <<starting, retiring, child, sent, owed, pending, timer, flush, wire, known, proc,
                  bounds>>
  BY DEF CreateManager
<1> QED BY <1>2, <1>3, <1>4, <1>5 DEF TypeOK, wire, bounds

LEMMA DisconnectType ==
  ASSUME TypeOK, Disconnect
  PROVE  /\ link' \in {"down", "up"} /\ events' \subseteq Job /\ acks' \subseteq Job
         /\ attached' \in BOOLEAN /\ timer' \in BOOLEAN /\ flush' \in BOOLEAN
         /\ sent' \subseteq Job /\ owed' \subseteq Job /\ Cardinality(owed') <= ReplayMax
         /\ pending' \in {"yes", "no", "unknown"}
<1>1. Cardinality({}) = 0
  BY FS_EmptySet
<1>2. owed' \subseteq Job /\ Cardinality(owed') <= ReplayMax
  BY <1>1, ReplayAssumption DEF Disconnect
<1>3. attached' \in BOOLEAN /\ timer' \in BOOLEAN /\ flush' \in BOOLEAN
  BY DEF Disconnect
<1> QED BY <1>2, <1>3 DEF Disconnect

LEMMA EndingType ==
  ASSUME TypeOK, Drop \/ \E spawned \in SUBSET starting : Crash(spawned) PROVE TypeOK'
<1>1. CASE Drop
  BY <1>1, DisconnectType DEF Drop, TypeOK, disk, memory
<1>2. ASSUME NEW spawned \in SUBSET starting, Crash(spawned) PROVE TypeOK'
  <2>1. proc' \in [Job -> {"none", "alive", "over"}]
    BY <1>2 DEF Crash, TypeOK
  <2>2. /\ starting' \subseteq Job /\ retiring' \subseteq Job
        /\ settled' \subseteq Job /\ child' \subseteq Job
    BY <1>2 DEF Crash
  <2>3. manager' \in BOOLEAN
    BY <1>2 DEF Crash
  <2>4. drops' \in Nat /\ crashes' \in Nat
    BY <1>2 DEF Crash, TypeOK
  <2> QED BY <1>2, <2>1, <2>2, <2>3, <2>4, DisconnectType DEF Crash, TypeOK, disk
<1> QED BY <1>1, <1>2

LEMMA StutterType == TypeOK /\ UNCHANGED vars => TypeOK'
BY DEF TypeOK, vars, disk, memory, reporter, wire, bounds

LEMMA ReporterType == TypeOK /\ ReporterStep => TypeOK'
<1> SUFFICES ASSUME TypeOK, ReporterStep PROVE TypeOK' OBVIOUS
<1>1. flush \in BOOLEAN /\ FALSE \in BOOLEAN /\ link \in {"down", "up"}
  BY DEF TypeOK
<1>2. ASSUME NEW young, Open(young) PROVE TypeOK'
  <2>1. link' \in {"down", "up"}
    BY <1>2 DEF Open
  <2>2. Cycle(young, {}, FALSE)
    BY <1>2 DEF Open
  <2> QED BY <1>1, <2>1, <2>2, CycleType
<1>3. ASSUME NEW young, FlushFires(young) PROVE TypeOK'
  BY <1>1, <1>3, CycleType DEF FlushFires
<1>4. ASSUME NEW young, Poke(young) PROVE TypeOK'
  BY <1>1, <1>4, CycleType DEF Poke
<1>5. ASSUME NEW young, TimerFires(young) PROVE TypeOK'
  BY <1>1, <1>5, CycleType DEF TimerFires
<1> QED BY <1>2, <1>3, <1>4, <1>5 DEF ReporterStep

LEMMA NextType == TypeOK /\ [Next]_vars => TypeOK'
<1> SUFFICES ASSUME TypeOK, [Next]_vars PROVE TypeOK' OBVIOUS
<1>1. ASSUME NEW old \in SUBSET {j \in Job : rec[j] = "ended"}, Prune(old) PROVE TypeOK'
  BY <1>1 DEF Prune, TypeOK, reporter, wire, bounds
<1>2. ASSUME NEW E \in SUBSET Over, NEW old \in SUBSET Job,
             NEW wrote \in Written(E \ undoing, SettleWrites), CreateManager(E, wrote, old)
      PROVE  TypeOK'
  <2>1. wrote \in SUBSET E
    BY WrittenType
  <2> QED BY <1>2, <2>1, ManagerType
<1> QED BY <1>1, <1>2, JobType, WireType, EndingType, ReporterType, StutterType DEF Next

\* The state of the job_ended reporting keeps its shape, and the reporter never
\* remembers more than JOB_ENDED_REPLAY_MAX events.
THEOREM EventsTypeCorrect == Spec => []TypeOK
<1>1. Init => TypeOK
  BY InitIInv DEF IInv
<1>2. TypeOK /\ [Next]_vars => TypeOK'
  BY NextType
<1> QED BY <1>1, <1>2, PTL DEF Spec

-----------------------------------------------------------------------------
(* The invariant.  From here on terminal records can be written.               *)

LEMMA SettleTied ==
  ASSUME IInv, NEW j \in Job, Settle(j, TRUE), rec[j] = "running"
  PROVE  /\ rec' = [rec EXCEPT ![j] = IF j \in undoing THEN "undone" ELSE "ended"]
         /\ undoing' = undoing \ {j}
         /\ unacked' = IF j \in undoing THEN unacked ELSE unacked \cup {j}
<1>1. undoing \subseteq Job
  BY DEF IInv, TypeOK
<1>2. CASE j \in undoing
  BY <1>2 DEF Settle
<1>3. CASE j \notin undoing
  BY <1>3 DEF Settle
<1> QED BY <1>2, <1>3

\* One job moves on as the abstract specification allows ...
Advances(j) ==
  /\ rec[j] \in {"undone", "expired"} => rec'[j] = rec[j]
  /\ rec[j] = "ended" => /\ rec'[j] \in {"ended", "expired"}
                         /\ j \in unacked' => j \in unacked
  /\ j \in undoing => j \in undoing' \/ rec'[j] = "undone"
  /\ j \in known => j \in known'
  /\ j \in known' => j \in known \cup events

\* ... and its event is not dropped.
Kept(j) ==
  /\ rec[j] = "ended" /\ rec'[j] = "ended" /\ j \in unacked => j \in unacked' \cup known
  /\ rec[j] # "ended" /\ rec'[j] = "ended" => j \in unacked'

\* What Tied demands of the next state, job by job.
TiedNext(j) ==
  /\ j \in starting' \cup retiring' \cup undoing' => rec'[j] = "running"
  /\ j \in starting' => j \notin retiring' \cup undoing'
  /\ j \in acks' => j \in known'
  /\ j \in events' \cup known' => rec'[j] \in {"ended", "expired"}

Good == \A j \in Job : Advances(j) /\ Kept(j) /\ TiedNext(j)

LEMMA SettleGood ==
  ASSUME IInv, NEW j \in Job, Settle(j, TRUE), rec[j] = "running", j \notin retiring,
         starting' = starting \ {j}, retiring' = retiring,
         UNCHANGED <<events, acks, known>>
  PROVE  Good
<1>1. /\ rec' = [rec EXCEPT ![j] = IF j \in undoing THEN "undone" ELSE "ended"]
      /\ undoing' = undoing \ {j}
      /\ unacked' = IF j \in undoing THEN unacked ELSE unacked \cup {j}
  BY SettleTied
<1> SUFFICES ASSUME NEW i \in Job PROVE Advances(i) /\ Kept(i) /\ TiedNext(i)
  BY DEF Good
<1>2. rec \in [Job -> {"new", "running", "ended", "undone", "expired"}]
  BY DEF IInv, TypeOK
<1>3. CASE i = j
  <2>1. rec'[j] \in {"undone", "ended"} /\ (rec'[j] = "ended" => j \in unacked')
    BY <1>1, <1>2
  <2>2. j \notin events \cup acks \cup known
    BY DEF IInv, Tied
  <2> QED BY <1>1, <1>3, <2>1, <2>2 DEF Advances, Kept, TiedNext
<1>4. CASE i # j
  <2>1. rec'[i] = rec[i]
    BY <1>1, <1>2, <1>4
  <2>2. (i \in unacked' <=> i \in unacked) /\ (i \in undoing' <=> i \in undoing)
    BY <1>1, <1>4
  <2> QED BY <1>4, <2>1, <2>2 DEF Advances, Kept, TiedNext, IInv, Tied, Running
<1> QED BY <1>3, <1>4

LEMMA JobGood ==
  ASSUME IInv, SettleWrites = {TRUE}, NEW j \in Job, JobStep(j)
  PROVE  Good
<1> USE DEF IInv, TypeOK, Tied, Running
<1>1. CASE StartJob(j)
  BY <1>1 DEF StartJob, Good, Advances, Kept, TiedNext, wire
<1>2. CASE StartSucceeds(j)
  BY <1>2 DEF StartSucceeds, Good, Advances, Kept, TiedNext, wire
<1>3. CASE StartGivenUp(j)
  BY <1>3 DEF StartGivenUp, Good, Advances, Kept, TiedNext, wire
<1>4. CASE ProcEnds(j)
  BY <1>4 DEF ProcEnds, Good, Advances, Kept, TiedNext, wire, disk, memory
<1>5. CASE StartRetired(j, TRUE)
  BY <1>5 DEF StartRetired, Good, Advances, Kept, TiedNext, wire
<1>6. CASE ExitEvent(j, TRUE)
  <2>1. CASE j \in retiring
    <3>1. /\ rec' = [rec EXCEPT ![j] = "undone"]
          /\ retiring' = retiring \ {j} /\ undoing' = undoing \ {j}
          /\ UNCHANGED <<unacked, starting, events, acks, known>>
      BY <1>6, <2>1 DEF ExitEvent, Over, Live, wire
    <3>2. j \notin starting /\ rec[j] = "running" /\ j \notin events \cup known
      BY <2>1
    <3> QED BY <3>1, <3>2 DEF Good, Advances, Kept, TiedNext
  <2>2. CASE j \in Over
    <3>1. Settle(j, TRUE) /\ rec[j] = "running" /\ j \notin starting \cup retiring
      BY <1>6, <2>2 DEF ExitEvent, Over, Live
    <3>2. starting' = starting \ {j} /\ UNCHANGED <<retiring, events, acks, known>>
      BY <1>6, <2>2, <3>1 DEF ExitEvent, Over, Live, wire
    <3> QED BY <3>1, <3>2, SettleGood
  <2>3. CASE j \notin retiring \cup Over
    BY <1>6, <2>3 DEF ExitEvent, Good, Advances, Kept, TiedNext, wire, disk
  <2> QED BY <2>1, <2>2, <2>3
<1>7. CASE Refresh(j, TRUE)
  <2>1. Settle(j, TRUE) /\ rec[j] = "running" /\ j \notin starting \cup retiring
    BY <1>7 DEF Refresh, Over, Live
  <2>2. starting' = starting \ {j} /\ UNCHANGED <<retiring, events, acks, known>>
    BY <1>7, <2>1 DEF Refresh, wire
  <2> QED BY <2>1, <2>2, SettleGood
<1>8. ASSUME NEW spawned \in BOOLEAN, CancelStarting(j, spawned, TRUE) PROVE Good
  <2>1. Settle(j, TRUE) /\ rec[j] = "running" /\ starting' = starting \ {j}
    BY <1>8 DEF CancelStarting
  <2>2. j \notin retiring /\ UNCHANGED <<retiring, events, acks, known>>
    BY <1>8 DEF CancelStarting, wire
  <2> QED BY <2>1, <2>2, SettleGood
<1> QED BY <1>1, <1>2, <1>3, <1>4, <1>5, <1>6, <1>7, <1>8 DEF JobStep

LEMMA WireGood ==
  ASSUME IInv, NEW j \in Job,
         RelayRecords(j) \/ RelayIgnores(j) \/ \E ok \in MarkWrites : Ack(j, ok)
  PROVE  Good
<1> USE DEF IInv, TypeOK, Tied, Running
<1>1. CASE RelayRecords(j)
  BY <1>1 DEF RelayRecords, Good, Advances, Kept, TiedNext, disk, memory
<1>2. CASE RelayIgnores(j)
  BY <1>2 DEF RelayIgnores, Good, Advances, Kept, TiedNext, disk, memory
<1>3. ASSUME NEW ok, Ack(j, ok) PROVE Good
  BY <1>3 DEF Ack, Good, Advances, Kept, TiedNext, memory
<1> QED BY <1>1, <1>2, <1>3

LEMMA PruneGood ==
  ASSUME IInv, NEW old \in SUBSET {j \in Job : rec[j] = "ended"}, Prune(old) PROVE Good
BY DEF Prune, Good, Advances, Kept, TiedNext, wire, IInv, TypeOK, Tied, Running

LEMMA ManagerGood ==
  ASSUME IInv, NEW E \in SUBSET Over, NEW old \in SUBSET Job,
         CreateManager(E, E \ undoing, old)
  PROVE  Good
<1> SUFFICES ASSUME NEW i \in Job PROVE Advances(i) /\ Kept(i) /\ TiedNext(i)
  BY DEF Good
<1>1. /\ rec'[i] = IF i \in E \cap undoing THEN "undone"
                   ELSE IF i \in old THEN "expired"
                   ELSE IF i \in E \ undoing THEN "ended" ELSE rec[i]
      /\ i \in old => rec[i] = "ended" \/ i \in E \ undoing
      /\ unacked' = (unacked \cup (E \ undoing)) \ old
      /\ undoing' = undoing \ E
      /\ UNCHANGED <<starting, retiring, events, acks, known>>
  BY DEF CreateManager, wire
<1>2. i \in E => rec[i] = "running" /\ i \notin starting \cup retiring
  BY DEF Over, Live, Running
<1>3. /\ i \in starting \cup retiring \cup undoing => rec[i] = "running"
      /\ i \in starting => i \notin retiring \cup undoing
      /\ i \in acks => i \in known
      /\ i \in events \cup known => rec[i] \in {"ended", "expired"}
  BY DEF IInv, Tied, Running
<1> QED BY <1>1, <1>2, <1>3 DEF Advances, Kept, TiedNext

LEMMA EndingGood ==
  ASSUME IInv, Drop \/ \E spawned \in SUBSET starting : Crash(spawned) PROVE Good
BY DEF Drop, Crash, Disconnect, Good, Advances, Kept, TiedNext, IInv, TypeOK, Tied, Running, disk, memory

\* A scan sends only events of ended records; what it gives up, it gives up for
\* newer ones.
LEMMA CycleGood ==
  ASSUME IInv, SettleWrites = {TRUE}, NEW young, NEW resend, NEW flushing,
         Cycle(young, resend, flushing)
  PROVE  \A i \in Job :
           /\ Advances(i) /\ TiedNext(i)
           /\ Kept(i) \/ Cardinality({k \in Job \ {i} : /\ Event'[k] \in {"owed", "delivered"}
                                                         /\ EndedAt[k] >= EndedAt[i]}) >= ReplayMax
<1> DEFINE E == Settleable(young)
           U == Unacked(E)
<1>a. PICK K \in Newest(U) :
        \E wrote \in Written(E \ Discarded(E), SettleWrites),
           marked \in Written(U \ K, MarkWrites) :
          CycleOf(E, K, wrote, marked, resend, flushing)
  BY DEF Cycle
<1>b. PICK wrote \in Written(E \ Discarded(E), SettleWrites), marked \in Written(U \ K, MarkWrites) :
        CycleOf(E, K, wrote, marked, resend, flushing)
  BY <1>a
<1>1. E \subseteq Over /\ U \in SUBSET Job
  BY ScanType DEF IInv
<1>2. U = {j \in unacked : rec[j] = "ended"} \cup (E \ undoing)
  BY DEF Unacked, Discarded
<1> HIDE DEF E, U
<1>3. wrote = E \ undoing /\ marked \subseteq U \ K
  BY <1>b, WrittenType DEF Written, Discarded
<1>4. /\ K \subseteq U /\ IsFiniteSet(K)
      /\ Cardinality(K) \in Nat
      /\ U \ K # {} => Cardinality(K) = ReplayMax
      /\ \A k \in K, j \in U \ K : EndedAt[k] >= EndedAt[j]
  BY <1>1, NewestKeeps
<1>5. /\ rec' = [j \in Job |-> IF j \in E \cap undoing THEN "undone"
                              ELSE IF j \in wrote \cup marked THEN "ended" ELSE rec[j]]
      /\ unacked' = (unacked \cup wrote) \ marked
      /\ undoing' = undoing \ (E \cap undoing)
      /\ events' = events \cup (K \ (sent \ resend))
      /\ UNCHANGED <<starting, retiring, acks, known>>
  BY <1>b DEF CycleOf, Discarded
<1>6. SUFFICES ASSUME NEW i \in Job
               PROVE  /\ Advances(i) /\ TiedNext(i)
                      /\ Kept(i) \/ Cardinality({k \in Job \ {i} : /\ Event'[k] \in {"owed", "delivered"}
                                                                    /\ EndedAt[k] >= EndedAt[i]}) >= ReplayMax
  OBVIOUS
<1>7. ASSUME NEW j \in Job
      PROVE  /\ j \in E => rec[j] = "running" /\ j \notin starting \cup retiring
             /\ j \in starting \cup retiring \cup undoing => rec[j] = "running"
             /\ j \in starting => j \notin retiring \cup undoing
             /\ j \in acks => j \in known
             /\ j \in events \cup known => rec[j] \in {"ended", "expired"}
             /\ j \in U => (j \in unacked /\ rec[j] = "ended") \/ j \in E \ undoing
  BY <1>1, <1>2, <1>7 DEF IInv, Tied, Running, Over, Live
<1>8. Advances(i) /\ TiedNext(i)
  BY <1>3, <1>4, <1>5, <1>7 DEF Advances, TiedNext
<1>9. CASE i \notin marked
  <2>1. i \in unacked => i \in unacked'
    BY <1>5, <1>9
  <2>2. rec'[i] = "ended" => rec[i] = "ended" \/ i \in wrote
    BY <1>5, <1>9
  <2>3. i \in wrote => i \in unacked'
    BY <1>5, <1>9
  <2> QED BY <1>8, <2>1, <2>2, <2>3 DEF Kept
<1>10. CASE i \in marked
  <2> DEFINE R == {k \in Job \ {i} : /\ Event'[k] \in {"owed", "delivered"}
                                     /\ EndedAt[k] >= EndedAt[i]}
  <2>1. ASSUME NEW k \in K PROVE k \in R
    <3>1. k \in Job \ {i} /\ EndedAt[k] >= EndedAt[i]
      BY <1>1, <1>3, <1>4, <1>10
    <3>2. rec'[k] = "ended" /\ k \in unacked' /\ k \notin undoing'
      BY <1>3, <1>4, <1>5, <1>7, <3>1
    <3> QED BY <3>1, <3>2 DEF Event
  <2>2. IsFiniteSet(R)
    BY JobAssumption, FS_Subset
  <2>3. Cardinality(K) <= Cardinality(R)
    BY <2>1, <2>2, FS_Subset
  <2>4. Cardinality(K) = ReplayMax /\ Cardinality(R) \in Nat
    BY <1>3, <1>4, <1>10, <2>2, FS_CardinalityType
  <2> QED BY <1>8, <2>3, <2>4
<1> QED BY <1>8, <1>9, <1>10

-----------------------------------------------------------------------------
(* Every step keeps the invariant and is a step of EventDelivery.              *)

LEMMA GoodTied ==
  ASSUME TypeOK', \A j \in Job : TiedNext(j) PROVE Tied'
BY DEF TypeOK, TiedNext, Tied, Running

\* The moves of the abstract specification, one by one.
LEMMA MoveFacts ==
  /\ Delivery!Moves["none"] = {"owed", "dropped", "expired", "undone"}
  /\ Delivery!Moves["owed"] = {"delivered", "dropped", "expired"}
  /\ Delivery!Moves["dropped"] = {"delivered", "expired"}
  /\ Delivery!Moves["expired"] = {"delivered"}
BY DEF Delivery!Moves

\* The abstract module counts the way this one does.
LEMMA SameCardinality == \A S : Delivery!Cardinality(S) = Cardinality(S)
BY DEF Delivery!Cardinality, Cardinality

LEMMA EventMoves ==
  ASSUME IInv, IInv', NEW j \in Job, Advances(j), Event'[j] # Event[j]
  PROVE  Event'[j] \in Delivery!Moves[Event[j]]
<1> DEFINE e == Event[j]
           f == Event'[j]
<1>1. rec[j] \in {"new", "running", "ended", "undone", "expired"}
  BY DEF IInv, TypeOK
<1>2. rec'[j] \in {"new", "running", "ended", "undone", "expired"}
  BY DEF IInv, TypeOK
<1>3. /\ j \in undoing => rec[j] = "running"
      /\ j \in events \cup known => rec[j] \in {"ended", "expired"}
  BY DEF IInv, Tied, Running
<1>4. /\ j \in undoing' => rec'[j] = "running"
      /\ j \in known' => rec'[j] \in {"ended", "expired"}
  BY DEF IInv, Tied, Running
<1>5. e = IF j \in known THEN "delivered"
          ELSE IF rec[j] \in {"undone", "expired"} THEN rec[j]
          ELSE IF j \in undoing THEN "undone"
          ELSE IF rec[j] # "ended" THEN "none"
          ELSE IF j \in unacked THEN "owed" ELSE "dropped"
  BY DEF Event
<1>6. f = IF j \in known' THEN "delivered"
          ELSE IF rec'[j] \in {"undone", "expired"} THEN rec'[j]
          ELSE IF j \in undoing' THEN "undone"
          ELSE IF rec'[j] # "ended" THEN "none"
          ELSE IF j \in unacked' THEN "owed" ELSE "dropped"
  BY DEF Event
<1>7. e # f
  OBVIOUS
<1> HIDE DEF e, f
<1>8. \/ e = "none" /\ f \in {"owed", "dropped", "expired", "undone"}
      \/ e = "owed" /\ f \in {"delivered", "dropped", "expired"}
      \/ e = "dropped" /\ f \in {"delivered", "expired"}
      \/ e = "expired" /\ f = "delivered"
  BY <1>1, <1>2, <1>3, <1>4, <1>5, <1>6, <1>7 DEF Advances
<1>9. f \in Delivery!Moves[e]
  BY <1>8, MoveFacts
<1> QED BY <1>9 DEF e, f

LEMMA EventKept ==
  ASSUME IInv, IInv', NEW j \in Job, Advances(j), Kept(j), Event'[j] # Event[j]
  PROVE  Event'[j] # "dropped"
<1>1. /\ j \in undoing => rec[j] = "running"
      /\ rec[j] \in {"new", "running", "ended", "undone", "expired"}
  BY DEF IInv, TypeOK, Tied, Running
<1> QED BY <1>1 DEF Event, Advances, Kept

LEMMA NextGood ==
  ASSUME IInv, SettleWrites = {TRUE}, Next
  PROVE  \A i \in Job :
           /\ Advances(i) /\ TiedNext(i)
           /\ Kept(i) \/ Cardinality({k \in Job \ {i} : /\ Event'[k] \in {"owed", "delivered"}
                                                         /\ EndedAt[k] >= EndedAt[i]}) >= ReplayMax
<1>1. Good => \A i \in Job : Advances(i) /\ TiedNext(i) /\ Kept(i)
  BY DEF Good
<1>2. ASSUME NEW j \in Job, JobStep(j) PROVE Good
  BY <1>2, JobGood
<1>3. ASSUME NEW j \in Job, RelayRecords(j) \/ RelayIgnores(j) \/ \E ok \in MarkWrites : Ack(j, ok)
      PROVE  Good
  BY <1>3, WireGood
<1>4. ASSUME NEW old \in SUBSET {j \in Job : rec[j] = "ended"}, Prune(old) PROVE Good
  BY <1>4, PruneGood
<1>5. ASSUME NEW E \in SUBSET Over, NEW old \in SUBSET Job,
             NEW wrote \in Written(E \ undoing, SettleWrites), CreateManager(E, wrote, old)
      PROVE  Good
  <2>1. wrote = E \ undoing
    BY DEF Written
  <2> QED BY <1>5, <2>1, ManagerGood
<1>6. CASE Drop \/ \E spawned \in SUBSET starting : Crash(spawned)
  BY <1>1, <1>6, EndingGood
<1>7. CASE ReporterStep
  <2>1. PICK young : Open(young) \/ FlushFires(young) \/ Poke(young) \/ TimerFires(young)
    BY <1>7 DEF ReporterStep
  <2>2. PICK resend, flushing : Cycle(young, resend, flushing)
    BY <2>1 DEF Open, FlushFires, Poke, TimerFires
  <2> QED BY <2>2, CycleGood
<1> QED BY <1>1, <1>2, <1>3, <1>4, <1>5, <1>6, <1>7 DEF Next

LEMMA NextIInv ==
  ASSUME IInv, SettleWrites = {TRUE}, [Next]_vars PROVE IInv'
<1>1. TypeOK'
  BY NextType DEF IInv
<1>2. CASE Next
  BY <1>1, <1>2, NextGood, GoodTied DEF IInv
<1>3. CASE UNCHANGED vars
  BY <1>1, <1>3 DEF IInv, Tied, Running, vars, disk, memory, reporter, wire, bounds
<1> QED BY <1>2, <1>3

LEMMA NextSimulates ==
  ASSUME IInv, SettleWrites = {TRUE}, [Next]_vars PROVE [Delivery!Next]_Event
<1>1. CASE UNCHANGED vars
  BY <1>1 DEF Event, vars, disk, wire, memory, reporter, bounds
<1>2. CASE Next
  <2>1. IInv'
    BY NextIInv
  <2>2. ASSUME NEW j \in Job, Event'[j] # Event[j]
        PROVE  /\ Event'[j] \in Delivery!Moves[Event[j]]
               /\ Event'[j] = "dropped" => Cardinality(Delivery!Rivals(Event', j)) >= ReplayMax
    <3>1. Event'[j] \in Delivery!Moves[Event[j]]
      BY <1>2, <2>1, <2>2, NextGood, EventMoves
    <3>2. CASE Kept(j)
      BY <1>2, <2>1, <2>2, <3>1, <3>2, NextGood, EventKept
    <3>3. CASE ~Kept(j)
      <4>1. Delivery!Rivals(Event', j)
              = {k \in Job \ {j} : /\ Event'[k] \in {"owed", "delivered"}
                                   /\ EndedAt[k] >= EndedAt[j]}
        BY DEF Delivery!Rivals
      <4> QED BY <1>2, <3>1, <3>3, <4>1, NextGood
    <3> QED BY <3>2, <3>3
  <2>3. DOMAIN Event' = Job
    BY DEF Event
  <2> QED BY <2>2, <2>3, SameCardinality DEF Delivery!Next
<1> QED BY <1>1, <1>2

\* Reporting implements EventDelivery, through lost frames, reconnects and
\* restarts, as long as the terminal records of jobs can be written.
THEOREM EventsDelivered ==
  ASSUME SettleWrites = {TRUE}
  PROVE  Spec => DeliveryPromise
<1>1. Init => IInv
  BY InitIInv
<1>2. IInv /\ [Next]_vars => IInv'
  BY NextIInv
<1>3. Init => Delivery!Init
  BY DEF Init, Event, Delivery!Init
<1>4. IInv /\ [Next]_vars => [Delivery!Next]_Event
  BY NextSimulates
<1> QED BY <1>1, <1>2, <1>3, <1>4, PTL DEF Spec, DeliveryPromise, Delivery!Spec

-----------------------------------------------------------------------------
(* Nothing owed waits for something that may never happen, even when records   *)
(* cannot be written.                                                          *)

\* Jobs that only a scan will notice or report.
Waiting == unacked \cup (Running \ (Live \cup child))

DueInv ==
  /\ TypeOK
  /\ starting \cap (retiring \cup undoing \cup child) = {}
  /\ starting \cup retiring \cup undoing \subseteq Running
  /\ \A j \in child : rec[j] # "new"
  /\ child \cup starting \cup retiring # {} => manager
  /\ link = "up" /\ manager => attached
  /\ unacked \subseteq {j \in Job : rec[j] = "ended"}
  /\ link = "up" /\ Waiting # {} => timer \/ flush

\* A settle by a manager that the reporter hears of leaves the flush due.
LEMMA SettleDue ==
  ASSUME DueInv, NEW j \in Job, NEW ok, Settle(j, ok), rec[j] = "running", attached
  PROVE  /\ attached' = attached /\ timer' = timer
         /\ flush' = flush \/ flush' = TRUE
         /\ j \notin undoing => flush' = TRUE
         /\ undoing' \subseteq undoing
         /\ unacked' \subseteq {i \in Job : rec'[i] = "ended"}
         /\ \A i \in Job \ {j} : rec'[i] = rec[i] /\ (i \in unacked' => i \in unacked)
         /\ j \in undoing => rec'[j] = "undone" /\ j \notin unacked'
<1>1. rec \in [Job -> {"new", "running", "ended", "undone", "expired"}]
      /\ unacked \subseteq {i \in Job : rec[i] = "ended"}
  BY DEF DueInv, TypeOK
<1>2. CASE j \in undoing
  BY <1>1, <1>2 DEF Settle
<1>3. CASE j \notin undoing
  <2>1. flush' = TRUE /\ undoing' = undoing /\ attached' = attached /\ timer' = timer
    BY <1>3 DEF Settle, Notified, Unnoticed
  <2>2. \/ rec' = [rec EXCEPT ![j] = "ended"] /\ unacked' = unacked \cup {j}
        \/ rec' = rec /\ unacked' = unacked
    BY <1>3 DEF Settle
  <2> QED BY <1>1, <1>3, <2>1, <2>2
<1> QED BY <1>2, <1>3

\* What a settle by the manager, under a connection or without one, does to DueInv.
LEMMA SettleKeepsDue ==
  ASSUME DueInv, NEW j \in Job, NEW ok, Settle(j, ok), rec[j] = "running", TypeOK',
         manager, link = "up" => attached, j \notin retiring,
         starting' = starting \ {j}, retiring' = retiring,
         child' \subseteq child \cup {j}, child \ {j} \subseteq child',
         UNCHANGED <<manager, link>>
  PROVE  DueInv'
<1>1. /\ rec \in [Job -> {"new", "running", "ended", "undone", "expired"}]
      /\ unacked \subseteq {i \in Job : rec[i] = "ended"}
  BY DEF DueInv, TypeOK
<1>2. /\ attached' = attached /\ timer' = timer
      /\ undoing' \subseteq undoing \ {j}
      /\ unacked' \subseteq {i \in Job : rec'[i] = "ended"}
      /\ \A i \in Job \ {j} : rec'[i] = rec[i] /\ (i \in unacked' => i \in unacked)
  BY <1>1 DEF Settle, Notified, Unnoticed
<1>3. starting' \cap (retiring' \cup undoing' \cup child') = {}
  BY <1>2 DEF DueInv
<1>4. starting' \cup retiring' \cup undoing' \subseteq Running'
  BY <1>2 DEF DueInv, Running, TypeOK
<1>5. ASSUME link = "up", Waiting' # {} PROVE timer' \/ flush'
  <2>1. attached
    BY <1>5
  <2>2. CASE j \notin undoing
    BY <2>1, <2>2, SettleDue
  <2>3. CASE j \in undoing
    <3>1. Waiting' \subseteq Waiting
      BY <1>2, <2>1, <2>3, SettleDue DEF Waiting, Running, Live
    <3>2. timer \/ flush
      BY <1>5, <3>1 DEF DueInv
    <3> QED BY <1>2, <2>1, <3>2, SettleDue
  <2> QED BY <2>2, <2>3
<1>6. \A i \in child' : rec'[i] # "new"
  <2>1. rec'[j] # "new"
    BY <1>1 DEF Settle
  <2> QED BY <1>2, <2>1 DEF DueInv, TypeOK
<1> QED BY <1>2, <1>3, <1>4, <1>5, <1>6 DEF DueInv

LEMMA JobDue ==
  ASSUME DueInv, NEW j \in Job, JobStep(j) PROVE DueInv'
<1>a. TypeOK'
  BY JobType DEF DueInv
<1> USE DEF DueInv, Running, Live, Waiting
<1>b. rec \in [Job -> {"new", "running", "ended", "undone", "expired"}]
  BY DEF TypeOK
<1>1. CASE StartJob(j)
  BY <1>a, <1>b, <1>1 DEF StartJob, wire
<1>2. CASE StartSucceeds(j)
  BY <1>a, <1>b, <1>2 DEF StartSucceeds, wire, reporter
<1>3. CASE StartGivenUp(j)
  BY <1>a, <1>b, <1>3 DEF StartGivenUp, wire, reporter
<1>4. CASE ProcEnds(j)
  BY <1>a, <1>4 DEF ProcEnds, wire, disk, memory, reporter
<1>5. ASSUME NEW ok, StartRetired(j, ok) PROVE DueInv'
  BY <1>a, <1>b, <1>5 DEF StartRetired, wire, reporter
<1>6. ASSUME NEW ok, ExitEvent(j, ok) PROVE DueInv'
  <2>1. CASE j \in retiring
    <3>1. /\ rec' = [rec EXCEPT ![j] = "undone"]
          /\ retiring' = retiring \ {j} /\ undoing' = undoing \ {j} /\ child' = child \ {j}
          /\ UNCHANGED <<unacked, starting, manager, link, attached, timer, flush>>
      BY <1>6, <2>1 DEF ExitEvent, Over, wire, reporter
    <3> QED BY <1>a, <1>b, <2>1, <3>1
  <2>2. CASE j \in Over
    <3>1. Settle(j, ok) /\ rec[j] = "running" /\ j \notin retiring \cup starting
      BY <1>6, <2>2 DEF ExitEvent, Over
    <3>2. child' = child \ {j} /\ manager /\ UNCHANGED <<starting, retiring, manager, link>>
      BY <1>6, <2>2, <3>1 DEF ExitEvent, wire, Over
    <3>3. starting' = starting \ {j}
      BY <3>1, <3>2
    <3> QED BY <1>a, <3>1, <3>2, <3>3, SettleKeepsDue
  <2>3. CASE j \notin retiring \cup Over
    <3>1. j \notin Running
      BY <1>6, <2>3 DEF ExitEvent, Over
    <3> QED BY <1>a, <1>6, <2>3, <3>1 DEF ExitEvent, disk, reporter, wire
  <2> QED BY <2>1, <2>2, <2>3
<1>7. ASSUME NEW ok, Refresh(j, ok) PROVE DueInv'
  <2>1. Settle(j, ok) /\ rec[j] = "running" /\ j \notin retiring \cup starting
    BY <1>7 DEF Refresh, Over
  <2>2. manager /\ UNCHANGED <<child, starting, retiring, manager, link>>
    BY <1>7 DEF Refresh, wire
  <2>3. starting' = starting \ {j}
    BY <2>1, <2>2
  <2> QED BY <1>a, <2>1, <2>2, <2>3, SettleKeepsDue
<1>8. ASSUME NEW spawned \in BOOLEAN, NEW ok, CancelStarting(j, spawned, ok) PROVE DueInv'
  <2>1. /\ Settle(j, ok) /\ rec[j] = "running" /\ j \notin retiring
        /\ starting' = starting \ {j} /\ manager
        /\ UNCHANGED <<retiring, manager, link>>
    BY <1>8 DEF CancelStarting, wire
  <2>2. child' \subseteq child \cup {j} /\ child \ {j} \subseteq child'
    BY <1>8 DEF CancelStarting
  <2> QED BY <1>a, <2>1, <2>2, SettleKeepsDue
<1> QED BY <1>1, <1>2, <1>3, <1>4, <1>5, <1>6, <1>7, <1>8 DEF JobStep

LEMMA WireDue ==
  ASSUME DueInv, NEW j \in Job,
         RelayRecords(j) \/ RelayIgnores(j) \/ \E ok \in MarkWrites : Ack(j, ok)
  PROVE  DueInv'
<1>a. TypeOK'
  BY WireType DEF DueInv
<1> USE DEF DueInv, Running, Live, Waiting
<1>1. CASE RelayRecords(j)
  BY <1>a, <1>1 DEF RelayRecords, disk, memory, reporter
<1>2. CASE RelayIgnores(j)
  BY <1>a, <1>2 DEF RelayIgnores, disk, memory, reporter
<1>3. ASSUME NEW ok, Ack(j, ok) PROVE DueInv'
  BY <1>a, <1>3 DEF Ack, memory
<1> QED BY <1>1, <1>2, <1>3

LEMMA PruneDue ==
  ASSUME DueInv, TypeOK', NEW old \in SUBSET {j \in Job : rec[j] = "ended"}, Prune(old)
  PROVE  DueInv'
<1>1. \A j \in Job : rec'[j] = IF j \in old THEN "expired" ELSE rec[j]
  BY DEF Prune
<1>2. unacked' = unacked \ old
  BY DEF Prune
<1>3. UNCHANGED <<undoing, manager, starting, retiring, child, attached, timer, flush, link>>
  BY DEF Prune, reporter, wire
<1>4. \A j \in old : rec[j] = "ended"
  OBVIOUS
<1> QED BY <1>1, <1>2, <1>3, <1>4 DEF DueInv, TypeOK, Running, Live, Waiting

LEMMA ManagerDue ==
  ASSUME DueInv, TypeOK', NEW E \in SUBSET Over, NEW old \in SUBSET Job, NEW wrote \in SUBSET (E \ undoing),
         CreateManager(E, wrote, old)
  PROVE  DueInv'
<1>1. /\ \A j \in Job : rec'[j] = IF j \in E \cap undoing THEN "undone"
                                  ELSE IF j \in old THEN "expired"
                                  ELSE IF j \in wrote THEN "ended" ELSE rec[j]
      /\ \A j \in old : rec[j] = "ended" \/ j \in wrote
      /\ unacked' = (unacked \cup wrote) \ old
      /\ undoing' = undoing \ E
      /\ attached' = (link = "up")
      /\ ~manager
      /\ UNCHANGED <<starting, retiring, child, timer, flush, link>>
  BY DEF CreateManager, wire
<1>2. starting = {} /\ retiring = {} /\ child = {}
  BY <1>1 DEF DueInv
<1>3. \A j \in E : rec[j] = "running"
  BY DEF Over, Running
<1>4. undoing' \subseteq Running'
  BY <1>1, <1>3 DEF DueInv, Running
<1>5. unacked' \subseteq {j \in Job : rec'[j] = "ended"}
  BY <1>1, <1>3 DEF DueInv, TypeOK, Running
<1>6. ASSUME NEW j \in Waiting' PROVE j \in Waiting
  <2>1. CASE j \in unacked'
    BY <1>1, <1>2, <1>3, <2>1 DEF Waiting, Running, Live, Over
  <2>2. CASE j \in Running' /\ j \notin unacked'
    BY <1>1, <1>2, <2>2 DEF Waiting, Running, Live
  <2> QED BY <2>1, <2>2 DEF Waiting
<1> QED BY <1>1, <1>2, <1>4, <1>5, <1>6 DEF DueInv

LEMMA EndingDue ==
  ASSUME DueInv, TypeOK', Drop \/ \E spawned \in SUBSET starting : Crash(spawned)
  PROVE  DueInv'
BY DEF Drop, Crash, Disconnect, DueInv, Running, Live, Waiting, disk, memory

LEMMA CycleDue ==
  ASSUME DueInv, TypeOK', NEW young, NEW resend, NEW flushing, Cycle(young, resend, flushing)
  PROVE  DueInv'
<1> DEFINE E == Settleable(young)
           U == Unacked(E)
<1>a. PICK K \in Newest(U) :
        \E wrote \in Written(E \ Discarded(E), SettleWrites),
           marked \in Written(U \ K, MarkWrites) :
          CycleOf(E, K, wrote, marked, resend, flushing)
  BY DEF Cycle
<1>b. PICK wrote \in Written(E \ Discarded(E), SettleWrites), marked \in Written(U \ K, MarkWrites) :
        CycleOf(E, K, wrote, marked, resend, flushing)
  BY <1>a
<1>1. E \subseteq Over /\ U \in SUBSET Job
  BY ScanType DEF DueInv
<1>2. U = unacked \cup (E \ undoing)
  BY DEF Unacked, Discarded, DueInv
<1> HIDE DEF E, U
<1>3. wrote \subseteq E \ undoing /\ marked \subseteq U \ K
  BY <1>b, WrittenType DEF Discarded
<1>4. K \subseteq U /\ (K = {} => U = {})
  <2>1. K = {} => Cardinality(K) = 0
    BY FS_EmptySet
  <2> QED BY <1>1, <2>1, NewestKeeps, ReplayAssumption
<1>5. /\ \A j \in Job : rec'[j] = IF j \in E \cap undoing THEN "undone"
                                  ELSE IF j \in wrote \cup marked THEN "ended" ELSE rec[j]
      /\ unacked' = (unacked \cup wrote) \ marked
      /\ undoing' = undoing \ (E \cap undoing)
      /\ attached' = (attached \/ manager)
      /\ timer' = (Running \ E # {} \/ K # {})
      /\ flush' = (flushing \/ (manager /\ E \ (E \cap undoing) # {}))
      /\ UNCHANGED <<manager, starting, retiring, child>>
  BY <1>b DEF CycleOf, Discarded, StillPending
<1>6. E \subseteq Running /\ E \cap (starting \cup retiring) = {}
  BY <1>1 DEF Over, Live
<1>7. starting' \cap (retiring' \cup undoing' \cup child') = {}
  BY <1>5 DEF DueInv
<1>8. starting' \cup retiring' \cup undoing' \subseteq Running'
  BY <1>2, <1>3, <1>5, <1>6 DEF DueInv, Running
<1>9. unacked' \subseteq {j \in Job : rec'[j] = "ended"}
  BY <1>2, <1>3, <1>5, <1>6 DEF DueInv, TypeOK, Running
<1>10. \A j \in child' : rec'[j] # "new"
  BY <1>5 DEF DueInv, TypeOK
<1>11. ASSUME ~timer', ~flush' PROVE Waiting' = {}
  <2>1. K = {} /\ Running \subseteq E
    BY <1>5, <1>11
  <2>2. unacked = {} /\ E \subseteq undoing
    BY <1>2, <1>4, <2>1
  <2>3. unacked' = {} /\ Running' = {}
    BY <1>2, <1>3, <1>5, <2>1, <2>2 DEF Running
  <2> QED BY <2>3 DEF Waiting
<1>12. link' = "up" /\ manager' => attached'
  BY <1>5, <1>6
<1> QED BY <1>5, <1>7, <1>8, <1>9, <1>10, <1>11, <1>12 DEF DueInv

LEMMA NextDue == ASSUME DueInv, [Next]_vars PROVE DueInv'
<1>a. TypeOK'
  BY NextType DEF DueInv
<1>1. ASSUME NEW E \in SUBSET Over, NEW old \in SUBSET Job,
             NEW wrote \in Written(E \ undoing, SettleWrites), CreateManager(E, wrote, old)
      PROVE  DueInv'
  <2>1. wrote \in SUBSET (E \ undoing)
    BY WrittenType
  <2> QED BY <1>a, <1>1, <2>1, ManagerDue
<1>2. CASE ReporterStep
  <2>0. PICK young : Open(young) \/ FlushFires(young) \/ Poke(young) \/ TimerFires(young)
    BY <1>2 DEF ReporterStep
  <2>1. PICK resend, flushing : Cycle(young, resend, flushing)
    BY <2>0 DEF Open, FlushFires, Poke, TimerFires
  <2> QED BY <1>a, <2>1, CycleDue
<1>3. CASE UNCHANGED vars
  BY <1>a, <1>3 DEF DueInv, Running, Live, Waiting, vars, disk, memory, reporter, wire, bounds
<1> QED BY <1>a, <1>1, <1>2, <1>3, JobDue, WireDue, PruneDue, EndingDue DEF Next

LEMMA InitDue == Init => DueInv
<1> SUFFICES ASSUME Init PROVE DueInv OBVIOUS
<1>1. TypeOK
  BY InitIInv DEF IInv
<1> QED BY <1>1 DEF Init, DueInv, Running, Live, Waiting

\* While a connection is up, a timer or a flush is due for whatever waits to be
\* noticed or reported, whichever record writes fail.
THEOREM NothingWaitsForNothing == Spec => []SomethingIsDue
<1>1. DueInv => SomethingIsDue
  BY DEF DueInv, SomethingIsDue, Waiting
<1> QED BY <1>1, InitDue, NextDue, PTL DEF Spec
=============================================================================
