----------------------------- MODULE SessionProofs -----------------------------
(***************************************************************************)
(* The session code: once the user has a new one, the old one never comes     *)
(* back.  For any number of overlapping runs and of restarts, any failing     *)
(* writes, and crashes.                                                      *)
(***************************************************************************)
EXTENDS Session, FiniteSetTheorems, TLAPS

-----------------------------------------------------------------------------
(* The inductive invariant.                                                  *)

CodeOrNone == Code \cup {None}

DiskRecord == [code : CodeOrNone, marker : BOOLEAN, device : {1, 2}]
RelayRecord == [code : CodeOrNone, held : BOOLEAN, refused : BOOLEAN]
RunRecord ==
  [pc : {"over", "asked", "answered", "refused", "failed", "backoff", "serving"},
   force : BOOLEAN, cur : CodeOrNone, code : CodeOrNone, dev : {1, 2}, reset : BOOLEAN,
   re : BOOLEAN, up : BOOLEAN]
HistoryRecord == [gone : CodeOrNone, old : CodeOrNone, starts : Nat]

SessionTypeOK ==
  /\ disk \in DiskRecord /\ relay \in RelayRecord /\ loop \in [Loop -> RunRecord]
  /\ ctl \in Loop \cup {None} /\ history \in HistoryRecord

\* A run that was aborted waits for the relay, or is over: it serves nothing.
\* The new identity of a device is the answer to a refusal of the first, and a refused
\* identity has no record at the relay.
RunsInv ==
  /\ \A l \in Loop : l # ctl =>
       loop[l].pc \in {"over", "asked", "answered", "refused", "failed"} /\ ~loop[l].re /\ ~loop[l].up
  /\ \A l \in Loop : loop[l].force => ~loop[l].re /\ loop[l].pc # "serving"
  /\ \A l \in Loop : loop[l].pc = "refused" => relay.refused /\ loop[l].dev = 1
  /\ \A l \in Loop : loop[l].dev = 2 => disk.device = 2
  /\ ctl # None => loop[ctl].dev = disk.device
  /\ disk.device = 2 => relay.refused
  /\ relay.refused /\ disk.device = 1 => relay.code = None
  /\ history.gone # None => history.old = None

\* Code c is nowhere it could come back from: not on the disk, not with the run that is
\* not aborted; and an aborted register that names it is answered with another code, or
\* refused.
OutOfUse(c) ==
  /\ disk.code # c
  /\ ctl # None => loop[ctl].code # c /\ loop[ctl].cur # c
  /\ \A l \in Loop : l # ctl /\ loop[l].pc = "asked" /\ ~loop[l].force /\ loop[l].cur = c =>
       relay.code # None \/ (relay.refused /\ loop[l].dev = 1)

\* The order to replace the code is on the disk, or with the run that asks for a new one.
Pending == disk.marker \/ (ctl # None /\ loop[ctl].force)

\* The run asks for a new code and has not got it.
AsksForNew ==
  ctl # None /\ loop[ctl].force /\ loop[ctl].pc \in {"asked", "refused", "failed", "backoff"}

CodeInv ==
  /\ history.gone # None => OutOfUse(history.gone) /\ relay.code # history.gone
  /\ history.old # None /\ Pending =>
       /\ OutOfUse(history.old)
       /\ ctl = None \/ AsksForNew \/ relay.code # history.old

SessionInv == SessionTypeOK /\ RunsInv /\ CodeInv

-----------------------------------------------------------------------------
(* The operators of the model.                                               *)

LEMMA SessionFacts ==
  ASSUME SessionInv
  PROVE  /\ SessionTypeOK /\ RunsInv /\ CodeInv /\ None \notin Loop /\ None \notin Code
         /\ \A l \in Loop : loop[l] \in RunRecord
BY NoneAssumption DEF SessionInv, SessionTypeOK

LEMMA OverIsIdle ==
  /\ Over \in RunRecord /\ Over.pc = "over" /\ Over.cur = None /\ Over.code = None /\ Over.dev = 1
  /\ ~Over.force /\ ~Over.re /\ ~Over.up
BY DEF Over, RunRecord, CodeOrNone

LEMMA ImageIsSmall ==
  ASSUME NEW S, NEW T, IsFiniteSet(S), NEW f \in [S -> T]
  PROVE  IsFiniteSet({f[x] : x \in S}) /\ Cardinality({f[x] : x \in S}) <= Cardinality(S)
<1>1. f \in Surjection(S, {f[x] : x \in S})
  BY DEF Surjection
<1> QED BY <1>1, FS_Surjection

LEMMA OneMore ==
  ASSUME NEW S, NEW x, IsFiniteSet(S)
  PROVE  /\ IsFiniteSet(S \cup {x}) /\ Cardinality(S \cup {x}) \in Nat
         /\ Cardinality(S \cup {x}) <= Cardinality(S) + 1
<1>1. Cardinality(S) \in Nat
  BY FS_CardinalityType
<1>2. IsFiniteSet(S \cup {x}) /\ Cardinality(S \cup {x}) = IF x \in S THEN Cardinality(S) ELSE Cardinality(S) + 1
  BY FS_AddElement
<1> QED BY <1>1, <1>2

\* A code that is out of use everywhere: there are more codes than places.
LEMMA FreshIsNew ==
  ASSUME SessionTypeOK
  PROVE  /\ Fresh \in Code /\ Fresh \notin {relay.code, disk.code, history.old}
         /\ \A l \in Loop : Fresh # loop[l].code /\ Fresh # loop[l].cur
<1> DEFINE codes == [l \in Loop |-> loop[l].code]
           curs == [l \in Loop |-> loop[l].cur]
           A == {codes[l] : l \in Loop}
           B == {curs[l] : l \in Loop}
<1>1. codes \in [Loop -> CodeOrNone] /\ curs \in [Loop -> CodeOrNone]
  BY DEF SessionTypeOK, RunRecord
<1>2. \A l \in Loop : codes[l] = loop[l].code /\ curs[l] = loop[l].cur
  OBVIOUS
<1>3. IsFiniteSet(Loop) /\ IsFiniteSet(Code) /\ Cardinality(Code) > 2 * Cardinality(Loop) + 3
      /\ Cardinality(Loop) \in Nat /\ Cardinality(Code) \in Nat
  BY CodesAssumption, FS_CardinalityType
<1> HIDE DEF codes, curs
<1>4. IsFiniteSet(A) /\ Cardinality(A) <= Cardinality(Loop) /\ IsFiniteSet(B) /\ Cardinality(B) <= Cardinality(Loop)
  BY <1>1, <1>3, ImageIsSmall
<1> HIDE DEF A, B
<1>5. /\ IsFiniteSet(A \cup B) /\ Cardinality(A \cup B) <= 2 * Cardinality(Loop)
  <2>1. A \cap B \in SUBSET A
    OBVIOUS
  <2>2. Cardinality(A) \in Nat /\ Cardinality(B) \in Nat /\ Cardinality(A \cap B) \in Nat
    BY <1>4, <2>1, FS_Subset, FS_CardinalityType
  <2>3. IsFiniteSet(A \cup B) /\ Cardinality(A \cup B) = Cardinality(A) + Cardinality(B) - Cardinality(A \cap B)
    BY <1>4, FS_Union
  <2> QED BY <1>3, <1>4, <2>2, <2>3
<1> DEFINE U == A \cup B
           V == U \cup {relay.code}
           W == V \cup {disk.code}
           X == W \cup {history.old}
<1>6. IsFiniteSet(U) /\ Cardinality(U) <= 2 * Cardinality(Loop) /\ Cardinality(U) \in Nat
  BY <1>5, FS_CardinalityType
<1> HIDE DEF U
<1>7. IsFiniteSet(V) /\ Cardinality(V) <= Cardinality(U) + 1 /\ Cardinality(V) \in Nat
  BY <1>6, OneMore
<1> HIDE DEF V
<1>8. IsFiniteSet(W) /\ Cardinality(W) <= Cardinality(V) + 1 /\ Cardinality(W) \in Nat
  BY <1>7, OneMore
<1> HIDE DEF W
<1>9. IsFiniteSet(X) /\ Cardinality(X) <= Cardinality(W) + 1 /\ Cardinality(X) \in Nat
  BY <1>8, OneMore
<1> HIDE DEF X
<1>10. ~(Code \subseteq X)
  <2>1. ASSUME Code \subseteq X PROVE Cardinality(Code) <= Cardinality(X)
    BY <1>9, <2>1, FS_Subset
  <2> QED BY <1>3, <1>6, <1>7, <1>8, <1>9, <2>1
<1>11. PICK c \in Code : c \notin X
  BY <1>10
<1>12. c \notin {relay.code, disk.code, history.old} /\ \A l \in Loop : c # loop[l].code /\ c # loop[l].cur
  BY <1>2, <1>11 DEF X, W, V, U, A, B
<1> QED BY <1>12 DEF Fresh

LEMMA AskingIs ==
  ASSUME NEW r \in RunRecord, NEW stored \in CodeOrNone, NEW l
  PROVE  LET y == Asking(l, r, stored)
         IN  /\ y \in RunRecord /\ y.pc = "asked" /\ ~y.re /\ ~y.up /\ y.code = r.code
             /\ y.force = r.force /\ y.dev = r.dev /\ y.cur = IF r.force THEN None ELSE stored
BY DEF Asking, RunRecord, CodeOrNone

LEMMA SavedIs ==
  ASSUME disk \in DiskRecord, NEW c \in CodeOrNone, NEW how, NEW d \in Saved(c, how)
  PROVE  d \in DiskRecord /\ d.code \in {disk.code, c, None} /\ d.marker = disk.marker /\ d.device = disk.device
<1>1. d = disk \/ \E e \in {disk.code, c, None} : d = [disk EXCEPT !.code = e]
  BY DEF Saved
<1> QED BY <1>1 DEF DiskRecord, CodeOrNone

LEMMA StoppedRuns ==
  ASSUME SessionTypeOK
  PROVE  /\ DOMAIN Stopped = Loop /\ Stopped \in [Loop -> RunRecord]
         /\ \A l \in Loop :
              /\ Stopped[l].pc \in {"over", "asked", "answered"} /\ ~Stopped[l].re /\ ~Stopped[l].up
              /\ Stopped[l].code = None
              /\ Stopped[l].dev = 2 => loop[l].dev = 2
              /\ Stopped[l].pc = "asked" =>
                   loop[l].pc = "asked" /\ Stopped[l].cur = loop[l].cur /\ Stopped[l].force = loop[l].force
                   /\ Stopped[l].dev = loop[l].dev
<1>1. ASSUME NEW l \in Loop
      PROVE  /\ Stopped[l] \in RunRecord
             /\ Stopped[l].pc \in {"over", "asked", "answered"} /\ ~Stopped[l].re /\ ~Stopped[l].up
             /\ Stopped[l].code = None
             /\ Stopped[l].dev = 2 => loop[l].dev = 2
             /\ Stopped[l].pc = "asked" =>
                  loop[l].pc = "asked" /\ Stopped[l].cur = loop[l].cur /\ Stopped[l].force = loop[l].force
                  /\ Stopped[l].dev = loop[l].dev
  <2>1. loop[l] \in RunRecord
    BY DEF SessionTypeOK
  <2>2. CASE loop[l].pc \in {"asked", "answered"}
    <3>1. Stopped[l] = [Over EXCEPT !.pc = loop[l].pc, !.cur = loop[l].cur, !.force = loop[l].force,
                                    !.dev = loop[l].dev]
      BY <2>2 DEF Stopped
    <3> QED BY <2>1, <2>2, <3>1, OverIsIdle DEF RunRecord
  <2>3. CASE loop[l].pc \notin {"asked", "answered"}
    <3>1. Stopped[l] = Over
      BY <2>3 DEF Stopped
    <3> QED BY <3>1, OverIsIdle
  <2> QED BY <2>2, <2>3
<1> QED BY <1>1 DEF Stopped

LEMMA HeldIs ==
  ASSUME NEW r \in RelayRecord, NEW b \in BOOLEAN
  PROVE  LET y == [r EXCEPT !.held = b]
         IN  y \in RelayRecord /\ y.code = r.code /\ y.refused = r.refused
BY DEF RelayRecord

LEMMA SessionInvInit == Init => SessionInv
<1> SUFFICES ASSUME Init PROVE SessionInv
  OBVIOUS
<1>1. Code # {}
  BY CodesAssumption, FS_EmptySet, FS_CardinalityType
<1>2. PICK code \in {None, CHOOSE c \in Code : TRUE} :
        disk = Stored(code) /\ relay = [code |-> code, held |-> FALSE, refused |-> FALSE]
  BY DEF Init
<1>3. code \in CodeOrNone
  BY <1>1 DEF CodeOrNone
<1>4. disk \in DiskRecord /\ disk.device = 1 /\ ~disk.marker /\ relay \in RelayRecord /\ ~relay.refused
  BY <1>2, <1>3 DEF Stored, DiskRecord, RelayRecord
<1>5. history \in HistoryRecord /\ history.gone = None /\ history.old = None
  BY DEF Init, HistoryRecord, CodeOrNone
<1>6. ctl = None /\ loop = [l \in Loop |-> Over] /\ loop \in [Loop -> RunRecord]
  BY OverIsIdle DEF Init
<1>7. SessionTypeOK
  BY <1>4, <1>5, <1>6 DEF SessionTypeOK
<1>8. RunsInv
  BY <1>4, <1>5, <1>6, OverIsIdle DEF RunsInv
<1>9. CodeInv
  BY <1>5 DEF CodeInv
<1> QED BY <1>7, <1>8, <1>9 DEF SessionInv

-----------------------------------------------------------------------------
(* The steps of a run.                                                       *)

\* A run goes on, and neither stored state nor the relay's record changes.
LEMMA RunGoesOn ==
  ASSUME SessionInv, UNCHANGED <<disk, ctl, history>>,
         relay' \in RelayRecord, relay'.code = relay.code, relay'.refused = relay.refused,
         NEW k \in Loop, NEW y \in RunRecord, loop' = [loop EXCEPT ![k] = y],
         k # ctl => y.pc \in {"over", "answered", "refused", "failed"} /\ ~y.re /\ ~y.up,
         y.force => loop[k].force /\ ~y.re /\ y.pc # "serving",
         y.pc = "refused" => relay.refused /\ loop[k].dev = 1,
         y.dev = loop[k].dev \/ (y.dev = 1 /\ k # ctl),
         k = ctl => {y.code, y.cur} \subseteq {None, loop[k].code, loop[k].cur, disk.code},
         k = ctl /\ AsksForNew => y.force /\ y.pc \in {"asked", "refused", "failed", "backoff"}
  PROVE  SessionInv'
<1>t. SessionTypeOK /\ RunsInv /\ CodeInv /\ None \notin Loop
  BY SessionFacts
<1>1. loop'[k] = y /\ (\A l \in Loop \ {k} : loop'[l] = loop[l]) /\ loop' \in [Loop -> RunRecord]
  BY <1>t DEF SessionTypeOK
<1>2. SessionTypeOK'
  BY <1>t, <1>1 DEF SessionTypeOK
<1>3. RunsInv'
  BY <1>t, <1>1 DEF RunsInv
<1>4. ASSUME NEW c, c # None, OutOfUse(c) PROVE OutOfUse(c)'
  <2>1. ctl # None => loop'[ctl].code # c /\ loop'[ctl].cur # c
    BY <1>t, <1>1, <1>4 DEF OutOfUse, SessionTypeOK
  <2>2. \A l \in Loop : l # ctl /\ loop'[l].pc = "asked" => loop'[l] = loop[l]
    BY <1>1
  <2> QED BY <1>4, <2>1, <2>2 DEF OutOfUse
<1>5. (Pending' => Pending) /\ (AsksForNew => AsksForNew')
  BY <1>t, <1>1 DEF Pending, AsksForNew, SessionTypeOK
<1>6. CodeInv'
  BY <1>t, <1>4, <1>5 DEF CodeInv
<1> QED BY <1>2, <1>3, <1>6 DEF SessionInv

LEMMA RunsKeep ==
  ASSUME SessionInv, NEW l \in Loop,
         RegisterFails(l) \/ LateAnswer(l) \/ RegisterFailed(l) \/ Retry(l) \/ Connect(l) \/ Drop(l) \/ Reauth(l)
  PROVE  SessionInv'
<1>t. SessionTypeOK /\ RunsInv /\ loop[l] \in RunRecord /\ relay \in RelayRecord /\ None \in CodeOrNone
  BY SessionFacts DEF SessionTypeOK, CodeOrNone
<1>n. l # ctl => loop[l].pc \in {"over", "asked", "answered", "refused", "failed"} /\ ~loop[l].re /\ ~loop[l].up
  BY <1>t DEF RunsInv
<1>f. /\ loop[l].force => ~loop[l].re /\ loop[l].pc # "serving"
      /\ loop[l].pc = "refused" => relay.refused /\ loop[l].dev = 1
  BY <1>t DEF RunsInv
<1>1. CASE RegisterFails(l)
  <2> DEFINE b == relay.held /\ ~(l = ctl /\ loop[l].pc = "answered")
             y == [loop[l] EXCEPT !.pc = "failed", !.cur = None]
  <2>1. relay' = [relay EXCEPT !.held = b] /\ b \in BOOLEAN
    BY <1>1 DEF RegisterFails
  <2>2. loop' = [loop EXCEPT ![l] = y] /\ UNCHANGED <<disk, ctl, history>>
    BY <1>t, <1>1 DEF RegisterFails, SessionTypeOK
  <2>3. /\ y \in RunRecord /\ y.pc = "failed" /\ y.cur = None /\ y.code = loop[l].code
        /\ y.force = loop[l].force /\ y.dev = loop[l].dev /\ y.re = loop[l].re /\ y.up = loop[l].up
    BY <1>t DEF RunRecord
  <2> HIDE DEF b, y
  <2>4. relay' \in RelayRecord /\ relay'.code = relay.code /\ relay'.refused = relay.refused
    BY <1>t, <2>1, HeldIs
  <2>5. l = ctl /\ AsksForNew => y.force
    BY <2>3 DEF AsksForNew
  <2> QED BY <1>n, <1>f, <2>2, <2>3, <2>4, <2>5, RunGoesOn
<1>2. CASE LateAnswer(l)
  <2>1. loop' = [loop EXCEPT ![l] = Over] /\ UNCHANGED <<disk, relay, ctl, history>> /\ l # ctl
    BY <1>2 DEF LateAnswer, Superseded
  <2> QED BY <1>t, <2>1, OverIsIdle, RunGoesOn
<1>3. CASE RegisterFailed(l)
  <2> DEFINE y == [loop[l] EXCEPT !.pc = "backoff"]
  <2>1. /\ loop' = [loop EXCEPT ![l] = y] /\ UNCHANGED <<disk, relay, ctl, history>> /\ l = ctl
    BY <1>t, <1>3 DEF RegisterFailed, Superseded, SessionTypeOK
  <2>2. /\ y \in RunRecord /\ y.pc = "backoff" /\ y.cur = loop[l].cur /\ y.code = loop[l].code
        /\ y.force = loop[l].force /\ y.dev = loop[l].dev /\ y.re = loop[l].re
    BY <1>t DEF RunRecord
  <2>3. AsksForNew => y.force
    BY <2>1, <2>2 DEF AsksForNew
  <2> HIDE DEF y
  <2> QED BY <1>t, <1>f, <2>1, <2>2, <2>3, RunGoesOn
<1>4. CASE Retry(l)
  <2> DEFINE y == Asking(l, loop[l], Loaded(disk))
  <2>1. /\ loop' = [loop EXCEPT ![l] = y] /\ UNCHANGED <<disk, relay, ctl, history>>
    BY <1>4 DEF Retry
  <2>2. l = ctl
    BY <1>4, <1>n DEF Retry
  <2>3. Loaded(disk) = disk.code /\ disk.code \in CodeOrNone
    BY <1>t DEF Loaded, SessionTypeOK, DiskRecord
  <2>4. /\ y \in RunRecord /\ y.pc = "asked" /\ ~y.re /\ ~y.up /\ y.code = loop[l].code
        /\ y.force = loop[l].force /\ y.dev = loop[l].dev /\ y.cur \in {None, disk.code}
    BY <1>t, <2>3, AskingIs
  <2>5. AsksForNew => y.force
    BY <2>2, <2>4 DEF AsksForNew
  <2> HIDE DEF y
  <2> QED BY <1>t, <2>1, <2>2, <2>4, <2>5, RunGoesOn
<1>5. CASE Connect(l) \/ Drop(l)
  <2>1. PICK up \in BOOLEAN : loop' = [loop EXCEPT ![l] = [loop[l] EXCEPT !.up = up]]
    BY <1>t, <1>5 DEF Connect, Drop, SessionTypeOK
  <2> DEFINE y == [loop[l] EXCEPT !.up = up]
  <2>2. UNCHANGED <<disk, relay, ctl, history>> /\ l = ctl
    BY <1>5, <1>n DEF Connect, Drop
  <2>3. /\ y \in RunRecord /\ y.pc = loop[l].pc /\ y.cur = loop[l].cur /\ y.code = loop[l].code
        /\ y.force = loop[l].force /\ y.dev = loop[l].dev /\ y.re = loop[l].re
    BY <1>t DEF RunRecord
  <2>4. AsksForNew => y.force /\ y.pc \in {"asked", "refused", "failed", "backoff"}
    BY <2>2, <2>3 DEF AsksForNew
  <2>5. loop' = [loop EXCEPT ![l] = y]
    BY <2>1
  <2> HIDE DEF y
  <2> QED BY <1>t, <1>f, <2>2, <2>3, <2>4, <2>5, RunGoesOn
<1>6. CASE Reauth(l)
  <2> DEFINE a == Asking(l, loop[l], loop[l].code)
             y == [a EXCEPT !.re = TRUE]
  <2>1. loop' = [loop EXCEPT ![l] = y] /\ UNCHANGED <<disk, relay, ctl, history>> /\ l = ctl /\ ~loop[l].force
    BY <1>6, <1>n, <1>f DEF Reauth
  <2>2. /\ a \in RunRecord /\ a.pc = "asked" /\ a.code = loop[l].code
        /\ a.force = loop[l].force /\ a.dev = loop[l].dev /\ a.cur \in {None, loop[l].code}
    BY <1>t, AskingIs DEF RunRecord
  <2> HIDE DEF a
  <2>3. /\ y \in RunRecord /\ y.pc = "asked" /\ y.code = loop[l].code
        /\ y.force = loop[l].force /\ y.dev = loop[l].dev /\ y.cur \in {None, loop[l].code}
    BY <2>2 DEF RunRecord
  <2>4. ~AsksForNew
    BY <2>1 DEF AsksForNew
  <2> HIDE DEF y
  <2> QED BY <1>t, <2>1, <2>3, <2>4, RunGoesOn
<1> QED BY <1>1, <1>2, <1>3, <1>4, <1>5, <1>6

\* The relay answers: with the code of its record, with the one it is told when it has
\* none, or with a new one.
LEMMA RelayKeeps == ASSUME SessionInv, NEW l \in Loop, RelayHandles(l) PROVE SessionInv'
<1>t. SessionTypeOK /\ RunsInv /\ CodeInv /\ loop[l] \in RunRecord /\ relay \in RelayRecord /\ None \in CodeOrNone
  BY SessionFacts DEF SessionTypeOK, CodeOrNone
<1>0. loop[l].pc = "asked" /\ UNCHANGED <<disk, ctl>> /\ None \notin Loop /\ None \notin Code
  BY SessionFacts DEF RelayHandles
<1>n. l # ctl => ~loop[l].re /\ ~loop[l].up
  BY <1>t DEF RunsInv
<1>1. CASE relay.refused /\ loop[l].dev = 1
  <2> DEFINE y == [loop[l] EXCEPT !.pc = "refused", !.cur = None]
  <2>1. loop' = [loop EXCEPT ![l] = y] /\ UNCHANGED <<relay, history>>
    BY <1>t, <1>1 DEF RelayHandles, SessionTypeOK
  <2>2. /\ y \in RunRecord /\ y.pc = "refused" /\ y.cur = None /\ y.code = loop[l].code
        /\ y.force = loop[l].force /\ y.dev = loop[l].dev /\ y.re = loop[l].re /\ y.up = loop[l].up
    BY <1>t DEF RunRecord
  <2>3. y.force => ~y.re
    BY <1>t, <2>2 DEF RunsInv
  <2>4. l = ctl /\ AsksForNew => y.force
    BY <2>2 DEF AsksForNew
  <2> HIDE DEF y
  <2> QED BY <1>t, <1>0, <1>1, <1>n, <2>1, <2>2, <2>3, <2>4, RunGoesOn
<1>2. CASE ~(relay.refused /\ loop[l].dev = 1)
  <2> DEFINE r == loop[l]
  <2> DEFINE answer == IF r.force THEN Fresh
                       ELSE IF relay.code # None THEN relay.code
                       ELSE IF r.cur # None THEN r.cur ELSE Fresh
  <2>a. /\ loop' = [loop EXCEPT ![l].pc = "answered", ![l].cur = answer]
        /\ relay' = [relay EXCEPT !.code = answer, !.held = l = ctl]
        /\ history' = [history EXCEPT !.gone = IF answer = history.gone /\ answer \notin {relay.code, r.cur}
                                               THEN None ELSE history.gone]
    BY <1>2 DEF RelayHandles
  <2>b. loop' = [loop EXCEPT ![l] = [r EXCEPT !.pc = "answered", !.cur = answer]]
    BY <1>t, <2>a DEF SessionTypeOK
  <2>1. PICK code :
          /\ code = IF r.force THEN Fresh
                    ELSE IF relay.code # None THEN relay.code
                    ELSE IF r.cur # None THEN r.cur ELSE Fresh
          /\ loop' = [loop EXCEPT ![l] = [r EXCEPT !.pc = "answered", !.cur = code]]
          /\ relay' = [relay EXCEPT !.code = code, !.held = l = ctl]
          /\ history' = [history EXCEPT !.gone = IF code = history.gone /\ code \notin {relay.code, r.cur}
                                                 THEN None ELSE history.gone]
    BY <2>a, <2>b
  <2> HIDE DEF answer
  <2>2. /\ Fresh \in Code /\ Fresh \notin {relay.code, disk.code, history.old}
        /\ \A m \in Loop : Fresh # loop[m].code /\ Fresh # loop[m].cur
    BY <1>t, FreshIsNew
  <2>3. /\ code \in Code
        /\ \/ code = Fresh
           \/ code = relay.code /\ relay.code # None /\ ~r.force
           \/ code = r.cur /\ relay.code = None /\ ~r.force
    BY <1>t, <2>1, <2>2 DEF RelayRecord, RunRecord, CodeOrNone
  <2> DEFINE y == [r EXCEPT !.pc = "answered", !.cur = code]
             held == l = ctl
  <2>4. /\ y \in RunRecord /\ y.pc = "answered" /\ y.cur = code /\ y.code = r.code
        /\ y.force = r.force /\ y.dev = r.dev /\ y.re = r.re /\ y.up = r.up
    BY <1>t, <2>3 DEF RunRecord, CodeOrNone
  <2>5. /\ loop'[l] = y /\ (\A m \in Loop \ {l} : loop'[m] = loop[m]) /\ loop' \in [Loop -> RunRecord]
    BY <1>t, <2>1, <2>4 DEF SessionTypeOK
  <2>6. relay' \in RelayRecord /\ relay'.code = code /\ relay'.refused = relay.refused
    <3>1. relay' = [relay EXCEPT !.code = code, !.held = held] /\ held \in BOOLEAN
      BY <2>1
    <3> HIDE DEF held
    <3> QED BY <1>t, <2>3, <3>1 DEF RelayRecord, CodeOrNone
  <2>7. /\ history' \in HistoryRecord /\ history'.old = history.old /\ history'.gone \in {None, history.gone}
        /\ history'.gone # None => ~(code = history.gone /\ code \notin {relay.code, r.cur})
    BY <1>t, <2>1 DEF SessionTypeOK, HistoryRecord
  <2> HIDE DEF y, held
  <2>8. SessionTypeOK'
    BY <1>t, <1>0, <2>5, <2>6, <2>7 DEF SessionTypeOK
  <2>9. RunsInv'
    <3>1. relay.refused => disk.device # 1
      BY <1>t, <1>2 DEF RunsInv, SessionTypeOK, RunRecord
    <3>2. \A m \in Loop \ {l} : loop'[m] = loop[m]
      BY <2>5
    <3>3. \A m \in Loop : m # ctl =>
            loop'[m].pc \in {"over", "asked", "answered", "refused", "failed"} /\ ~loop'[m].re /\ ~loop'[m].up
      BY <1>t, <1>n, <2>4, <2>5 DEF RunsInv
    <3>4. \A m \in Loop : loop'[m].force => ~loop'[m].re /\ loop'[m].pc # "serving"
      BY <1>t, <2>4, <2>5 DEF RunsInv
    <3>5. \A m \in Loop : loop'[m].pc = "refused" => relay.refused /\ loop'[m].dev = 1
      BY <1>t, <2>4, <2>5 DEF RunsInv
    <3>6. \A m \in Loop : loop'[m].dev = loop[m].dev
      BY <2>4, <2>5
    <3>7. (\A m \in Loop : loop'[m].dev = 2 => disk.device = 2) /\ (ctl # None => loop'[ctl].dev = disk.device)
      BY <1>t, <3>6 DEF RunsInv, SessionTypeOK
    <3>8. history'.gone # None => history'.old = None
      BY <1>t, <2>7 DEF RunsInv
    <3>9. (disk.device = 2 => relay.refused) /\ ~(relay.refused /\ disk.device = 1)
      BY <1>t, <3>1 DEF RunsInv
    <3> QED BY <1>0, <2>6, <3>3, <3>4, <3>5, <3>7, <3>8, <3>9 DEF RunsInv
  <2>10. ASSUME NEW c, c # None, OutOfUse(c), code # c PROVE OutOfUse(c)'
    <3>1. ctl # None => loop'[ctl].code # c /\ loop'[ctl].cur # c
      BY <1>t, <2>4, <2>5, <2>10 DEF OutOfUse, SessionTypeOK
    <3>2. relay'.code # None
      BY <1>0, <2>3, <2>6
    <3> QED BY <1>0, <2>10, <3>1, <3>2 DEF OutOfUse
  <2>11. ASSUME NEW c, c # None, OutOfUse(c), code = c PROVE code = Fresh \/ (code = relay.code /\ ~r.force)
    <3>1. ASSUME code = r.cur, relay.code = None, ~r.force PROVE FALSE
      <4>1. l # ctl
        BY <1>0, <2>11, <3>1 DEF OutOfUse
      <4> QED BY <1>0, <1>2, <2>11, <3>1, <4>1 DEF OutOfUse
    <3> QED BY <2>3, <3>1
  <2>12. history'.gone # None => OutOfUse(history.gone)' /\ code # history.gone
    <3> SUFFICES ASSUME history'.gone # None PROVE OutOfUse(history.gone)' /\ code # history.gone
      OBVIOUS
    <3>1. history'.gone = history.gone /\ history.gone # None /\ OutOfUse(history.gone) /\ relay.code # history.gone
      BY <1>t, <2>7 DEF CodeInv
    <3>2. code # history.gone
      BY <2>2, <2>7, <2>11, <3>1
    <3>3. OutOfUse(history.gone)'
      BY <1>t, <2>10, <3>1, <3>2 DEF SessionTypeOK, HistoryRecord
    <3> QED BY <3>2, <3>3
  <2>13. Pending' => Pending
    BY <1>t, <1>0, <2>4, <2>5 DEF Pending, SessionTypeOK
  <2>14. history'.old # None /\ Pending' =>
           OutOfUse(history.old)' /\ (ctl = None \/ AsksForNew' \/ code # history.old)
    <3> SUFFICES ASSUME history'.old # None, Pending'
                 PROVE  OutOfUse(history.old)' /\ (ctl = None \/ AsksForNew' \/ code # history.old)
      OBVIOUS
    <3>1. /\ history'.old = history.old /\ history.old # None /\ OutOfUse(history.old)
          /\ ctl = None \/ AsksForNew \/ relay.code # history.old
      BY <1>t, <2>7, <2>13 DEF CodeInv
    <3>2. CASE code # history.old
      <4>1. OutOfUse(history.old)'
        BY <1>t, <2>10, <3>1, <3>2 DEF SessionTypeOK, HistoryRecord
      <4> QED BY <3>2, <4>1
    <3>3. CASE code = history.old
      <4>1. code = relay.code /\ ~r.force
        BY <2>2, <2>11, <3>1, <3>3
      <4>2. ctl = None \/ (AsksForNew /\ ctl # l)
        BY <3>1, <3>3, <4>1 DEF AsksForNew
      <4>3. ctl = None \/ AsksForNew'
        BY <1>0, <1>t, <2>5, <4>2 DEF AsksForNew, SessionTypeOK
      <4>4. ctl # None => loop'[ctl].code # history.old /\ loop'[ctl].cur # history.old
        BY <1>t, <2>5, <3>1, <4>2 DEF OutOfUse, SessionTypeOK
      <4>5. relay'.code # None
        BY <1>0, <2>3, <2>6
      <4>6. OutOfUse(history.old)'
        BY <1>0, <3>1, <4>4, <4>5 DEF OutOfUse
      <4> QED BY <4>3, <4>6
    <3> QED BY <3>2, <3>3
  <2>15. CodeInv'
    BY <1>0, <2>6, <2>7, <2>12, <2>14 DEF CodeInv
  <2> QED BY <2>8, <2>9, <2>15 DEF SessionInv
<1> QED BY <1>1, <1>2

-----------------------------------------------------------------------------
(* The run saves the code it was given.                                      *)

\* An answer is looked at: its code is saved and perhaps served, or the write throws.
LEMMA RunSaves ==
  ASSUME SessionInv, ctl' = ctl, ctl \in Loop, loop[ctl].pc = "answered",
         relay' \in RelayRecord, relay'.code = relay.code, relay'.refused = relay.refused,
         disk' \in DiskRecord, disk'.code \in {disk.code, loop[ctl].cur, None},
         disk'.marker = disk.marker, disk'.device = disk.device,
         NEW y \in RunRecord, loop' = [loop EXCEPT ![ctl] = y],
         y.pc # "refused", y.force => loop[ctl].force /\ ~y.re /\ y.pc # "serving", y.dev = loop[ctl].dev,
         {y.code, y.cur} \subseteq {None, loop[ctl].code, loop[ctl].cur},
         \/ history' = history
         \/ /\ loop[ctl].force /\ history.gone = None /\ history' \in HistoryRecord
            /\ history'.gone = history.old /\ history'.old = None
  PROVE  SessionInv'
<1>t. SessionTypeOK /\ RunsInv /\ CodeInv /\ None \notin Loop
  BY SessionFacts
<1>1. loop'[ctl] = y /\ (\A l \in Loop \ {ctl} : loop'[l] = loop[l]) /\ loop' \in [Loop -> RunRecord]
  BY <1>t DEF SessionTypeOK
<1>2. SessionTypeOK'
  BY <1>t, <1>1 DEF SessionTypeOK
<1>3. RunsInv'
  <2>1. \A m \in Loop : loop'[m].dev = loop[m].dev
    BY <1>1
  <2>2. (\A m \in Loop : loop'[m].dev = 2 => disk.device = 2) /\ loop'[ctl].dev = disk.device
    BY <1>t, <2>1 DEF RunsInv
  <2>3. \A m \in Loop : m # ctl =>
          loop'[m].pc \in {"over", "asked", "answered", "refused", "failed"} /\ ~loop'[m].re /\ ~loop'[m].up
    BY <1>t, <1>1 DEF RunsInv
  <2>4. \A m \in Loop : loop'[m].force => ~loop'[m].re /\ loop'[m].pc # "serving"
    BY <1>t, <1>1 DEF RunsInv
  <2>5. \A m \in Loop : loop'[m].pc = "refused" => relay.refused /\ loop'[m].dev = 1
    BY <1>t, <1>1 DEF RunsInv
  <2>6. history'.gone # None => history'.old = None
    BY <1>t DEF RunsInv
  <2>7. (disk.device = 2 => relay.refused) /\ (relay.refused /\ disk.device = 1 => relay.code = None)
    BY <1>t DEF RunsInv
  <2> QED BY <2>2, <2>3, <2>4, <2>5, <2>6, <2>7 DEF RunsInv
<1>4. ASSUME NEW c, c # None, OutOfUse(c) PROVE OutOfUse(c)'
  <2>1. loop'[ctl].code # c /\ loop'[ctl].cur # c /\ disk'.code # c
    BY <1>t, <1>1, <1>4 DEF OutOfUse
  <2>2. \A l \in Loop : l # ctl => loop'[l] = loop[l]
    BY <1>1
  <2> QED BY <1>4, <2>1, <2>2 DEF OutOfUse
<1>5. ~AsksForNew /\ (Pending' => Pending)
  <2>1. ~AsksForNew
    BY DEF AsksForNew
  <2>2. Pending' => Pending
    BY <1>1 DEF Pending
  <2> QED BY <2>1, <2>2
<1>6. ASSUME NEW c, c # None, c = history.old, Pending PROVE OutOfUse(c)' /\ relay.code # c
  BY <1>t, <1>4, <1>5, <1>6 DEF CodeInv
<1>7. ASSUME NEW c, c # None, c = history.gone PROVE OutOfUse(c)' /\ relay.code # c
  BY <1>t, <1>4, <1>7 DEF CodeInv
<1>8. CodeInv'
  <2>1. CASE history' = history
    <3>1. history'.gone # None => OutOfUse(history.gone)' /\ relay'.code # history'.gone
      BY <1>7, <2>1
    <3>2. history'.old # None /\ Pending' => OutOfUse(history.old)' /\ relay'.code # history'.old
      BY <1>5, <1>6, <2>1
    <3> QED BY <3>1, <3>2 DEF CodeInv
  <2>2. CASE loop[ctl].force /\ history'.gone = history.old /\ history'.old = None
    <3>1. Pending
      BY <1>t, <2>2 DEF Pending
    <3>2. history'.gone # None => OutOfUse(history.gone)' /\ relay'.code # history'.gone
      BY <1>6, <2>2, <3>1
    <3> QED BY <2>2, <3>2 DEF CodeInv
  <2> QED BY <2>1, <2>2
<1> QED BY <1>2, <1>3, <1>8 DEF SessionInv

LEMMA RegisteredKeeps ==
  ASSUME SessionInv, NEW l \in Loop, NEW how \in SaveOutcomes, Registered(l, how) PROVE SessionInv'
<1>t. SessionTypeOK /\ RunsInv /\ loop[l] \in RunRecord /\ relay \in RelayRecord /\ disk \in DiskRecord
      /\ history \in HistoryRecord /\ None \in CodeOrNone
  BY SessionFacts DEF SessionTypeOK, CodeOrNone
<1>0. loop[l].pc = "answered" /\ ~loop[l].re /\ l = ctl /\ UNCHANGED <<relay, ctl>> /\ loop[l].cur \in CodeOrNone
  BY <1>t DEF Registered, Superseded, RunRecord
<1>1. PICK d \in Saved(loop[l].cur, how) : disk' = d
  BY DEF Registered
<1>2. /\ disk' \in DiskRecord /\ disk'.code \in {disk.code, loop[l].cur, None}
      /\ disk'.marker = disk.marker /\ disk'.device = disk.device
  BY <1>t, <1>0, <1>1, SavedIs
<1>3. \/ history' = history
      \/ /\ loop[l].force /\ history.gone = None /\ history' \in HistoryRecord
         /\ history'.gone = history.old /\ history'.old = None
  BY <1>t DEF Registered, HistoryRecord
<1>4. CASE how = "throws"
  <2> DEFINE y == [loop[l] EXCEPT !.pc = "backoff", !.cur = None]
  <2>1. loop' = [loop EXCEPT ![l] = y]
    BY <1>t, <1>4 DEF Registered, SessionTypeOK
  <2>2. /\ y \in RunRecord /\ y.pc = "backoff" /\ y.cur = None /\ y.code = loop[l].code
        /\ y.force = loop[l].force /\ y.dev = loop[l].dev /\ y.re = loop[l].re
    BY <1>t DEF RunRecord
  <2> HIDE DEF y
  <2> QED BY <1>t, <1>0, <1>2, <1>3, <2>1, <2>2, RunSaves
<1>5. CASE how # "throws"
  <2> DEFINE y == [loop[l] EXCEPT !.pc = "serving", !.force = FALSE, !.code = loop[l].cur, !.cur = None]
  <2>1. loop' = [loop EXCEPT ![l] = y]
    BY <1>t, <1>5 DEF Registered, SessionTypeOK
  <2>2. /\ y \in RunRecord /\ y.pc = "serving" /\ y.cur = None /\ y.code = loop[l].cur
        /\ ~y.force /\ y.dev = loop[l].dev
    BY <1>t DEF RunRecord
  <2> HIDE DEF y
  <2> QED BY <1>t, <1>0, <1>2, <1>3, <2>1, <2>2, RunSaves
<1> QED BY <1>4, <1>5

LEMMA ReauthedKeeps ==
  ASSUME SessionInv, NEW l \in Loop, NEW how \in SaveOutcomes, Reauthed(l, how) PROVE SessionInv'
<1>t. SessionTypeOK /\ RunsInv /\ loop[l] \in RunRecord /\ relay \in RelayRecord /\ disk \in DiskRecord
      /\ history \in HistoryRecord /\ None \in CodeOrNone
  BY SessionFacts DEF SessionTypeOK, CodeOrNone
<1>0. loop[l].re /\ ~loop[l].force /\ l = ctl /\ UNCHANGED <<ctl, history>> /\ loop[l].cur \in CodeOrNone
  BY <1>t DEF Reauthed, Superseded, RunRecord, RunsInv
<1> DEFINE y == [loop[l] EXCEPT !.pc = "serving", !.re = FALSE, !.cur = None]
<1>1. loop' = [loop EXCEPT ![l] = y]
  BY <1>t DEF Reauthed, SessionTypeOK
<1>2. /\ y \in RunRecord /\ y.pc = "serving" /\ y.cur = None /\ y.code = loop[l].code
      /\ ~y.force /\ y.dev = loop[l].dev
  BY <1>t, <1>0 DEF RunRecord
<1> HIDE DEF y
<1>3. CASE loop[l].pc = "answered" /\ disk' \in Saved(loop[l].cur, how) /\ relay' = [relay EXCEPT !.held = @ /\ how # "throws"]
  <2> DEFINE b == relay.held /\ how # "throws"
  <2>1. relay' = [relay EXCEPT !.held = b] /\ b \in BOOLEAN
    BY <1>3
  <2> HIDE DEF b
  <2>2. relay' \in RelayRecord /\ relay'.code = relay.code /\ relay'.refused = relay.refused
    BY <1>t, <2>1, HeldIs
  <2>3. PICK d \in Saved(loop[l].cur, how) : disk' = d
    BY <1>3
  <2>4. /\ disk' \in DiskRecord /\ disk'.code \in {disk.code, loop[l].cur, None}
        /\ disk'.marker = disk.marker /\ disk'.device = disk.device
    BY <1>t, <1>0, <2>3, SavedIs
  <2> QED BY <1>0, <1>1, <1>2, <1>3, <2>2, <2>4, RunSaves
<1>4. CASE UNCHANGED <<disk, relay>>
  <2>1. ~AsksForNew
    BY <1>0 DEF AsksForNew
  <2> QED BY <1>t, <1>0, <1>1, <1>2, <1>4, <2>1, RunGoesOn
<1> QED BY <1>3, <1>4 DEF Reauthed

\* A refused identity is replaced: the run asks again with a new one and no code.
LEMMA DeviceRefusedKeeps == ASSUME SessionInv, NEW l \in Loop, DeviceRefused(l) PROVE SessionInv'
<1>t. SessionTypeOK /\ RunsInv /\ CodeInv /\ loop[l] \in RunRecord /\ relay \in RelayRecord /\ disk \in DiskRecord
      /\ None \in CodeOrNone /\ None \notin Code /\ None \notin Loop
  BY SessionFacts DEF SessionTypeOK, CodeOrNone
<1>0. loop[l].pc = "refused" /\ l = ctl /\ UNCHANGED <<relay, ctl, history>>
  BY DEF DeviceRefused, Superseded, Regenerates
<1>1. relay.refused /\ loop[l].dev = 1 /\ disk.device = 1 /\ relay.code = None
  BY <1>t, <1>0 DEF RunsInv
<1>2. /\ disk' \in DiskRecord /\ disk'.device = 2 /\ disk'.code = None /\ disk'.marker = disk.marker
  BY <1>t DEF DeviceRefused, Cleared, NewDevice, DiskRecord
<1> DEFINE a == [loop[l] EXCEPT !.reset = TRUE, !.dev = 2, !.force = FALSE]
           y == Asking(l, a, None)
<1>3. loop' = [loop EXCEPT ![l] = y]
  BY <1>t DEF DeviceRefused, SessionTypeOK
<1>4. a \in RunRecord /\ a.code = loop[l].code /\ a.dev = 2 /\ ~a.force
  BY <1>t DEF RunRecord
<1> HIDE DEF a
<1>5. y \in RunRecord /\ y.pc = "asked" /\ ~y.re /\ ~y.up /\ y.code = loop[l].code /\ ~y.force /\ y.dev = 2 /\ y.cur = None
  BY <1>t, <1>4, AskingIs
<1> HIDE DEF y
<1>6. loop'[l] = y /\ (\A m \in Loop \ {l} : loop'[m] = loop[m]) /\ loop' \in [Loop -> RunRecord]
  BY <1>t, <1>3, <1>5 DEF SessionTypeOK
<1>7. SessionTypeOK'
  BY <1>t, <1>0, <1>2, <1>6 DEF SessionTypeOK
<1>8. RunsInv'
  <2>1. (\A m \in Loop : loop'[m].dev = 2 => disk'.device = 2) /\ loop'[ctl].dev = disk'.device
    BY <1>0, <1>2, <1>5, <1>6
  <2>2. \A m \in Loop : m # ctl =>
          loop'[m].pc \in {"over", "asked", "answered", "refused", "failed"} /\ ~loop'[m].re /\ ~loop'[m].up
    BY <1>t, <1>0, <1>6 DEF RunsInv
  <2>3. \A m \in Loop : loop'[m].force => ~loop'[m].re /\ loop'[m].pc # "serving"
    BY <1>t, <1>5, <1>6 DEF RunsInv
  <2>4. \A m \in Loop : loop'[m].pc = "refused" => relay.refused /\ loop'[m].dev = 1
    BY <1>t, <1>5, <1>6 DEF RunsInv
  <2>5. history.gone # None => history.old = None
    BY <1>t DEF RunsInv
  <2> QED BY <1>0, <1>1, <1>2, <2>1, <2>2, <2>3, <2>4, <2>5 DEF RunsInv
<1>9. ASSUME NEW c, c # None, OutOfUse(c) PROVE OutOfUse(c)'
  <2>1. loop'[ctl].code # c /\ loop'[ctl].cur # c /\ disk'.code # c
    BY <1>t, <1>0, <1>2, <1>5, <1>6, <1>9 DEF OutOfUse
  <2>2. \A m \in Loop : m # ctl => loop'[m] = loop[m]
    BY <1>0, <1>6
  <2> QED BY <1>0, <1>9, <2>1, <2>2 DEF OutOfUse
<1>10. Pending' => Pending
  BY <1>0, <1>2, <1>5, <1>6 DEF Pending
<1>11. CodeInv'
  BY <1>t, <1>0, <1>1, <1>9, <1>10 DEF CodeInv
<1> QED BY <1>7, <1>8, <1>11 DEF SessionInv

-----------------------------------------------------------------------------
(* The steps that begin and end runs.                                        *)

\* What is left when runs are stopped: the waits for the relay, with what they sent.
\* Its facts hold of Stopped, of what a crash leaves, and of runs with nobody in charge.
Left(loops) ==
  /\ loops \in [Loop -> RunRecord]
  /\ \A l \in Loop :
       /\ loops[l].pc \in {"over", "asked", "answered", "refused", "failed"} /\ ~loops[l].re /\ ~loops[l].up
       /\ loops[l].dev = 2 => loop[l].dev = 2
       /\ loops[l].pc = "refused" => relay.refused /\ loops[l].dev = 1
       /\ loops[l].pc = "asked" =>
            loop[l].pc = "asked" /\ loops[l].cur = loop[l].cur /\ loops[l].force = loop[l].force
            /\ loops[l].dev = loop[l].dev

\* A register that was sent and names a code that is out of use is answered with another,
\* also when its run is not in charge any more.
OutForAll(c) ==
  /\ disk.code # c
  /\ \A l \in Loop : loop[l].pc = "asked" /\ ~loop[l].force /\ loop[l].cur = c =>
       relay.code # None \/ (relay.refused /\ loop[l].dev = 1)

LEMMA OutMeansAll == ASSUME SessionInv, NEW c, OutOfUse(c) PROVE OutForAll(c)
<1>1. None \notin Loop
  BY SessionFacts
<1> QED BY <1>1 DEF OutOfUse, OutForAll

LEMMA StoppedIsLeft == ASSUME SessionInv PROVE Left(Stopped)
<1>1. SessionTypeOK
  BY SessionFacts
<1> QED BY <1>1, StoppedRuns DEF Left

LEMMA DiedIsLeft == ASSUME SessionInv PROVE Left(Died)
<1>1. SessionTypeOK
  BY SessionFacts
<1>2. ASSUME NEW l \in Loop PROVE Died[l] = Stopped[l] \/ Died[l] = Over
  BY DEF Died
<1>3. Died \in [Loop -> RunRecord]
  BY <1>1, <1>2, StoppedRuns, OverIsIdle DEF Died
<1> QED BY <1>1, <1>2, <1>3, StoppedRuns, OverIsIdle DEF Left

LEMMA IdleIsLeft == ASSUME SessionInv, ctl = None PROVE Left(loop)
<1>1. SessionTypeOK /\ RunsInv /\ None \notin Loop
  BY SessionFacts
<1> QED BY <1>1 DEF Left, SessionTypeOK, RunsInv

\* Nobody is in charge any more.
LEMMA EndsKeep ==
  ASSUME SessionInv, ctl' = None, Left(loop'), relay' \in RelayRecord,
         relay'.code = relay.code, relay'.refused = relay.refused, history' = history,
         disk' \in DiskRecord, disk'.marker = disk.marker, disk'.device = disk.device,
         disk'.code \in {disk.code, None} \/ (ctl # None /\ disk'.code = loop[ctl].cur)
  PROVE  SessionInv'
<1>t. SessionTypeOK /\ RunsInv /\ CodeInv /\ None \notin Loop
  BY SessionFacts
<1>1. SessionTypeOK'
  BY <1>t DEF SessionTypeOK, Left
<1>2. RunsInv'
  <2>1. \A m \in Loop : loop'[m].dev = 2 => disk.device = 2
    BY <1>t DEF RunsInv, Left
  <2>2. \A m \in Loop :
          loop'[m].pc \in {"over", "asked", "answered", "refused", "failed"} /\ ~loop'[m].re /\ ~loop'[m].up
    BY DEF Left
  <2>3. \A m \in Loop : loop'[m].pc = "refused" => relay.refused /\ loop'[m].dev = 1
    BY DEF Left
  <2>4. history.gone # None => history.old = None
    BY <1>t DEF RunsInv
  <2>5. (disk.device = 2 => relay.refused) /\ (relay.refused /\ disk.device = 1 => relay.code = None)
    BY <1>t DEF RunsInv
  <2> QED BY <2>1, <2>2, <2>3, <2>4, <2>5 DEF RunsInv
<1>3. ASSUME NEW c, c # None, OutOfUse(c) PROVE OutOfUse(c)'
  <2>1. OutForAll(c) /\ disk'.code # c
    BY <1>3, OutMeansAll DEF OutOfUse
  <2> QED BY <2>1 DEF OutOfUse, OutForAll, Left
<1>4. Pending' => Pending
  BY DEF Pending
<1>5. CodeInv'
  BY <1>t, <1>3, <1>4 DEF CodeInv
<1> QED BY <1>1, <1>2, <1>5 DEF SessionInv

\* A run begins, with the marker that lies on the disk or with the order to change the code.
LEMMA StartedKeeps ==
  ASSUME SessionInv, NEW l \in Loop, NEW loops, Left(loops), NEW d \in DiskRecord, NEW o,
         Started(l, d, loops, o),
         \/ d = disk /\ o = history.old
         \/ d = Marked(Cleared(disk)) /\ o = relay.code /\ history.gone = None
  PROVE  SessionInv'
<1>t. SessionTypeOK /\ RunsInv /\ CodeInv /\ None \notin Loop /\ relay \in RelayRecord /\ history \in HistoryRecord
      /\ disk \in DiskRecord /\ None \notin Code
  BY SessionFacts DEF SessionTypeOK
<1>1. ctl' = l
  BY DEF Started
<1>2. relay' \in RelayRecord /\ relay'.code = relay.code /\ relay'.refused = relay.refused
  BY <1>t DEF Started, RelayRecord
<1>3. /\ disk' \in DiskRecord /\ disk'.code = d.code /\ disk'.device = d.device /\ disk'.marker \in {FALSE, d.marker}
  BY DEF Started, Consumed, DiskRecord
<1>4. history' \in HistoryRecord /\ history'.gone = history.gone /\ history'.old = o
  <2>1. o \in CodeOrNone
    BY <1>t DEF RelayRecord, HistoryRecord
  <2>2. history' = [history EXCEPT !.starts = history.starts + 1, !.old = o]
    BY DEF Started
  <2>3. history \in [gone : CodeOrNone, old : CodeOrNone, starts : Nat]
    BY <1>t DEF HistoryRecord
  <2>4. history.starts + 1 \in Nat
    BY <2>3
  <2> DEFINE n == history.starts + 1
  <2> HIDE DEF n
  <2>5. n \in Nat /\ history' = [history EXCEPT !.starts = n, !.old = o]
    BY <2>2, <2>4 DEF n
  <2> QED BY <2>1, <2>3, <2>5 DEF HistoryRecord
<1>5. /\ d.device = disk.device
      /\ \/ d.code = disk.code /\ d.marker = disk.marker /\ o = history.old
         \/ d.code = None /\ d.marker /\ o = relay.code /\ history.gone = None
  BY <1>t DEF Marked, Cleared, DiskRecord
<1> DEFINE a == [Over EXCEPT !.force = d.marker, !.dev = d.device]
           y == Asking(l, a, Loaded(d))
<1>6. loop' = [loops EXCEPT ![l] = y]
  BY DEF Started
<1>7. a \in RunRecord /\ a.code = None /\ a.force = d.marker /\ a.dev = d.device
  BY OverIsIdle DEF RunRecord, DiskRecord, Over, CodeOrNone
<1> HIDE DEF a
<1>8. /\ y \in RunRecord /\ y.pc = "asked" /\ ~y.re /\ ~y.up /\ y.code = None /\ y.force = d.marker
      /\ y.dev = d.device /\ y.cur = IF d.marker THEN None ELSE d.code
  BY <1>7, AskingIs DEF Loaded, DiskRecord
<1> HIDE DEF y
<1>9. loop'[l] = y /\ (\A m \in Loop \ {l} : loop'[m] = loops[m]) /\ loop' \in [Loop -> RunRecord]
  BY <1>6, <1>8 DEF Left
<1>10. SessionTypeOK'
  BY <1>1, <1>2, <1>3, <1>4, <1>9 DEF SessionTypeOK
<1>11. RunsInv'
  <2>1. (\A m \in Loop : loop'[m].dev = 2 => disk'.device = 2) /\ loop'[l].dev = disk'.device
    BY <1>t, <1>3, <1>5, <1>8, <1>9 DEF RunsInv, Left
  <2>2. \A m \in Loop : m # l =>
          loop'[m].pc \in {"over", "asked", "answered", "refused", "failed"} /\ ~loop'[m].re /\ ~loop'[m].up
    BY <1>9 DEF Left
  <2>3. \A m \in Loop : loop'[m].force => ~loop'[m].re /\ loop'[m].pc # "serving"
    BY <1>8, <1>9 DEF Left
  <2>4. \A m \in Loop : loop'[m].pc = "refused" => relay.refused /\ loop'[m].dev = 1
    BY <1>8, <1>9 DEF Left
  <2>5. history'.gone # None => history'.old = None
    BY <1>t, <1>4, <1>5 DEF RunsInv
  <2>6. (disk.device = 2 => relay.refused) /\ (relay.refused /\ disk.device = 1 => relay.code = None)
    BY <1>t DEF RunsInv
  <2> QED BY <1>1, <1>2, <1>3, <1>5, <2>1, <2>2, <2>3, <2>4, <2>5, <2>6 DEF RunsInv
<1>12. ASSUME NEW c, c # None, OutForAll(c) \/ c = relay.code, d.code # c PROVE OutOfUse(c)'
  <2>1. disk'.code # c /\ loop'[l].code # c /\ loop'[l].cur # c
    BY <1>3, <1>8, <1>9, <1>12
  <2>2. ASSUME NEW m \in Loop, m # l, loop'[m].pc = "asked", ~loop'[m].force, loop'[m].cur = c
        PROVE  relay.code # None \/ (relay.refused /\ loop'[m].dev = 1)
    <3>1. loop[m].pc = "asked" /\ ~loop[m].force /\ loop[m].cur = c /\ loop[m].dev = loop'[m].dev
      BY <1>9, <2>2 DEF Left
    <3> QED BY <1>12, <3>1 DEF OutForAll
  <2> QED BY <1>1, <1>2, <2>1, <2>2 DEF OutOfUse
<1>13. ASSUME NEW c, c # None, OutOfUse(c), d.code = disk.code PROVE OutOfUse(c)'
  <2>1. OutForAll(c) /\ d.code # c
    BY <1>13, OutMeansAll DEF OutOfUse
  <2> QED BY <1>12, <1>13, <2>1
<1>14. Pending' => d.marker /\ AsksForNew'
  BY <1>t, <1>1, <1>3, <1>8, <1>9 DEF Pending, AsksForNew
<1>15. history'.gone # None => OutOfUse(history.gone)' /\ relay'.code # history'.gone
  <2> SUFFICES ASSUME history'.gone # None PROVE OutOfUse(history.gone)' /\ relay'.code # history'.gone
    OBVIOUS
  <2>1. PICK c : c = history.gone
    OBVIOUS
  <2>2. c # None /\ OutOfUse(c) /\ relay.code # c /\ d.code = disk.code /\ history'.gone = c
    BY <1>t, <1>4, <1>5, <2>1 DEF CodeInv
  <2>3. OutOfUse(c)'
    BY <1>13, <2>2
  <2> QED BY <1>2, <2>2, <2>3
<1>16. history'.old # None /\ Pending' => OutOfUse(history.old)'
  <2> SUFFICES ASSUME history'.old # None, Pending' PROVE OutOfUse(history.old)'
    OBVIOUS
  <2>1. PICK c : c = o
    OBVIOUS
  <2>2. OutOfUse(c)'
    <3>1. CASE d.code = disk.code /\ d.marker = disk.marker /\ o = history.old
      <4>1. Pending /\ c # None
        BY <1>4, <1>14, <2>1, <3>1 DEF Pending
      <4>2. OutOfUse(c)
        BY <1>t, <2>1, <3>1, <4>1 DEF CodeInv
      <4> QED BY <1>13, <3>1, <4>1, <4>2
    <3>2. CASE d.code = None /\ o = relay.code
      BY <1>4, <1>12, <2>1, <3>2
    <3> QED BY <1>5, <3>1, <3>2
  <2> QED BY <1>4, <2>1, <2>2
<1>17. CodeInv'
  BY <1>14, <1>15, <1>16 DEF CodeInv
<1> QED BY <1>10, <1>11, <1>17 DEF SessionInv

\* The user's calls, and the end of the process.
LEMMA CallsKeep ==
  ASSUME SessionInv,
         Stop \/ Crash \/ (\E l \in Loop : Start(l) \/ Restart(l) \/ ChangeCode(l))
  PROVE  SessionInv'
<1>t. SessionTypeOK /\ relay \in RelayRecord /\ disk \in DiskRecord /\ None \in CodeOrNone
  BY SessionFacts DEF SessionTypeOK, CodeOrNone
<1>r. ASSUME relay' = [relay EXCEPT !.held = FALSE]
      PROVE  relay' \in RelayRecord /\ relay'.code = relay.code /\ relay'.refused = relay.refused
  BY <1>t, <1>r, HeldIs
<1>1. CASE Stop
  <2>1. ctl' = None /\ Left(Stopped) /\ loop' = Stopped /\ UNCHANGED <<disk, history>>
    BY <1>1, StoppedIsLeft DEF Stop
  <2>2. Left(loop')
    BY <2>1
  <2> QED BY <1>t, <1>r, <1>1, <2>1, <2>2, EndsKeep DEF Stop
<1>2. CASE Crash
  <2>1. ctl' = None /\ ctl # None /\ Left(Died) /\ loop' = Died /\ UNCHANGED history
    BY <1>2, DiedIsLeft DEF Crash
  <2>2. Left(loop')
    BY <2>1
  <2>3. /\ disk' \in DiskRecord /\ disk'.marker = disk.marker /\ disk'.device = disk.device
        /\ disk'.code \in {disk.code, None} \/ disk'.code = loop[ctl].cur
    <3>1. CASE UNCHANGED disk
      BY <1>t, <3>1
    <3>2. CASE disk' \in Saved(loop[ctl].cur, "throws")
      <4>1. PICK e \in Saved(loop[ctl].cur, "throws") : disk' = e
        BY <3>2
      <4>2. loop[ctl].cur \in CodeOrNone
        BY <1>t, <2>1 DEF SessionTypeOK, RunRecord
      <4> QED BY <1>t, <4>1, <4>2, SavedIs
    <3> QED BY <1>2, <3>1, <3>2 DEF Crash
  <2> QED BY <1>r, <1>2, <2>1, <2>2, <2>3, EndsKeep DEF Crash
<1>3. ASSUME NEW l \in Loop, Start(l) PROVE SessionInv'
  BY <1>t, <1>3, IdleIsLeft, StartedKeeps DEF Start
<1>4. ASSUME NEW l \in Loop, Restart(l) PROVE SessionInv'
  BY <1>t, <1>4, StoppedIsLeft, StartedKeeps DEF Restart
<1>5. ASSUME NEW l \in Loop, ChangeCode(l) PROVE SessionInv'
  <2>1. Marked(Cleared(disk)) \in DiskRecord
    BY <1>t DEF Marked, Cleared, DiskRecord
  <2> QED BY <1>5, <2>1, StoppedIsLeft, StartedKeeps DEF ChangeCode
<1> QED BY <1>1, <1>2, <1>3, <1>4, <1>5

\* The relay evicts a record, or ends an identity.
LEMMA RecordsKeep == ASSUME SessionInv, Evict \/ Refuse PROVE SessionInv'
<1>t. SessionTypeOK /\ RunsInv /\ CodeInv /\ None \notin Loop /\ relay \in RelayRecord
  BY SessionFacts DEF SessionTypeOK
<1>1. relay' \in RelayRecord /\ relay'.code = None /\ UNCHANGED <<disk, loop, ctl, history>>
  <2>1. UNCHANGED <<disk, loop, ctl, history>>
    BY DEF Evict, Refuse
  <2>2. relay' = [relay EXCEPT !.code = None] \/ relay' = [code |-> None, held |-> FALSE, refused |-> TRUE]
    BY DEF Evict, Refuse
  <2>3. relay' \in RelayRecord /\ relay'.code = None
    <3>1. relay \in RelayRecord /\ None \in CodeOrNone
      BY <1>t DEF CodeOrNone
    <3>2. CASE relay' = [relay EXCEPT !.code = None]
      BY <3>1, <3>2 DEF RelayRecord
    <3>3. CASE relay' = [code |-> None, held |-> FALSE, refused |-> TRUE]
      BY <3>1, <3>3 DEF RelayRecord
    <3> QED BY <2>2, <3>2, <3>3
  <2> QED BY <2>1, <2>3
<1>2. SessionTypeOK'
  BY <1>t, <1>1 DEF SessionTypeOK
<1>3. relay.refused => relay'.refused
  BY <1>t DEF Evict, Refuse, RelayRecord
<1>4. RunsInv'
  BY <1>t, <1>1, <1>3 DEF RunsInv
<1>5. \A l \in Loop : loop[l].pc = "asked" => relay'.refused /\ loop[l].dev = 1
  <2>1. CASE Evict
    BY <2>1, OverIsIdle DEF Evict
  <2>2. CASE Refuse
    <3>1. \A l \in Loop : loop[l].dev \in {1, 2}
      BY <1>t DEF SessionTypeOK, RunRecord
    <3>2. \A l \in Loop : loop[l].dev = 1
      BY <1>t, <2>2, <3>1 DEF Refuse, RunsInv
    <3> QED BY <2>2, <3>2 DEF Refuse
  <2> QED BY <2>1, <2>2
<1>6. ASSUME NEW c, OutOfUse(c) PROVE OutOfUse(c)'
  BY <1>1, <1>5, <1>6 DEF OutOfUse
<1>7. CodeInv'
  BY <1>t, <1>1, <1>6 DEF CodeInv, Pending
<1> QED BY <1>2, <1>4, <1>7 DEF SessionInv

LEMMA SessionInvStep == SessionInv /\ [Next]_vars => SessionInv'
<1> SUFFICES ASSUME SessionInv, [Next]_vars PROVE SessionInv'
  OBVIOUS
<1>1. CASE UNCHANGED vars
  BY <1>1 DEF vars, SessionInv, SessionTypeOK, RunsInv, CodeInv, OutOfUse, Pending, AsksForNew
<1>2. CASE Stop \/ Crash \/ (\E l \in Loop : Start(l) \/ Restart(l) \/ ChangeCode(l))
  BY <1>2, CallsKeep
<1>3. CASE Evict \/ Refuse
  BY <1>3, RecordsKeep
<1>4. ASSUME NEW l \in Loop,
             RegisterFails(l) \/ LateAnswer(l) \/ RegisterFailed(l) \/ Retry(l) \/ Connect(l) \/ Drop(l) \/ Reauth(l)
      PROVE  SessionInv'
  BY <1>4, RunsKeep
<1>5. ASSUME NEW l \in Loop, RelayHandles(l) PROVE SessionInv'
  BY <1>5, RelayKeeps
<1>6. ASSUME NEW l \in Loop, DeviceRefused(l) PROVE SessionInv'
  BY <1>6, DeviceRefusedKeeps
<1>7. ASSUME NEW l \in Loop, NEW how \in SaveOutcomes, Registered(l, how) \/ Reauthed(l, how) PROVE SessionInv'
  BY <1>7, RegisteredKeeps, ReauthedKeeps
<1> QED BY <1>1, <1>2, <1>3, <1>4, <1>5, <1>6, <1>7 DEF Next

\* The invariant the results rest on: where a code that is to be replaced, or was, may
\* still be, and what every run may do after it was aborted (agent-controller.ts,
\* session-store.ts and the reauth of connection.ts).
THEOREM SessionIsInvariant == Spec => []SessionInv
<1> QED BY SessionInvInit, SessionInvStep, PTL DEF Spec

\* A code the user had replaced never comes back once the agent has its new one: the relay
\* never takes it again and no run serves it, for any number of overlapping runs, of
\* restarts and of failing writes, over crashes and evicted records (changeCode and
\* _runLoop of agent-controller.ts, saveSession of session-store.ts).
THEOREM ReplacedCodeIsGone == Spec => []ResetIsFinal
<1>1. SessionInv => ResetIsFinal
  <2> SUFFICES ASSUME SessionInv, history.gone # None
               PROVE  /\ relay.code # history.gone
                      /\ \A l \in Loop : loop[l].pc = "serving" => loop[l].code # history.gone
    BY DEF ResetIsFinal
  <2>1. RunsInv /\ CodeInv /\ None \notin Loop
    BY SessionFacts
  <2>2. relay.code # history.gone /\ OutOfUse(history.gone)
    BY <2>1 DEF CodeInv
  <2>3. \A l \in Loop : loop[l].pc = "serving" => l = ctl
    BY <2>1 DEF RunsInv
  <2> QED BY <2>1, <2>2, <2>3 DEF OutOfUse
<1> QED BY <1>1, SessionIsInvariant, PTL
=============================================================================
