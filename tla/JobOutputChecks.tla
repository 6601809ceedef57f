--------------------------- MODULE JobOutputChecks ---------------------------
(* JobOutput's operators on every short file: TLC evaluates the assumptions.  *)
EXTENDS JobOutput

LOCAL Other == CHOOSE b \in Byte : b # Newline
MCNotice == <<Other, Newline>>
LOCAL Files(n) == UNION {[1 .. k -> Byte] : k \in 0 .. n}
LOCAL Both == {"window", "chunk"}
LOCAL Ask(offset, tail, max) == [offsetBytes |-> offset, tailLines |-> tail, maxBytes |-> max]

(* The lines of a text: a newline ends a line, and so does the end.           *)
LOCAL Lines(text) ==
  Cardinality({i \in DOMAIN text : text[i] = Newline \/ i = Len(text)})

(* A tail reaches the end of what is served, starts where a line does unless  *)
(* the slice was too small for the lines asked for, and has no line too many. *)
ASSUME TailIsTheEnd ==
  \A log \in Files(5), lines \in 1 .. 3, max \in 1 .. 3 :
    LET tail == readJobLogs(log, {}, Ask({}, {lines}, {max}), Both)
    IN  /\ tail.eof
        /\ Lines(tail.chunk) <= lines
        /\ \/ tail.offsetBytes = 0
           \/ log[tail.offsetBytes] = Newline /\ Lines(tail.chunk) = lines
           \/ Len(tail.chunk) = max

(* A slice whose bytes could not be read is empty and goes no further; it says *)
(* eof only where nothing was left to read.                                   *)
ASSUME UnreadSaysNothing ==
  \A log \in Files(4), offset \in {{}} \cup {{n} : n \in 0 .. 5}, reads \in {{}, {"window"}} :
    LET slice == readJobLogs(log, {}, Ask(offset, {1}, {2}), reads)
    IN  /\ slice.chunk = << >> /\ slice.nextOffsetBytes = slice.offsetBytes
        /\ slice.eof <=> slice.offsetBytes = Len(log)

(* A summary and a slice agree on how much there is to read.                  *)
ASSUME SummaryAgrees ==
  \A log \in Files(5), cut \in {{}} \cup {{n} : n \in 0 .. 4} :
    /\ LogBytes(log, cut) = Served(log, cut)
    /\ readJobLogs(log, cut, Ask({9}, {}, {}), Both).nextOffsetBytes = LogBytes(log, cut)

(* The notice is the last thing served when the file was exactly at the cap;  *)
(* a file already past it is served up to the same place, without the notice. *)
ASSUME NoticeServed ==
  \A log \in Files(5) : Len(log) >= 3 =>
    LET now == checkLogCap(log, {}, TRUE)
        served == SubSeq(now.log, 1, Served(now.log, now.truncatedAt))
    IN  Len(served) = 5 /\ (Len(log) = 3 => served = log \o Notice)

(* Listed and omitted records are all there are when every record matches.    *)
ASSUME NothingUncounted ==
  \A n \in 0 .. 4, asked \in {{}} \cup {{k} : k \in 0 .. 3} :
    LET stored == [i \in 1 .. n |-> i]
    IN  /\ LET all == list(stored, 1 .. n, asked) IN Len(all.jobs) + all.omitted = n
        /\ \A matches \in SUBSET (1 .. n) :
             LET some == list(stored, matches, asked)
             IN  some.omitted > 0 => Len(some.jobs) = clampListLimit(asked)

(* A cut text never ends in half a pair that the text had whole.              *)
ASSUME PairsStayWhole ==
  \A n \in 0 .. 4 : \A text \in [1 .. n -> {"high", "low", "plain"}] :
    \A max \in 0 .. 3 :
      LET cut == wireBoundedString(text, max)
      IN  /\ Len(cut) <= max \/ cut = text
          /\ n > max /\ cut # << >> => cut[Len(cut)] # "high" \/ Len(cut) < max
=============================================================================
