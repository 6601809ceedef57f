------------------------------ MODULE JobOutput ------------------------------
(* What a job's caller is served of its output.log                            *)
(* (src/packages/agent/src/job-output.ts, logs() and list() of                *)
(* src/packages/agent/src/job-manager.ts). The file is a sequence of bytes    *)
(* that only grows: the job appends to it, and the agent appends one notice   *)
(* when it has outgrown the cap. Optional values are sets of at most one      *)
(* member; a request's numbers are whole, or absent when they are no numbers. *)
EXTENDS Integers, Sequences, FiniteSets

CONSTANTS Byte, Newline,
          Notice,            \* the line that says where serving stops
          MaxLogBytes,       \* JOB_MAX_LOG_BYTES
          MaxSliceBytes,     \* JOB_LOGS_MAX_SLICE_BYTES
          DefaultTailLines,  \* JOB_LOGS_DEFAULT_TAIL_LINES
          DefaultEntries,    \* JOB_LIST_DEFAULT_ENTRIES
          MaxEntries         \* JOB_WIRE_MAX_LIST_ENTRIES

ASSUME OutputAssumption ==
  /\ Newline \in Byte
  /\ Notice \in Seq(Byte)
  /\ {MaxLogBytes, MaxSliceBytes, DefaultTailLines, DefaultEntries, MaxEntries}
       \subseteq Nat \ {0}

Lesser(a, b) == IF a < b THEN a ELSE b

-----------------------------------------------------------------------------
(* The numbers of a request: nonsense becomes the default.                    *)

clampListLimit(asked) ==
  IF \E n \in asked : n >= 1 THEN Lesser(CHOOSE n \in asked : TRUE, MaxEntries)
                             ELSE DefaultEntries
clampSliceBytes(asked) ==
  IF \E n \in asked : n >= 1 THEN Lesser(CHOOSE n \in asked : TRUE, MaxSliceBytes)
                             ELSE MaxSliceBytes
clampTailLines(asked) ==
  IF \E n \in asked : n >= 1 THEN CHOOSE n \in asked : TRUE ELSE DefaultTailLines

-----------------------------------------------------------------------------
(* The cap: the first request to find the file grown to it fixes for good     *)
(* where serving stops. A notice that cannot be appended moves nothing.       *)
checkLogCap(log, truncatedAt, lands) ==
  IF truncatedAt # {} \/ Len(log) < MaxLogBytes
    THEN [log |-> log, truncatedAt |-> truncatedAt]
    ELSE [log |-> IF lands THEN log \o Notice ELSE log,
          truncatedAt |-> {MaxLogBytes + (IF lands THEN Len(Notice) ELSE 0)}]

(* How much of the file is served. *)
Served(log, truncatedAt) ==
  IF truncatedAt = {} THEN Len(log)
  ELSE Lesser(Len(log), CHOOSE n \in truncatedAt : TRUE)

(* What a summary says of it: a cut that is no byte count is left out. *)
LogBytes(log, truncatedAt) ==
  IF \E n \in truncatedAt : n >= 0
    THEN Lesser(Len(log), CHOOSE n \in truncatedAt : TRUE) ELSE Len(log)

(* The bytes at offsets position up to position + length, as far as they go;  *)
(* none of them when the file cannot be opened or read.                       *)
readRange(log, position, length, readable) ==
  IF readable THEN SubSeq(log, position + 1, Lesser(position + length, Len(log))) ELSE << >>

(* Where the last lines of a window begin. A newline at its very end closes   *)
(* the last line and opens none.                                              *)
offsetOfLastLines(window, lines) ==
  LET end == IF window # << >> /\ window[Len(window)] = Newline
               THEN Len(window) - 1 ELSE Len(window)
      Breaks == {i \in 1 .. end : window[i] = Newline}
      Last(i) == {j \in Breaks : j >= i}
  IN  IF \E i \in Breaks : Cardinality(Last(i)) = lines
        THEN CHOOSE i \in Breaks : Cardinality(Last(i)) = lines
        ELSE 0

(* One slice: from the offset asked for, or the last lines of what is served. *)
(* The file is opened twice; reads says which of "window" and "chunk" succeed. *)
readJobLogs(log, truncatedAt, req, reads) ==
  LET size == Served(log, truncatedAt)
      maxBytes == clampSliceBytes(req.maxBytes)
      windowStart == IF size > maxBytes THEN size - maxBytes ELSE 0
      window == readRange(log, windowStart, size - windowStart, "window" \in reads)
      start == IF \E n \in req.offsetBytes : n >= 0
                 THEN Lesser(CHOOSE n \in req.offsetBytes : TRUE, size)
                 ELSE windowStart + offsetOfLastLines(window, clampTailLines(req.tailLines))
      chunk == readRange(log, start, Lesser(maxBytes, size - start), "chunk" \in reads)
  IN  [chunk |-> chunk, offsetBytes |-> start,
       nextOffsetBytes |-> start + Len(chunk), eof |-> start + Len(chunk) >= size,
       truncated |-> truncatedAt # {}]

(* Every request settles the cap before it reads. *)
logs(log, truncatedAt, lands, req, reads) ==
  LET now == checkLogCap(log, truncatedAt, lands)
  IN  [file |-> now, logs |-> readJobLogs(now.log, now.truncatedAt, req, reads)]

-----------------------------------------------------------------------------
(* The list: newest first, at most the limit of those that match, and how     *)
(* many records were not looked at.                                           *)
list(stored, matches, asked) ==
  LET limit == clampListLimit(asked)
      Found(k) == {i \in 1 .. k : stored[i] \in matches}
      walked == CHOOSE k \in 0 .. Len(stored) :
                  /\ k = Len(stored) \/ Cardinality(Found(k)) = limit
                  /\ \A j \in 0 .. k - 1 : Cardinality(Found(j)) < limit
  IN  [jobs |-> SelectSeq(SubSeq(stored, 1, walked), LAMBDA m : m \in matches),
       omitted |-> Len(stored) - walked]

(* Text is cut to the wire's limit, and never within a surrogate pair. *)
wireBoundedString(text, maxChars) ==
  IF Len(text) <= maxChars THEN text
  ELSE LET cut == SubSeq(text, 1, maxChars)
       IN  IF maxChars > 0 /\ cut[maxChars] = "high" THEN SubSeq(cut, 1, maxChars - 1)
           ELSE cut
=============================================================================
