------------------------------ MODULE Screenshot ------------------------------
(* What a screenshot of a machine with several displays may say of itself     *)
(* (src/packages/agent/src/screenshot.ts): how a list of displays is ordered, *)
(* which display a request selects, which command takes the picture and when  *)
(* the answer may state the display whose pixels it carries.                  *)
(*                                                                            *)
(* A display is a value of the machine's choice. An entry of a list of        *)
(* displays is a record                                                       *)
(*   [of |-> the display it describes, primary |-> BOOLEAN,                   *)
(*    size |-> [w, h] in pixels, rect |-> {} or {[x, y, w, h]}]               *)
(* and an optional value is a set of at most one member. Lists count from 1   *)
(* here and from 0 in the code: index n of the code is entry n + 1. The       *)
(* machine the picture is taken on is a record                                *)
(*   [main   |-> the display screencapture takes without -D and with -D 1,    *)
(*    number |-> the display it takes with -D n, for every other n,           *)
(*    frame  |-> the size of the picture of every display,                    *)
(*    at     |-> the display at every rectangle]                              *)
EXTENDS Integers, Sequences, FiniteSets, FiniteSetsExt

Entry(Display, Size, Rect) ==
  [of : Display, primary : BOOLEAN, size : Size, rect : {{}} \cup {{r} : r \in Rect}]

(* A request: no display, one index, or the whole desktop. *)
Undefined == [kind |-> "undefined", index |-> 0]
All == [kind |-> "all", index |-> 0]
AtIndex(n) == [kind |-> "index", index |-> n]

-----------------------------------------------------------------------------
(* Lists of displays.                                                         *)

(* Enumerating costs a second or two, so a list is kept for ttl. A probe that *)
(* fails (probe = {}) counts as an empty list and is kept like any other.     *)
listDisplays(cache, now, ttl, probe) ==
  IF \E c \in cache : now - c.at < ttl
    THEN [displays |-> (CHOOSE c \in cache : TRUE).displays, cache |-> cache]
    ELSE LET displays == IF probe = {} THEN << >> ELSE CHOOSE d \in probe : TRUE
         IN  [displays |-> displays, cache |-> {[at |-> now, displays |-> displays]}]

PrimaryAt(displays) == {p \in DOMAIN displays : displays[p].primary}

(* The one funnel of every list: a single entry flagged primary moves to the  *)
(* front, and without one nothing is primary.                                 *)
normalizeDisplays(displays) ==
  IF Cardinality(PrimaryAt(displays)) = 1
    THEN LET p == CHOOSE q \in PrimaryAt(displays) : TRUE
             Moved(i) == IF i = 1 THEN p ELSE IF i <= p THEN i - 1 ELSE i
         IN  [i \in DOMAIN displays |-> displays[Moved(i)]]
    ELSE [i \in DOMAIN displays |-> [displays[i] EXCEPT !.primary = FALSE]]

(* system_profiler's report: an entry whose size cannot be read is skipped,   *)
(* and no layout is known.                                                    *)
listDisplaysMac(report) ==
  LET readable == SelectSeq(report, LAMBDA e : e.size # {})
  IN  normalizeDisplays([i \in DOMAIN readable |->
        [of |-> readable[i].of, primary |-> readable[i].main,
         size |-> CHOOSE s \in readable[i].size : TRUE, rect |-> {}]])

(* The index of the primary display, when the machine named one. *)
primaryIndex(displays) == {n \in {0} : displays # << >> /\ displays[1].primary}

(* The index a request selects, or nothing when it is refused. An empty list  *)
(* is no reason to refuse: the displays could not be counted.                 *)
validateIndex(request, displays) ==
  IF request.kind # "index" THEN {0}
  ELSE {n \in {request.index} :
          n >= 0 /\ (displays # << >> => n < Len(displays))}

-----------------------------------------------------------------------------
(* macOS: the pictures screencapture takes.                                   *)

(* The rectangle to capture, when the display can be selected by its place. *)
macRectCapture(request, index, displays) ==
  IF \/ request.kind = "undefined"
     \/ index \in primaryIndex(displays)
     \/ index >= Len(displays)
    THEN {}
    ELSE {r \in displays[index + 1].rect : r.w > 0 /\ r.h > 0}

(* The picture has the rectangle's shape, within two per cent; a size that    *)
(* cannot be read is no reason to doubt it.                                   *)
Distance(a, b) == IF a < b THEN b - a ELSE a - b
rectAspectMatches(rect, size) ==
  \A s \in size : 50 * Distance(s.w * rect.h, rect.w * s.h) <= rect.w * s.h

(* The display the pixels of a capture by number are known to be of: the main *)
(* display by screencapture's manual, the only display there is, or the one   *)
(* display of the list that has the picture's size.                           *)
confirmMacDisplay(request, index, displays, size) ==
  LET primary == primaryIndex(displays)
      SameSize == {i \in DOMAIN displays : displays[i].size \in size}
  IN  IF request.kind = "undefined" THEN primary
      ELSE IF index \in primary \/ (Len(displays) = 1 /\ index = 0) THEN {index}
      ELSE {n \in {index} : SameSize = {n + 1}}

(* The display whose pixels the command returns. *)
Pictured(machine, request, rect, index) ==
  IF rect # {} THEN machine.at[CHOOSE r \in rect : TRUE]
  ELSE IF request.kind = "undefined" \/ index = 0 THEN machine.main
  ELSE machine.number[index + 1]

(* A capture: refused, or a picture with what its metadata says. "run" is how *)
(* the command ended, how long its file is, and whether the picture's size    *)
(* can be read from its header (pngSize).                                     *)
Refused == [refused |-> TRUE]
captureMac(machine, request, list, run, cap) ==
  LET displays == normalizeDisplays(list)
      selected == validateIndex(request, displays)
      index == CHOOSE n \in selected : TRUE
      rect == macRectCapture(request, index, displays)
      pixels == Pictured(machine, request, rect, index)
      size == IF run.readable THEN {machine.frame[pixels]} ELSE {}
  IN  IF \/ request.kind = "all" \/ selected = {}
         \/ run.end # "resolved" \/ run.bytes > cap
        THEN Refused
        ELSE [refused |-> FALSE, pixels |-> {pixels}, displays |-> displays,
              bytes |-> run.bytes, scaled |-> FALSE,
              display |-> IF \E r \in rect : rectAspectMatches(r, size) THEN {index}
                          ELSE confirmMacDisplay(request, index, displays, size)]

(* How the spawned command ends: the first of its events is its answer. After *)
(* the timeout, which kills it, nothing it still reports counts.              *)
runToCompletion(events) ==
  IF events = << >> THEN "pending"
  ELSE CASE events[1].kind = "timeout" -> "timed out"
         [] events[1].kind = "error" -> "failed"
         [] events[1].kind = "close" ->
              IF events[1].code = 0 THEN "resolved"
              ELSE IF events[1].antivirus THEN "blocked" ELSE "failed"

-----------------------------------------------------------------------------
(* Windows: a backend supplies the pixels, asked for by its own identifiers.  *)

(* A frame that is late, missing or of another size is refused, not encoded. *)
checkFrame(frame) == {f \in frame : f.exact}

(* One display: it is asked for in its full size and, while the picture is    *)
(* over the cap, again in smaller ones. bytes[k] is the length of the k-th.   *)
SINGLE_DISPLAY_SHRINK_ATTEMPTS == 3
TakenAt(bytes, cap) ==
  CHOOSE k \in 1 .. SINGLE_DISPLAY_SHRINK_ATTEMPTS :
    /\ bytes[k] <= cap \/ k = SINGLE_DISPLAY_SHRINK_ATTEMPTS
    /\ \A j \in 1 .. k - 1 : bytes[j] > cap

(* All displays: the desktop is the smallest rectangle around them, and each  *)
(* goes to its place on one canvas, shrunk so that the longest edge fits. A   *)
(* place is derived from the display's scaled edges.                          *)
Desktop(places) ==
  LET left == Min({b.x : b \in places})
      top == Min({b.y : b \in places})
  IN  [x |-> left, y |-> top, w |-> Max({b.x + b.w : b \in places}) - left,
       h |-> Max({b.y + b.h : b \in places}) - top]
LongestEdge(desktop) == Max({desktop.w, desktop.h})
Scaled(n, longest, max) ==
  IF longest > max THEN (2 * n * max + longest) \div (2 * longest) ELSE n
Place(bounds, desktop, max) ==
  LET longest == LongestEdge(desktop)
      x == Scaled(bounds.x - desktop.x, longest, max)
      y == Scaled(bounds.y - desktop.y, longest, max)
  IN  [x |-> x, y |-> y,
       w |-> Max({1, Scaled(bounds.x + bounds.w - desktop.x, longest, max) - x}),
       h |-> Max({1, Scaled(bounds.y + bounds.h - desktop.y, longest, max) - y})]

(* Every display with an area, in the order of the reply. *)
Usable(enumerated) ==
  normalizeDisplays(SelectSeq(enumerated, LAMBDA e : e.size.w > 0 /\ e.size.h > 0))

Places(displays) == UNION {displays[i].rect : i \in DOMAIN displays}

(* backend[d] is the frame asked for under display d's identifier, if one     *)
(* comes back in time: [of, exact]. A capture of no display at all is refused.*)
captureWithBackend(backend, request, enumerated, bytes, cap, max) ==
  LET displays == Usable(enumerated)
      asked == IF request.kind = "undefined" THEN AtIndex(0) ELSE request
      multi == asked.kind = "all"
      selected == IF multi THEN {i - 1 : i \in DOMAIN displays}
                  ELSE validateIndex(asked, displays)
      taken == IF multi THEN 1 ELSE TakenAt(bytes, cap)
      frames == {checkFrame(backend[displays[n + 1].of]) : n \in selected}
  IN  IF \/ displays = << >> \/ selected = {}
         \/ {} \in frames \/ bytes[taken] > cap
        THEN Refused
        ELSE [refused |-> FALSE, displays |-> displays, bytes |-> bytes[taken],
              display |-> selected,
              scaled |-> IF multi THEN LongestEdge(Desktop(Places(displays))) > max
                         ELSE taken > 1,
              pixels |-> {f.of : f \in UNION frames}]

-----------------------------------------------------------------------------
(* The request as the relay's message brings it                              *)
(* (src/packages/agent/src/connection-screenshot.ts).                        *)

(* macOS's permission stands in the way. A permission that could not be asked *)
(* for ("unknown") does not.                                                  *)
osPermissionRefusal(permission) ==
  permission \in {"denied", "not-determined", "granted-pending-restart", "restricted"}

(* The answer's messages: one error, or the chunks and then the end. *)
streamScreenshot(state, capture, chunk) ==
  IF \/ ~state.capable \/ ~state.enabled
     \/ osPermissionRefusal(state.osPermission)
     \/ capture.refused
    THEN << "error" >>
    ELSE LET text == 4 * ((capture.bytes + 2) \div 3)
         IN  [i \in 1 .. (text + chunk - 1) \div chunk |-> "chunk"] \o << "done" >>

-----------------------------------------------------------------------------
(* What the metadata promises.                                                *)

(* The display a reply states is the display whose pixels it carries. *)
HonestLabel(shot) ==
  \/ shot.refused
  \/ shot.display = {}
  \/ /\ \A n \in shot.display : n + 1 \in DOMAIN shot.displays
     /\ shot.pixels = {shot.displays[n + 1].of : n \in shot.display}

(* What a list has to tell truly of the machine: the one display it flags is  *)
(* the main one, it lists every display there is, rectangles are where it     *)
(* says, and no picture of one display has the size listed for a display of   *)
(* another listed size.                                                       *)
Truthful(list, machine) ==
  /\ \A p \in DOMAIN list : PrimaryAt(list) = {p} => list[p].of = machine.main
  /\ list # << >> =>
       /\ \E i \in DOMAIN list : list[i].of = machine.main
       /\ \A n \in DOMAIN list : \E i \in DOMAIN list : list[i].of = machine.number[n]
  /\ \A i \in DOMAIN list : \A r \in list[i].rect : machine.at[r] = list[i].of
  /\ \A i, j \in DOMAIN list :
       machine.frame[list[j].of] = list[i].size => list[j].size = list[i].size
=============================================================================
