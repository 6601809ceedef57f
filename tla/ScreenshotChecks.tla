--------------------------- MODULE ScreenshotChecks ---------------------------
(* Screenshot's operators on every small desk: TLC evaluates the assumptions. *)
EXTENDS Screenshot

LOCAL Displays == {"left", "right", "top"}
LOCAL Sizes == {[w |-> 4, h |-> 3], [w |-> 3, h |-> 4]}
LOCAL Corner == [left |-> 0, right |-> 10, top |-> 20]
LOCAL RectOf(d, s) == [x |-> Corner[d], y |-> 0, w |-> s.w, h |-> s.h]

(* Up to three displays, listed in some order, each of either size, with any  *)
(* flags, with their places or without.                                       *)
LOCAL Lists ==
  UNION {{[i \in DOMAIN order |->
            [of |-> order[i], primary |-> i \in flagged, size |-> sizes[order[i]],
             rect |-> IF placed THEN {RectOf(order[i], sizes[order[i]])} ELSE {}]] :
             flagged \in SUBSET DOMAIN order, sizes \in [Displays -> Sizes],
             placed \in BOOLEAN} :
           order \in {<< >>, <<"left">>, <<"left", "right">>, <<"top", "left", "right">>}}
LOCAL Machines(list) ==
  LET There == {list[i].of : i \in DOMAIN list}
  IN  {[main |-> m, number |-> f, frame |-> s,
        at |-> [r \in UNION {list[i].rect : i \in DOMAIN list} |->
                  CHOOSE d \in There : Corner[d] = r.x]] :
         m \in There, f \in [DOMAIN list -> There], s \in [Displays -> Sizes]}
LOCAL Requests == {Undefined, All} \cup {AtIndex(n) : n \in -1 .. 3}
LOCAL Runs == [end : {"resolved"}, bytes : {1}, readable : BOOLEAN]

(* A list that tells the truth makes every label true ...                     *)
ASSUME Labelled ==
  \A list \in Lists : \A machine \in Machines(list) :
    Truthful(list, machine) =>
      \A request \in Requests, run \in Runs :
        HonestLabel(captureMac(machine, request, list, run, 1))

(* ... but a display that runs at a scaled resolution, so that its picture has *)
(* the size another display is listed with, can be named as that display.     *)
ASSUME ScaledMayMislead ==
  \E list \in Lists : \E machine \in Machines(list) :
    /\ ~Truthful(list, machine)
    /\ \A i \in DOMAIN list : list[i].primary <=> list[i].of = machine.main
    /\ \E request \in Requests, run \in Runs :
         ~HonestLabel(captureMac(machine, request, list, run, 1))

(* A backend that never returns another display's frame makes every label     *)
(* true, whichever frames are missing or of the wrong size, and a picture     *)
(* that is returned never exceeds the cap.                                    *)
ASSUME BackendLabelled ==
  \A list \in {l \in Lists : \A i \in DOMAIN l : l[i].rect # {}}, request \in Requests :
    \A backend \in [Displays -> {"exact", "resized", "none"}],
       bytes \in [1 .. SINGLE_DISPLAY_SHRINK_ATTEMPTS -> 1 .. 2] :
      LET frames == [d \in Displays |->
            IF backend[d] = "none" THEN {} ELSE {[of |-> d, exact |-> backend[d] = "exact"]}]
          shot == captureWithBackend(frames, request, list, bytes, 1, 12)
      IN  /\ HonestLabel(shot)
          /\ shot.refused \/ shot.bytes <= 1
          /\ shot.refused \/ request = All \/ (shot.scaled <=> bytes[1] > 1)

(* On the canvas of all displays, displays that touch still touch, and those  *)
(* side by side do not overlap unless one of them would vanish.               *)
ASSUME NoSeam ==
  \A x, w1, w2 \in 1 .. 12, max \in 2 .. 8 :
    LET desktop == [x |-> 0, y |-> 0, w |-> x + w1 + w2, h |-> 1]
        a == Place([x |-> x, y |-> 0, w |-> w1, h |-> 1], desktop, max)
        b == Place([x |-> x + w1, y |-> 0, w |-> w2, h |-> 1], desktop, max)
    IN  /\ b.x - a.x <= a.w /\ (b.x > a.x => a.x + a.w = b.x)
        /\ b.x + b.w <= Scaled(desktop.w, desktop.w, max) + 1
=============================================================================
