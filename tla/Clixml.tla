-------------------------------- MODULE Clixml --------------------------------
(***************************************************************************)
(* The decoder of the CLIXML that Windows PowerShell writes to its stderr   *)
(* (packages/agent/src/powershell-clixml.ts): it forwards what a command    *)
(* wrote, of which it may take back nothing, and drops the framing it       *)
(* recognises, while its input arrives in pieces cut anywhere.              *)
(*                                                                          *)
(* A text is a sequence of symbols.  A piece ends between two symbols, so   *)
(* what may be cut is spelled in several: the header in two, a tag in its   *)
(* bracket, its name, what follows and its other bracket.  A name stands    *)
(* for the letters of the tag, "progress" for the attribute S="progress".   *)
(***************************************************************************)
EXTENDS Integers, Sequences, SequencesExt

CONSTANT MaxPending   \* MAX_PENDING_BYTES

Header == <<"#<", "CLIXML">>
Space == {" ", "cr", "lf"}
Letter == {"Objs", "Obj", "S", "progress", "CLIXML", "t"}
Closing == {"/Objs", "/Obj", "/S"}

After(s, n) == SubSeq(s, n + 1, Len(s))

\* Where pat begins in s, 0 when it does not occur.
Find(pat, s) ==
  LET at == {i \in 1 .. Len(s) - Len(pat) + 1 : SubSeq(s, i, i + Len(pat) - 1) = pat}
  IN  IF at = {} THEN 0 ELSE Min(at)

\* The longest end of s that a pat could begin with, pat itself excepted.
partialTailLength(s, pat) ==
  Max({0} \cup {k \in 1 .. Len(pat) - 1 : IsSuffix(SubSeq(pat, 1, k), s)})

-----------------------------------------------------------------------------
(* The text of a record.                                                    *)

Entity == [e \in {"&lt;", "&amp;", "&#95;"} |->
             CASE e = "&lt;" -> "<" [] e = "&amp;" -> "&" [] e = "&#95;" -> "_"]

\* An escape is an underscore and its digits: a literal underscore, a line
\* break, the two halves of a character.
Digits == {"x005F_", "x000D_", "xD83D_", "xDE80_"}
Escaped(digits) ==
  CASE digits = "x005F_" -> "_" [] digits = "x000D_" -> "cr" [] OTHER -> "?"

\* Entities first, then the escapes in one pass from left to right, a pair of
\* halves before a single one.
RECURSIVE Unescaped(_)
Unescaped(s) ==
  IF Len(s) < 2 THEN s
  ELSE IF IsPrefix(<<"_", "xD83D_", "_", "xDE80_">>, s) THEN <<"rocket">> \o Unescaped(After(s, 4))
  ELSE IF s[1] = "_" /\ s[2] \in Digits THEN <<Escaped(s[2])>> \o Unescaped(After(s, 2))
  ELSE <<s[1]>> \o Unescaped(Tail(s))
decodeClixmlText(s) ==
  Unescaped([i \in DOMAIN s |-> IF s[i] \in DOMAIN Entity THEN Entity[s[i]] ELSE s[i]])

-----------------------------------------------------------------------------
(* Tags.                                                                    *)

\* From the bracket at i to the next closing one; nothing when that is missing.
Tag(s, i) ==
  LET end == SelectInSubSeq(s, i, Len(s), LAMBDA c : c = ">")
  IN  IF s[i] = "<" /\ end # 0 THEN SubSeq(s, i, end) ELSE << >>

\* What stands between the name and the last bracket.
Inner(tag) == SubSeq(tag, 3, Len(tag) - 1)
Named(tag, name) == Len(tag) > 2 /\ tag[2] = name /\ ~Contains(Tail(tag), "<")
SelfClosing(tag) == Last(Front(tag)) = "/"

IsOpen(tag, name) ==
  Named(tag, name) /\ (Inner(tag) \in {<< >>, <<"/">>} \/ Inner(tag)[1] \in Space)
IsClose(tag, name) == Named(tag, name) /\ \A i \in DOMAIN Inner(tag) : Inner(tag)[i] \in Space

\* Markup, though not of PowerShell's: a tag in shape.
IsMarkup(tag) ==
  /\ Len(tag) > 2 /\ ~Contains(Tail(tag), "<")
  /\ tag[2] \in Letter \cup Closing \/ (tag[2] = "/" /\ tag[3] \in Letter)

\* Just past the end of the object whose inside begins at i, 0 when there is no
\* end or the envelope ends first.
RECURSIVE findObjEnd(_, _, _)
findObjEnd(s, i, depth) ==
  IF i > Len(s) THEN 0
  ELSE LET tag == Tag(s, i)
           next == i + Len(tag)
       IN  CASE IsClose(tag, "/Objs") -> 0
             [] IsClose(tag, "/Obj") -> IF depth = 1 THEN next ELSE findObjEnd(s, next, depth - 1)
             [] Named(tag, "Obj") /\ tag[3] \in Space \cup {"/", ">"} ->
                  findObjEnd(s, next, IF SelfClosing(tag) THEN depth ELSE depth + 1)
             [] OTHER -> findObjEnd(s, i + 1, depth)

-----------------------------------------------------------------------------
(* The decoder: its mode, the input not yet consumed, the framing it may yet *)
(* have to give back, whether the envelope holds what is not PowerShell's,   *)
(* and all it has forwarded.                                                 *)

Fresh == [mode |-> "header", buf |-> << >>, prefix |-> << >>, dirty |-> FALSE, out |-> << >>]

Consumed(d, n) == [d EXCEPT !.buf = After(@, n)]

emitRaw(d, s) ==
  IF s = << >> THEN d ELSE [d EXCEPT !.out = @ \o d.prefix \o s, !.prefix = << >>]
emitDecoded(d, s) == [d EXCEPT !.out = @ \o s, !.prefix = << >>]

\* Everything held is forwarded and nothing is decoded any more.
giveUp(d) ==
  [d EXCEPT !.mode = "raw", !.out = @ \o d.prefix \o d.buf, !.prefix = << >>, !.buf = << >>]

\* One line break at the front, which may still be arriving.
LineBreak(s) == IF IsPrefix(<<"cr", "lf">>, s) THEN 2 ELSE IF s[1] \in {"cr", "lf"} THEN 1 ELSE 0
Undecided(s) == s \in {<< >>, <<"cr">>}

headerRetry(d) ==
  IF Undecided(d.buf) THEN d
  ELSE LET n == LineBreak(d.buf)
       IN  [Consumed(d, n) EXCEPT !.mode = "header", !.prefix = @ \o SubSeq(d.buf, 1, n)]

header(d) ==
  IF IsPrefix(Header, d.buf)
    THEN [Consumed(d, Len(Header)) EXCEPT !.mode = "headerEol", !.prefix = << >>]
  ELSE IF IsPrefix(d.buf, Header) THEN d
  ELSE giveUp(d)

headerEol(d) ==
  IF Undecided(d.buf) THEN d
  ELSE [Consumed(d, LineBreak(d.buf)) EXCEPT !.mode = "scan"]

\* Armed by a header: the command's own text, until an envelope opens.
scanForObjs(d) ==
  LET at == Find(<<"<", "Objs">>, d.buf)
      free == IF at = 0 THEN Len(d.buf) - partialTailLength(d.buf, <<"<", "Objs">>) ELSE at - 1
      e == Consumed(emitRaw(d, SubSeq(d.buf, 1, free)), free)
      tag == Tag(e.buf, 1)
  IN  IF at = 0 \/ tag = << >> THEN e
      ELSE IF ~IsOpen(tag, "Objs") THEN Consumed(emitRaw(e, <<"<">>), 1)
      ELSE IF SelfClosing(tag)
        THEN [Consumed(emitDecoded(e, << >>), Len(tag)) EXCEPT !.mode = "headerRetry"]
      ELSE [Consumed(e, Len(tag)) EXCEPT !.prefix = @ \o tag, !.dirty = FALSE, !.mode = "objs"]

\* A record is complete with its end tag.
Record(d, tag) ==
  LET inside == After(d.buf, Len(tag))
      end == Find(<<"<", "/S", ">">>, inside)
  IN  IF SelfClosing(tag) THEN Consumed(emitDecoded(d, << >>), Len(tag))
      ELSE IF end = 0 THEN d
      ELSE Consumed(emitDecoded(d, decodeClixmlText(SubSeq(inside, 1, end - 1))),
                    Len(tag) + end + 2)

\* An object goes when it reports progress in an envelope of PowerShell's alone.
Object(d, tag) ==
  LET end == IF SelfClosing(tag) THEN Len(tag) ELSE findObjEnd(d.buf, Len(tag) + 1, 1) - 1
  IN  IF end < 0 THEN d
      ELSE IF ~d.dirty /\ Contains(tag, "progress") THEN Consumed(emitDecoded(d, << >>), end)
      ELSE [Consumed(emitRaw(d, SubSeq(d.buf, 1, end)), end) EXCEPT !.dirty = TRUE]

\* One child of the envelope, or its end; of anything else the bracket, in place.
parseObjsChild(d) ==
  LET first == Find(<<"<">>, d.buf)
      run == IF first = 0 THEN Len(d.buf) ELSE first - 1
      tag == Tag(d.buf, 1)
  IN  CASE run > 0 -> Consumed(emitRaw(d, SubSeq(d.buf, 1, run)), run)
        [] run = 0 /\ (d.buf = << >> \/ tag = << >>) -> d
        [] OTHER ->
             CASE IsClose(tag, "/Objs") ->
                    [Consumed(IF d.dirty THEN emitRaw(d, tag) ELSE emitDecoded(d, << >>), Len(tag))
                       EXCEPT !.dirty = FALSE, !.mode = "headerRetry"]
               [] IsOpen(tag, "S") -> Record(d, tag)
               [] IsOpen(tag, "Obj") -> Object(d, tag)
               [] OTHER -> [Consumed(emitRaw(d, <<"<">>), 1) EXCEPT !.dirty = @ \/ IsMarkup(tag)]

RECURSIVE pump(_)
pump(d) ==
  LET next == CASE d.mode = "raw" -> giveUp(d)
                [] d.mode = "headerRetry" -> headerRetry(d)
                [] d.mode = "header" -> header(d)
                [] d.mode = "headerEol" -> headerEol(d)
                [] d.mode = "scan" -> scanForObjs(d)
                [] d.mode = "objs" -> parseObjsChild(d)
  IN  IF next = d THEN d ELSE pump(next)

push(d, chunk) ==
  LET e == pump([d EXCEPT !.buf = @ \o chunk])
  IN  IF e.mode # "raw" /\ Len(e.prefix) + Len(e.buf) > MaxPending THEN giveUp(e) ELSE e

flush(d) == giveUp(d)
=============================================================================
