----------------------------- MODULE ClixmlChecks -----------------------------
(* The decoder on short streams, cut anywhere: TLC evaluates the assumptions. *)
EXTENDS Clixml

\* What the agent forwards of a stream that arrives in these pieces.
LOCAL Decoded(pieces) == flush(FoldLeft(push, Fresh, pieces)).out

\* PowerShell's framing, and words of a command that look like it, or do not.
LOCAL T(name) == <<"<", name, ">">>
LOCAL Progress == <<"<", "Obj", " ", "progress", ">">>
LOCAL Words ==
  {Header, T("Objs"), T("/Objs"), T("S"), T("/S"), T("Obj"), T("/Obj"), T("t"),
   <<"<">>, <<"t">>, <<"cr">>, <<"lf">>}
LOCAL Streams(words, n) == {FlattenSeq(w) : w \in UNION {[1 .. k -> words] : k \in 0 .. n}}

LOCAL Opened == Header \o <<"lf">> \o T("Objs")
LOCAL Said == T("S") \o <<"t">> \o T("/S")
LOCAL Text(s) == SelectSeq(s, LAMBDA c : c = "t")

(* However a stream is cut, the same comes out, unless so much of it is held  *)
(* that the decoder gives up.                                                 *)
ASSUME CutsDoNotShow ==
  \A before \in {<< >>, Header \o <<"cr", "lf">>, Opened, Opened \o Said \o T("/Objs")} :
    \A rest \in Streams(Words \cup {Progress}, 2) :
      LET s == before \o rest
          whole == Decoded(<<s>>)
      IN  Len(s) <= MaxPending =>
            /\ Decoded([i \in DOMAIN s |-> <<s[i]>>]) = whole
            /\ \A cut \in 1 .. Len(s) - 1 :
                 Decoded(<<SubSeq(s, 1, cut), After(s, cut)>>) = whole

(* No word of a command is lost, whether or not the decoder gives up: not     *)
(* without a progress record, and not after markup that is not PowerShell's.  *)
ASSUME NoWordLost ==
  /\ \A before \in {<< >>, Opened, Opened \o Said}, rest \in Streams(Words, 3) :
       Text(Decoded(<<before, rest>>)) = Text(before \o rest)
  /\ \A rest \in Streams(Words \cup {Progress}, 3) :
       LET s == Opened \o Said \o T("t") \o rest IN Text(Decoded(<<s>>)) = Text(s)

(* A header arms the decoder for one envelope where PowerShell writes it, and *)
(* nowhere else: what a command writes later is forwarded as it stands.       *)
ASSUME OneEnvelopePerHeader ==
  \A rest \in Streams(Words, 3) :
    LET n == IF rest = << >> THEN 0 ELSE LineBreak(rest)
    IN  /\ IsPrefix(Header, rest) \/ Decoded(<<rest>>) = rest
        /\ \/ IsPrefix(Header, After(rest, n))
           \/ Decoded(<<Opened \o Said \o T("/Objs") \o rest>>) = <<"t">> \o rest

(* What PowerShell serializes is read back: the records in their order, with  *)
(* what a command wrote between them, and nothing of progress and framing.    *)
LOCAL Item == {"record", "progress", "word"}
LOCAL Serial(item) ==
  CASE item = "record" -> T("S") \o <<"t", "_", "x000D_">> \o T("/S")
    [] item = "progress" -> Progress \o Said \o T("/Obj")
    [] item = "word" -> <<"t">>
LOCAL Shown(item) ==
  CASE item = "record" -> <<"t", "cr">> [] item = "progress" -> << >> [] item = "word" -> <<"t">>
LOCAL Block(items) == Opened \o FlattenSeq([i \in DOMAIN items |-> Serial(items[i])]) \o T("/Objs")
LOCAL Console(items) == FlattenSeq([i \in DOMAIN items |-> Shown(items[i])])
ASSUME SerializedIsRead ==
  \A m, n \in 0 .. 3 : \A first \in [1 .. m -> Item], second \in [1 .. n -> Item] :
    (m > 0 => first[1] # "word") /\ (n > 0 => second[1] # "word") =>
      Decoded(<<Block(first), <<"cr", "lf">>, Block(second)>>) = Console(first) \o Console(second)

(* The text of a record is the text that PowerShell escaped.                  *)
LOCAL EscapedAs(c) ==
  CASE c = "_" -> <<"_", "x005F_">> [] c = "cr" -> <<"_", "x000D_">>
    [] c = "rocket" -> <<"_", "xD83D_", "_", "xDE80_">>
    [] c = "<" -> <<"&lt;">> [] c = "&" -> <<"&amp;">> [] OTHER -> <<c>>
ASSUME TextIsRead ==
  \A n \in 0 .. 4 : \A s \in [1 .. n -> {"_", "x000D_", "xDE80_", "cr", "rocket", "<", "&"}] :
    decodeClixmlText(FlattenSeq([i \in DOMAIN s |-> EscapedAs(s[i])])) = s
=============================================================================
