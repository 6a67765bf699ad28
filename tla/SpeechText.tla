------------------------------ MODULE SpeechText ------------------------------
(***************************************************************************)
(* The text of a job: how a reply is shortened before it is queued         *)
(* (Summarizer.Build) and cut into chunks when it is spoken (Chunk).       *)
(*                                                                         *)
(* A text is a sequence of bytes.  The code counts and cuts bytes, and a   *)
(* character may take two, "u" and "v" here.  Of Clean only what matters   *)
(* for lengths is kept: markup becomes blank, runs of blanks become one,   *)
(* blanks at the ends go; what it does with fences, headings and bullets   *)
(* happens before that and is left out.                                    *)
(***************************************************************************)
EXTENDS Integers, Sequences, FiniteSets, SequencesExt

CONSTANTS
    MaxLen,     \* bound: length of a text
    Limits      \* limits to chunk with; 3500 and 4500 in the code

ASSUME SpeechTextAssumption ==
    /\ MaxLen \in Nat
    /\ Limits \subseteq Nat \ {0}

VARIABLES
    text,       \* the speech_text of the job
    limit,      \* the chunk limit of its backend
    rest,       \* value: what Chunk has still to cut
    parts,      \* the chunks so far
    stage       \* "start", "loop" or "done"

textVars == <<text, limit, rest, parts, stage>>

-----------------------------------------------------------------------------
Blank  == " "
Markup == "*"
Stops  == {".", "!", "?"}
Breaks == Stops \cup {";"}
Bytes  == {"a", Blank, ".", Markup, "u", "v"}

(* The two bytes of a character stand together.                            *)
WellFormed(t) ==
    \A i \in 1..Len(t) :
        /\ t[i] = "u" => i < Len(t) /\ t[i + 1] = "v"
        /\ t[i] = "v" => i > 1 /\ t[i - 1] = "u"

Texts == {t \in UNION {[1..n -> Bytes] : n \in 0..MaxLen} : WellFormed(t)}

NoBlanks(t) ==
    FlattenSeq([i \in 1..Len(t) |-> IF t[i] = Blank THEN <<>> ELSE <<t[i]>>])

(* strings.TrimSpace                                                       *)
TrimSpace(t) ==
    LET full == {i \in 1..Len(t) : t[i] # Blank}
    IN  IF full = {} THEN <<>> ELSE SubSeq(t, Min(full), Max(full))

Clean(t) ==
    LET m == [i \in 1..Len(t) |-> IF t[i] = Markup THEN Blank ELSE t[i]]
        Kept(i) == m[i] # Blank \/ i = 1 \/ m[i - 1] # Blank
    IN  TrimSpace(FlattenSeq([i \in 1..Len(m) |->
                                IF Kept(i) THEN <<m[i]>> ELSE <<>>]))

-----------------------------------------------------------------------------
(* Shortening.                                                             *)

(* Mutant: room for the dots is not taken off.                             *)
Truncate_NoRoom(t, lim) ==
    LET v == TrimSpace(t)
    IN  IF lim <= 0 \/ Len(v) <= lim THEN v
        ELSE TrimSpace(SubSeq(v, 1, lim)) \o <<".", ".", ".">>

Truncate(t, lim) ==
    LET v == TrimSpace(t)
    IN  CASE lim <= 0 \/ Len(v) <= lim -> v
          [] lim <= 3 /\ Len(v) > lim /\ lim > 0 -> SubSeq(v, 1, lim)
          [] OTHER -> TrimSpace(SubSeq(v, 1, lim - 3)) \o <<".", ".", ".">>

(* strings.FieldsFunc: the runs of bytes that are no stop.                 *)
Fields(t) ==
    LET Starts(i) == t[i] \notin Stops /\ (i = 1 \/ t[i - 1] \in Stops)
        End(i) == Max({j \in i..Len(t) : \A k \in i..j : t[k] \notin Stops})
    IN  FlattenSeq([i \in 1..Len(t) |->
                      IF Starts(i) THEN <<SubSeq(t, i, End(i))>> ELSE <<>>])

(* The first count fields; the blank ones among them go, the others get a  *)
(* full stop.                                                              *)
FirstSentences(t, count) ==
    LET first == SubSeq(Fields(t), 1, Min({count, Len(Fields(t))}))
        kept == FlattenSeq([k \in 1..Len(first) |->
                              IF TrimSpace(first[k]) = <<>> THEN <<>>
                              ELSE <<TrimSpace(first[k])>>])
    IN  FlattenSeq([k \in 1..Len(kept) |->
                      (IF k = 1 THEN <<>> ELSE <<Blank>>) \o kept[k] \o <<".">>])

(* The SpeechText of Build; lim is the limit of the mode.                  *)
SpeechOf(mode, t, lim) ==
    LET clean == Clean(t)
        count == IF mode = "concise" THEN 1 ELSE 3
        short == FirstSentences(clean, count)
    IN  IF mode = "heavy" \/ clean = <<>> THEN clean
        ELSE Truncate(IF short = <<>> THEN Truncate(clean, lim) ELSE short, lim)

-----------------------------------------------------------------------------
(* Cutting.  Positions count from 0 as in the code.                        *)

LastIndex(v, lim, C) ==
    LET at == {i \in 0..(lim - 1) : v[i + 1] \in C}
    IN  IF at = {} THEN -1 ELSE Max(at)

Cut(v, lim) ==
    LET stop == LastIndex(v, lim, Breaks)
        at   == IF stop < lim \div 2 THEN LastIndex(v, lim, {Blank}) ELSE stop
    IN  IF at <= 0 THEN lim ELSE at

TextInit ==
    /\ text \in Texts
    /\ limit \in Limits
    /\ rest = Clean(text)
    /\ parts = <<>>
    /\ stage = "start"

(* Nothing to say, or nothing to cut.                                      *)
ChunkWhole ==
    /\ stage = "start"
    /\ rest = <<>> \/ Len(rest) <= limit
    /\ parts' = IF rest = <<>> THEN <<>> ELSE <<rest>>
    /\ rest' = <<>>
    /\ stage' = "done"
    /\ UNCHANGED <<text, limit>>

(* Mutant: always after limit bytes.                                       *)
ChunkCut_Blind ==
    /\ stage \in {"start", "loop"}
    /\ Len(rest) > limit
    /\ parts' = Append(parts, TrimSpace(SubSeq(rest, 1, limit)))
    /\ rest' = TrimSpace(SubSeq(rest, limit + 1, Len(rest)))
    /\ stage' = "loop"
    /\ UNCHANGED <<text, limit>>

ChunkCut ==
    /\ stage \in {"start", "loop"}
    /\ Len(rest) > limit
    /\ LET cut == Cut(rest, limit) IN
         /\ parts' = Append(parts, TrimSpace(SubSeq(rest, 1, cut)))
         /\ rest' = TrimSpace(SubSeq(rest, cut + 1, Len(rest)))
    /\ stage' = "loop"
    /\ UNCHANGED <<text, limit>>

(* The last piece; the loop also ends when nothing is left.                *)
ChunkLast ==
    /\ stage = "loop"
    /\ Len(rest) <= limit
    /\ parts' = IF rest = <<>> THEN parts ELSE Append(parts, TrimSpace(rest))
    /\ rest' = <<>>
    /\ stage' = "done"
    /\ UNCHANGED <<text, limit>>

TextNext == ChunkWhole \/ ChunkCut \/ ChunkLast

TextSpec == TextInit /\ [][TextNext]_textVars

-----------------------------------------------------------------------------
NothingLost ==
    NoBlanks(FlattenSeq(parts) \o rest) = NoBlanks(Clean(text))

ChunksFit ==
    \A k \in 1..Len(parts) : parts[k] # <<>> /\ Len(parts[k]) <= limit

(* Between chunk k and what follows it no word is cut without need.        *)
CutWell(k, next) ==
    \/ Len(parts[k]) = limit /\ \A i \in 1..limit : parts[k][i] # Blank
    \/ Head(next) \in Breaks
    \/ \E i \in 1..Len(Clean(text)) :
         /\ Clean(text)[i] = Blank
         /\ NoBlanks(SubSeq(Clean(text), 1, i))
              = NoBlanks(FlattenSeq(SubSeq(parts, 1, k)))

WordsKept == \A k \in 1..(Len(parts) - 1) : CutWell(k, parts[k + 1])

(* The chunks are the text: at every turn of the loop they and the rest    *)
(* hold its bytes in order, up to blanks, so nothing is lost or said       *)
(* twice.  No chunk is blank, so the loop ends, or longer than the backend *)
(* takes.  A word is cut only where the limit leaves no choice, and only   *)
(* there can the two bytes of a character come apart (mode.go, Chunk).     *)
ChunksAreText == NothingLost /\ ChunksFit /\ WordsKept

(* What is queued is within the limit of its mode, and a reply that has    *)
(* anything to say is not shortened to nothing, which HandleEvent would    *)
(* drop without a job (summarizer.go, Build; processor.go:84).             *)
SpeechFits ==
    stage = "start" => \A mode \in {"concise", "normal"} :
        LET speech == SpeechOf(mode, text, limit)
        IN  Len(speech) <= limit /\ (speech = <<>> <=> Clean(text) = <<>>)
=============================================================================
