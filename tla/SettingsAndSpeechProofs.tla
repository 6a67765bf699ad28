----------------------- MODULE SettingsAndSpeechProofs ------------------------
(***************************************************************************)
(* What holds of the settings of a process and of the text of a job.       *)
(*                                                                         *)
(* The settings, for any number of processes, and whatever flags, file,    *)
(* environment and working directories they are given: the captures, the   *)
(* listings and the retries on a home work on one database and agree.      *)
(*                                                                         *)
(* The text, whatever its length and the limit: what is queued fits and is *)
(* not shortened to nothing, and what is spoken of it in chunks is the     *)
(* text, cut between words where that can be.                              *)
(***************************************************************************)
EXTENDS RunSettings, SpeechText, SharedLemmas

-----------------------------------------------------------------------------
(* The settings.                                                           *)

(* The home a process was told, or the default one.                        *)
ToldHome(p) == IF FirstHome(p) = "" THEN DefaultHome ELSE FirstHome(p)

(* What is done up to each step stays as the inputs ask for it: the home   *)
(* of the configuration once it is loaded, the database once it is open    *)
(* and the options of a capture.                                           *)
SettledInv ==
    /\ DOMAIN pc = Procs /\ DOMAIN cfg = Procs
    /\ DOMAIN opts = Procs /\ DOMAIN db = Procs
    /\ \A p, q \in Procs : flags[p].home = flags[q].home
    /\ \A p \in Procs :
         /\ pc[p] \in {"loaded", "ready"} => cfg[p].home = Abs(ToldHome(p), cwd[p])
         /\ pc[p] = "ready" => db[p] = Append(Abs(ToldHome(p), cwd[p]), "echo.db")
         /\ pc[p] = "ready" /\ command[p] = "run" =>
              /\ OptionsNormalize(flags[p]).ok
              /\ opts[p] = Fallbacks(OptionsNormalize(flags[p]), cfg[p])

-----------------------------------------------------------------------------
(* config.Load obeys the first source that speaks of the home, and a blank *)
(* word of it means the default (applyEnv, normalize).                     *)
LEMMA LoadedHome ==
    ASSUME NEW p \in Procs
    PROVE  Load(p).home = Abs(ToldHome(p), cwd[p])
<1>1. LoadFile(Default).home = Or(file.home, DefaultHome)
  BY DEF LoadFile, Default
<1>2. ApplyEnv(LoadFile(Default), p).home = Or(EnvHome(p), Or(file.home, DefaultHome))
  BY <1>1 DEF ApplyEnv, ApplyEnvString, LoadFile, Default
<1>3. Load(p).home =
        Abs(IF Trim(ApplyEnv(LoadFile(Default), p).home) = "" THEN DefaultHome
            ELSE Trim(ApplyEnv(LoadFile(Default), p).home), cwd[p])
  BY DEF Load, Normalize, ApplyEnv, LoadFile, Default
<1>4. Trim(DefaultHome) = DefaultHome /\ Trim("") = ""
  BY DEF Trim, DefaultHome
<1> QED
  BY <1>2, <1>3, <1>4 DEF ToldHome, FirstHome, Or

(* A loaded home is never empty, so home.Resolve takes it.                 *)
LEMMA ResolvedHome ==
    ASSUME NEW p \in Procs, cfg[p].home = Abs(ToldHome(p), cwd[p])
    PROVE  Resolve(p) = Append(Abs(ToldHome(p), cwd[p]), "echo.db")
<1>1. cfg[p].home # <<>>
  BY DEF Abs
<1> QED
  BY <1>1 DEF Resolve

(* Options that are accepted are complete: no fallback is taken, a flag    *)
(* is obeyed, and what was not given has a default that does not depend on *)
(* the configuration (RunOptions.normalize).                               *)
LEMMA OptionsComplete ==
    ASSUME NEW f, NEW c, NEW o, OptionsNormalize(f).ok,
           o = Fallbacks(OptionsNormalize(f), c)
    PROVE  /\ o.backend = IF Fold(f.backend) = "" THEN "windows" ELSE Fold(f.backend)
           /\ o.mode = IF Fold(f.mode) = "" THEN "normal" ELSE Fold(f.mode)
           /\ o.lease = OptionLease
           /\ o.backend \in {"windows", "google"}
<1> DEFINE b == Fold(f.backend)
           m == Fold(f.mode)
           n == OptionsNormalize(f)
<1>1. /\ b \in {"", "windows", "google"}
      /\ n.backend = IF b = "" THEN "windows" ELSE b
      /\ n.mode = IF m = "" THEN "normal" ELSE m
      /\ n.lease = OptionLease
  BY DEF OptionsNormalize
<1>2. /\ o.backend = IF n.backend = "" THEN c.backend ELSE n.backend
      /\ o.mode = IF n.mode = "" THEN c.mode ELSE n.mode
      /\ o.lease = IF n.lease <= 0 THEN c.lease ELSE n.lease
  BY DEF Fallbacks, OptionsNormalize
<1> HIDE DEF n, b, m
<1>3. n.backend # "" /\ n.mode # "" /\ ~(n.lease <= 0)
  <2>1. n.backend # ""
    BY <1>1
  <2>2. n.mode # ""
    BY <1>1, Zenon
  <2>3. ~(n.lease <= 0)
    <3>1. n.lease = 1
      BY <1>1 DEF OptionLease
    <3> QED
      BY <3>1
  <2> QED
    BY <2>1, <2>2, <2>3
<1>4. /\ o.backend = n.backend /\ o.mode = n.mode /\ o.lease = n.lease
  BY <1>2, <1>3
<1>5. /\ o.backend = IF b = "" THEN "windows" ELSE b
      /\ o.mode = IF m = "" THEN "normal" ELSE m
      /\ o.lease = OptionLease
      /\ o.backend \in {"windows", "google"}
  BY <1>1, <1>4
<1> QED
  BY <1>5 DEF b, m

-----------------------------------------------------------------------------
(* Before anything is loaded nothing is settled but the inputs.            *)
LEMMA SettledInit == Init => SettledInv
  BY DEF Init, SettledInv

(* Each step settles what it is about and leaves the rest alone.           *)
LEMMA SettledStep == SettledInv /\ [Next]_vars => SettledInv'
<1> SUFFICES ASSUME SettledInv, [Next]_vars PROVE SettledInv'
  OBVIOUS
<1>1. UNCHANGED inputs => \A p \in Procs : /\ ToldHome(p)' = ToldHome(p)
                                           /\ FirstHome(p)' = FirstHome(p)
  BY DEF inputs, ToldHome, FirstHome, EnvHome
<1>2. ASSUME NEW p \in Procs, LoadRuntime(p) PROVE SettledInv'
  <2>1. UNCHANGED inputs /\ UNCHANGED <<opts, db>> /\ pc[p] = "start"
    BY <1>2 DEF LoadRuntime
  <2>2. CASE cfg' = [cfg EXCEPT ![p] = Load(p)] /\ Goto(p, "loaded")
    BY <1>1, <2>1, <2>2, LoadedHome DEF SettledInv, Goto, inputs
  <2>3. CASE Goto(p, "failed") /\ UNCHANGED cfg
    BY <1>1, <2>1, <2>3 DEF SettledInv, Goto, inputs
  <2> QED
    BY <1>2, <2>2, <2>3 DEF LoadRuntime
<1>3. ASSUME NEW p \in Procs, RunCapture(p) PROVE SettledInv'
  <2>1. UNCHANGED inputs /\ UNCHANGED cfg /\ pc[p] = "loaded"
    BY <1>3 DEF RunCapture
  <2>2. CASE /\ OptionsNormalize(flags[p]).ok
             /\ opts' = [opts EXCEPT ![p] = Fallbacks(OptionsNormalize(flags[p]), cfg[p])]
             /\ db' = [db EXCEPT ![p] = Resolve(p)]
             /\ Goto(p, "ready")
    BY <1>1, <2>1, <2>2, ResolvedHome DEF SettledInv, Goto, inputs
  <2>3. CASE Goto(p, "failed") /\ UNCHANGED <<opts, db>>
    BY <1>1, <2>1, <2>3 DEF SettledInv, Goto, inputs
  <2> QED
    BY <1>3, <2>2, <2>3 DEF RunCapture
<1>4. ASSUME NEW p \in Procs, OpenStore(p) PROVE SettledInv'
  BY <1>1, <1>4, ResolvedHome DEF OpenStore, SettledInv, Goto, inputs
<1>5. CASE UNCHANGED vars
  BY <1>1, <1>5 DEF SettledInv, vars, inputs
<1> QED
  BY <1>2, <1>3, <1>4, <1>5 DEF Next

(* What is settled stays settled, in every behaviour.                      *)
THEOREM SettledHolds == Spec => []SettledInv
  BY SettledInit, SettledStep, PTL DEF Spec

(* Captures, listings and retries that were told the same home work on one *)
(* database, whatever else is configured (loadRuntime, config.Load,        *)
(* home.Resolve, openStore).                                               *)
THEOREM SameHome == Spec => []OneHome
<1>1. SettledInv => OneHome
  <2> SUFFICES ASSUME SettledInv, NEW p \in Ready, NEW q \in Ready
               PROVE  db[p] = db[q] \/ (FirstHome(p) = "rel" /\ cwd[p] # cwd[q])
    BY DEF OneHome, SettledInv, Ready, ToldHome
  <2>1. FirstHome(p) = FirstHome(q) /\ ToldHome(p) = ToldHome(q)
    BY DEF SettledInv, Ready, FirstHome, ToldHome, EnvHome
  <2>2. /\ db[p] = Append(Abs(ToldHome(p), cwd[p]), "echo.db")
        /\ db[q] = Append(Abs(ToldHome(q), cwd[q]), "echo.db")
    BY DEF SettledInv, Ready
  <2>3. cwd[p] = cwd[q] => db[p] = db[q]
    BY <2>1, <2>2
  <2>4. FirstHome(p) # "rel" => db[p] = db[q]
    <3>1. FirstHome(p) # "rel" => ToldHome(p) # "rel"
      BY DEF ToldHome, DefaultHome
    <3> QED
      BY <2>1, <2>2, <3>1 DEF Abs
  <2> QED
    BY <2>3, <2>4
<1> QED
  BY <1>1, SettledHolds, PTL

(* The captures on a home agree on backends, lease and flags, whatever     *)
(* their configurations say (RunOptions.normalize, NewRegistry).           *)
THEOREM CapturesAlike == Spec => []CapturesAgree
<1>1. SettledInv => CapturesAgree
  <2> SUFFICES ASSUME SettledInv, NEW p \in Ready, NEW q \in Ready,
                      command[p] = "run", command[q] = "run"
               PROVE  /\ Fold(flags[p].backend) \in {"", opts[p].backend}
                      /\ Fold(flags[p].mode) \in {"", opts[p].mode}
                      /\ opts[p].backend \in Registry(q)
                      /\ opts[p].lease = opts[q].lease
                      /\ Fold(flags[p].backend) = Fold(flags[q].backend) =>
                           opts[p].backend = opts[q].backend
    BY DEF CapturesAgree
  <2>1. ASSUME NEW r \in {p, q}
        PROVE  /\ opts[r].backend = IF Fold(flags[r].backend) = "" THEN "windows"
                                    ELSE Fold(flags[r].backend)
               /\ opts[r].mode = IF Fold(flags[r].mode) = "" THEN "normal"
                                 ELSE Fold(flags[r].mode)
               /\ opts[r].lease = OptionLease
               /\ opts[r].backend \in {"windows", "google"}
    <3>1. /\ OptionsNormalize(flags[r]).ok
          /\ opts[r] = Fallbacks(OptionsNormalize(flags[r]), cfg[r])
      BY DEF SettledInv, Ready
    <3> QED
      BY <3>1, OptionsComplete
  <2> QED
    BY <2>1 DEF Registry
<1> QED
  BY <1>1, SettledHolds, PTL

-----------------------------------------------------------------------------
(* White space at the ends.                                                *)

(* A text that does not begin or end with white space.                     *)
Tight(t) == t = <<>> \/ (t[1] # Blank /\ t[Len(t)] # Blank)

(* What is left of a text when it is trimmed, and what goes.               *)
LEMMA TrimCuts ==
    ASSUME NEW t \in Seq(Bytes)
    PROVE  \/ TrimSpace(t) = <<>> /\ \A i \in 1..Len(t) : t[i] = Blank
           \/ \E a \in 1..Len(t), b \in 1..Len(t) :
                /\ a <= b /\ TrimSpace(t) = SubSeq(t, a, b)
                /\ t[a] # Blank /\ t[b] # Blank
                /\ \A i \in 1..Len(t) : i < a \/ i > b => t[i] = Blank
<1> DEFINE W == {i \in 1..Len(t) : t[i] # Blank}
<1>1. Len(t) \in Nat /\ W \subseteq 0..Len(t)
  BY LenProperties
<1>2. TrimSpace(t) = IF W = {} THEN <<>> ELSE SubSeq(t, Min(W), Max(W))
  BY DEF TrimSpace
<1>3. /\ \A i \in W : i \in 1..Len(t) /\ t[i] # Blank
      /\ \A i \in 1..Len(t) : t[i] # Blank => i \in W
  OBVIOUS
<1> HIDE DEF W
<1>4. CASE W = {}
  BY <1>2, <1>3, <1>4
<1>5. CASE W # {}
  <2>1. /\ Min(W) \in W /\ Max(W) \in W
        /\ \A y \in W : Min(W) <= y /\ y <= Max(W)
    BY <1>1, <1>5, MinMaxNat
  <2>2. PICK a \in W, b \in W : a = Min(W) /\ b = Max(W)
    BY <2>1
  <2>3. a \in 1..Len(t) /\ b \in 1..Len(t) /\ t[a] # Blank /\ t[b] # Blank
    BY <1>3
  <2>4. a <= b /\ TrimSpace(t) = SubSeq(t, a, b) /\ \A y \in W : a <= y /\ y <= b
    BY <1>2, <1>5, <2>1, <2>2
  <2>5. \A i \in 1..Len(t) : i < a \/ i > b => t[i] = Blank
    BY <1>1, <1>3, <2>3, <2>4
  <2> QED
    BY <2>3, <2>4, <2>5
<1> QED
  BY <1>4, <1>5

(* Trimming makes a text tight, leaves one that is so, and keeps the first *)
(* byte unless it is blank.                                                *)
LEMMA TrimIsTight ==
    ASSUME NEW t \in Seq(Bytes)
    PROVE  /\ TrimSpace(t) \in Seq(Bytes)
           /\ Len(TrimSpace(t)) \in Nat /\ Len(TrimSpace(t)) <= Len(t)
           /\ Tight(TrimSpace(t))
           /\ Tight(t) => TrimSpace(t) = t
           /\ (\E i \in 1..Len(t) : t[i] # Blank) => TrimSpace(t) # <<>>
           /\ t # <<>> /\ t[1] # Blank =>
                /\ TrimSpace(t) # <<>> /\ TrimSpace(t)[1] = t[1]
                /\ Head(TrimSpace(t)) = t[1]
<1>1. Len(t) \in Nat /\ (t # <<>> => Len(t) > 0 /\ 1 \in 1..Len(t) /\ Len(t) \in 1..Len(t))
  BY LenProperties
<1>2. CASE TrimSpace(t) = <<>> /\ \A i \in 1..Len(t) : t[i] = Blank
  <2>1. <<>> \in Seq(Bytes) /\ Len(<<>>) = 0
    BY EmptySeq
  <2>2. Tight(TrimSpace(t))
    BY <1>2 DEF Tight
  <2>3. Tight(t) => t = <<>>
    BY <1>1, <1>2 DEF Tight
  <2> QED
    BY <1>1, <1>2, <2>1, <2>2, <2>3
<1>3. CASE \E a \in 1..Len(t), b \in 1..Len(t) :
             /\ a <= b /\ TrimSpace(t) = SubSeq(t, a, b)
             /\ t[a] # Blank /\ t[b] # Blank
             /\ \A i \in 1..Len(t) : i < a \/ i > b => t[i] = Blank
  <2>1. PICK a \in 1..Len(t), b \in 1..Len(t) :
             /\ a <= b /\ TrimSpace(t) = SubSeq(t, a, b)
             /\ t[a] # Blank /\ t[b] # Blank
             /\ \A i \in 1..Len(t) : i < a \/ i > b => t[i] = Blank
    BY <1>3
  <2>2. PICK s : s = TrimSpace(t)
    OBVIOUS
  <2>3. \A i \in a..b : t[i] \in Bytes
    BY <1>1, ElementOfSeq
  <2>4. /\ s \in Seq(Bytes) /\ Len(s) = b - a + 1
        /\ \A i \in 1..(b - a + 1) : s[i] = t[a + i - 1]
    <3>1. a \in Int /\ b \in Int /\ a <= b /\ s = SubSeq(t, a, b)
      BY <2>1, <2>2
    <3> QED
      BY <2>3, <3>1, SubSeqProperties
  <2>5. s[1] = t[a] /\ s[Len(s)] = t[b] /\ s # <<>> /\ Len(s) \in Nat /\ Len(s) <= Len(t)
    <3>1. 1 \in 1..(b - a + 1) /\ b - a + 1 \in 1..(b - a + 1) /\ a + 1 - 1 = a
          /\ a + (b - a + 1) - 1 = b /\ b - a + 1 > 0 /\ b - a + 1 <= Len(t)
      BY <1>1, <2>1
    <3>2. s[1] = t[a] /\ s[Len(s)] = t[b]
      BY <2>4, <3>1
    <3>3. s # <<>> /\ Len(s) \in Nat /\ Len(s) <= Len(t)
      BY <2>4, <3>1, LenProperties
    <3> QED
      BY <3>2, <3>3
  <2>6. Tight(s)
    BY <2>1, <2>5 DEF Tight
  <2>7. t # <<>>
    BY <1>1, <2>1
  <2>8. ASSUME t[1] # Blank
        PROVE  a = 1
    BY <1>1, <2>1, <2>8
  <2>9. ASSUME t[Len(t)] # Blank
        PROVE  b = Len(t)
    BY <1>1, <2>1, <2>9
  <2>10. Tight(t) => s = t
    <3>1. Tight(t) => a = 1 /\ b = Len(t)
      BY <2>7, <2>8, <2>9 DEF Tight
    <3>2. SubSeq(t, 1, Len(t)) = t
      BY SubSeqFull
    <3> QED
      BY <2>1, <2>2, <3>1, <3>2
  <2>11. Head(s) = s[1]
    BY <2>4, <2>5
  <2>12. t[1] # Blank => s[1] = t[1]
    BY <2>5, <2>8
  <2> QED
    BY <2>2, <2>4, <2>5, <2>6, <2>10, <2>11, <2>12
<1> QED
  BY <1>2, <1>3, TrimCuts
-----------------------------------------------------------------------------
(* Texts without their blanks.                                             *)

(* Of two texts, of nothing and of blanks; trimming takes only blanks.     *)
LEMMA NoBlanksSplit ==
    ASSUME NEW p \in Seq(Bytes), NEW q \in Seq(Bytes)
    PROVE  /\ NoBlanks(p) \in Seq(Bytes)
           /\ NoBlanks(p \o q) = NoBlanks(p) \o NoBlanks(q)
           /\ NoBlanks(<<>>) = <<>>
<1> DEFINE g == [b \in Bytes |-> IF b = Blank THEN <<>> ELSE <<b>>]
<1>1. Makes(g, Bytes, Bytes)
  BY DEF Makes
<1>2. ASSUME NEW t \in Seq(Bytes)
      PROVE  NoBlanks(t) = Collect(g, t)
  <2>1. \A i \in 1..Len(t) : g[t[i]] = IF t[i] = Blank THEN <<>> ELSE <<t[i]>>
    BY ElementOfSeq
  <2>2. [i \in 1..Len(t) |-> g[t[i]]] =
          [i \in 1..Len(t) |-> IF t[i] = Blank THEN <<>> ELSE <<t[i]>>]
    <3> HIDE DEF g
    <3> QED
      BY <2>1
  <2> QED
    BY <2>2 DEF NoBlanks, Collect
<1> HIDE DEF g
<1>3. p \o q \in Seq(Bytes) /\ <<>> \in Seq(Bytes)
  BY ConcatProperties, EmptySeq
<1>4. Collect(g, p \o q) = Collect(g, p) \o Collect(g, q)
  BY <1>1, CollectConcat
<1>5. Collect(g, p) \in Seq(Bytes) /\ Collect(g, <<>>) = <<>>
  BY <1>1, CollectStep
<1> QED
  BY <1>2, <1>3, <1>4, <1>5

LEMMA NoBlanksOfBlanks ==
    ASSUME NEW t \in Seq(Bytes), \A i \in 1..Len(t) : t[i] = Blank
    PROVE  NoBlanks(t) = <<>>
<1> DEFINE g == [b \in {Blank} |-> <<>>]
<1>1. Makes(g, {Blank}, Bytes) /\ \A d \in {Blank} : g[d] = <<>>
  BY EmptySeq DEF Makes
<1>2. t \in Seq({Blank})
  <2>1. Len(t) \in Nat /\ t \in [1..Len(t) -> {Blank}]
    BY LenProperties
  <2> QED
    BY <2>1, SeqDef
<1>3. [i \in 1..Len(t) |-> g[t[i]]] =
        [i \in 1..Len(t) |-> IF t[i] = Blank THEN <<>> ELSE <<t[i]>>]
  OBVIOUS
<1>4. NoBlanks(t) = Collect(g, t)
  BY <1>3 DEF NoBlanks, Collect
<1> HIDE DEF g
<1>5. Collect(g, t) = <<>>
  BY <1>1, <1>2, CollectNone
<1> QED
  BY <1>4, <1>5

(* Trimming takes blanks and nothing else.                                 *)
LEMMA TrimTakesBlanks ==
    ASSUME NEW t \in Seq(Bytes)
    PROVE  /\ NoBlanks(TrimSpace(t)) = NoBlanks(t)
           /\ t = <<>> \/ t[Len(t)] # Blank =>
                \E p \in Seq(Bytes) : t = p \o TrimSpace(t) /\ NoBlanks(p) = <<>>
<1>1. Len(t) \in Nat
  BY LenProperties
<1>2. CASE TrimSpace(t) = <<>> /\ \A i \in 1..Len(t) : t[i] = Blank
  <2>1. NoBlanks(t) = <<>> /\ NoBlanks(<<>>) = <<>>
    BY <1>2, NoBlanksOfBlanks, NoBlanksSplit
  <2>2. t = t \o <<>>
    BY ConcatEmptySeq
  <2> QED
    BY <1>2, <2>1, <2>2
<1>3. CASE \E a \in 1..Len(t), b \in 1..Len(t) :
             /\ a <= b /\ TrimSpace(t) = SubSeq(t, a, b)
             /\ t[a] # Blank /\ t[b] # Blank
             /\ \A i \in 1..Len(t) : i < a \/ i > b => t[i] = Blank
  <2>1. PICK a \in 1..Len(t), b \in 1..Len(t) :
             /\ a <= b /\ TrimSpace(t) = SubSeq(t, a, b)
             /\ t[a] # Blank /\ t[b] # Blank
             /\ \A i \in 1..Len(t) : i < a \/ i > b => t[i] = Blank
    BY <1>3
  <2>2. PICK n \in Nat : n + 1 = a /\ n <= Len(t) /\ n <= b
    BY <1>1, <2>1
  <2>3. PICK p, w, q : p = SubSeq(t, 1, n) /\ w = TrimSpace(t) /\ q = SubSeq(t, b + 1, Len(t))
    OBVIOUS
  <2>4. p \in Seq(Bytes) /\ Len(p) = n /\ \A i \in 1..n : p[i] = t[i]
    BY <2>2, <2>3, SplitAt
  <2>5. q \in Seq(Bytes) /\ Len(q) = Len(t) - b /\ \A i \in 1..(Len(t) - b) : q[i] = t[b + i]
    <3>1. b \in Nat /\ b <= Len(t)
      BY <2>1
    <3> QED
      BY <2>3, <3>1, SplitAt
  <2>6. w \in Seq(Bytes)
    BY <2>3, TrimIsTight
  <2>7. NoBlanks(p) = <<>>
    <3>1. \A i \in 1..n : i \in 1..Len(t) /\ i < a
      BY <1>1, <2>1, <2>2
    <3>2. \A i \in 1..Len(p) : p[i] = Blank
      BY <2>1, <2>4, <3>1
    <3> QED
      BY <2>4, <3>2, NoBlanksOfBlanks
  <2>8. NoBlanks(q) = <<>>
    <3>1. \A i \in 1..(Len(t) - b) : b + i \in 1..Len(t) /\ b + i > b
      BY <1>1, <2>1
    <3>2. \A i \in 1..Len(q) : q[i] = Blank
      BY <2>1, <2>5, <3>1
    <3> QED
      BY <2>5, <3>2, NoBlanksOfBlanks
  <2>9. p \o w = SubSeq(t, 1, b)
    <3>1. 1 \in 1..(Len(t) + 1) /\ n \in (1 - 1)..Len(t) /\ b \in n..Len(t)
      BY <1>1, <2>1, <2>2
    <3>2. SubSeq(t, 1, n) \o SubSeq(t, n + 1, b) = SubSeq(t, 1, b)
      BY <3>1, ConcatAdjacentSubSeq
    <3> QED
      BY <2>1, <2>2, <2>3, <3>2
  <2>10. t = (p \o w) \o q
    <3>1. b \in Nat /\ b <= Len(t)
      BY <2>1
    <3>2. t = SubSeq(t, 1, b) \o SubSeq(t, b + 1, Len(t))
      BY <3>1, SplitAt
    <3> QED
      BY <2>3, <2>9, <3>2
  <2>11. NoBlanks(t) = NoBlanks(w)
    <3>1. p \o w \in Seq(Bytes)
      BY <2>4, <2>6, ConcatProperties
    <3>2. NoBlanks(t) = (NoBlanks(p) \o NoBlanks(w)) \o NoBlanks(q)
      BY <2>4, <2>5, <2>6, <2>10, <3>1, NoBlanksSplit
    <3>3. NoBlanks(w) \in Seq(Bytes)
      BY <2>6, NoBlanksSplit
    <3> QED
      BY <2>7, <2>8, <3>2, <3>3, ConcatEmptySeq
  <2>12. ASSUME t = <<>> \/ t[Len(t)] # Blank
         PROVE  t = p \o w
    <3>1. Len(t) \in 1..Len(t)
      BY <1>1, <2>1
    <3>2. t # <<>>
      BY <3>1
    <3>3. b = Len(t)
      BY <1>1, <2>1, <2>12, <3>1, <3>2
    <3>4. SubSeq(t, 1, Len(t)) = t
      BY SubSeqFull
    <3> QED
      BY <2>9, <3>3, <3>4
  <2> QED
    BY <2>3, <2>4, <2>7, <2>11, <2>12
<1> QED
  BY <1>2, <1>3, TrimCuts
-----------------------------------------------------------------------------
(* Where a text is cut.                                                    *)

(* The last of the bytes C among the first lim of v, if there is one.      *)
LEMMA LastIndexIs ==
    ASSUME NEW v, NEW lim \in Nat \ {0}, NEW C, NEW r, r = LastIndex(v, lim, C)
    PROVE  \/ r = -1 /\ \A i \in 1..lim : v[i] \notin C
           \/ r \in 0..(lim - 1) /\ v[r + 1] \in C
<1> DEFINE at == {i \in 0..(lim - 1) : v[i + 1] \in C}
<1>1. r = IF at = {} THEN -1 ELSE Max(at)
  BY DEF LastIndex
<1>2. lim - 1 \in Nat /\ at \subseteq 0..(lim - 1)
  OBVIOUS
<1>3. /\ \A i \in at : i \in 0..(lim - 1) /\ v[i + 1] \in C
      /\ \A i \in 0..(lim - 1) : v[i + 1] \in C => i \in at
  OBVIOUS
<1> HIDE DEF at
<1>4. CASE at = {}
  <2>1. ASSUME NEW i \in 1..lim
        PROVE  v[i] \notin C
    <3>1. i - 1 \in 0..(lim - 1) /\ (i - 1) + 1 = i
      OBVIOUS
    <3> QED
      BY <1>3, <1>4, <3>1
  <2> QED
    BY <1>1, <1>4, <2>1
<1>5. CASE at # {}
  <2>1. Max(at) \in at
    BY <1>2, <1>5, MinMaxNat
  <2> QED
    BY <1>1, <1>3, <1>5, <2>1
<1> QED
  BY <1>4, <1>5

(* The cut is after the first byte and not after the limit; there is a     *)
(* stop or a blank behind it, or no blank before it.                       *)
LEMMA CutPlace ==
    ASSUME NEW v \in Seq(Bytes), NEW lim \in Nat \ {0}, lim < Len(v), v[1] # Blank
    PROVE  /\ Cut(v, lim) \in 1..lim
           /\ \/ v[Cut(v, lim) + 1] \in Breaks
              \/ v[Cut(v, lim) + 1] = Blank
              \/ Cut(v, lim) = lim /\ \A i \in 1..lim : v[i] # Blank
<1>1. PICK stop, blank : /\ stop = LastIndex(v, lim, Breaks)
                         /\ blank = LastIndex(v, lim, {Blank})
  OBVIOUS
<1>2. \/ stop = -1 /\ \A i \in 1..lim : v[i] \notin Breaks
      \/ stop \in 0..(lim - 1) /\ v[stop + 1] \in Breaks
  BY <1>1, LastIndexIs
<1>3. \/ blank = -1 /\ \A i \in 1..lim : v[i] \notin {Blank}
      \/ blank \in 0..(lim - 1) /\ v[blank + 1] \in {Blank}
  BY <1>1, LastIndexIs
<1>4. PICK half \in Nat : half = lim \div 2 /\ 2 * half <= lim /\ lim <= 2 * half + 1
  <2>1. lim \div 2 \in Nat /\ 2 * (lim \div 2) <= lim /\ lim <= 2 * (lim \div 2) + 1
    OBVIOUS
  <2> QED
    BY <2>1
<1>5. PICK at : at = IF stop < half THEN blank ELSE stop
  OBVIOUS
<1>6. Cut(v, lim) = IF at <= 0 THEN lim ELSE at
  BY <1>1, <1>4, <1>5 DEF Cut
<1>7. blank # 0
  <2>1. blank = 0 => v[1] = Blank
    BY <1>3
  <2> QED
    BY <2>1
<1>8. CASE stop >= half /\ stop > 0
  <2>1. stop \in 1..(lim - 1) /\ v[stop + 1] \in Breaks /\ at = stop
    BY <1>2, <1>4, <1>5, <1>8
  <2>2. Cut(v, lim) = stop
    BY <1>6, <2>1
  <2> QED
    BY <2>1, <2>2
<1>9. CASE stop >= half /\ ~(stop > 0)
  <2>1. stop = 0 /\ half = 0 /\ lim = 1 /\ at = 0
    BY <1>2, <1>4, <1>5, <1>9
  <2>2. Cut(v, lim) = 1
    BY <1>6, <2>1
  <2> QED
    BY <2>1, <2>2
<1>10. CASE ~(stop >= half) /\ blank > 0
  <2>1. blank \in 1..(lim - 1) /\ v[blank + 1] = Blank /\ at = blank
    BY <1>2, <1>3, <1>4, <1>5, <1>10
  <2>2. Cut(v, lim) = blank
    BY <1>6, <2>1
  <2> QED
    BY <2>1, <2>2
<1>11. CASE ~(stop >= half) /\ ~(blank > 0)
  <2>1. blank = -1 /\ (\A i \in 1..lim : v[i] # Blank) /\ at = -1
    BY <1>2, <1>3, <1>4, <1>5, <1>7, <1>11
  <2>2. Cut(v, lim) = lim
    BY <1>6, <2>1
  <2> QED
    BY <2>1, <2>2
<1> QED
  BY <1>8, <1>9, <1>10, <1>11

-----------------------------------------------------------------------------
(* It does not matter in which order texts are put together.               *)
LEMMA Regroup ==
    ASSUME NEW p \in Seq(Bytes), NEW q \in Seq(Bytes), NEW r \in Seq(Bytes)
    PROVE  p \o (q \o r) = (p \o q) \o r
<1> DEFINE B == Bytes
<1>1. p \in Seq(B) /\ q \in Seq(B) /\ r \in Seq(B)
  OBVIOUS
<1> HIDE DEF B
<1> QED
  BY <1>1, ConcatAssociative

(* Chunk k of ps, cut with the limit lim from the text c, is well cut from *)
(* what follows it.                                                        *)
WellCut(c, lim, ps, k, next) ==
    \/ Len(ps[k]) = lim /\ \A i \in 1..lim : ps[k][i] # Blank
    \/ Head(next) \in Breaks
    \/ \E i \in 1..Len(c) :
         /\ c[i] = Blank
         /\ NoBlanks(SubSeq(c, 1, i)) = NoBlanks(FlattenSeq(SubSeq(ps, 1, k)))

(* The chunks ps and the rest r are the text c: what was cut off, which    *)
(* but for blanks is what the chunks hold, and r.  The chunks are well     *)
(* cut, from each other and from the rest, and the rest is tight.          *)
Sound(c, lim, r, ps) ==
    /\ c \in Seq(Bytes) /\ lim \in Nat \ {0}
    /\ r \in Seq(Bytes) /\ ps \in Seq(Seq(Bytes))
    /\ Tight(r)
    /\ \E p \in Seq(Bytes) : c = p \o r /\ NoBlanks(p) = NoBlanks(FlattenSeq(ps))
    /\ \A k \in 1..Len(ps) : ps[k] # <<>> /\ Len(ps[k]) <= lim
    /\ \A k \in 1..(Len(ps) - 1) : WellCut(c, lim, ps, k, ps[k + 1])
    /\ r # <<>> /\ ps # <<>> => WellCut(c, lim, ps, Len(ps), r)

(* The inductive invariant of the cutting.                                 *)
ChunkInv ==
    /\ text \in Seq(Bytes)
    /\ stage = "start" => parts = <<>> /\ rest = Clean(text)
    /\ Sound(Clean(text), limit, rest, parts)

(* A cut between chunks does not change with the chunks that come later,   *)
(* nor with what the bytes after the first one are.                        *)
LEMMA CutStays ==
    ASSUME NEW c, NEW lim, NEW ps \in Seq(Seq(Bytes)), NEW part \in Seq(Bytes),
           NEW k \in 1..Len(ps), NEW next, NEW after, Head(after) = Head(next),
           WellCut(c, lim, ps, k, next)
    PROVE  WellCut(c, lim, Append(ps, part), k, after)
<1>1. Append(ps, part)[k] = ps[k]
  BY AppendProperties
<1>2. SubSeq(Append(ps, part), 1, k) = SubSeq(ps, 1, k)
  <2>1. <<part>> \in Seq(Seq(Bytes)) /\ 1 \in 1..Len(ps)
    BY LenProperties
  <2>2. Append(ps, part) = ps \o <<part>>
    BY AppendIsConcat
  <2>3. SubSeq(ps \o <<part>>, 1, k) = SubSeq(ps, 1, k)
    BY <2>1, SubSeqOfConcat1
  <2> QED
    BY <2>2, <2>3
<1> QED
  BY <1>1, <1>2 DEF WellCut

(* The last member of a sequence of texts is the one that was appended.    *)
LEMMA LastOfAppend ==
    ASSUME NEW ps \in Seq(Seq(Bytes)), NEW part \in Seq(Bytes)
    PROVE  /\ Append(ps, part)[Len(ps) + 1] = part
           /\ SubSeq(Append(ps, part), 1, Len(ps) + 1) = Append(ps, part)
<1> DEFINE T == Seq(Bytes)
<1>1. ps \in Seq(T) /\ part \in T
  OBVIOUS
<1> HIDE DEF T
<1>2. Append(ps, part) \in Seq(T) /\ Len(Append(ps, part)) = Len(ps) + 1
  BY <1>1, AppendProperties
<1>3. Append(ps, part)[Len(ps) + 1] = part
  BY <1>1, AppendProperties
<1>4. SubSeq(Append(ps, part), 1, Len(Append(ps, part))) = Append(ps, part)
  BY <1>2, SubSeqFull
<1> QED
  BY <1>2, <1>3, <1>4

(* One more chunk: if it is a piece of the rest but for blanks, begins     *)
(* like it and is well cut from what follows, all is as before.            *)
LEMMA NextChunk ==
    ASSUME NEW c, NEW lim, NEW r, NEW ps, Sound(c, lim, r, ps), r # <<>>,
           NEW piece \in Seq(Bytes), NEW next \in Seq(Bytes), r = piece \o next,
           NEW part \in Seq(Bytes), part # <<>>, Len(part) <= lim,
           Head(part) = Head(r), NoBlanks(part) = NoBlanks(piece), Tight(next),
           next # <<>> => WellCut(c, lim, Append(ps, part), Len(ps) + 1, next)
    PROVE  Sound(c, lim, next, Append(ps, part))
<1>1. /\ c \in Seq(Bytes) /\ lim \in Nat \ {0}
      /\ r \in Seq(Bytes) /\ ps \in Seq(Seq(Bytes))
  BY DEF Sound
<1>2. PICK qs, n : qs = Append(ps, part) /\ n = Len(ps)
  OBVIOUS
<1>3. /\ n \in Nat /\ qs \in Seq(Seq(Bytes)) /\ qs # <<>> /\ Len(qs) = n + 1
      /\ \A k \in 1..n : qs[k] = ps[k]
      /\ qs[n + 1] = part
  <2>1. n \in Nat
    BY <1>1, <1>2, LenProperties
  <2>2. /\ Append(ps, part) \in Seq(Seq(Bytes)) /\ Append(ps, part) # <<>>
        /\ Len(Append(ps, part)) = Len(ps) + 1
        /\ \A k \in 1..Len(ps) : Append(ps, part)[k] = ps[k]
        /\ Append(ps, part)[Len(ps) + 1] = part
    <3> DEFINE T == Seq(Bytes)
    <3>1. ps \in Seq(T) /\ part \in T
      BY <1>1
    <3> HIDE DEF T
    <3>2. Append(ps, part) \in Seq(T)
      BY <3>1, AppendProperties
    <3>3. /\ Append(ps, part) # <<>>
          /\ Len(Append(ps, part)) = Len(ps) + 1
      BY <3>1, AppendProperties
    <3>4. /\ \A k \in 1..Len(ps) : Append(ps, part)[k] = ps[k]
          /\ Append(ps, part)[Len(ps) + 1] = part
      BY <3>1, AppendProperties
    <3> QED
      BY <3>2, <3>3, <3>4 DEF T
  <2> QED
    BY <1>2, <2>1, <2>2
<1>4. PICK p \in Seq(Bytes) : c = p \o r /\ NoBlanks(p) = NoBlanks(FlattenSeq(ps))
  BY DEF Sound
<1>5. /\ p \o piece \in Seq(Bytes) /\ c = (p \o piece) \o next
      /\ NoBlanks(p \o piece) = NoBlanks(FlattenSeq(qs))
  <2>1. p \o piece \in Seq(Bytes) /\ c = (p \o piece) \o next
    <3>1. p \o (piece \o next) = (p \o piece) \o next
      BY Regroup
    <3>2. p \o piece \in Seq(Bytes)
      BY ConcatProperties
    <3> QED
      BY <1>4, <3>1, <3>2
  <2>2. FlattenSeq(qs) = FlattenSeq(ps) \o part
    BY <1>1, <1>2, FlattenAppend
  <2>3. FlattenSeq(ps) \in Seq(Bytes)
    BY <1>1, FlattenType
  <2>4. NoBlanks(FlattenSeq(qs)) = NoBlanks(FlattenSeq(ps)) \o NoBlanks(part)
    BY <2>2, <2>3, NoBlanksSplit
  <2>5. NoBlanks(p \o piece) = NoBlanks(p) \o NoBlanks(piece)
    BY NoBlanksSplit
  <2> QED
    BY <1>4, <2>1, <2>4, <2>5
<1>6. \A k \in 1..Len(qs) : qs[k] # <<>> /\ Len(qs[k]) <= lim
  <2>1. \A k \in 1..n : ps[k] # <<>> /\ Len(ps[k]) <= lim
    BY <1>2 DEF Sound
  <2>2. \A k \in 1..(n + 1) : k \in 1..n \/ k = n + 1
    BY <1>3
  <2> QED
    BY <1>3, <2>1, <2>2
<1>7. ASSUME NEW k \in 1..n
      PROVE  WellCut(c, lim, qs, k, qs[k + 1])
  <2>1. CASE k = n
    <3>1. ps # <<>>
      BY <1>2, EmptySeq
    <3>2. WellCut(c, lim, ps, n, r)
      BY <1>2, <3>1 DEF Sound
    <3>3. Head(qs[k + 1]) = Head(r)
      BY <1>3, <2>1
    <3> QED
      BY <1>1, <1>2, <2>1, <3>2, <3>3, CutStays
  <2>2. CASE k # n
    <3>1. k \in 1..(n - 1) /\ k + 1 \in 1..n
      BY <1>3, <2>2
    <3>2. WellCut(c, lim, ps, k, ps[k + 1])
      BY <1>2, <3>1 DEF Sound
    <3>3. Head(qs[k + 1]) = Head(ps[k + 1])
      BY <1>3, <3>1
    <3> QED
      BY <1>1, <1>2, <3>2, <3>3, CutStays
  <2> QED
    BY <2>1, <2>2
<1>8. n + 1 - 1 = n
  BY <1>3
<1>9. next # <<>> => WellCut(c, lim, qs, n + 1, next)
  BY <1>2
<1>10. \E q \in Seq(Bytes) : c = q \o next /\ NoBlanks(q) = NoBlanks(FlattenSeq(qs))
  BY <1>5
<1>11. \A k \in 1..(Len(qs) - 1) : WellCut(c, lim, qs, k, qs[k + 1])
  BY <1>3, <1>7, <1>8
<1>12. next # <<>> /\ qs # <<>> => WellCut(c, lim, qs, Len(qs), next)
  BY <1>3, <1>9
<1>13. Sound(c, lim, next, qs)
  BY <1>1, <1>3, <1>6, <1>10, <1>11, <1>12 DEF Sound
<1> QED
  BY <1>2, <1>13

(* The cleaned text is a tight text.                                       *)
LEMMA CleanIsTight ==
    ASSUME NEW t \in Seq(Bytes)
    PROVE  Clean(t) \in Seq(Bytes) /\ Tight(Clean(t))
<1> DEFINE m == [i \in 1..Len(t) |-> IF t[i] = Markup THEN Blank ELSE t[i]]
           n == Len(t)
           Kept(i) == m[i] # Blank \/ i = 1 \/ m[i - 1] # Blank
           f == [i \in 1..n |-> IF Kept(i) THEN <<m[i]>> ELSE <<>>]
           s == FlattenSeq(f)
<1>1. n \in Nat /\ \A i \in 1..n : t[i] \in Bytes
  BY LenProperties, ElementOfSeq
<1>2. Blank \in Bytes
  BY DEF Bytes
<1>3. \A i \in 1..n : m[i] \in Bytes
  BY <1>1, <1>2
<1>4. m \in Seq(Bytes) /\ Len(m) = n
  <2> DEFINE mm == m
  <2>1. m \in [1..n -> Bytes]
    BY <1>3
  <2> HIDE DEF m
  <2> QED
    BY <1>1, <2>1, SeqDef, LenProperties
<1>5. Clean(t) = TrimSpace(s)
  BY <1>4 DEF Clean
<1>6. \A i \in 1..n : f[i] \in Seq(Bytes)
  <2> HIDE DEF m
  <2>1. \A i \in 1..n : <<m[i]>> \in Seq(Bytes) /\ <<>> \in Seq(Bytes)
    BY <1>3
  <2> QED
    BY <2>1
<1>7. f = [i \in 1..n |-> f[i]]
  OBVIOUS
<1> HIDE DEF m, n, f, s
<1>8. FlattenSeq([i \in 1..n |-> f[i]]) \in Seq(Bytes)
  <2>1. n \in 0..n
    BY <1>1
  <2> QED
    BY <1>1, <1>6, <2>1, FlattenPrefixes
<1>9. s \in Seq(Bytes)
  BY <1>7, <1>8 DEF s
<1> QED
  BY <1>5, <1>9, TrimIsTight
(* What a text begins with is what it was put together from.               *)
LEMMA PrefixOfConcat ==
    ASSUME NEW x \in Seq(Bytes), NEW y \in Seq(Bytes), x # <<>>
    PROVE  /\ Len(x) \in 1..Len(x \o y)
           /\ SubSeq(x \o y, 1, Len(x)) = x
           /\ (x \o y)[Len(x)] = x[Len(x)]
<1>1. Len(x) \in Nat /\ Len(x) > 0 /\ Len(y) \in Nat
  BY LenProperties
<1>2. 1 \in 1..Len(x) /\ Len(x) \in 1..Len(x)
  BY <1>1
<1>3. SubSeq(x \o y, 1, Len(x)) = SubSeq(x, 1, Len(x))
  BY <1>2, SubSeqOfConcat1
<1>4. SubSeq(x, 1, Len(x)) = x
  BY SubSeqFull
<1>5. Len(x \o y) = Len(x) + Len(y) /\ (x \o y)[Len(x)] = x[Len(x)]
  BY <1>1, <1>2, ConcatProperties
<1> QED
  BY <1>1, <1>3, <1>4, <1>5

(* A turn of the loop: the piece up to the cut becomes a chunk.            *)
LEMMA CutStep ==
    ASSUME NEW c, NEW lim, NEW r, NEW ps, Sound(c, lim, r, ps), Len(r) > lim
    PROVE  Sound(c, lim, TrimSpace(SubSeq(r, Cut(r, lim) + 1, Len(r))),
                 Append(ps, TrimSpace(SubSeq(r, 1, Cut(r, lim)))))
<1>1. /\ c \in Seq(Bytes) /\ lim \in Nat \ {0}
      /\ r \in Seq(Bytes) /\ ps \in Seq(Seq(Bytes)) /\ Tight(r)
  BY DEF Sound
<1>2. PICK n \in Nat : n = Len(r) /\ n > lim
  BY <1>1, LenProperties
<1>3. r # <<>> /\ r[1] # Blank /\ r[n] # Blank /\ Head(r) = r[1]
  <2>1. r # <<>>
    BY <1>1, <1>2, LenProperties
  <2> QED
    BY <1>1, <1>2, <2>1 DEF Tight
<1>4. PICK k : k = Cut(r, lim)
  OBVIOUS
<1>5. /\ k \in 1..lim /\ k \in Nat /\ k < n
      /\ \/ r[k + 1] \in Breaks
         \/ r[k + 1] = Blank
         \/ k = lim /\ \A i \in 1..lim : r[i] # Blank
  <2>1. /\ k \in 1..lim
        /\ \/ r[k + 1] \in Breaks
           \/ r[k + 1] = Blank
           \/ k = lim /\ \A i \in 1..lim : r[i] # Blank
    BY <1>1, <1>2, <1>3, <1>4, CutPlace
  <2> QED
    BY <1>1, <1>2, <2>1
<1>6. PICK head, w : head = SubSeq(r, 1, k) /\ w = SubSeq(r, k + 1, n)
  OBVIOUS
<1>7. /\ head \in Seq(Bytes) /\ w \in Seq(Bytes)
      /\ Len(head) = k /\ Len(w) = n - k
      /\ \A i \in 1..k : head[i] = r[i]
      /\ \A i \in 1..(n - k) : w[i] = r[k + i]
      /\ r = head \o w
  <2>1. k <= Len(r)
    BY <1>2, <1>5
  <2> QED
    BY <1>1, <1>2, <1>5, <1>6, <2>1, SplitAt
<1>8. PICK part, after : part = TrimSpace(head) /\ after = TrimSpace(w)
  OBVIOUS
<1>9. /\ part \in Seq(Bytes) /\ part # <<>> /\ Len(part) <= lim
      /\ Head(part) = Head(r) /\ NoBlanks(part) = NoBlanks(head)
  <2>1. head # <<>> /\ head[1] = r[1]
    BY <1>5, <1>7, LenProperties
  <2>2. /\ part \in Seq(Bytes) /\ part # <<>> /\ Len(part) \in Nat
        /\ Len(part) <= Len(head) /\ Head(part) = head[1]
    BY <1>3, <1>7, <1>8, <2>1, TrimIsTight
  <2>3. Len(part) <= lim
    BY <1>1, <1>5, <1>7, <2>2
  <2>4. NoBlanks(part) = NoBlanks(head)
    BY <1>7, <1>8, TrimTakesBlanks
  <2> QED
    BY <1>3, <2>1, <2>2, <2>3, <2>4
<1>10. w # <<>> /\ w[1] = r[k + 1] /\ w[Len(w)] # Blank
  <2>1. n - k > 0 /\ n - k \in 1..(n - k) /\ 1 \in 1..(n - k) /\ k + (n - k) = n
    BY <1>5
  <2>2. w[1] = r[k + 1] /\ w[n - k] = r[n]
    BY <1>7, <2>1
  <2>3. w # <<>>
    BY <1>7, <2>1, LenProperties
  <2> QED
    BY <1>3, <1>7, <2>2, <2>3
<1>11. after \in Seq(Bytes) /\ Tight(after)
  BY <1>7, <1>8, TrimIsTight
<1>12. PICK p \in Seq(Bytes) : w = p \o after /\ NoBlanks(p) = <<>>
  BY <1>7, <1>8, <1>10, TrimTakesBlanks
<1>13. /\ head \o p \in Seq(Bytes) /\ r = (head \o p) \o after
       /\ NoBlanks(head \o p) = NoBlanks(part)
  <2>1. head \o (p \o after) = (head \o p) \o after
    BY <1>7, <1>11, Regroup
  <2>2. NoBlanks(head \o p) = NoBlanks(head) \o <<>>
    <3>1. head \in Seq(Bytes) /\ NoBlanks(p) = <<>>
      BY <1>7, <1>12
    <3>2. NoBlanks(head \o p) = NoBlanks(head) \o NoBlanks(p)
      BY <3>1, NoBlanksSplit
    <3> QED
      BY <3>1, <3>2
  <2>3. NoBlanks(head) \o <<>> = NoBlanks(head)
    BY <1>7, NoBlanksSplit, ConcatEmptySeq
  <2>4. head \o p \in Seq(Bytes)
    BY <1>7, ConcatProperties
  <2> QED
    BY <1>7, <1>9, <1>12, <2>1, <2>2, <2>3, <2>4
<1>14. PICK qs, m : qs = Append(ps, part) /\ m = Len(ps) + 1
  OBVIOUS
<1>15. qs[m] = part /\ SubSeq(qs, 1, m) = qs
  BY <1>1, <1>9, <1>14, LastOfAppend
<1>16. WellCut(c, lim, qs, m, after)
  <2>1. CASE r[k + 1] \in Breaks
    <3>1. w[1] # Blank
      BY <1>10, <2>1 DEF Breaks, Stops, Blank
    <3>2. Head(after) = w[1]
      BY <1>7, <1>8, <1>10, <3>1, TrimIsTight
    <3> QED
      BY <1>10, <2>1, <3>2 DEF WellCut
  <2>2. CASE r[k + 1] = Blank
    <3>1. PICK q \in Seq(Bytes) : c = q \o r /\ NoBlanks(q) = NoBlanks(FlattenSeq(ps))
      BY DEF Sound
    <3>2. PICK u, v : u = SubSeq(w, 1, 1) /\ v = SubSeq(w, 1 + 1, Len(w))
      OBVIOUS
    <3>3. /\ u \in Seq(Bytes) /\ v \in Seq(Bytes) /\ Len(u) = 1
          /\ u[1] = Blank /\ w = u \o v
      <4>1. 1 \in Nat /\ 1 <= Len(w)
        BY <1>5, <1>7
      <4>2. /\ u \in Seq(Bytes) /\ v \in Seq(Bytes) /\ Len(u) = 1
            /\ \A i \in 1..1 : u[i] = w[i]
            /\ w = u \o v
        BY <1>7, <3>2, <4>1, SplitAt
      <4> QED
        BY <1>10, <2>2, <4>2
    <3>4. NoBlanks(u) = <<>>
      <4>1. \A i \in 1..Len(u) : u[i] = Blank
        BY <3>3
      <4> QED
        BY <3>3, <4>1, NoBlanksOfBlanks
    <3>5. PICK y, x : y = q \o head /\ x = y \o u
      OBVIOUS
    <3>6. y \in Seq(Bytes) /\ x \in Seq(Bytes) /\ Len(y) \in Nat
          /\ Len(x) = Len(y) + 1 /\ x[Len(y) + 1] = u[1]
      <4>1. y \in Seq(Bytes)
        BY <1>7, <3>5, ConcatProperties
      <4>2. Len(y) \in Nat
        BY <4>1, LenProperties
      <4>3. x \in Seq(Bytes) /\ Len(x) = Len(y) + Len(u)
            /\ \A i \in 1..Len(u) : x[Len(y) + i] = u[i]
        <5>1. u \in Seq(Bytes) /\ x = y \o u
          BY <3>3, <3>5
        <5> QED
          BY <4>1, <5>1, ConcatProperties
      <4>4. 1 \in 1..Len(u)
        BY <3>3
      <4> QED
        BY <3>3, <4>1, <4>2, <4>3, <4>4
    <3>7. c = x \o v
      <4>1. q \o (head \o w) = y \o w
        BY <1>7, <3>5, Regroup
      <4>2. y \o (u \o v) = x \o v
        <5>1. u \in Seq(Bytes) /\ v \in Seq(Bytes) /\ y \in Seq(Bytes) /\ x = y \o u
          BY <3>3, <3>5, <3>6
        <5> QED
          BY <5>1, Regroup
      <4> QED
        BY <1>7, <3>1, <3>3, <4>1, <4>2
    <3>8. PICK i : i = Len(x)
      OBVIOUS
    <3>9. i \in 1..Len(c) /\ SubSeq(c, 1, i) = x /\ c[i] = Blank
      <4>1. x # <<>>
        BY <3>6, LenProperties
      <4>2. x[i] = Blank
        BY <3>3, <3>6, <3>8
      <4> QED
        BY <3>3, <3>6, <3>7, <3>8, <4>1, <4>2, PrefixOfConcat
    <3>10. NoBlanks(x) = NoBlanks(FlattenSeq(qs))
      <4>1. NoBlanks(x) = NoBlanks(y) \o <<>>
        <5>1. u \in Seq(Bytes) /\ y \in Seq(Bytes) /\ x = y \o u
          BY <3>3, <3>5, <3>6
        <5>2. NoBlanks(y \o u) = NoBlanks(y) \o NoBlanks(u)
          BY <5>1, NoBlanksSplit
        <5> QED
          BY <3>4, <5>1, <5>2
      <4>2. NoBlanks(y) \o <<>> = NoBlanks(y)
        BY <3>6, NoBlanksSplit, ConcatEmptySeq
      <4>3. NoBlanks(y) = NoBlanks(q) \o NoBlanks(head)
        BY <1>7, <3>5, NoBlanksSplit
      <4>4. FlattenSeq(qs) = FlattenSeq(ps) \o part
        BY <1>1, <1>9, <1>14, FlattenAppend
      <4>5. FlattenSeq(ps) \in Seq(Bytes)
        BY <1>1, FlattenType
      <4>6. NoBlanks(FlattenSeq(qs)) = NoBlanks(FlattenSeq(ps)) \o NoBlanks(part)
        BY <1>9, <4>4, <4>5, NoBlanksSplit
      <4> QED
        BY <1>9, <3>1, <4>1, <4>2, <4>3, <4>6
    <3>11. NoBlanks(SubSeq(c, 1, i)) = NoBlanks(FlattenSeq(SubSeq(qs, 1, m)))
      BY <1>15, <3>9, <3>10
    <3> QED
      BY <3>9, <3>11 DEF WellCut
  <2>3. CASE k = lim /\ \A i \in 1..lim : r[i] # Blank
    <3>1. /\ \A i \in 1..lim : head[i] # Blank
          /\ 1 \in 1..lim /\ lim \in 1..lim
      BY <1>5, <1>7, <2>3
    <3>2. Tight(head)
      BY <1>7, <2>3, <3>1 DEF Tight
    <3>3. part = head
      BY <1>7, <1>8, <3>2, TrimIsTight
    <3> QED
      BY <1>7, <1>15, <2>3, <3>1, <3>3 DEF WellCut
  <2> QED
    BY <1>5, <2>1, <2>2, <2>3
<1>17. Sound(c, lim, after, qs)
  BY <1>3, <1>9, <1>11, <1>13, <1>14, <1>16, NextChunk
<1> QED
  BY <1>2, <1>4, <1>6, <1>8, <1>14, <1>17
(* The end of the loop: the rest becomes the last chunk.                   *)
LEMMA LastStep ==
    ASSUME NEW c, NEW lim, NEW r, NEW ps, Sound(c, lim, r, ps),
           r # <<>>, Len(r) <= lim
    PROVE  Sound(c, lim, <<>>, Append(ps, r))
<1>1. r \in Seq(Bytes) /\ <<>> \in Seq(Bytes) /\ r = r \o <<>>
  BY ConcatEmptySeq DEF Sound
<1>2. Tight(<<>>)
  BY DEF Tight
<1> QED
  BY <1>1, <1>2, NextChunk

(* Nothing is cut yet, and each action cuts as the invariant says.         *)
LEMMA ChunkInit == TextInit => ChunkInv
<1> SUFFICES ASSUME TextInit PROVE ChunkInv
  OBVIOUS
<1>1. text \in Seq(Bytes)
  <2>1. PICK n \in 0..MaxLen : text \in [1..n -> Bytes]
    BY DEF TextInit, Texts
  <2>2. n \in Nat
    BY <2>1
  <2> QED
    BY <2>1, <2>2, SeqDef
<1>2. PICK c : c = Clean(text)
  OBVIOUS
<1>3. c \in Seq(Bytes) /\ Tight(c)
  BY <1>1, <1>2, CleanIsTight
<1>4. limit \in Nat \ {0}
  BY SpeechTextAssumption DEF TextInit
<1>5. rest = c /\ parts = <<>>
  BY <1>2 DEF TextInit
<1>6. Sound(c, limit, c, <<>>)
  <2>1. PICK e : e = <<>>
    OBVIOUS
  <2>2. e \in Seq(Bytes) /\ e \in Seq(Seq(Bytes)) /\ Len(e) = 0
    BY <2>1
  <2>3. c = e \o c
    BY <1>3, <2>1, ConcatEmptySeq
  <2>4. NoBlanks(e) = NoBlanks(FlattenSeq(e))
    BY <2>1, FlattenEmpty
  <2>5. 1..0 = {} /\ 1..(0 - 1) = {}
    OBVIOUS
  <2>6. Sound(c, limit, c, e)
    BY <1>3, <1>4, <2>1, <2>2, <2>3, <2>4, <2>5 DEF Sound
  <2> QED
    BY <2>1, <2>6
<1> QED
  BY <1>1, <1>2, <1>5, <1>6 DEF ChunkInv

LEMMA ChunkNext == ChunkInv /\ [TextNext]_textVars => ChunkInv'
<1> SUFFICES ASSUME ChunkInv, [TextNext]_textVars PROVE ChunkInv'
  OBVIOUS
<1>1. PICK c : c = Clean(text)
  OBVIOUS
<1>2. text \in Seq(Bytes) /\ Sound(c, limit, rest, parts)
  BY <1>1 DEF ChunkInv
<1>3. text' = text /\ limit' = limit
  BY DEF TextNext, ChunkWhole, ChunkCut, ChunkLast, textVars
<1>4. /\ text' \in Seq(Bytes) /\ Clean(text') = c
  BY <1>1, <1>2, <1>3
<1>5. CASE ChunkWhole
  <2>1. /\ parts = <<>> /\ rest = c /\ rest' = <<>> /\ stage' = "done"
        /\ parts' = IF rest = <<>> THEN <<>> ELSE <<rest>>
        /\ rest = <<>> \/ Len(rest) <= limit
    BY <1>1, <1>5 DEF ChunkWhole, ChunkInv
  <2>2. CASE rest = <<>>
    <3>1. rest' = rest /\ parts' = parts
      BY <2>1, <2>2
    <3> QED
      BY <1>2, <1>3, <1>4, <2>1, <3>1 DEF ChunkInv
  <2>3. CASE rest # <<>>
    <3>1. parts' = Append(parts, rest)
      BY <2>1, <2>3
    <3>2. Sound(c, limit, <<>>, Append(parts, rest))
      BY <1>2, <2>1, <2>3, LastStep
    <3>3. Sound(c, limit, rest', parts')
      BY <2>1, <3>1, <3>2
    <3> QED
      BY <1>3, <1>4, <2>1, <3>3 DEF ChunkInv
  <2> QED
    BY <2>2, <2>3
<1>6. CASE ChunkCut
  <2>1. /\ Len(rest) > limit /\ stage' = "loop"
        /\ parts' = Append(parts, TrimSpace(SubSeq(rest, 1, Cut(rest, limit))))
        /\ rest' = TrimSpace(SubSeq(rest, Cut(rest, limit) + 1, Len(rest)))
    BY <1>6 DEF ChunkCut
  <2>2. Sound(c, limit, rest', parts')
    BY <1>2, <2>1, CutStep
  <2> QED
    BY <1>3, <1>4, <2>1, <2>2 DEF ChunkInv
<1>7. CASE ChunkLast
  <2>1. /\ Len(rest) <= limit /\ rest' = <<>> /\ stage' = "done"
        /\ parts' = IF rest = <<>> THEN parts ELSE Append(parts, TrimSpace(rest))
    BY <1>7 DEF ChunkLast
  <2>2. CASE rest = <<>>
    <3>1. rest' = rest /\ parts' = parts
      BY <2>1, <2>2
    <3> QED
      BY <1>2, <1>3, <1>4, <2>1, <3>1 DEF ChunkInv
  <2>3. CASE rest # <<>>
    <3>1. rest \in Seq(Bytes) /\ Tight(rest)
      BY <1>2 DEF Sound
    <3>2. parts' = Append(parts, rest)
      BY <2>1, <2>3, <3>1, TrimIsTight
    <3>3. Sound(c, limit, <<>>, Append(parts, rest))
      BY <1>2, <2>1, <2>3, LastStep
    <3>4. Sound(c, limit, rest', parts')
      BY <2>1, <3>2, <3>3
    <3> QED
      BY <1>3, <1>4, <2>1, <3>4 DEF ChunkInv
  <2> QED
    BY <2>2, <2>3
<1>8. CASE UNCHANGED textVars
  <2>1. rest' = rest /\ parts' = parts /\ stage' = stage
    BY <1>8 DEF textVars
  <2> QED
    BY <1>2, <1>3, <1>4, <2>1 DEF ChunkInv
<1> QED
  BY <1>5, <1>6, <1>7, <1>8 DEF TextNext

(* The chunks and the rest are the text, the chunks fit, and no word is    *)
(* cut without need, whatever the text, its length and the limit (Chunk).  *)
THEOREM Chunks == TextSpec => []ChunksAreText
<1>1. ChunkInv => ChunksAreText
  <2> SUFFICES ASSUME ChunkInv PROVE ChunksAreText
    OBVIOUS
  <2>1. PICK c : c = Clean(text)
    OBVIOUS
  <2>2. Sound(c, limit, rest, parts)
    BY <2>1 DEF ChunkInv
  <2>3. NothingLost
    <3>1. rest \in Seq(Bytes) /\ parts \in Seq(Seq(Bytes))
      BY <2>2 DEF Sound
    <3>2. PICK p \in Seq(Bytes) : c = p \o rest /\ NoBlanks(p) = NoBlanks(FlattenSeq(parts))
      BY <2>2 DEF Sound
    <3>3. NoBlanks(p \o rest) = NoBlanks(p) \o NoBlanks(rest)
      BY <3>1, NoBlanksSplit
    <3>4. FlattenSeq(parts) \in Seq(Bytes)
      BY <3>1, FlattenType
    <3>5. NoBlanks(FlattenSeq(parts) \o rest) = NoBlanks(FlattenSeq(parts)) \o NoBlanks(rest)
      BY <3>1, <3>4, NoBlanksSplit
    <3>6. NoBlanks(FlattenSeq(parts) \o rest) = NoBlanks(c)
      BY <3>2, <3>3, <3>5
    <3> QED
      BY <2>1, <3>6 DEF NothingLost
  <2>4. ChunksFit
    BY <2>2 DEF Sound, ChunksFit
  <2>5. WordsKept
    <3>1. \A k \in 1..(Len(parts) - 1) : WellCut(c, limit, parts, k, parts[k + 1])
      BY <2>2 DEF Sound
    <3> QED
      BY <2>1, <3>1 DEF WordsKept, CutWell, WellCut
  <2> QED
    BY <2>3, <2>4, <2>5 DEF ChunksAreText
<1> QED
  BY <1>1, ChunkInit, ChunkNext, PTL DEF TextSpec
-----------------------------------------------------------------------------
(* Shortening.                                                             *)

(* A text that has something to say.                                       *)
Speaks(t) == \E i \in 1..Len(t) : t[i] # Blank

(* A text that has something to say has still something to say with more   *)
(* before it or after it, and is not empty.                                *)
LEMMA SpeaksMore ==
    ASSUME NEW p \in Seq(Bytes), NEW q \in Seq(Bytes)
    PROVE  /\ Speaks(p) \/ Speaks(q) => Speaks(p \o q)
           /\ Speaks(p) => p # <<>>
<1>1. Len(p) \in Nat /\ Len(q) \in Nat
  BY LenProperties
<1>2. /\ Len(p \o q) = Len(p) + Len(q)
      /\ \A i \in 1..Len(p) : (p \o q)[i] = p[i]
      /\ \A i \in 1..Len(q) : (p \o q)[Len(p) + i] = q[i]
  BY ConcatProperties
<1>3. ASSUME NEW i \in 1..Len(p), p[i] # Blank
      PROVE  Speaks(p \o q)
  <2>1. i \in 1..Len(p \o q)
    BY <1>1, <1>2
  <2>2. (p \o q)[i] # Blank
    BY <1>2, <1>3
  <2> QED
    BY <2>1, <2>2 DEF Speaks
<1>4. ASSUME NEW i \in 1..Len(q), q[i] # Blank
      PROVE  Speaks(p \o q)
  <2>1. Len(p) + i \in 1..Len(p \o q)
    BY <1>1, <1>2
  <2>2. (p \o q)[Len(p) + i] # Blank
    BY <1>2, <1>4
  <2> QED
    BY <2>1, <2>2 DEF Speaks
<1>5. Speaks(p) => p # <<>>
  BY <1>1, LenProperties DEF Speaks
<1> QED
  BY <1>3, <1>4, <1>5 DEF Speaks

(* A text that is cut to a limit is within it, and not cut to nothing.     *)
LEMMA TruncateFits ==
    ASSUME NEW t \in Seq(Bytes), NEW lim \in Nat \ {0}
    PROVE  /\ Truncate(t, lim) \in Seq(Bytes)
           /\ Len(Truncate(t, lim)) <= lim
           /\ Speaks(t) => Speaks(Truncate(t, lim))
<1>1. PICK v, n : v = TrimSpace(t) /\ n = Len(v)
  OBVIOUS
<1>2. /\ v \in Seq(Bytes) /\ n \in Nat /\ Tight(v)
      /\ Speaks(t) => v # <<>>
  BY <1>1, TrimIsTight DEF Speaks
<1>3. Speaks(t) => v # <<>> /\ n > 0 /\ v[1] # Blank
  BY <1>1, <1>2, LenProperties DEF Tight
<1>4. CASE n <= lim
  <2>1. Truncate(t, lim) = v
    BY <1>1, <1>4 DEF Truncate
  <2>2. Speaks(t) => Speaks(v)
    <3>1. n > 0 => 1 \in 1..Len(v)
      BY <1>1, <1>2
    <3> QED
      BY <1>3, <3>1 DEF Speaks
  <2> QED
    BY <1>1, <1>2, <1>4, <2>1, <2>2
<1>5. CASE n > lim /\ lim <= 3
  <2>1. Truncate(t, lim) = SubSeq(v, 1, lim)
    <3>1. ~(lim <= 0 \/ n <= lim)
      BY <1>2, <1>5
    <3>2. lim <= 3 /\ n > lim /\ lim > 0
      BY <1>2, <1>5
    <3> QED
      BY <1>1, <3>1, <3>2 DEF Truncate
  <2>2. PICK u : u = SubSeq(v, 1, lim)
    OBVIOUS
  <2>3. u \in Seq(Bytes) /\ Len(u) = lim /\ \A i \in 1..lim : u[i] = v[i]
    <3>1. lim \in Nat /\ lim <= Len(v)
      BY <1>1, <1>2, <1>5
    <3> QED
      BY <1>2, <2>2, <3>1, SplitAt
  <2>4. 1 \in 1..Len(u) /\ u[1] = v[1]
    <3>1. 1 \in 1..lim
      OBVIOUS
    <3> QED
      BY <2>3, <3>1
  <2>5. Speaks(t) => Speaks(u)
    BY <1>3, <2>4 DEF Speaks
  <2> QED
    BY <2>1, <2>2, <2>3, <2>5
<1>6. CASE n > lim /\ lim > 3
  <2> DEFINE dots == <<".", ".", ".">>
  <2>1. Truncate(t, lim) = TrimSpace(SubSeq(v, 1, lim - 3)) \o dots
    <3>1. ~(lim <= 0 \/ n <= lim)
      BY <1>2, <1>6
    <3>2. ~(lim <= 3 /\ n > lim /\ lim > 0)
      BY <1>2, <1>6
    <3> QED
      BY <1>1, <3>1, <3>2 DEF Truncate
  <2>2. /\ dots \in Seq(Bytes) /\ Len(dots) = 3 /\ dots[1] = "." /\ 1 \in 1..Len(dots)
    BY DEF Bytes
  <2> HIDE DEF dots
  <2>3. Speaks(dots)
    BY <2>2 DEF Speaks, Blank
  <2>4. PICK m \in Nat : m = lim - 3 /\ m <= n
    BY <1>2, <1>6
  <2>5. PICK u, w : u = SubSeq(v, 1, m) /\ w = TrimSpace(u)
    OBVIOUS
  <2>6. u \in Seq(Bytes) /\ Len(u) = m
    BY <1>1, <1>2, <2>4, <2>5, SplitAt
  <2>7. w \in Seq(Bytes) /\ Len(w) \in Nat /\ Len(w) <= m
    <3>1. /\ TrimSpace(u) \in Seq(Bytes) /\ Len(TrimSpace(u)) \in Nat
          /\ Len(TrimSpace(u)) <= Len(u)
      BY <2>6, TrimIsTight
    <3> QED
      BY <2>5, <2>6, <3>1
  <2>8. w \o dots \in Seq(Bytes) /\ Len(w \o dots) = Len(w) + 3
    <3>1. dots \in Seq(Bytes) /\ w \in Seq(Bytes)
      BY <2>2, <2>7
    <3>2. w \o dots \in Seq(Bytes) /\ Len(w \o dots) = Len(w) + Len(dots)
      BY <3>1, ConcatProperties
    <3> QED
      BY <2>2, <3>2
  <2>9. Speaks(w \o dots)
    BY <2>2, <2>3, <2>7, SpeaksMore
  <2>10. Len(w) + 3 <= lim
    BY <2>4, <2>7
  <2> QED
    BY <2>1, <2>4, <2>5, <2>8, <2>9, <2>10
<1>7. n <= lim \/ (n > lim /\ lim <= 3) \/ (n > lim /\ lim > 3)
  BY <1>2
<1> QED
  BY <1>4, <1>5, <1>6, <1>7

(* The fields of a text are texts.                                         *)
LEMMA FieldsAreTexts ==
    ASSUME NEW t \in Seq(Bytes)
    PROVE  Fields(t) \in Seq(Seq(Bytes))
<1> DEFINE n == Len(t)
           Starts(i) == t[i] \notin Stops /\ (i = 1 \/ t[i - 1] \in Stops)
           Run(i) == {j \in i..n : \A k \in i..j : t[k] \notin Stops}
           f == [i \in 1..n |-> IF Starts(i) THEN <<SubSeq(t, i, Max(Run(i)))>> ELSE <<>>]
           T == Seq(Bytes)
<1>1. n \in Nat /\ \A i \in 1..n : t[i] \in Bytes
  BY LenProperties, ElementOfSeq
<1>2. ASSUME NEW i \in 1..n, Starts(i)
      PROVE  SubSeq(t, i, Max(Run(i))) \in T
  <2>1. PICK W : W = Run(i)
    OBVIOUS
  <2>2. W \subseteq 0..n /\ i \in W /\ \A j \in W : j \in i..n
    <3>1. \A k \in i..i : k = i
      OBVIOUS
    <3> QED
      BY <1>1, <1>2, <2>1, <3>1
  <2>3. Max(W) \in W
    <3>1. W # {}
      BY <2>2
    <3> QED
      BY <1>1, <2>2, <3>1, MinMaxNat
  <2>4. PICK j : j = Max(W)
    OBVIOUS
  <2>5. j \in i..n
    BY <2>2, <2>3, <2>4
  <2>6. i \in Int /\ j \in Int /\ \A k \in i..j : t[k] \in Bytes
    BY <1>1, <2>5
  <2>7. SubSeq(t, i, j) \in Seq(Bytes)
    BY <2>6, SubSeqProperties
  <2> QED
    BY <2>1, <2>4, <2>7
<1>3. Fields(t) = FlattenSeq(f)
  BY DEF Fields
<1> HIDE DEF T
<1>4. \A i \in 1..n : f[i] \in Seq(T)
  <2> HIDE DEF Starts, Run
  <2>1. ASSUME NEW i \in 1..n
        PROVE  f[i] \in Seq(T)
    <3>1. CASE Starts(i)
      <4>1. PICK s : s = SubSeq(t, i, Max(Run(i)))
        OBVIOUS
      <4>2. s \in T /\ f[i] = <<s>>
        BY <1>2, <3>1, <4>1
      <4> HIDE DEF f
      <4> QED
        BY <4>2
    <3>2. CASE ~Starts(i)
      <4>1. f[i] = <<>>
        BY <3>2
      <4> QED
        BY <4>1, EmptySeq
    <3> QED
      BY <3>1, <3>2
  <2> QED
    BY <2>1
<1>5. f = [i \in 1..n |-> f[i]]
  OBVIOUS
<1>6. n \in 0..n
  BY <1>1
<1> HIDE DEF f, n
<1>7. FlattenSeq([i \in 1..n |-> f[i]]) \in Seq(T)
  BY <1>1, <1>4, <1>6, FlattenPrefixes
<1> QED
  BY <1>3, <1>5, <1>7 DEF T

(* The first sentences are a text, and if there is one they say something: *)
(* the full stop that each of them gets.                                   *)
LEMMA SentencesSpeak ==
    ASSUME NEW t \in Seq(Bytes), NEW count \in Nat
    PROVE  /\ FirstSentences(t, count) \in Seq(Bytes)
           /\ FirstSentences(t, count) # <<>> => Speaks(FirstSentences(t, count))
<1> DEFINE T == Seq(Bytes)
           first == SubSeq(Fields(t), 1, Min({count, Len(Fields(t))}))
           g == [k \in 1..Len(first) |->
                   IF TrimSpace(first[k]) = <<>> THEN <<>> ELSE <<TrimSpace(first[k])>>]
           kept == FlattenSeq(g)
           h == [k \in 1..Len(kept) |->
                   (IF k = 1 THEN <<>> ELSE <<Blank>>) \o kept[k] \o <<".">>]
<1>1. FirstSentences(t, count) = FlattenSeq(h)
  BY DEF FirstSentences
<1>2. first \in Seq(T)
  <2>1. PICK fs : fs = Fields(t)
    OBVIOUS
  <2>2. fs \in Seq(T)
    BY <2>1, FieldsAreTexts
  <2> HIDE DEF T
  <2>3. Len(fs) \in Nat
    BY <2>2, LenProperties
  <2>4. PICK W : W = {count, Len(fs)}
    OBVIOUS
  <2>5. PICK n \in Nat : n = count + Len(fs)
    BY <2>3
  <2>6. W \subseteq 0..n /\ W # {} /\ Len(fs) \in W
    BY <2>3, <2>4, <2>5
  <2>7. Min(W) \in W /\ Min(W) <= Len(fs)
    BY <2>6, MinMaxNat
  <2>8. PICK m : m = Min(W)
    OBVIOUS
  <2>9. m \in Nat /\ m <= Len(fs)
    BY <2>3, <2>4, <2>7, <2>8
  <2>10. 1 \in Int /\ m \in Int /\ \A k \in 1..m : fs[k] \in T
    BY <2>2, <2>3, <2>9, ElementOfSeq
  <2>11. SubSeq(fs, 1, m) \in Seq(T)
    BY <2>10, SubSeqProperties
  <2> QED
    BY <2>1, <2>4, <2>8, <2>11
<1> HIDE DEF first
<1>3. kept \in Seq(T)
  <2>1. PICK n : n = Len(first)
    OBVIOUS
  <2>2. n \in Nat /\ n \in 0..n
    BY <1>2, <2>1, LenProperties
  <2>3. ASSUME NEW k \in 1..n
        PROVE  g[k] \in Seq(T)
    <3>1. PICK s : s = TrimSpace(first[k])
      OBVIOUS
    <3>2. first[k] \in T
      BY <1>2, <2>1, ElementOfSeq
    <3>3. s \in T
      BY <3>1, <3>2, TrimIsTight
    <3> HIDE DEF T
    <3>4. g[k] = IF s = <<>> THEN <<>> ELSE <<s>>
      BY <2>1, <3>1
    <3> HIDE DEF g
    <3> QED
      BY <3>3, <3>4
  <2>4. g = [k \in 1..n |-> g[k]]
    BY <2>1
  <2> HIDE DEF g, T
  <2>5. FlattenSeq([k \in 1..n |-> g[k]]) \in Seq(T)
    BY <2>2, <2>3, FlattenPrefixes
  <2> QED
    BY <2>4, <2>5
<1> HIDE DEF kept
<1>4. PICK n : n = Len(kept)
  OBVIOUS
<1>5. n \in Nat /\ n \in 0..n
  BY <1>3, <1>4, LenProperties
<1>6. ASSUME NEW k \in 1..n
      PROVE  h[k] \in Seq(Bytes) /\ Speaks(h[k])
  <2>1. PICK a, b, d : /\ a = (IF k = 1 THEN <<>> ELSE <<Blank>>)
                       /\ b = kept[k] /\ d = <<".">>
    OBVIOUS
  <2>2. a \in Seq(Bytes)
    <3>1. <<Blank>> \in Seq(Bytes) /\ <<>> \in Seq(Bytes)
      BY DEF Bytes
    <3> HIDE DEF h
    <3> QED
      BY <2>1, <3>1
  <2>3. b \in Seq(Bytes)
    <3>1. kept[k] \in T
      BY <1>3, <1>4, ElementOfSeq
    <3> QED
      BY <2>1, <3>1
  <2>4. d \in Seq(Bytes) /\ Speaks(d)
    <3> HIDE DEF h
    <3>1. d \in Seq(Bytes) /\ Len(d) = 1 /\ d[1] = "."
      BY <2>1 DEF Bytes
    <3>2. "." # Blank /\ 1 \in 1..1
      BY DEF Blank
    <3> QED
      BY <3>1, <3>2 DEF Speaks
  <2>5. h[k] = (a \o b) \o d
    BY <1>4, <2>1
  <2> HIDE DEF h
  <2>6. a \o b \in Seq(Bytes)
    BY <2>2, <2>3, ConcatProperties
  <2>7. (a \o b) \o d \in Seq(Bytes)
    BY <2>4, <2>6, ConcatProperties
  <2>8. Speaks((a \o b) \o d)
    BY <2>4, <2>6, SpeaksMore
  <2> QED
    BY <2>5, <2>7, <2>8
<1>7. h = [k \in 1..n |-> h[k]]
  BY <1>4
<1> HIDE DEF h
<1>8. /\ FlattenSeq([k \in 1..0 |-> h[k]]) = <<>>
      /\ \A k \in 0..n : FlattenSeq([i \in 1..k |-> h[i]]) \in Seq(Bytes)
      /\ \A k \in 0..(n - 1) :
           FlattenSeq([i \in 1..(k + 1) |-> h[i]])
             = FlattenSeq([i \in 1..k |-> h[i]]) \o h[k + 1]
  BY <1>5, <1>6, FlattenPrefixes
<1>9. FlattenSeq(h) \in Seq(Bytes)
  BY <1>5, <1>7, <1>8
<1>10. CASE n = 0
  BY <1>1, <1>7, <1>8, <1>9, <1>10
<1>11. CASE n # 0
  <2>1. PICK m \in 0..(n - 1) : m + 1 = n /\ m \in 0..n /\ n \in 1..n
    <3>1. n - 1 \in 0..(n - 1) /\ (n - 1) + 1 = n /\ n - 1 \in 0..n /\ n \in 1..n
      BY <1>5, <1>11
    <3> QED
      BY <3>1
  <2>2. PICK s : s = FlattenSeq([i \in 1..m |-> h[i]])
    OBVIOUS
  <2>3. s \in Seq(Bytes)
    BY <1>8, <2>1, <2>2
  <2>4. FlattenSeq(h) = s \o h[n]
    BY <1>7, <1>8, <2>1, <2>2
  <2>5. h[n] \in Seq(Bytes) /\ Speaks(h[n])
    BY <1>6, <2>1
  <2>6. Speaks(s \o h[n])
    BY <2>3, <2>5, SpeaksMore
  <2> QED
    BY <1>1, <1>9, <2>4, <2>6
<1> QED
  BY <1>10, <1>11

(* What is queued is within the limit of its mode, and a reply that says   *)
(* something is not shortened to nothing, whatever the text, its length    *)
(* and the limit (Build, HandleEvent).                                     *)
THEOREM QueuedTextFits == TextSpec => []SpeechFits
<1>1. ChunkInv => SpeechFits
  <2> SUFFICES ASSUME ChunkInv, NEW mode \in {"concise", "normal"}
               PROVE  /\ Len(SpeechOf(mode, text, limit)) <= limit
                      /\ SpeechOf(mode, text, limit) = <<>> <=> Clean(text) = <<>>
    BY DEF SpeechFits
  <2>1. PICK c, lim, s : c = Clean(text) /\ lim = limit /\ s = SpeechOf(mode, text, limit)
    OBVIOUS
  <2>2. c \in Seq(Bytes) /\ Tight(c) /\ lim \in Nat \ {0}
    <3>1. c \in Seq(Bytes) /\ Tight(c)
      BY <2>1, CleanIsTight DEF ChunkInv
    <3>2. lim \in Nat \ {0}
      BY <2>1 DEF ChunkInv, Sound
    <3> QED
      BY <3>1, <3>2
  <2>3. PICK count \in Nat : count = IF mode = "concise" THEN 1 ELSE 3
    OBVIOUS
  <2>4. PICK short : short = FirstSentences(c, count)
    OBVIOUS
  <2>5. mode # "heavy"
    OBVIOUS
  <2>6. s = IF c = <<>> THEN c
            ELSE Truncate(IF short = <<>> THEN Truncate(c, lim) ELSE short, lim)
    BY <2>1, <2>3, <2>4, <2>5 DEF SpeechOf
  <2>7. CASE c = <<>>
    <3>1. s = <<>> /\ Len(<<>>) = 0 /\ 0 <= lim
      BY <2>2, <2>6, <2>7
    <3> QED
      BY <2>1, <2>7, <3>1
  <2>8. CASE c # <<>>
    <3>1. Speaks(c)
      <4>1. 1 \in 1..Len(c)
        BY <2>2, <2>8, LenProperties
      <4> QED
        BY <2>2, <2>8, <4>1 DEF Tight, Speaks
    <3>2. PICK u : u = IF short = <<>> THEN Truncate(c, lim) ELSE short
      OBVIOUS
    <3>3. u \in Seq(Bytes) /\ Speaks(u)
      <4>1. Truncate(c, lim) \in Seq(Bytes) /\ Speaks(Truncate(c, lim))
        BY <2>2, <3>1, TruncateFits
      <4>2. short \in Seq(Bytes) /\ (short # <<>> => Speaks(short))
        BY <2>2, <2>4, SentencesSpeak
      <4> QED
        BY <3>2, <4>1, <4>2
    <3>4. s = Truncate(u, lim)
      BY <2>6, <2>8, <3>2
    <3>5. s \in Seq(Bytes) /\ Len(s) <= lim /\ Speaks(s)
      BY <2>2, <3>3, <3>4, TruncateFits
    <3>6. s # <<>>
      BY <3>5, SpeaksMore
    <3> QED
      BY <2>1, <2>8, <3>5, <3>6
  <2> QED
    BY <2>7, <2>8
<1> QED
  BY <1>1, ChunkInit, ChunkNext, PTL DEF TextSpec
===============================================================================
