-------------------------- MODULE VaultNotesProofs --------------------------
(***************************************************************************)
(* What VaultNotes promises, for records with texts of any length, any     *)
(* tokens in them, and any number of edits, from NotesAssumption alone:    *)
(* what stands in the notes, what is read of them, what edits leave of     *)
(* them.                                                                   *)
(*                                                                         *)
(* Trim, Separator and Field speak of the least or greatest position of a  *)
(* token or of a line, so no lemma goes by induction over a sequence: a    *)
(* set of positions has a first and a last one (MinOfPositions,            *)
(* MaxOfPositions, from the well-foundedness of < on Nat).  A written line *)
(* begins with a key and "=", so these two are its key and its separator   *)
(* whatever stands behind them (FieldLine), and the last line of a key is  *)
(* the one that counts (LastLineCounts).                                   *)
(*                                                                         *)
(* Kept is inductive and enough for notes that nobody edited.  For edited  *)
(* ones it says too little: Recoverable adds of each line what may stand   *)
(* there after any number of edits.                                        *)
(***************************************************************************)
EXTENDS VaultNotes, SequenceTheorems, WellFoundedInduction, TLAPS

-----------------------------------------------------------------------------
(* Least and greatest lines and tokens.                                    *)

\* A set of positions has a first one.
LEMMA MinOfPositions ==
  ASSUME NEW n \in Nat, NEW S \in SUBSET (1 .. n), S # {}
  PROVE  Min(S) \in S /\ \A i \in S : Min(S) <= i
<1>1. PICK i \in S : \A j \in S : <<j, i>> \notin OpToRel(<, Nat)
  <2>1. S \subseteq Nat
    OBVIOUS
  <2> QED  BY <2>1, WFMin, NatLessThanWellFounded, Zenon
<1>2. ASSUME NEW j \in S PROVE i <= j
  <2>1. i \in Nat /\ j \in Nat
    OBVIOUS
  <2>2. <<j, i>> \in Nat \X Nat /\ <<j, i>>[1] = j /\ <<j, i>>[2] = i
    BY <2>1
  <2>3. ~(j < i)
    BY <1>1, <2>2, Zenon DEF OpToRel
  <2> QED  BY <2>1, <2>3
<1>3. i \in S /\ \A j \in S : i <= j
  BY <1>2
<1> QED  BY <1>3 DEF Min

\* And a last one.
LEMMA MaxOfPositions ==
  ASSUME NEW n \in Nat, NEW S \in SUBSET (1 .. n), S # {}
  PROVE  Max(S) \in S /\ \A i \in S : i <= Max(S)
<1> DEFINE T == {n + 1 - i : i \in S}
<1>1. T \in SUBSET (1 .. n) /\ T # {}
  <2>1. \A i \in S : n + 1 - i \in 1 .. n
    OBVIOUS
  <2> QED  BY <2>1
<1>2. Min(T) \in T /\ \A t \in T : Min(T) <= t
  BY <1>1, MinOfPositions
<1>3. PICK i \in S : Min(T) = n + 1 - i
  BY <1>2
<1>4. \A j \in S : n + 1 - i <= n + 1 - j
  BY <1>2, <1>3
<1>5. i \in S /\ \A j \in S : i >= j
  BY <1>4
<1> QED  BY <1>5 DEF Max

-----------------------------------------------------------------------------
(* Lines.                                                                  *)

\* A line is its tokens; a text is its lines.
LEMMA Positions ==
  ASSUME NEW S, NEW s \in Seq(S)
  PROVE  /\ Len(s) \in Nat
         /\ DOMAIN s = 1 .. Len(s)
         /\ \A i \in 1 .. Len(s) : s[i] \in S
         /\ s = <<>> <=> Len(s) = 0
<1>1. Len(s) \in Nat /\ DOMAIN s = 1 .. Len(s) /\ s \in [1 .. Len(s) -> S]
  BY LenProperties
<1>2. Len(s) = 0 => s = <<>>
  <2>1. s # <<>> => Len(s) \in Nat \ {0}
    BY EmptySeq
  <2> QED  BY <2>1
<1>3. s = <<>> => Len(s) = 0
  <2>1. Len(<<>>) = 0
    BY EmptySeq
  <2> QED  BY <2>1
<1> QED  BY <1>1, <1>2, <1>3

\* A sequence of one element, and that no other is like it.
LEMMA Singleton ==
  ASSUME NEW S, NEW e \in S
  PROVE  /\ <<e>> \in Seq(S) /\ Len(<<e>>) = 1 /\ <<e>>[1] = e
         /\ \A s \in Seq(S) : Len(s) = 1 /\ s[1] = e => s = <<e>>
<1>1. <<e>> \in Seq(S) /\ Len(<<e>>) = 1 /\ <<e>>[1] = e
  OBVIOUS
<1>2. ASSUME NEW s \in Seq(S), Len(s) = 1, s[1] = e
      PROVE  s = <<e>>
  <2> DEFINE t == <<e>>
  <2>1. t \in Seq(S) /\ Len(t) = 1 /\ t[1] = e
    BY <1>1
  <2> HIDE DEF t
  <2>2. s = t
    BY <1>2, <2>1, SeqEqual
  <2> QED  BY <2>2 DEF t
<1> QED  BY <1>1, <1>2

\* One line is a text.
LEMMA OneLineText ==
  ASSUME NEW line \in Seq(Tokens)
  PROVE  <<line>> \in Texts
<1>1. <<line>> \in Seq(Seq(Tokens)) /\ Len(<<line>>) = 1
  BY Singleton
<1>2. <<line>> # <<>>
  BY <1>1, Positions
<1> QED  BY <1>1, <1>2 DEF Texts

\* Of two sequences one behind the other, each element is where it was, or
\* the first one's length further on.
LEMMA Concat ==
  ASSUME NEW S, NEW s \in Seq(S), NEW t \in Seq(S)
  PROVE  /\ s \o t \in Seq(S)
         /\ Len(s \o t) = Len(s) + Len(t)
         /\ \A i \in 1 .. Len(s) : (s \o t)[i] = s[i]
         /\ \A i \in 1 .. Len(t) : (s \o t)[Len(s) + i] = t[i]
OBVIOUS

\* Trimming a line leaves a line; one that begins with ink keeps its head,
\* and one with any ink keeps some.
LEMMA TrimLine ==
  ASSUME NEW line \in Seq(Tokens)
  PROVE  /\ Trim(line) \in Seq(Tokens)
         /\ Len(Trim(line)) <= Len(line)
         /\ line = <<>> => Trim(line) = <<>>
         /\ Trim(line) # <<>> => Trim(line)[1] # Space
         /\ line # <<>> /\ line[1] # Space =>
              Trim(line) # <<>> /\ Trim(line)[1] = line[1]
<1> DEFINE ink == {i \in DOMAIN line : line[i] # Space}
<1>1. Len(line) \in Nat /\ ink \in SUBSET (1 .. Len(line)) /\ DOMAIN line = 1 .. Len(line)
  BY Positions
<1>2. CASE ink = {}
  <2>1. Trim(line) = <<>>
    BY <1>2 DEF Trim
  <2>2. ~(line # <<>> /\ line[1] # Space)
    <3>1. line # <<>> => 1 \in DOMAIN line
      BY <1>1, Positions
    <3> QED  BY <3>1, <1>2
  <2>3. <<>> \in Seq(Tokens) /\ Len(<<>>) = 0
    BY EmptySeq
  <2> QED  BY <1>1, <2>1, <2>2, <2>3
<1>3. CASE ink # {}
  <2> DEFINE a == Min(ink)
             b == Max(ink)
  <2>1. a \in ink /\ b \in ink /\ a <= b /\ \A i \in ink : a <= i
    BY <1>1, <1>3, MinOfPositions, MaxOfPositions
  <2>2. Trim(line) = SubSeq(line, a, b)
    BY <1>3 DEF Trim
  <2>3. a \in 1 .. Len(line) /\ b \in 1 .. Len(line) /\ line[a] # Space
    BY <1>1, <2>1
  <2> HIDE DEF a, b
  <2>4. \A i \in a .. b : line[i] \in Tokens
    BY <1>1, <2>3, ElementOfSeq
  <2>5. /\ Trim(line) \in Seq(Tokens)
        /\ Len(Trim(line)) = b - a + 1
        /\ Trim(line)[1] = line[a]
    BY <2>1, <2>2, <2>3, <2>4, SubSeqProperties
  <2>6. Trim(line) # <<>> /\ Len(Trim(line)) <= Len(line)
    BY <2>1, <2>3, <2>5, <1>1, Positions
  <2>7. line # <<>> /\ line[1] # Space => a = 1
    <3>1. line # <<>> => 1 \in DOMAIN line
      BY <1>1, Positions
    <3>2. line # <<>> /\ line[1] # Space => 1 \in ink
      BY <3>1
    <3> QED  BY <2>1, <2>3, <3>2
  <2> QED  BY <2>3, <2>5, <2>6, <2>7
<1> QED  BY <1>2, <1>3

\* A single token that is no blank is trimmed to itself.
LEMMA TrimToken ==
  ASSUME NEW token \in Tokens, token # Space
  PROVE  Trim(<<token>>) = <<token>>
<1>1. <<token>> \in Seq(Tokens) /\ Len(<<token>>) = 1 /\ <<token>>[1] = token
  BY Singleton
<1>2. /\ Trim(<<token>>) \in Seq(Tokens)
      /\ Len(Trim(<<token>>)) <= 1
      /\ Trim(<<token>>) # <<>>
      /\ Trim(<<token>>)[1] = token
  BY <1>1, TrimLine
<1>3. Len(Trim(<<token>>)) = 1
  BY <1>2, Positions
<1> QED  BY <1>2, <1>3, Singleton

\* A text that says something still does when it is trimmed.
LEMMA TrimKeepsInk ==
  ASSUME NEW line \in Seq(Tokens), Trim(line) # <<>>
  PROVE  Trim(Trim(line)) # <<>>
BY TrimLine

\* What is written after a key and the first separator is what is read there.
LEMMA FieldLine ==
  ASSUME NEW key \in Tokens \ {"=", Space}, NEW value \in Seq(Tokens)
  PROVE  LET line == <<key, "=">> \o value IN
         /\ line \in Seq(Tokens)
         /\ Len(line) = Len(value) + 2
         /\ line[1] = key
         /\ line[2] = "="
         /\ \A i \in 1 .. Len(value) : line[i + 2] = value[i]
         /\ SubSeq(line, 3, Len(line)) = value
         /\ SubSeq(line, 1, 2) = <<key, "=">>
         /\ Separator(line) = 2
         /\ Key(line) = <<key>>
         /\ Value(line) = Trim(value)
<1> DEFINE head == <<key, "=">>
           line == head \o value
<1>1. head \in Seq(Tokens) /\ Len(head) = 2 /\ head[1] = key /\ head[2] = "="
  <2>1. key \in Tokens /\ "=" \in Tokens
    BY NotesAssumption
  <2>2. \A S : \A a, b \in S :
          <<a, b>> \in Seq(S) /\ Len(<<a, b>>) = 2 /\ <<a, b>>[1] = a /\ <<a, b>>[2] = b
    OBVIOUS
  <2> QED  BY <2>1, <2>2
<1> HIDE DEF head
<1>2. /\ line \in Seq(Tokens)
      /\ Len(line) = 2 + Len(value)
      /\ \A i \in 1 .. 2 + Len(value) :
           line[i] = IF i <= 2 THEN head[i] ELSE value[i - 2]
  <2>1. /\ line \in Seq(Tokens)
        /\ Len(line) = Len(head) + Len(value)
        /\ \A i \in 1 .. Len(head) + Len(value) :
             line[i] = IF i <= Len(head) THEN head[i] ELSE value[i - Len(head)]
    BY <1>1, ConcatProperties
  <2> HIDE DEF line
  <2> QED  BY <1>1, <2>1
<1>3. Len(value) \in Nat
  BY Positions
<1>4. line[1] = key /\ line[2] = "=" /\ 1 \in DOMAIN line /\ 2 \in DOMAIN line
  BY <1>1, <1>2, <1>3, Positions
<1> HIDE DEF line
<1>5. Separator(line) = 2
  <2> DEFINE at == {i \in DOMAIN line : line[i] = "="}
  <2>1. at \in SUBSET (1 .. Len(line)) /\ 2 \in at /\ 1 \notin at
    BY <1>2, <1>4, Positions
  <2>2. Min(at) \in at /\ Min(at) <= 2
    <3>1. Len(line) \in Nat /\ at # {}
      BY <1>2, <1>3, <2>1
    <3> HIDE DEF at
    <3> QED  BY <2>1, <3>1, MinOfPositions
  <2>3. Min(at) = 2
    <3> DEFINE m == Min(at)
    <3>1. m \in 1 .. Len(line) /\ m # 1 /\ m <= 2
      BY <2>1, <2>2
    <3> HIDE DEF m
    <3>2. m = 2
      BY <1>2, <1>3, <3>1
    <3> QED  BY <3>2 DEF m
  <2> QED  BY <2>1, <2>3 DEF Separator
<1>6. SubSeq(line, 3, Len(line)) = value
  <2>1. \A i \in 3 .. Len(line) : line[i] \in Tokens
    BY <1>2, <1>3, Positions
  <2>2. /\ SubSeq(line, 3, Len(line)) \in Seq(Tokens)
        /\ Len(SubSeq(line, 3, Len(line))) = Len(value)
        /\ \A i \in 1 .. Len(line) - 2 : SubSeq(line, 3, Len(line))[i] = line[3 + i - 1]
    BY <1>2, <1>3, <2>1, SubSeqProperties
  <2>3. \A i \in 1 .. Len(value) : SubSeq(line, 3, Len(line))[i] = value[i]
    BY <1>2, <1>3, <2>2
  <2> QED  BY <2>2, <2>3, SeqEqual
<1>7. SubSeq(line, 1, 1) = <<key>>
  <2>1. /\ SubSeq(line, 1, 1) \in Seq(Tokens)
        /\ Len(SubSeq(line, 1, 1)) = 1
        /\ SubSeq(line, 1, 1)[1] = key
    BY <1>2, <1>4, SubSeqProperties
  <2> QED  BY <2>1, Singleton
<1>8. SubSeq(line, 1, 2) = head
  <2>1. \A i \in 1 .. 2 : line[i] \in Tokens
    BY <1>2, <1>3, Positions
  <2>2. /\ SubSeq(line, 1, 2) \in Seq(Tokens)
        /\ Len(SubSeq(line, 1, 2)) = 2
        /\ \A i \in 1 .. 2 : SubSeq(line, 1, 2)[i] = line[1 + i - 1]
    BY <2>1, SubSeqProperties
  <2>3. \A i \in 1 .. 2 : SubSeq(line, 1, 2)[i] = head[i]
    BY <1>1, <1>2, <1>3, <2>2
  <2> QED  BY <1>1, <2>2, <2>3, SeqEqual
<1>9. Key(line) = <<key>> /\ Value(line) = Trim(value)
  <2> Separator(line) - 1 = 1 /\ Separator(line) + 1 = 3
    BY <1>5
  <2>1. Key(line) = Trim(<<key>>)
    BY <1>7 DEF Key
  <2>2. Trim(<<key>>) = <<key>>
    BY TrimToken
  <2>3. Value(line) = Trim(value)
    BY <1>6 DEF Value
  <2> QED  BY <2>1, <2>2, <2>3
<1>10. \A i \in 1 .. Len(value) : line[i + 2] = value[i]
  BY <1>2, <1>3
<1> QED  BY <1>2, <1>3, <1>4, <1>5, <1>6, <1>8, <1>9, <1>10 DEF line, head

\* Where a line is split, and that what stands there is the separator.
LEMMA SeparatorOfLine ==
  ASSUME NEW line \in Seq(Tokens)
  PROVE  /\ Separator(line) \in 0 .. Len(line)
         /\ Separator(line) = 0 <=> \A i \in 1 .. Len(line) : line[i] # "="
<1> DEFINE at == {i \in DOMAIN line : line[i] = "="}
<1>1. Len(line) \in Nat /\ DOMAIN line = 1 .. Len(line) /\ at \in SUBSET (1 .. Len(line))
  BY Positions
<1>2. CASE at = {}
  <2>1. Separator(line) = 0
    BY <1>2 DEF Separator
  <2> QED  BY <1>1, <1>2, <2>1
<1>3. CASE at # {}
  <2>1. Min(at) \in at
    <3> HIDE DEF at
    <3> QED  BY <1>1, <1>3, MinOfPositions
  <2>2. Separator(line) = Min(at)
    BY <1>3 DEF Separator
  <2>3. Separator(line) \in 1 .. Len(line) /\ line[Separator(line)] = "="
    BY <1>1, <2>1, <2>2
  <2> QED  BY <1>1, <2>3
<1> QED  BY <1>2, <1>3

\* A value is a line.
LEMMA ValueOfLine ==
  ASSUME NEW line \in Seq(Tokens)
  PROVE  Value(line) \in Seq(Tokens)
<1> DEFINE a == Separator(line) + 1
<1>1. Len(line) \in Nat /\ a \in 1 .. Len(line) + 1
  BY SeparatorOfLine, Positions
<1> HIDE DEF a
<1>2. \A i \in a .. Len(line) : line[i] \in Tokens
  BY <1>1, Positions
<1>3. SubSeq(line, a, Len(line)) \in Seq(Tokens)
  BY <1>1, <1>2, SubSeqProperties
<1> QED  BY <1>3, TrimLine DEF Value, a

-----------------------------------------------------------------------------
(* Fields.                                                                 *)

\* What is read under a key is the value of the last line that has it.
LEMMA FieldOfText ==
  ASSUME NEW text \in Seq(Seq(Tokens)), NEW key, LinesOf(text, key) # {}
  PROVE  \E i \in LinesOf(text, key) :
           /\ i \in 1 .. Len(text)
           /\ \A j \in LinesOf(text, key) : j <= i
           /\ Field(text, key) = Value(text[i])
           /\ Field(text, key) \in Seq(Tokens)
<1>1. Len(text) \in Nat /\ LinesOf(text, key) \in SUBSET (1 .. Len(text))
  BY Positions DEF LinesOf
<1>2. PICK i \in LinesOf(text, key) : i = Max(LinesOf(text, key))
                                     /\ \A j \in LinesOf(text, key) : j <= i
  BY <1>1, MaxOfPositions
<1>3. i \in 1 .. Len(text) /\ text[i] \in Seq(Tokens)
  BY <1>1, Positions
<1>4. Field(text, key) = Value(text[i]) /\ Value(text[i]) \in Seq(Tokens)
  BY <1>2, <1>3, ValueOfLine DEF Field
<1> QED  BY <1>2, <1>3, <1>4

\* Which sources are read, and as what.
LEMMA ViaOfValue ==
  ASSUME NEW value \in Seq(Tokens)
  PROVE  /\ Via(value) # Unparseable =>
              /\ value # <<>> /\ value[1] \in Kinds
              /\ value[1] = "migrated:" \/ Len(value) = 1
              /\ Via(value) \in Sources
         /\ value # <<>> /\ value[1] \in Kinds
              /\ (value[1] = "migrated:" \/ Len(value) = 1) =>
              Via(value) # Unparseable
<1>1. value = <<>> => Via(value) = Unparseable
  BY DEF Via
<1>2. ASSUME value # <<>> PROVE Head(value) = value[1]
  OBVIOUS
<1>3. ASSUME value # <<>>, value[1] \in Kinds, value[1] = "migrated:" \/ Len(value) = 1
      PROVE  Via(value) = [kind |-> value[1], found_at |-> <<Tail(value)>>]
  BY <1>2, <1>3 DEF Via
<1>4. ASSUME value # <<>>, ~(value[1] \in Kinds /\ (value[1] = "migrated:" \/ Len(value) = 1))
      PROVE  Via(value) = Unparseable
  BY <1>2, <1>4 DEF Via
<1>5. ASSUME value # <<>>, value[1] \in Kinds, value[1] = "migrated:" \/ Len(value) = 1
      PROVE  Via(value) \in Sources /\ Via(value) # Unparseable
  <2> DEFINE rest == Tail(value)
  <2>1. rest \in Seq(Tokens) /\ Len(rest) = Len(value) - 1
    BY <1>5, HeadTailProperties
  <2>2. Len(value) = 1 => rest = <<>>
    BY <2>1, Positions
  <2> HIDE DEF rest
  <2>3. <<rest>> \in Texts
    BY <2>1, OneLineText
  <2>4. Via(value) = [kind |-> value[1], found_at |-> <<rest>>]
    BY <1>3, <1>5 DEF rest
  <2>5. Via(value) \in Sources
    <3>1. CASE value[1] = "migrated:"
      BY <2>3, <2>4, <3>1 DEF Sources
    <3>2. CASE value[1] # "migrated:"
      <4>1. <<rest>> = <<<<>>>>
        BY <1>5, <2>2, <3>2
      <4>2. value[1] \in Kinds \ {"migrated:"}
        BY <1>5, <3>2
      <4> QED  BY <2>4, <4>1, <4>2 DEF Sources
    <3> QED  BY <3>1, <3>2
  <2>6. Via(value) # Unparseable
    <3>1. DOMAIN Via(value) = {"kind", "found_at"}
      BY <2>4
    <3>2. DOMAIN Unparseable = {"error"}
      BY DEF Unparseable
    <3> QED  BY <3>1, <3>2
  <2> QED  BY <2>5, <2>6
<1> QED  BY <1>1, <1>4, <1>5

\* Whatever the notes hold, get reads a record of the vault's type or none.
LEMMA DecodeIsMetadata ==
  ASSUME NEW text \in Seq(Seq(Tokens))
  PROVE  DecodeMetadata(text) \in Metadata \cup {Unparseable}
<1> SUFFICES ASSUME Complete(text)
             PROVE  DecodeMetadata(text) \in Metadata
  BY DEF DecodeMetadata
<1>1. \A key \in Mandatory : Field(text, key) \in Seq(Tokens)
  BY FieldOfText DEF Complete
<1>3. /\ <<Field(text, "provider")>> \in Texts
      /\ <<Field(text, "project")>> \in Texts
      /\ <<Field(text, "source_description")>> \in Texts
  BY <1>1, OneLineText DEF Mandatory
<1>4. Via(Field(text, "acquired_via")) \in Sources
  BY <1>1, ViaOfValue DEF Complete, Mandatory
<1>5. Field(text, "acquired_at")[1] \in Times /\ Field(text, "tier")[1] \in Tiers
  BY DEF Complete, TierParses, TimeParses
<1>6. Expiry(text) \in Times \cup {NoTime}
  BY DEF Expiry, TimeParses
<1> QED  BY <1>3, <1>4, <1>5, <1>6 DEF DecodeMetadata, Metadata

-----------------------------------------------------------------------------
(* What encode_metadata writes.                                            *)

\* The line that a value stands on.
Line(key, value) == <<key, "=">> \o value

\* No key is a separator or a blank, so a written line is read under its key.
LEMMA KeyIsToken ==
  ASSUME NEW key \in Keys
  PROVE  key \in Tokens \ {"=", Space}
BY NotesAssumption DEF Keys, Mandatory, Space

\* t is s and, below it, the lines of a field.
Appended(s, key, text, t) ==
  /\ t \in Seq(Seq(Tokens))
  /\ Len(s) \in Nat /\ Len(text) \in Nat \ {0}
  /\ Len(t) = Len(s) + Len(text)
  /\ \A i \in 1 .. Len(s) : t[i] = s[i]
  /\ t[Len(s) + 1] = Line(key, text[1])

\* format!: a field of the record is one line or more below those before it,
\* and the first one has its key.
LEMMA AppendField ==
  ASSUME NEW s \in Seq(Seq(Tokens)), NEW key \in Keys, NEW text \in Texts,
         NEW t, t = s \o KeyLines(key, text)
  PROVE  Appended(s, key, text, t)
<1> DEFINE lines == KeyLines(key, text)
<1>1. text \in Seq(Seq(Tokens)) /\ Len(text) \in Nat \ {0} /\ Len(s) \in Nat
  BY Positions DEF Texts
<1>2. text[1] \in Seq(Tokens)
  BY <1>1, Positions
<1>3. Line(key, text[1]) \in Seq(Tokens)
  BY <1>2, KeyIsToken, FieldLine DEF Line
<1>4. lines \in Seq(Seq(Tokens)) /\ Len(lines) = Len(text) /\ lines[1] = Line(key, text[1])
  <2>1. lines = [text EXCEPT ![1] = Line(key, text[1])]
    BY DEF KeyLines, Line
  <2>2. 1 \in 1 .. Len(text)
    BY <1>1
  <2> HIDE DEF lines
  <2> QED  BY <1>1, <1>3, <2>1, <2>2, ExceptSeq
<1> HIDE DEF lines
<1>5. /\ t \in Seq(Seq(Tokens))
      /\ Len(t) = Len(s) + Len(lines)
      /\ \A i \in 1 .. Len(s) : t[i] = s[i]
      /\ \A i \in 1 .. Len(lines) : t[Len(s) + i] = lines[i]
  <2>1. lines \in Seq(Seq(Tokens)) /\ t = s \o lines
    BY <1>4 DEF lines
  <2> QED  BY <2>1, Concat
<1>6. t[Len(s) + 1] = lines[1]
  BY <1>1, <1>4, <1>5
<1> QED  BY <1>1, <1>4, <1>5, <1>6 DEF lines, Appended

\* The texts of a record, by their keys.
Written(m) ==
  [provider           |-> m.provider,
   project            |-> m.project,
   source_description |-> m.source_description,
   acquired_via       |-> ViaText(m.acquired_via),
   acquired_at        |-> TimeText(m.acquired_at),
   expires_at         |-> TimeText(m.expires_at),
   tier               |-> <<<<m.tier>>>>]

\* Whatever stands in a record, each of its fields is a text, and its source
\* begins with its kind.
LEMMA WrittenIsText ==
  ASSUME NEW m \in Metadata
  PROVE  /\ \A key \in Keys : Written(m)[key] \in Texts
         /\ Len(ViaText(m.acquired_via)) = Len(m.acquired_via.found_at)
         /\ ViaText(m.acquired_via)[1] = <<m.acquired_via.kind>> \o m.acquired_via.found_at[1]
<1>1. ASSUME NEW s \in Seq(Seq(Tokens)), Len(s) # 0 PROVE s \in Texts
  BY <1>1, Positions DEF Texts
<1>2. ASSUME NEW token \in Tokens PROVE <<<<token>>>> \in Texts
  BY Singleton, OneLineText
<1>3. ASSUME NEW time \in Times \cup {NoTime} PROVE TimeText(time) \in Texts
  <2>1. <<<<>>>> \in Texts
    BY EmptySeq, OneLineText
  <2> QED  BY <1>2, <2>1, NotesAssumption DEF TimeText
<1>4. <<<<m.tier>>>> \in Texts
  BY <1>2, NotesAssumption DEF Metadata
<1>5. m.acquired_via.kind \in Tokens /\ m.acquired_via.found_at \in Texts
  <2>1. m.acquired_via \in Sources
    BY DEF Metadata
  <2>2. <<<<>>>> \in Texts
    BY EmptySeq, OneLineText
  <2>3. \A via \in Sources : via.kind \in Kinds /\ via.found_at \in Texts
    BY <2>2 DEF Sources, Kinds
  <2> QED  BY <2>1, <2>3, NotesAssumption
<1>6. /\ ViaText(m.acquired_via) \in Texts
      /\ Len(ViaText(m.acquired_via)) = Len(m.acquired_via.found_at)
      /\ ViaText(m.acquired_via)[1] = <<m.acquired_via.kind>> \o m.acquired_via.found_at[1]
  <2> DEFINE found == m.acquired_via.found_at
             head == <<m.acquired_via.kind>>
  <2>1. head \in Seq(Tokens)
    BY <1>5, Singleton
  <2>2. found \in Seq(Seq(Tokens)) /\ Len(found) \in Nat \ {0} /\ found[1] \in Seq(Tokens)
    BY <1>5, Positions DEF Texts
  <2>3. ViaText(m.acquired_via) = [found EXCEPT ![1] = head \o found[1]]
    BY DEF ViaText
  <2> HIDE DEF head, found
  <2>4. head \o found[1] \in Seq(Tokens)
    BY <2>1, <2>2, ConcatProperties
  <2> DEFINE line == head \o found[1]
             t == [found EXCEPT ![1] = line]
  <2> HIDE DEF line
  <2>5. 1 \in 1 .. Len(found) /\ line \in Seq(Tokens)
    BY <2>2, <2>4 DEF line
  <2>6. t \in Seq(Seq(Tokens)) /\ Len(t) = Len(found) /\ t[1] = line
    BY <2>2, <2>5, ExceptSeq
  <2> HIDE DEF t
  <2>7. t \in Texts
    BY <1>1, <2>2, <2>6
  <2> QED  BY <2>3, <2>6, <2>7 DEF t, line, head, found
<1>7. ASSUME NEW key \in Keys PROVE Written(m)[key] \in Texts
  <2>1. TimeText(m.acquired_at) \in Texts /\ TimeText(m.expires_at) \in Texts
    BY <1>3 DEF Metadata
  <2>2. m.provider \in Texts /\ m.project \in Texts /\ m.source_description \in Texts
    BY DEF Metadata
  <2> QED  BY <1>4, <1>6, <2>1, <2>2 DEF Written, Keys, Mandatory
<1> QED  BY <1>6, <1>7

\* Where the fields of a record stand in its notes: the last three on the last
\* three lines, the source above them when it has one line, and every one on
\* a line of its own when all have.
LEMMA Encoded ==
  ASSUME NEW m \in Metadata
  PROVE  LET e == EncodeMetadata(m)
             n == Len(e) IN
         /\ e \in Seq(Seq(Tokens))
         /\ n \in Nat /\ n >= 8
         /\ e[n] = Line("tier", <<m.tier>>)
         /\ e[n - 1] = Line("expires_at", TimeText(m.expires_at)[1])
         /\ e[n - 2] = Line("acquired_at", TimeText(m.acquired_at)[1])
         /\ Len(m.acquired_via.found_at) = 1 =>
              e[n - 3] = Line("acquired_via", ViaText(m.acquired_via)[1])
         /\ OneLine(m) =>
              /\ n = 8
              /\ e[1] = <<Header>>
              /\ e[2] = Line("provider", m.provider[1])
              /\ e[3] = Line("project", m.project[1])
              /\ e[4] = Line("source_description", m.source_description[1])
              /\ e[5] = Line("acquired_via", ViaText(m.acquired_via)[1])
<1> DEFINE e0 == <<<<Header>>>>
           t1 == m.provider
           t2 == m.project
           t3 == m.source_description
           t4 == ViaText(m.acquired_via)
           t5 == TimeText(m.acquired_at)
           t6 == TimeText(m.expires_at)
           t7 == <<<<m.tier>>>>
           e1 == e0 \o KeyLines("provider", t1)
           e2 == e1 \o KeyLines("project", t2)
           e3 == e2 \o KeyLines("source_description", t3)
           e4 == e3 \o KeyLines("acquired_via", t4)
           e5 == e4 \o KeyLines("acquired_at", t5)
           e6 == e5 \o KeyLines("expires_at", t6)
           e7 == e6 \o KeyLines("tier", t7)
<1>1. EncodeMetadata(m) = e7
  BY DEF EncodeMetadata
<1>2. /\ t1 \in Texts /\ t2 \in Texts /\ t3 \in Texts /\ t4 \in Texts
      /\ t5 \in Texts /\ t6 \in Texts /\ t7 \in Texts
  <2> DEFINE w == Written(m)
  <2>1. \A key \in Keys : w[key] \in Texts
    BY WrittenIsText
  <2>2. /\ w["provider"] = t1 /\ w["project"] = t2 /\ w["source_description"] = t3
        /\ w["acquired_via"] = t4 /\ w["acquired_at"] = t5 /\ w["expires_at"] = t6
        /\ w["tier"] = t7
    BY DEF Written
  <2> HIDE DEF w, t1, t2, t3, t4, t5, t6, t7
  <2> QED  BY <2>1, <2>2 DEF Keys, Mandatory
<1>3. /\ Len(t4) = Len(m.acquired_via.found_at)
      /\ Len(t5) = 1 /\ Len(t6) = 1 /\ Len(t7) = 1 /\ t7[1] = <<m.tier>>
  BY WrittenIsText DEF TimeText
<1>4. OneLine(m) => Len(t1) = 1 /\ Len(t2) = 1 /\ Len(t3) = 1 /\ Len(t4) = 1
  BY <1>3 DEF OneLine
<1>5. e0 \in Seq(Seq(Tokens)) /\ Len(e0) = 1 /\ e0[1] = <<Header>>
  BY NotesAssumption, Singleton
<1>6. /\ "provider" \in Keys /\ "project" \in Keys /\ "source_description" \in Keys
      /\ "acquired_via" \in Keys /\ "acquired_at" \in Keys /\ "expires_at" \in Keys
      /\ "tier" \in Keys
  BY DEF Keys, Mandatory
<1> HIDE DEF e0, t1, t2, t3, t4, t5, t6, t7
<1>7. Appended(e0, "provider", t1, e1)
  <2>1. e0 \in Seq(Seq(Tokens))
    BY <1>5
  <2>2. e1 = e0 \o KeyLines("provider", t1)
    OBVIOUS
  <2> HIDE DEF e1, e2, e3, e4, e5, e6, e7
  <2> QED  BY <1>2, <1>6, <2>1, <2>2, AppendField
<1>8. Appended(e1, "project", t2, e2)
  <2>1. e1 \in Seq(Seq(Tokens))
    BY <1>7 DEF Appended
  <2>2. e2 = e1 \o KeyLines("project", t2)
    OBVIOUS
  <2> HIDE DEF e1, e2, e3, e4, e5, e6, e7
  <2> QED  BY <1>2, <1>6, <2>1, <2>2, AppendField
<1>9. Appended(e2, "source_description", t3, e3)
  <2>1. e2 \in Seq(Seq(Tokens))
    BY <1>8 DEF Appended
  <2>2. e3 = e2 \o KeyLines("source_description", t3)
    OBVIOUS
  <2> HIDE DEF e1, e2, e3, e4, e5, e6, e7
  <2> QED  BY <1>2, <1>6, <2>1, <2>2, AppendField
<1>10. Appended(e3, "acquired_via", t4, e4)
  <2>1. e3 \in Seq(Seq(Tokens))
    BY <1>9 DEF Appended
  <2>2. e4 = e3 \o KeyLines("acquired_via", t4)
    OBVIOUS
  <2> HIDE DEF e1, e2, e3, e4, e5, e6, e7
  <2> QED  BY <1>2, <1>6, <2>1, <2>2, AppendField
<1>11. Appended(e4, "acquired_at", t5, e5)
  <2>1. e4 \in Seq(Seq(Tokens))
    BY <1>10 DEF Appended
  <2>2. e5 = e4 \o KeyLines("acquired_at", t5)
    OBVIOUS
  <2> HIDE DEF e1, e2, e3, e4, e5, e6, e7
  <2> QED  BY <1>2, <1>6, <2>1, <2>2, AppendField
<1>12. Appended(e5, "expires_at", t6, e6)
  <2>1. e5 \in Seq(Seq(Tokens))
    BY <1>11 DEF Appended
  <2>2. e6 = e5 \o KeyLines("expires_at", t6)
    OBVIOUS
  <2> HIDE DEF e1, e2, e3, e4, e5, e6, e7
  <2> QED  BY <1>2, <1>6, <2>1, <2>2, AppendField
<1>13. Appended(e6, "tier", t7, e7)
  <2>1. e6 \in Seq(Seq(Tokens))
    BY <1>12 DEF Appended
  <2>2. e7 = e6 \o KeyLines("tier", t7)
    OBVIOUS
  <2> HIDE DEF e1, e2, e3, e4, e5, e6, e7
  <2> QED  BY <1>2, <1>6, <2>1, <2>2, AppendField
<1> HIDE DEF e1, e2, e3, e4, e5, e6, e7
<1> DEFINE k == Len(e4)
<1>14. /\ Len(e5) = k + 1 /\ Len(e6) = k + 2 /\ Len(e7) = k + 3
       /\ k \in Nat /\ k >= 5 /\ k = Len(e3) + Len(t4) /\ Len(e3) \in Nat
       /\ OneLine(m) => k = 5 /\ Len(e1) = 2 /\ Len(e2) = 3 /\ Len(e3) = 4
  <2>1. Len(e5) = k + Len(t5) /\ Len(e6) = Len(e5) + Len(t6) /\ Len(e7) = Len(e6) + Len(t7)
    BY <1>11, <1>12, <1>13 DEF Appended
  <2>2. k \in Nat
    BY <1>11 DEF Appended
  <2>3. /\ k = Len(e3) + Len(t4) /\ Len(e3) = Len(e2) + Len(t3)
        /\ Len(e2) = Len(e1) + Len(t2) /\ Len(e1) = Len(e0) + Len(t1)
    BY <1>7, <1>8, <1>9, <1>10 DEF Appended
  <2>4. /\ Len(t1) \in Nat \ {0} /\ Len(t2) \in Nat \ {0} /\ Len(t3) \in Nat \ {0}
        /\ Len(t4) \in Nat \ {0}
        /\ Len(e3) \in Nat /\ Len(e2) \in Nat /\ Len(e1) \in Nat
    BY <1>7, <1>8, <1>9, <1>10 DEF Appended
  <2> HIDE DEF k
  <2>5. Len(e5) = k + 1 /\ Len(e6) = k + 2 /\ Len(e7) = k + 3
    BY <1>3, <2>1, <2>2
  <2>6. k >= 5
    BY <1>5, <2>3, <2>4
  <2>7. OneLine(m) => k = 5 /\ Len(e1) = 2 /\ Len(e2) = 3 /\ Len(e3) = 4
    <3>1. ASSUME OneLine(m)
          PROVE  Len(e1) = 2 /\ Len(e2) = 3 /\ Len(e3) = 4 /\ k = 5
      <4>1. Len(t1) = 1 /\ Len(t2) = 1 /\ Len(t3) = 1 /\ Len(t4) = 1
        BY <1>4, <3>1
      <4> QED  BY <1>5, <2>3, <4>1
    <3> QED  BY <3>1
  <2> QED  BY <2>2, <2>3, <2>4, <2>5, <2>6, <2>7
<1>15. /\ \A i \in 1 .. k : e5[i] = e4[i]
       /\ \A i \in 1 .. k + 1 : e6[i] = e5[i]
       /\ \A i \in 1 .. k + 2 : e7[i] = e6[i]
       /\ e5[k + 1] = Line("acquired_at", t5[1])
       /\ e6[k + 2] = Line("expires_at", t6[1])
       /\ e7[k + 3] = Line("tier", t7[1])
  <2>1. /\ \A i \in 1 .. Len(e6) : e7[i] = e6[i]
        /\ e7[Len(e6) + 1] = Line("tier", t7[1])
    BY <1>13 DEF Appended
  <2>2. /\ \A i \in 1 .. Len(e5) : e6[i] = e5[i]
        /\ e6[Len(e5) + 1] = Line("expires_at", t6[1])
    BY <1>12 DEF Appended
  <2>3. /\ \A i \in 1 .. k : e5[i] = e4[i]
        /\ e5[k + 1] = Line("acquired_at", t5[1])
    BY <1>11 DEF Appended
  <2> HIDE DEF k
  <2>4. Len(e5) + 1 = k + 2 /\ Len(e6) + 1 = k + 3
    BY <1>14
  <2> QED  BY <1>14, <2>1, <2>2, <2>3, <2>4
<1>16. /\ \A i \in 1 .. Len(e3) : e4[i] = e3[i]
       /\ e4[Len(e3) + 1] = Line("acquired_via", t4[1])
  BY <1>10 DEF Appended
<1> HIDE DEF k
<1>17. /\ e7[k + 1] = Line("acquired_at", t5[1])
       /\ e7[k + 2] = Line("expires_at", t6[1])
       /\ e7[k + 3] = Line("tier", t7[1])
       /\ \A i \in 1 .. k : e7[i] = e4[i]
  BY <1>14, <1>15
<1>18. ASSUME Len(t4) = 1
       PROVE  e7[k] = Line("acquired_via", t4[1])
  <2>1. k = Len(e3) + 1 /\ k \in 1 .. k
    BY <1>14, <1>18
  <2>2. e7[k] = e4[k]
    BY <1>17, <2>1
  <2>3. e4[k] = Line("acquired_via", t4[1])
    BY <1>16, <2>1
  <2> QED  BY <2>2, <2>3
<1>19. ASSUME OneLine(m)
       PROVE  /\ k = 5
              /\ e7[1] = <<Header>>
              /\ e7[2] = Line("provider", t1[1])
              /\ e7[3] = Line("project", t2[1])
              /\ e7[4] = Line("source_description", t3[1])
              /\ e7[5] = Line("acquired_via", t4[1])
  <2>1. k = 5 /\ Len(e1) = 2 /\ Len(e2) = 3 /\ Len(e3) = 4
    BY <1>14, <1>19
  <2>2. \A i \in 1 .. 5 : e7[i] = e4[i]
    BY <1>17, <2>1
  <2>3. (\A i \in 1 .. 4 : e4[i] = e3[i]) /\ e4[5] = Line("acquired_via", t4[1])
    BY <1>16, <2>1
  <2>4. (\A i \in 1 .. 3 : e3[i] = e2[i]) /\ e3[4] = Line("source_description", t3[1])
    BY <1>9, <2>1 DEF Appended
  <2>5. (\A i \in 1 .. 2 : e2[i] = e1[i]) /\ e2[3] = Line("project", t2[1])
    BY <1>8, <2>1 DEF Appended
  <2>6. e1[1] = <<Header>> /\ e1[2] = Line("provider", t1[1])
    BY <1>5, <1>7 DEF Appended
  <2> QED  BY <2>1, <2>2, <2>3, <2>4, <2>5, <2>6
<1>20. e7 \in Seq(Seq(Tokens))
  BY <1>13 DEF Appended
<1> DEFINE n == Len(EncodeMetadata(m))
<1>21. EncodeMetadata(m) = e7 /\ n = k + 3
  BY <1>1, <1>14
<1> HIDE DEF n
<1>22. n \in Nat /\ n >= 8 /\ n - 1 = k + 2 /\ n - 2 = k + 1 /\ n - 3 = k
  BY <1>14, <1>21
<1>23. /\ e7[n] = Line("tier", <<m.tier>>)
       /\ e7[n - 1] = Line("expires_at", t6[1])
       /\ e7[n - 2] = Line("acquired_at", t5[1])
  BY <1>3, <1>17, <1>21, <1>22
<1>24. Len(m.acquired_via.found_at) = 1 => e7[n - 3] = Line("acquired_via", t4[1])
  BY <1>3, <1>18, <1>22
<1>25. OneLine(m) => n = 8
  BY <1>19, <1>21
<1> QED
  BY <1>19, <1>20, <1>21, <1>22, <1>23, <1>24, <1>25, Zenon
     DEF t1, t2, t3, t4, t5, t6, n

-----------------------------------------------------------------------------
(* What decode_metadata reads.                                             *)

\* A key's last line is the one that counts, whatever the lines above it.
LEMMA LastLineCounts ==
  ASSUME NEW text \in Seq(Seq(Tokens)), NEW key \in Keys, NEW value \in Seq(Tokens),
         NEW i \in 1 .. Len(text), text[i] = Line(key, value),
         \A j \in i + 1 .. Len(text) :
           \E k \in Keys \ {key} : \E v \in Seq(Tokens) : text[j] = Line(k, v)
  PROVE  LinesOf(text, key) # {} /\ Field(text, key) = Trim(value)
<1>1. Len(text) \in Nat /\ DOMAIN text = 1 .. Len(text)
  BY Positions
<1>2. Separator(text[i]) = 2 /\ Key(text[i]) = <<key>> /\ Value(text[i]) = Trim(value)
  BY KeyIsToken, FieldLine DEF Line
<1>3. i \in LinesOf(text, key)
  BY <1>1, <1>2 DEF LinesOf
<1>4. PICK l \in LinesOf(text, key) :
        /\ l \in 1 .. Len(text)
        /\ \A j \in LinesOf(text, key) : j <= l
        /\ Field(text, key) = Value(text[l])
  BY <1>3, FieldOfText
<1>5. l = i
  <2>1. ASSUME l \in i + 1 .. Len(text) PROVE FALSE
    <3>1. PICK k \in Keys \ {key}, v \in Seq(Tokens) : text[l] = Line(k, v)
      BY <2>1
    <3>2. Key(text[l]) = <<k>>
      BY <3>1, KeyIsToken, FieldLine DEF Line
    <3>3. Key(text[l]) = <<key>>
      BY DEF LinesOf
    <3>4. <<k>>[1] = k /\ <<key>>[1] = key
      OBVIOUS
    <3> QED  BY <3>2, <3>3, <3>4
  <2>2. i <= l
    BY <1>3, <1>4
  <2> QED  BY <1>1, <1>4, <2>1, <2>2
<1> QED  BY <1>2, <1>3, <1>4, <1>5

\* A line that is read under a key is that key's.
LEMMA KeyOfLine ==
  ASSUME NEW k \in Keys, NEW v \in Seq(Tokens), NEW key,
         NEW line, line = Line(k, v), Key(line) = <<key>>
  PROVE  k = key
<1>1. Key(line) = <<k>>
  BY KeyIsToken, FieldLine DEF Line
<1>2. <<k>>[1] = k /\ <<key>>[1] = key
  OBVIOUS
<1> QED  BY <1>1, <1>2

\* The first line of a field is a line.
LEMMA WrittenLine ==
  ASSUME NEW m \in Metadata, NEW key \in Keys
  PROVE  Written(m)[key][1] \in Seq(Tokens)
<1> DEFINE text == Written(m)[key]
<1>1. text \in Seq(Seq(Tokens)) /\ text # <<>>
  BY WrittenIsText DEF Texts
<1> HIDE DEF text
<1>2. 1 \in 1 .. Len(text)
  BY <1>1, Positions
<1>3. text[1] \in Seq(Tokens)
  BY <1>1, <1>2, Positions
<1> QED  BY <1>3 DEF text

\* A time is read as it was written, and none as none.
LEMMA TimeReads ==
  ASSUME NEW time \in Times \cup {NoTime}
  PROVE  /\ TimeText(time)[1] \in Seq(Tokens)
         /\ time \in Times => Trim(TimeText(time)[1]) = <<time>>
         /\ TimeParses(Trim(TimeText(time)[1])) <=> time \in Times
         /\ TimeParses(Trim(TimeText(time)[1])) => Trim(TimeText(time)[1])[1] = time
<1>1. CASE time = NoTime
  <2>1. TimeText(time)[1] = <<>>
    BY <1>1 DEF TimeText
  <2>2. <<>> \in Seq(Tokens) /\ Len(<<>>) = 0
    BY EmptySeq
  <2>3. Trim(<<>>) = <<>>
    BY <2>2, TrimLine
  <2>4. time \notin Times
    BY <1>1, NotesAssumption
  <2> QED  BY <2>1, <2>2, <2>3, <2>4 DEF TimeParses
<1>2. CASE time # NoTime
  <2>1. time \in Tokens /\ time # Space /\ time \in Times
    BY <1>2, NotesAssumption
  <2>2. TimeText(time)[1] = <<time>>
    BY <1>2 DEF TimeText
  <2>3. Trim(<<time>>) = <<time>> /\ <<time>> \in Seq(Tokens) /\ Len(<<time>>) = 1
          /\ <<time>>[1] = time
    BY <2>1, TrimToken, Singleton
  <2> QED  BY <2>1, <2>2, <2>3 DEF TimeParses
<1> QED  BY <1>1, <1>2

\* A tier is read as it was written.
LEMMA TierReads ==
  ASSUME NEW tier \in Tiers
  PROVE  /\ <<tier>> \in Seq(Tokens)
         /\ Trim(<<tier>>) = <<tier>>
         /\ TierParses(<<tier>>)
<1>1. tier \in Tokens /\ tier # Space
  BY NotesAssumption DEF Tiers, Space
<1>2. <<tier>> \in Seq(Tokens) /\ Len(<<tier>>) = 1 /\ <<tier>>[1] = tier
  BY <1>1, Singleton
<1> QED  BY <1>1, <1>2, TrimToken DEF TierParses

\* The fields below the texts stand, whatever lines the texts bring.
LEMMA LaterFields ==
  ASSUME NEW m \in Metadata
  PROVE  LET e == EncodeMetadata(m) IN
         /\ LinesOf(e, "tier") # {} /\ Field(e, "tier") = <<m.tier>>
         /\ LinesOf(e, "acquired_at") # {} /\ Field(e, "acquired_at") = <<m.acquired_at>>
         /\ Expiry(e) = m.expires_at
         /\ Len(m.acquired_via.found_at) = 1 =>
              /\ LinesOf(e, "acquired_via") # {}
              /\ Field(e, "acquired_via") = Trim(ViaText(m.acquired_via)[1])
<1> DEFINE e == EncodeMetadata(m)
           n == Len(e)
           at == TimeText(m.acquired_at)[1]
           exp == TimeText(m.expires_at)[1]
           via == ViaText(m.acquired_via)[1]
<1>1. /\ e \in Seq(Seq(Tokens)) /\ n \in Nat /\ n >= 8
      /\ e[n] = Line("tier", <<m.tier>>)
      /\ e[n - 1] = Line("expires_at", exp)
      /\ e[n - 2] = Line("acquired_at", at)
      /\ Len(m.acquired_via.found_at) = 1 => e[n - 3] = Line("acquired_via", via)
  BY Encoded
<1>2. /\ m.tier \in Tiers /\ m.acquired_at \in Times /\ m.acquired_at \in Times \cup {NoTime}
      /\ m.expires_at \in Times \cup {NoTime}
  BY DEF Metadata
<1>3. <<m.tier>> \in Seq(Tokens) /\ at \in Seq(Tokens) /\ exp \in Seq(Tokens)
  BY <1>2, TierReads, TimeReads
<1>4. via \in Seq(Tokens)
  <2>1. "acquired_via" \in Keys /\ Written(m)["acquired_via"] = ViaText(m.acquired_via)
    BY DEF Keys, Mandatory, Written
  <2>2. Written(m)["acquired_via"][1] \in Seq(Tokens)
    BY <2>1, WrittenLine
  <2> QED  BY <2>1, <2>2
<1>5. /\ "tier" \in Keys /\ "acquired_at" \in Keys /\ "expires_at" \in Keys
      /\ "acquired_via" \in Keys
  BY DEF Keys, Mandatory
<1> HIDE DEF e, n, at, exp, via
<1>6. LinesOf(e, "tier") # {} /\ Field(e, "tier") = <<m.tier>>
  <2>1. n \in 1 .. Len(e) /\ n + 1 .. Len(e) = {}
    BY <1>1 DEF n
  <2>2. LinesOf(e, "tier") # {} /\ Field(e, "tier") = Trim(<<m.tier>>)
    BY <1>1, <1>3, <1>5, <2>1, LastLineCounts
  <2> QED  BY <1>2, <2>2, TierReads
<1>7. LinesOf(e, "expires_at") # {} /\ Field(e, "expires_at") = Trim(exp)
  <2> DEFINE i == n - 1
  <2>1. i \in 1 .. Len(e) /\ \A j \in i + 1 .. Len(e) : j = n
    BY <1>1 DEF n
  <2>2. e[i] = Line("expires_at", exp)
    BY <1>1
  <2> HIDE DEF i
  <2>3. \A j \in i + 1 .. Len(e) :
          \E k \in Keys \ {"expires_at"} : \E v \in Seq(Tokens) : e[j] = Line(k, v)
    BY <1>1, <1>3, <1>5, <2>1
  <2> QED  BY <1>1, <1>3, <1>5, <2>1, <2>2, <2>3, LastLineCounts
<1>8. LinesOf(e, "acquired_at") # {} /\ Field(e, "acquired_at") = Trim(at)
  <2> DEFINE i == n - 2
  <2>1. i \in 1 .. Len(e) /\ \A j \in i + 1 .. Len(e) : j \in {n - 1, n}
    BY <1>1 DEF n
  <2>2. e[i] = Line("acquired_at", at)
    BY <1>1
  <2> HIDE DEF i
  <2>3. \A j \in i + 1 .. Len(e) :
          \E k \in Keys \ {"acquired_at"} : \E v \in Seq(Tokens) : e[j] = Line(k, v)
    BY <1>1, <1>3, <1>5, <2>1
  <2> QED  BY <1>1, <1>3, <1>5, <2>1, <2>2, <2>3, LastLineCounts
<1>9. ASSUME Len(m.acquired_via.found_at) = 1
      PROVE  LinesOf(e, "acquired_via") # {} /\ Field(e, "acquired_via") = Trim(via)
  <2> DEFINE i == n - 3
  <2>1. i \in 1 .. Len(e) /\ \A j \in i + 1 .. Len(e) : j \in {n - 2, n - 1, n}
    BY <1>1 DEF n
  <2>2. e[i] = Line("acquired_via", via)
    BY <1>1, <1>9
  <2> HIDE DEF i
  <2>3. \A j \in i + 1 .. Len(e) :
          \E k \in Keys \ {"acquired_via"} : \E v \in Seq(Tokens) : e[j] = Line(k, v)
    BY <1>1, <1>3, <1>5, <2>1
  <2> QED  BY <1>1, <1>4, <1>5, <2>1, <2>2, <2>3, LastLineCounts
<1>10. Expiry(e) = m.expires_at
  BY <1>2, <1>7, TimeReads DEF Expiry, exp
<1>11. Trim(at) = <<m.acquired_at>>
  BY <1>2, TimeReads DEF at
<1> QED  BY <1>6, <1>8, <1>9, <1>10, <1>11 DEF e, via

-----------------------------------------------------------------------------
(* Every state.                                                            *)

\* What put, the edits and get leave behind: notes nobody edited are what put
\* wrote, and what was read is what the notes say.
Kept ==
  /\ TypeOK
  /\ Traceable(record.project, record.source_description)
  /\ pc # "new" /\ edits = 0 => notes = EncodeMetadata(record)
  /\ pc = "read" => answer = DecodeMetadata(notes)

\* A line that is dropped: the lines below it move up by one.
LEMMA RemovedLine ==
  ASSUME NEW text \in Seq(Seq(Tokens)), NEW i \in DOMAIN text
  PROVE  LET rest == RemoveAt(text, i) IN
         /\ rest \in Seq(Seq(Tokens))
         /\ Len(rest) = Len(text) - 1
         /\ \A j \in 1 .. Len(rest) : rest[j] = IF j < i THEN text[j] ELSE text[j + 1]
<1> DEFINE n == Len(text)
           above == SubSeq(text, 1, i - 1)
           below == SubSeq(text, i + 1, n)
<1>1. n \in Nat /\ i \in 1 .. n /\ \A j \in 1 .. n : text[j] \in Seq(Tokens)
  BY Positions
<1> HIDE DEF n
<1>2. /\ above \in Seq(Seq(Tokens)) /\ Len(above) = i - 1
      /\ \A j \in 1 .. i - 1 : above[j] = text[j]
  <2>1. \A j \in 1 .. i - 1 : text[j] \in Seq(Tokens)
    BY <1>1
  <2> QED  BY <1>1, <2>1, SubSeqProperties
<1>3. /\ below \in Seq(Seq(Tokens)) /\ Len(below) = n - i
      /\ \A j \in 1 .. n - i : below[j] = text[i + j]
  <2>1. \A j \in i + 1 .. n : text[j] \in Seq(Tokens)
    BY <1>1
  <2>2. /\ below \in Seq(Seq(Tokens))
        /\ Len(below) = IF i + 1 <= n THEN n - (i + 1) + 1 ELSE 0
        /\ \A j \in 1 .. n - (i + 1) + 1 : below[j] = text[(i + 1) + j - 1]
    <3> DEFINE b == i + 1
    <3>1. b \in Int /\ n \in Int /\ \A j \in b .. n : text[j] \in Seq(Tokens)
      BY <1>1, <2>1
    <3> HIDE DEF b
    <3>2. /\ SubSeq(text, b, n) \in Seq(Seq(Tokens))
          /\ Len(SubSeq(text, b, n)) = IF b <= n THEN n - b + 1 ELSE 0
          /\ \A j \in 1 .. n - b + 1 : SubSeq(text, b, n)[j] = text[b + j - 1]
      BY <3>1, SubSeqProperties
    <3> QED  BY <3>2 DEF b
  <2> HIDE DEF below
  <2>3. \A j \in 1 .. n - i : j \in 1 .. n - (i + 1) + 1 /\ (i + 1) + j - 1 = i + j
    BY <1>1
  <2>4. Len(below) = n - i
    BY <1>1, <2>2
  <2>5. \A j \in 1 .. n - i : below[j] = text[i + j]
    BY <2>2, <2>3
  <2> QED  BY <2>2, <2>4, <2>5
<1> HIDE DEF above, below
<1>4. RemoveAt(text, i) = above \o below
  BY DEF RemoveAt, above, below, n
<1> DEFINE rest == above \o below
<1>5. /\ rest \in Seq(Seq(Tokens)) /\ Len(rest) = Len(above) + Len(below)
      /\ \A j \in 1 .. Len(above) + Len(below) :
           rest[j] = IF j <= Len(above) THEN above[j] ELSE below[j - Len(above)]
  BY <1>2, <1>3, ConcatProperties
<1> HIDE DEF rest
<1>6. Len(rest) = n - 1
  BY <1>1, <1>2, <1>3, <1>5
<1>7. ASSUME NEW j \in 1 .. Len(rest)
      PROVE  rest[j] = IF j < i THEN text[j] ELSE text[j + 1]
  <2>0. /\ j \in 1 .. Len(above) + Len(below) /\ j \in Nat /\ j <= n - 1
        /\ rest[j] = IF j <= i - 1 THEN above[j] ELSE below[j - (i - 1)]
    <3>1. j \in 1 .. Len(above) + Len(below) /\ j \in 1 .. n - 1
      BY <1>5, <1>6
    <3>2. rest[j] = IF j <= Len(above) THEN above[j] ELSE below[j - Len(above)]
      BY <1>5, <3>1
    <3>3. Len(above) = i - 1
      BY <1>2
    <3>4. j \in Nat /\ j <= n - 1
      BY <1>1, <3>1
    <3> QED  BY <3>1, <3>2, <3>3, <3>4, Zenon
  <2>1. CASE j < i
    <3>1. j \in 1 .. i - 1
      BY <1>1, <2>0, <2>1
    <3> QED  BY <1>2, <2>0, <2>1, <3>1
  <2>2. CASE ~(j < i)
    <3>1. rest[j] = below[j - (i - 1)] /\ j - (i - 1) \in 1 .. n - i
      BY <1>1, <2>0, <2>2
    <3>2. below[j - (i - 1)] = text[i + (j - (i - 1))]
      BY <1>3, <3>1
    <3>3. i + (j - (i - 1)) = j + 1
      BY <1>1, <1>6
    <3> QED  BY <2>2, <3>1, <3>2, <3>3
  <2> QED  BY <2>1, <2>2
<1> QED  BY <1>4, <1>5, <1>6, <1>7 DEF rest, n

\* A text that ends at line i keeps the lines above it.
LEMMA CutText ==
  ASSUME NEW text \in Seq(Seq(Tokens)), NEW i \in DOMAIN text, NEW line \in Seq(Tokens)
  PROVE  LET cut == SubSeq(text, 1, i - 1) \o <<line>> IN
         /\ cut \in Seq(Seq(Tokens))
         /\ Len(cut) = i
         /\ \A j \in 1 .. i - 1 : cut[j] = text[j]
         /\ cut[i] = line
<1> DEFINE above == SubSeq(text, 1, i - 1)
           last == <<line>>
           cut == above \o last
<1>1. i \in 1 .. Len(text) /\ Len(text) \in Nat /\ \A j \in 1 .. Len(text) : text[j] \in Seq(Tokens)
  BY Positions
<1>2. /\ above \in Seq(Seq(Tokens)) /\ Len(above) = i - 1
      /\ \A j \in 1 .. i - 1 : above[j] = text[j]
  <2>1. \A j \in 1 .. i - 1 : text[j] \in Seq(Tokens)
    BY <1>1
  <2> QED  BY <1>1, <2>1, SubSeqProperties
<1>3. last \in Seq(Seq(Tokens)) /\ Len(last) = 1 /\ last[1] = line
  BY Singleton
<1> HIDE DEF above, last
<1>4. /\ cut \in Seq(Seq(Tokens)) /\ Len(cut) = Len(above) + Len(last)
      /\ \A j \in 1 .. Len(above) + Len(last) :
           cut[j] = IF j <= Len(above) THEN above[j] ELSE last[j - Len(above)]
  BY <1>2, <1>3, ConcatProperties
<1> HIDE DEF cut
<1>5. Len(above) + Len(last) = i /\ Len(above) = i - 1 /\ i \in Nat
  BY <1>1, <1>2, <1>3
<1>6. \A j \in 1 .. i - 1 : cut[j] = text[j]
  <2>1. \A j \in 1 .. i - 1 : j \in 1 .. i /\ j <= i - 1
    BY <1>5
  <2> QED  BY <1>2, <1>4, <1>5, <2>1
<1>7. cut[i] = line
  <2>1. i \in Nat \ {0}
    BY <1>1
  <2>2. i \in 1 .. i /\ ~(i <= i - 1) /\ i - (i - 1) = 1
    BY <2>1
  <2> QED  BY <1>3, <1>4, <1>5, <2>2
<1> QED  BY <1>4, <1>5, <1>6, <1>7 DEF cut, above, last

\* The first tokens of a line.
LEMMA FirstTokens ==
  ASSUME NEW line \in Seq(Tokens), NEW n \in 0 .. Len(line)
  PROVE  /\ SubSeq(line, 1, n) \in Seq(Tokens)
         /\ Len(SubSeq(line, 1, n)) = n
         /\ \A i \in 1 .. n : SubSeq(line, 1, n)[i] = line[i]
<1>1. Len(line) \in Nat /\ \A i \in 1 .. n : line[i] \in Tokens
  BY Positions
<1> QED  BY <1>1, SubSeqProperties

\* A line whose value is replaced.
SpoiltLine(line, value) == SubSeq(line, 1, Separator(line)) \o value

\* What a spoilt value may be is a line.
LEMMA JunkIsLine == {<<>>, <<Junk>>} \subseteq Seq(Tokens)
<1>1. Junk \in Tokens
  BY NotesAssumption
<1>2. <<Junk>> \in Seq(Tokens)
  BY <1>1, Singleton
<1>3. <<>> \in Seq(Tokens)
  BY EmptySeq
<1> QED  BY <1>2, <1>3

\* Spoiling a value changes one line and no other.
LEMMA SpoiltText ==
  ASSUME NEW text \in Seq(Seq(Tokens)), NEW i \in DOMAIN text,
         NEW value \in {<<>>, <<Junk>>}
  PROVE  LET spoilt == [text EXCEPT ![i] = SubSeq(@, 1, Separator(@)) \o value] IN
         /\ value \in Seq(Tokens)
         /\ spoilt \in Seq(Seq(Tokens))
         /\ Len(spoilt) = Len(text)
         /\ \A j \in 1 .. Len(text) :
              spoilt[j] = IF j = i THEN SpoiltLine(text[i], value) ELSE text[j]
<1> DEFINE spoilt == [text EXCEPT ![i] = SpoiltLine(text[i], value)]
<1>1. value \in Seq(Tokens)
  BY JunkIsLine
<1>2. i \in 1 .. Len(text) /\ text[i] \in Seq(Tokens)
  BY Positions
<1>3. SubSeq(text[i], 1, Separator(text[i])) \in Seq(Tokens)
  BY <1>2, SeparatorOfLine, FirstTokens
<1>4. SpoiltLine(text[i], value) \in Seq(Tokens)
  BY <1>1, <1>3, Concat DEF SpoiltLine
<1>5. /\ spoilt \in Seq(Seq(Tokens)) /\ Len(spoilt) = Len(text)
      /\ \A j \in 1 .. Len(text) :
           spoilt[j] = IF j = i THEN SpoiltLine(text[i], value) ELSE text[j]
  BY <1>2, <1>4, ExceptSeq
<1>6. spoilt = [text EXCEPT ![i] = SubSeq(@, 1, Separator(@)) \o value]
  BY DEF SpoiltLine
<1> HIDE DEF spoilt
<1> QED  BY <1>1, <1>5, <1>6

\* Any spoiling, dropping or cutting leaves a text.
LEMMA EditsAreTexts ==
  ASSUME notes \in Seq(Seq(Tokens)), DropLine \/ SpoilValue \/ CutShort
  PROVE  /\ notes' \in Seq(Seq(Tokens))
         /\ pc = "stored" /\ edits < MAX_EDITS /\ edits' = edits + 1
         /\ UNCHANGED <<record, pc, answer>>
<1>1. CASE DropLine
  BY <1>1, RemovedLine DEF DropLine, Edit
<1>2. CASE SpoilValue
  <2>1. PICK i \in DOMAIN notes, value \in {<<>>, <<Junk>>} :
          Edit([notes EXCEPT ![i] = SubSeq(@, 1, Separator(@)) \o value])
    BY <1>2 DEF SpoilValue
  <2> DEFINE spoilt == [notes EXCEPT ![i] = SubSeq(@, 1, Separator(@)) \o value]
  <2>2. spoilt \in Seq(Seq(Tokens))
    BY SpoiltText
  <2> HIDE DEF spoilt
  <2>3. Edit(spoilt)
    BY <2>1 DEF spoilt
  <2> QED  BY <2>2, <2>3 DEF Edit
<1>3. CASE CutShort
  <2>1. PICK i \in DOMAIN notes : \E n \in 0 .. Len(notes[i]) :
          Edit(SubSeq(notes, 1, i - 1) \o <<SubSeq(notes[i], 1, n)>>)
    BY <1>3 DEF CutShort
  <2>2. PICK n \in 0 .. Len(notes[i]) :
          Edit(SubSeq(notes, 1, i - 1) \o <<SubSeq(notes[i], 1, n)>>)
    BY <2>1
  <2>3. notes[i] \in Seq(Tokens)
    BY Positions
  <2>4. SubSeq(notes[i], 1, n) \in Seq(Tokens)
    BY <2>3, FirstTokens
  <2> QED  BY <2>2, <2>4, CutText DEF Edit
<1> QED  BY <1>1, <1>2, <1>3

\* put writes the notes once, edits only change them, and get reads what they
\* say: every state of the module is typed and kept.
THEOREM NotesKept == Spec => []Kept
<1>1. Init => Kept
  <2> SUFFICES ASSUME Init PROVE Kept
    OBVIOUS
  <2>1. record \in Metadata /\ 0 \in 0 .. MAX_EDITS
    BY NotesAssumption DEF Init
  <2>2. notes \in Seq(Seq(Tokens))
    BY EmptySeq DEF Init
  <2> QED  BY <2>1, <2>2 DEF Init, Kept, TypeOK
<1>2. Kept /\ [Next]_vars => Kept'
  <2> SUFFICES ASSUME Kept, [Next]_vars PROVE Kept'
    OBVIOUS
  <2> USE DEF Kept, TypeOK
  <2>1. CASE Put
    <3>1. EncodeMetadata(record) \in Seq(Seq(Tokens))
      BY Encoded
    <3> QED  BY <2>1, <3>1 DEF Put
  <2>2. CASE DropLine \/ SpoilValue \/ CutShort
    <3>1. /\ notes' \in Seq(Seq(Tokens))
          /\ pc = "stored" /\ edits < MAX_EDITS /\ edits' = edits + 1
          /\ UNCHANGED <<record, pc, answer>>
      BY <2>2, EditsAreTexts
    <3>2. edits' \in 0 .. MAX_EDITS /\ edits' # 0
      BY <3>1, NotesAssumption
    <3> QED  BY <3>1, <3>2
  <2>3. CASE Get
    <3>1. DecodeMetadata(notes) \in Metadata \cup {Unparseable}
      BY DecodeIsMetadata
    <3> QED  BY <2>3, <3>1 DEF Get
  <2>4. CASE UNCHANGED vars
    BY <2>4 DEF vars
  <2> QED  BY <2>1, <2>2, <2>3, <2>4 DEF Next
<1> QED  BY <1>1, <1>2, PTL DEF Spec

\* Every variable has its type: what get answers is a record of the vault's
\* type, its source of one of the three kinds, or none at all.
THEOREM NotesTypeOK == Spec => []TypeOK
<1>1. Kept => TypeOK
  BY DEF Kept
<1> QED  BY <1>1, NotesKept, PTL

-----------------------------------------------------------------------------
(* Notes nobody edited.                                                    *)

\* vault.rs:164-175: a text that brings lines of its own may hide its own
\* field or one above it, but no tier, time or source that follows it.
THEOREM LaterFieldsStandHolds == Spec => []LaterFieldsStand
<1>1. Kept => LaterFieldsStand
  <2> SUFFICES ASSUME Kept, pc = "read", edits = 0, answer # Unparseable
               PROVE  /\ answer.tier = record.tier
                      /\ answer.acquired_at = record.acquired_at
                      /\ answer.expires_at = record.expires_at
                      /\ Len(record.acquired_via.found_at) = 1 =>
                           answer.acquired_via = Trimmed(record).acquired_via
    BY DEF LaterFieldsStand
  <2> DEFINE e == EncodeMetadata(record)
  <2>1. record \in Metadata /\ answer = DecodeMetadata(e)
    BY DEF Kept, TypeOK
  <2>2. /\ Field(e, "tier") = <<record.tier>>
        /\ Field(e, "acquired_at") = <<record.acquired_at>>
        /\ Expiry(e) = record.expires_at
        /\ Len(record.acquired_via.found_at) = 1 =>
             Field(e, "acquired_via") = Trim(ViaText(record.acquired_via)[1])
    BY <2>1, LaterFields
  <2> HIDE DEF e
  <2>3. /\ answer.tier = Field(e, "tier")[1]
        /\ answer.acquired_at = Field(e, "acquired_at")[1]
        /\ answer.expires_at = Expiry(e)
        /\ answer.acquired_via = Via(Field(e, "acquired_via"))
    BY <2>1 DEF DecodeMetadata
  <2>4. /\ ViaText(record.acquired_via)[1]
             = <<record.acquired_via.kind>> \o record.acquired_via.found_at[1]
    BY <2>1, WrittenIsText
  <2>5. Trimmed(record).acquired_via
          = Via(Trim(<<record.acquired_via.kind>> \o record.acquired_via.found_at[1]))
    BY <2>1 DEF Trimmed, Metadata
  <2>6. <<record.tier>>[1] = record.tier /\ <<record.acquired_at>>[1] = record.acquired_at
    OBVIOUS
  <2> QED  BY <2>2, <2>3, <2>4, <2>5, <2>6
<1> QED  BY <1>1, NotesKept, PTL

\* The eight lines of a record of one-line texts.
LEMMA EncodedLines ==
  ASSUME NEW m \in Metadata, OneLine(m)
  PROVE  LET e == EncodeMetadata(m)
             w == Written(m) IN
         /\ e \in Seq(Seq(Tokens)) /\ Len(e) = 8
         /\ e[1] = <<Header>>
         /\ e[2] = Line("provider", w["provider"][1])
         /\ e[3] = Line("project", w["project"][1])
         /\ e[4] = Line("source_description", w["source_description"][1])
         /\ e[5] = Line("acquired_via", w["acquired_via"][1])
         /\ e[6] = Line("acquired_at", w["acquired_at"][1])
         /\ e[7] = Line("expires_at", w["expires_at"][1])
         /\ e[8] = Line("tier", w["tier"][1])
         /\ w["tier"][1] = <<m.tier>>
<1> DEFINE e == EncodeMetadata(m)
<1>1. /\ e \in Seq(Seq(Tokens)) /\ Len(e) = 8
      /\ e[Len(e)] = Line("tier", <<m.tier>>)
      /\ e[Len(e) - 1] = Line("expires_at", TimeText(m.expires_at)[1])
      /\ e[Len(e) - 2] = Line("acquired_at", TimeText(m.acquired_at)[1])
      /\ e[1] = <<Header>>
      /\ e[2] = Line("provider", m.provider[1])
      /\ e[3] = Line("project", m.project[1])
      /\ e[4] = Line("source_description", m.source_description[1])
      /\ e[5] = Line("acquired_via", ViaText(m.acquired_via)[1])
  BY Encoded
<1> HIDE DEF e
<1>2. Len(e) - 1 = 7 /\ Len(e) - 2 = 6
  BY <1>1
<1>3. <<<<m.tier>>>>[1] = <<m.tier>>
  OBVIOUS
<1> QED  BY <1>1, <1>2, <1>3 DEF Written, e

\* The texts of a record of one-line texts are read as they were written, but
\* for the blanks around them.
LEMMA TextsRead ==
  ASSUME NEW m \in Metadata, OneLine(m)
  PROVE  LET e == EncodeMetadata(m) IN
         /\ LinesOf(e, "provider") # {} /\ Field(e, "provider") = Trim(m.provider[1])
         /\ LinesOf(e, "project") # {} /\ Field(e, "project") = Trim(m.project[1])
         /\ LinesOf(e, "source_description") # {}
         /\ Field(e, "source_description") = Trim(m.source_description[1])
<1> DEFINE e == EncodeMetadata(m)
           w == Written(m)
<1>1. /\ e \in Seq(Seq(Tokens)) /\ Len(e) = 8
      /\ e[2] = Line("provider", w["provider"][1])
      /\ e[3] = Line("project", w["project"][1])
      /\ e[4] = Line("source_description", w["source_description"][1])
      /\ e[5] = Line("acquired_via", w["acquired_via"][1])
      /\ e[6] = Line("acquired_at", w["acquired_at"][1])
      /\ e[7] = Line("expires_at", w["expires_at"][1])
      /\ e[8] = Line("tier", w["tier"][1])
  BY EncodedLines
<1>2. /\ "provider" \in Keys /\ "project" \in Keys /\ "source_description" \in Keys
      /\ "acquired_via" \in Keys /\ "acquired_at" \in Keys /\ "expires_at" \in Keys
      /\ "tier" \in Keys
  BY DEF Keys, Mandatory
<1>3. \A key \in Keys : w[key][1] \in Seq(Tokens)
  BY WrittenLine
<1>4. w["provider"] = m.provider /\ w["project"] = m.project
        /\ w["source_description"] = m.source_description
  BY DEF Written
<1> HIDE DEF e, w
<1>5. ASSUME NEW i \in 2 .. 4, NEW key \in Keys,
             key = IF i = 2 THEN "provider" ELSE IF i = 3 THEN "project"
                   ELSE "source_description"
      PROVE  LinesOf(e, key) # {} /\ Field(e, key) = Trim(w[key][1])
  <2>1. i \in 1 .. Len(e) /\ e[i] = Line(key, w[key][1])
    BY <1>1, <1>5
  <2>2. ASSUME NEW j \in i + 1 .. Len(e)
        PROVE  \E k \in Keys \ {key} : \E v \in Seq(Tokens) : e[j] = Line(k, v)
    <3>1. j \in 3 .. 8 /\ j > i
      BY <1>1
    <3>2. PICK k \in Keys \ {key} : e[j] = Line(k, w[k][1])
      BY <1>1, <1>2, <1>5, <3>1
    <3> QED  BY <1>3, <3>2
  <2> QED  BY <1>1, <1>3, <2>1, <2>2, LastLineCounts
<1>6. /\ LinesOf(e, "provider") # {} /\ Field(e, "provider") = Trim(w["provider"][1])
      /\ LinesOf(e, "project") # {} /\ Field(e, "project") = Trim(w["project"][1])
      /\ LinesOf(e, "source_description") # {}
      /\ Field(e, "source_description") = Trim(w["source_description"][1])
  BY <1>2, <1>5
<1> QED  BY <1>4, <1>6 DEF e

\* The source of a record is read as one.
LEMMA ViaReads ==
  ASSUME NEW m \in Metadata
  PROVE  LET text == Trim(ViaText(m.acquired_via)[1]) IN
         /\ text \in Seq(Tokens)
         /\ Via(text) # Unparseable
         /\ Trimmed(m).acquired_via = Via(text)
<1> DEFINE kind == m.acquired_via.kind
           found == m.acquired_via.found_at
           line == <<kind>> \o found[1]
<1>1. ViaText(m.acquired_via)[1] = line
  BY WrittenIsText
<1>2. /\ kind \in Kinds /\ found \in Texts
      /\ kind # "migrated:" => found = <<<<>>>>
  <2>1. m.acquired_via \in Sources
    BY DEF Metadata
  <2>2. <<<<>>>> \in Texts
    BY EmptySeq, OneLineText
  <2> DEFINE via == m.acquired_via
  <2> HIDE DEF via
  <2>3. via \in Sources
    BY <2>1 DEF via
  <2>4. /\ via.kind \in Kinds /\ via.found_at \in Texts
        /\ via.kind # "migrated:" => via.found_at = <<<<>>>>
    BY <2>2, <2>3 DEF Sources, Kinds
  <2> QED  BY <2>4 DEF via
<1>3. Trimmed(m).acquired_via = Via(Trim(line))
  BY DEF Trimmed, Metadata
<1>4. found[1] \in Seq(Tokens)
  BY <1>2, Positions DEF Texts
<1>5. kind \in Tokens /\ kind # Space
  BY <1>2, NotesAssumption DEF Kinds, Space
<1>6. <<kind>> \in Seq(Tokens) /\ Len(<<kind>>) = 1 /\ <<kind>>[1] = kind
  BY <1>5, Singleton
<1>7. line \in Seq(Tokens) /\ Len(line) >= 1 /\ line[1] = kind
  <2> DEFINE head == <<kind>>
             tail == found[1]
  <2>1. head \in Seq(Tokens) /\ Len(head) = 1 /\ head[1] = kind /\ tail \in Seq(Tokens)
    BY <1>4, <1>6
  <2> HIDE DEF head, tail
  <2>2. /\ head \o tail \in Seq(Tokens) /\ Len(head \o tail) = Len(head) + Len(tail)
        /\ \A i \in 1 .. Len(head) : (head \o tail)[i] = head[i]
    BY <2>1, Concat
  <2>3. Len(tail) \in Nat
    BY <2>1, Positions
  <2>4. 1 \in 1 .. Len(head)
    BY <2>1
  <2> QED  BY <2>1, <2>2, <2>3, <2>4 DEF head, tail
<1>8. kind # "migrated:" => line = <<kind>>
  <2>1. found = <<<<>>>> => found[1] = <<>>
    OBVIOUS
  <2>2. <<kind>> \o <<>> = <<kind>>
    BY <1>6, ConcatEmptySeq
  <2> QED  BY <1>2, <2>1, <2>2
<1>9. Trim(line) \in Seq(Tokens) /\ Trim(line) # <<>> /\ Trim(line)[1] = kind
  <2> HIDE DEF line, kind
  <2>1. line # <<>>
    BY <1>7, Positions
  <2> QED  BY <1>5, <1>7, <2>1, TrimLine
<1>10. kind = "migrated:" \/ Len(Trim(line)) = 1
  <2>1. kind # "migrated:" => Trim(line) = <<kind>>
    BY <1>5, <1>8, TrimToken
  <2> QED  BY <1>6, <2>1
<1>11. Via(Trim(line)) # Unparseable
  BY <1>2, <1>9, <1>10, ViaOfValue
<1> QED  BY <1>1, <1>3, <1>9, <1>11

\* Texts that say something still do when they are read.
LEMMA TraceableReads ==
  ASSUME NEW m \in Metadata, OneLine(m), Traceable(m.project, m.source_description)
  PROVE  Traceable(<<Trim(m.project[1])>>, <<Trim(m.source_description[1])>>)
<1>1. ASSUME NEW text \in Texts, Len(text) = 1, ~Blank(text)
      PROVE  ~Blank(<<Trim(text[1])>>)
  <2>1. text \in Seq(Seq(Tokens)) /\ DOMAIN text = {1} /\ text[1] \in Seq(Tokens)
    BY <1>1, Positions DEF Texts
  <2>2. Trim(text[1]) # <<>>
    BY <1>1, <2>1 DEF Blank
  <2>3. Trim(Trim(text[1])) # <<>>
    BY <2>1, <2>2, TrimKeepsInk
  <2> DEFINE line == Trim(text[1])
  <2> HIDE DEF line
  <2>4. 1 \in DOMAIN <<line>> /\ <<line>>[1] = line
    OBVIOUS
  <2> QED  BY <2>3, <2>4 DEF Blank, line
<1>2. /\ m.project \in Texts /\ Len(m.project) = 1
      /\ m.source_description \in Texts /\ Len(m.source_description) = 1
  BY DEF Metadata, OneLine
<1> QED  BY <1>1, <1>2 DEF Traceable

\* entry.rs: what put is given, get returns, whatever stands in the texts,
\* separators, keys and tiers included; only blanks around a value are lost.
\* For texts of one line.
THEOREM RoundTripHolds == Spec => []RoundTrip
<1>1. ASSUME NEW m \in Metadata, OneLine(m), Traceable(m.project, m.source_description)
      PROVE  DecodeMetadata(EncodeMetadata(m)) = Trimmed(m)
  <2> DEFINE e == EncodeMetadata(m)
  <2>1. /\ LinesOf(e, "tier") # {} /\ Field(e, "tier") = <<m.tier>>
        /\ LinesOf(e, "acquired_at") # {} /\ Field(e, "acquired_at") = <<m.acquired_at>>
        /\ Expiry(e) = m.expires_at
        /\ LinesOf(e, "acquired_via") # {}
        /\ Field(e, "acquired_via") = Trim(ViaText(m.acquired_via)[1])
    <3>1. Len(m.acquired_via.found_at) = 1
      BY <1>1 DEF OneLine
    <3> QED  BY <3>1, LaterFields
  <2>2. /\ LinesOf(e, "provider") # {} /\ Field(e, "provider") = Trim(m.provider[1])
        /\ LinesOf(e, "project") # {} /\ Field(e, "project") = Trim(m.project[1])
        /\ LinesOf(e, "source_description") # {}
        /\ Field(e, "source_description") = Trim(m.source_description[1])
    BY <1>1, TextsRead
  <2> HIDE DEF e
  <2>3. /\ Via(Field(e, "acquired_via")) # Unparseable
        /\ Via(Field(e, "acquired_via")) = Trimmed(m).acquired_via
    BY <2>1, ViaReads
  <2>4. m.tier \in Tiers /\ m.acquired_at \in Times
    BY DEF Metadata
  <2>5. TierParses(Field(e, "tier")) /\ Field(e, "tier")[1] = m.tier
    BY <2>1, <2>4, TierReads DEF TierParses
  <2>6. TimeParses(Field(e, "acquired_at")) /\ Field(e, "acquired_at")[1] = m.acquired_at
    BY <2>1, <2>4 DEF TimeParses
  <2>7. Traceable(<<Field(e, "project")>>, <<Field(e, "source_description")>>)
    BY <1>1, <2>2, TraceableReads
  <2>8. Complete(e)
    BY <2>1, <2>2, <2>3, <2>5, <2>6, <2>7 DEF Complete, Mandatory
  <2>9. DecodeMetadata(e) =
          [provider           |-> <<Trim(m.provider[1])>>,
           project            |-> <<Trim(m.project[1])>>,
           source_description |-> <<Trim(m.source_description[1])>>,
           acquired_via       |-> Trimmed(m).acquired_via,
           acquired_at        |-> m.acquired_at,
           expires_at         |-> m.expires_at,
           tier               |-> m.tier]
    BY <2>1, <2>2, <2>3, <2>5, <2>6, <2>8 DEF DecodeMetadata
  <2>10. Trimmed(m) =
          [provider           |-> <<Trim(m.provider[1])>>,
           project            |-> <<Trim(m.project[1])>>,
           source_description |-> <<Trim(m.source_description[1])>>,
           acquired_via       |-> Trimmed(m).acquired_via,
           acquired_at        |-> m.acquired_at,
           expires_at         |-> m.expires_at,
           tier               |-> m.tier]
    <3> DEFINE provider == <<Trim(m.provider[1])>>
               project == <<Trim(m.project[1])>>
               source == <<Trim(m.source_description[1])>>
               via == Via(Trim(<<m.acquired_via.kind>> \o m.acquired_via.found_at[1]))
    <3>1. Trimmed(m) = [m EXCEPT !.provider = provider, !.project = project,
                                 !.source_description = source, !.acquired_via = via]
      BY DEF Trimmed
    <3> HIDE DEF provider, project, source, via
    <3>2. Trimmed(m) = [provider           |-> provider,
                        project            |-> project,
                        source_description |-> source,
                        acquired_via       |-> via,
                        acquired_at        |-> m.acquired_at,
                        expires_at         |-> m.expires_at,
                        tier               |-> m.tier]
      BY <3>1 DEF Metadata
    <3>3. Trimmed(m).acquired_via = via
      BY <3>2
    <3> QED  BY <3>2, <3>3 DEF provider, project, source
  <2> QED  BY <2>9, <2>10 DEF e
<1>2. Kept => RoundTrip
  <2> SUFFICES ASSUME Kept, pc = "read", edits = 0, OneLine(record)
               PROVE  answer = Trimmed(record)
    BY DEF RoundTrip
  <2> QED  BY <1>1 DEF Kept, TypeOK
<1> QED  BY <1>2, NotesKept, PTL

-----------------------------------------------------------------------------
(* Notes that were cut short.                                              *)

\* A prefix is as long as it says, or shorter, and the same up to there.
LEMMA PrefixOf ==
  ASSUME NEW S, NEW s \in Seq(S), NEW t \in Seq(S), IsPrefix(s, t)
  PROVE  /\ Len(s) \in Nat /\ Len(t) \in Nat /\ Len(s) <= Len(t)
         /\ \A i \in 1 .. Len(s) : s[i] = t[i]
         /\ s = SubSeq(t, 1, Len(s))
<1>1. Len(s) \in Nat /\ Len(t) \in Nat /\ \A i \in 1 .. Len(t) : t[i] \in S
  BY Positions
<1>2. Len(s) <= Len(t) /\ SubSeq(s, 1, Len(s)) = SubSeq(t, 1, Len(s))
  BY DEF IsPrefix
<1>3. SubSeq(s, 1, Len(s)) = s
  BY SubSeqFull
<1>4. s = SubSeq(t, 1, Len(s))
  BY <1>2, <1>3
<1>5. \A i \in 1 .. Len(s) : SubSeq(t, 1, Len(s))[i] = t[i]
  <2>1. \A i \in 1 .. Len(s) : t[i] \in S
    BY <1>1, <1>2
  <2> QED  BY <1>1, <2>1, SubSeqProperties
<1> QED  BY <1>1, <1>2, <1>4, <1>5

\* What a line says when only its first tokens are left: its key and the rest
\* of its value, or nothing that is read.
LEMMA CutLine ==
  ASSUME NEW key \in Keys, NEW value \in Seq(Tokens),
         NEW n \in 0 .. Len(Line(key, value))
  PROVE  LET cut == SubSeq(Line(key, value), 1, n) IN
         /\ n < 2 => Separator(cut) = 0
         /\ n >= 2 => /\ n - 2 \in 0 .. Len(value)
                     /\ cut = Line(key, SubSeq(value, 1, n - 2))
<1> DEFINE line == Line(key, value)
           cut == SubSeq(line, 1, n)
           rest == SubSeq(value, 1, n - 2)
<1>1. /\ line \in Seq(Tokens) /\ Len(line) = Len(value) + 2
      /\ line[1] = key /\ line[2] = "="
      /\ \A i \in 1 .. Len(value) : line[i + 2] = value[i]
  BY KeyIsToken, FieldLine DEF Line
<1>2. Len(value) \in Nat /\ key # "="
  BY Positions, KeyIsToken
<1> HIDE DEF line
<1>3. n \in 0 .. Len(line)
  BY DEF line
<1>4. cut \in Seq(Tokens) /\ Len(cut) = n /\ \A i \in 1 .. n : cut[i] = line[i]
  BY <1>1, <1>3, FirstTokens
<1> HIDE DEF cut
<1>5. ASSUME n < 2 PROVE Separator(cut) = 0
  <2>1. \A i \in 1 .. Len(cut) : cut[i] # "="
    <3>1. \A i \in 1 .. n : i = 1
      BY <1>1, <1>2, <1>3, <1>5
    <3> QED  BY <1>1, <1>2, <1>4, <3>1
  <2> QED  BY <1>4, <2>1, SeparatorOfLine
<1>6. ASSUME n >= 2 PROVE n - 2 \in 0 .. Len(value) /\ cut = Line(key, rest)
  <2>1. n - 2 \in 0 .. Len(value)
    BY <1>1, <1>2, <1>3, <1>6
  <2>2. rest \in Seq(Tokens) /\ Len(rest) = n - 2 /\ \A i \in 1 .. n - 2 : rest[i] = value[i]
    BY <2>1, FirstTokens
  <2> HIDE DEF rest
  <2> DEFINE other == Line(key, rest)
  <2>3. /\ other \in Seq(Tokens) /\ Len(other) = Len(rest) + 2
        /\ other[1] = key /\ other[2] = "="
        /\ \A i \in 1 .. Len(rest) : other[i + 2] = rest[i]
    BY <2>2, KeyIsToken, FieldLine DEF Line
  <2> HIDE DEF other
  <2>4. Len(other) = n
    BY <1>1, <1>2, <1>3, <2>2, <2>3
  <2>5. ASSUME NEW i \in 1 .. n PROVE cut[i] = other[i]
    <3>1. cut[i] = line[i] /\ n \in Nat
      BY <1>1, <1>2, <1>3, <1>4
    <3>2. CASE i \in {1, 2}
      BY <1>1, <2>3, <3>1, <3>2
    <3>3. CASE i \notin {1, 2}
      <4>1. i - 2 \in 1 .. n - 2 /\ (i - 2) + 2 = i
        BY <3>1, <3>3
      <4>2. i - 2 \in 1 .. Len(value) /\ i - 2 \in 1 .. Len(rest)
        BY <1>2, <2>1, <2>2, <4>1
      <4>3. line[i] = value[i - 2]
        BY <1>1, <4>1, <4>2
      <4>4. other[i] = rest[i - 2]
        BY <2>3, <4>1, <4>2
      <4> QED  BY <2>2, <3>1, <4>1, <4>3, <4>4
    <3> QED  BY <3>2, <3>3
  <2>6. cut = other
    BY <1>4, <2>3, <2>4, <2>5, SeqEqual
  <2> QED  BY <2>1, <2>6 DEF other
<1> QED  BY <1>5, <1>6 DEF cut, line, rest

\* The header has no separator: no field is read from it.
LEMMA HeaderIsUnread == Separator(<<Header>>) = 0 /\ <<Header>> \in Seq(Tokens)
<1>1. <<Header>> \in Seq(Tokens) /\ Len(<<Header>>) = 1 /\ <<Header>>[1] = Header
  BY NotesAssumption, Singleton
<1>2. Header # "="
  BY DEF Header
<1> DEFINE line == <<Header>>
<1> HIDE DEF line
<1>3. line \in Seq(Tokens) /\ \A i \in 1 .. Len(line) : line[i] # "="
  BY <1>1, <1>2 DEF line
<1>4. Separator(line) = 0
  BY <1>3, SeparatorOfLine
<1> QED  BY <1>1, <1>4 DEF line

\* No field is read from what is left of a line from which none was read.
LEMMA CutUnread ==
  ASSUME NEW line \in Seq(Tokens), Separator(line) = 0, NEW n \in 0 .. Len(line)
  PROVE  Separator(SubSeq(line, 1, n)) = 0
<1> DEFINE cut == SubSeq(line, 1, n)
<1>1. cut \in Seq(Tokens) /\ Len(cut) = n /\ \A i \in 1 .. n : cut[i] = line[i]
  BY FirstTokens
<1> HIDE DEF cut
<1>2. \A i \in 1 .. Len(line) : line[i] # "="
  BY SeparatorOfLine
<1>3. \A i \in 1 .. Len(cut) : cut[i] # "="
  <2>1. Len(line) \in Nat
    BY Positions
  <2> QED  BY <1>1, <1>2, <2>1
<1> QED  BY <1>1, <1>3, SeparatorOfLine DEF cut

\* A line that no tier is read from.
Untiered(line) ==
  \/ Separator(line) = 0
  \/ \E key \in Keys \ {"tier"}, value \in Seq(Tokens) : line = Line(key, value)

\* No tier is read from a line without a separator, or with another key.
LEMMA UntieredUnread ==
  ASSUME NEW line, Untiered(line)
  PROVE  ~(Separator(line) > 0 /\ Key(line) = <<"tier">>)
<1>1. CASE Separator(line) = 0
  BY <1>1
<1>2. ASSUME NEW key \in Keys \ {"tier"}, NEW value \in Seq(Tokens), line = Line(key, value)
      PROVE  Key(line) # <<"tier">>
  BY <1>2, KeyOfLine
<1> QED  BY <1>1, <1>2 DEF Untiered

\* Nor from what is left of such a line.
LEMMA CutUntiered ==
  ASSUME NEW line \in Seq(Tokens), Untiered(line), NEW n \in 0 .. Len(line)
  PROVE  Untiered(SubSeq(line, 1, n))
<1>1. CASE Separator(line) = 0
  BY <1>1, CutUnread DEF Untiered
<1>2. ASSUME NEW key \in Keys \ {"tier"}, NEW value \in Seq(Tokens), line = Line(key, value)
      PROVE  Untiered(SubSeq(line, 1, n))
  <2>1. /\ n < 2 => Separator(SubSeq(line, 1, n)) = 0
        /\ n >= 2 => /\ n - 2 \in 0 .. Len(value)
                    /\ SubSeq(line, 1, n) = Line(key, SubSeq(value, 1, n - 2))
    BY <1>2, CutLine
  <2>2. n >= 2 => SubSeq(value, 1, n - 2) \in Seq(Tokens)
    BY <2>1, FirstTokens
  <2>3. n \in Nat
    BY Positions
  <2>4. CASE n < 2
    BY <2>1, <2>4 DEF Untiered
  <2>5. CASE n >= 2
    BY <2>1, <2>2, <2>5 DEF Untiered
  <2> QED  BY <2>3, <2>4, <2>5
<1> QED  BY <1>1, <1>2 DEF Untiered

\* Of the eight lines of a record only the last has the tier.
LEMMA EncodedUntiered ==
  ASSUME NEW m \in Metadata, OneLine(m), NEW i \in 1 .. 7
  PROVE  Untiered(EncodeMetadata(m)[i])
<1> DEFINE e == EncodeMetadata(m)
           w == Written(m)
<1>1. /\ e[1] = <<Header>>
      /\ e[2] = Line("provider", w["provider"][1])
      /\ e[3] = Line("project", w["project"][1])
      /\ e[4] = Line("source_description", w["source_description"][1])
      /\ e[5] = Line("acquired_via", w["acquired_via"][1])
      /\ e[6] = Line("acquired_at", w["acquired_at"][1])
      /\ e[7] = Line("expires_at", w["expires_at"][1])
  BY EncodedLines
<1>2. \A key \in Keys : w[key][1] \in Seq(Tokens)
  BY WrittenLine
<1> HIDE DEF e, w
<1>3. CASE i = 1
  BY <1>1, <1>3, HeaderIsUnread DEF Untiered, e
<1>4. CASE i # 1
  <2>1. PICK key \in Keys \ {"tier"} : e[i] = Line(key, w[key][1])
    BY <1>1, <1>4 DEF Keys, Mandatory
  <2> QED  BY <1>2, <2>1 DEF Untiered, e
<1> QED  BY <1>3, <1>4 DEF e

\* vault.rs:177-180: notes of one-line texts that were cut short, wherever,
\* are refused: the last field is one that must be there.
THEOREM PartialWriteRefusedHolds == Spec => []PartialWriteRefused
<1>1. ASSUME NEW m \in Metadata, OneLine(m), NEW text \in Seq(Seq(Tokens)),
             IsCutShort(text, EncodeMetadata(m))
      PROVE  ~Complete(text)
  <2> SUFFICES ASSUME Complete(text) PROVE FALSE
    OBVIOUS
  <2> DEFINE e == EncodeMetadata(m)
             n == Len(text)
  <2>1. /\ e \in Seq(Seq(Tokens)) /\ Len(e) = 8
        /\ e[8] = Line("tier", <<m.tier>>)
    BY <1>1, EncodedLines
  <2>2. \A i \in 1 .. 7 : Untiered(e[i])
    BY <1>1, EncodedUntiered
  <2>3. /\ text # e /\ n \in 1 .. Len(e)
        /\ IsPrefix(Front(text), e)
        /\ IsPrefix(text[n], e[n])
    BY <1>1 DEF IsCutShort, Last
  <2> HIDE DEF e, n
  <2>4. n \in 1 .. 8
    BY <2>1, <2>3
  <2>5. \A i \in 1 .. n - 1 : text[i] = e[i]
    <3>1. \A i \in 1 .. n - 1 : text[i] \in Seq(Tokens)
      BY Positions, <2>4 DEF n
    <3>2. Front(text) = SubSeq(text, 1, n - 1)
      BY DEF Front, n
    <3>3. /\ Front(text) \in Seq(Seq(Tokens)) /\ Len(Front(text)) = n - 1
          /\ \A i \in 1 .. n - 1 : Front(text)[i] = text[i]
      BY <2>4, <3>1, <3>2, SubSeqProperties
    <3>4. \A i \in 1 .. n - 1 : Front(text)[i] = e[i]
      <4> DEFINE front == Front(text)
      <4>1. front \in Seq(Seq(Tokens)) /\ Len(front) = n - 1 /\ IsPrefix(front, e)
        BY <2>3, <3>3
      <4> HIDE DEF front
      <4>2. \A i \in 1 .. Len(front) : front[i] = e[i]
        BY <2>1, <4>1, PrefixOf
      <4> QED  BY <4>1, <4>2 DEF front
    <3> QED  BY <3>3, <3>4
  <2>6. /\ e[n] \in Seq(Tokens) /\ text[n] \in Seq(Tokens)
        /\ Len(text[n]) \in 0 .. Len(e[n])
        /\ text[n] = SubSeq(e[n], 1, Len(text[n]))
    <3>1. e[n] \in Seq(Tokens) /\ text[n] \in Seq(Tokens)
      <4>1. n \in 1 .. Len(text)
        BY <2>4 DEF n
      <4> QED  BY <2>1, <2>3, <4>1, Positions
    <3> QED  BY <2>3, <3>1, PrefixOf
  <2>7. PICK i \in LinesOf(text, "tier") :
          i \in 1 .. n /\ Field(text, "tier") = Value(text[i])
    BY FieldOfText DEF Complete, Mandatory, n
  <2>8. Separator(text[i]) > 0 /\ Key(text[i]) = <<"tier">>
    BY DEF LinesOf
  <2>9. i = n /\ n = 8
    <3>1. CASE i # n
      <4>1. i \in 1 .. n - 1 /\ i \in 1 .. 7
        BY <2>4, <2>7, <3>1
      <4> QED  BY <2>2, <2>5, <2>8, <4>1, UntieredUnread
    <3>2. CASE i = n /\ n # 8
      <4>1. n \in 1 .. 7
        BY <2>4, <3>2
      <4> QED  BY <2>2, <2>6, <2>8, <3>2, <4>1, CutUntiered, UntieredUnread
    <3> QED  BY <3>1, <3>2
  <2> DEFINE value == <<m.tier>>
             c == Len(text[8])
  <2>10. value \in Seq(Tokens) /\ Len(value) = 1
    <3>1. m.tier \in Tokens
      BY NotesAssumption DEF Metadata
    <3> QED  BY <3>1, Singleton
  <2>11. c \in 0 .. Len(Line("tier", value)) /\ text[8] = SubSeq(Line("tier", value), 1, c)
    BY <2>1, <2>6, <2>9
  <2>12. "tier" \in Keys
    BY DEF Keys, Mandatory
  <2> HIDE DEF value, c
  <2>13. /\ c < 2 => Separator(text[8]) = 0
         /\ c >= 2 => /\ c - 2 \in 0 .. Len(value)
                     /\ text[8] = Line("tier", SubSeq(value, 1, c - 2))
    <3>1. LET cut == SubSeq(Line("tier", value), 1, c) IN
          /\ c < 2 => Separator(cut) = 0
          /\ c >= 2 => /\ c - 2 \in 0 .. Len(value)
                      /\ cut = Line("tier", SubSeq(value, 1, c - 2))
      BY <2>10, <2>11, <2>12, CutLine
    <3> QED  BY <2>11, <3>1
  <2>14. c \in Nat /\ c >= 2 /\ c - 2 \in {0, 1}
    <3>1. c \in Nat
      <4>1. Line("tier", value) \in Seq(Tokens)
        BY <2>10, <2>12, KeyIsToken, FieldLine DEF Line
      <4>2. Len(Line("tier", value)) \in Nat
        BY <4>1, Positions
      <4> QED  BY <2>11, <4>2
    <3>2. c >= 2
      BY <2>8, <2>9, <2>13, <3>1
    <3> QED  BY <2>10, <2>13, <3>1, <3>2
  <2>15. CASE c - 2 = 1
    <3>1. SubSeq(value, 1, c - 2) = value
      BY <2>10, <2>15, SubSeqFull
    <3>2. text[8] = e[8]
      BY <2>1, <2>13, <2>14, <3>1 DEF value
    <3>3. \A j \in 1 .. 8 : text[j] = e[j]
      <4>1. ASSUME NEW j \in 1 .. 8, j # 8 PROVE j \in 1 .. n - 1
        BY <2>9, <4>1
      <4> QED  BY <2>5, <3>2, <4>1
    <3>4. text = e
      BY <2>1, <2>9, <3>3, SeqEqual DEF n
    <3> QED  BY <2>3, <3>4
  <2>16. CASE c - 2 = 0
    <3>1. SubSeq(value, 1, 0) = <<>> /\ <<>> \in Seq(Tokens) /\ Len(<<>>) = 0
      BY SubSeqEmpty, EmptySeq
    <3>2. text[8] = Line("tier", <<>>)
      BY <2>13, <2>14, <2>16, <3>1
    <3>3. Value(text[8]) = Trim(<<>>)
      <4> DEFINE none == <<>>
      <4> HIDE DEF none
      <4>1. none \in Seq(Tokens) /\ text[8] = Line("tier", none)
        BY <3>1, <3>2 DEF none
      <4>2. Value(text[8]) = Trim(none)
        BY <2>12, <4>1, KeyIsToken, FieldLine DEF Line
      <4> QED  BY <4>2 DEF none
    <3>4. Trim(<<>>) = <<>>
      BY <3>1, TrimLine
    <3>5. Len(Field(text, "tier")) = 0
      BY <2>7, <2>9, <3>1, <3>3, <3>4
    <3> QED  BY <3>5 DEF Complete, TierParses
  <2> QED  BY <2>14, <2>15, <2>16
<1>2. Kept => PartialWriteRefused
  <2> SUFFICES ASSUME Kept, pc = "read", OneLine(record),
                      IsCutShort(notes, EncodeMetadata(record))
               PROVE  answer = Unparseable
    BY DEF PartialWriteRefused
  <2> QED  BY <1>1 DEF Kept, TypeOK, DecodeMetadata
<1> QED  BY <1>2, NotesKept, PTL

-----------------------------------------------------------------------------
(* Notes that were edited.  What put wrote in lines of one text can be      *)
(* dropped, spoilt and cut; but a line that was cut is the last one there   *)
(* is, and no tier stands above the last line.  So when a tier is read,     *)
(* nothing was cut, and every other line is as written or junk.             *)

\* What may stand under a key: what was written, nothing, or junk.
Values(m, key) == {Written(m)[key][1], <<>>, <<Junk>>}

Whole(line, m) ==
  \/ Separator(line) = 0
  \/ \E key \in Keys \ {"tier"} : \E value \in Values(m, key) : line = Line(key, value)

LastLine(line, m) ==
  Untiered(line) \/ \E value \in Values(m, "tier") : line = Line("tier", value)

Recoverable(text, m) ==
  \A i \in 1 .. Len(text) :
    IF i < Len(text) THEN Whole(text[i], m) ELSE LastLine(text[i], m)

\* The values that may stand under a key are lines; nothing and junk are read
\* as they are.
LEMMA ValuesAreLines ==
  ASSUME NEW m \in Metadata, NEW key \in Keys
  PROVE  /\ Values(m, key) \subseteq Seq(Tokens)
         /\ Trim(<<>>) = <<>> /\ Trim(<<Junk>>) = <<Junk>>
<1>1. <<>> \in Seq(Tokens) /\ Written(m)[key][1] \in Seq(Tokens)
  BY EmptySeq, WrittenLine
<1>2. Junk \in Tokens /\ Junk # Space
  BY NotesAssumption DEF Junk, Space
<1>3. <<Junk>> \in Seq(Tokens)
  BY <1>2, Singleton
<1>4. Trim(<<>>) = <<>> /\ Trim(<<Junk>>) = <<Junk>>
  BY <1>1, <1>2, TrimLine, TrimToken
<1> QED  BY <1>1, <1>3, <1>4 DEF Values

\* The lines above the last have no tier.
LEMMA WholeIsUntiered ==
  ASSUME NEW m \in Metadata, NEW line, Whole(line, m)
  PROVE  Untiered(line)
BY ValuesAreLines DEF Whole, Untiered

\* What may stand under the tier: the tier that was written, nothing, or junk.
LEMMA TierValues ==
  ASSUME NEW m \in Metadata
  PROVE  /\ "tier" \in Keys
         /\ Values(m, "tier") = {<<m.tier>>, <<>>, <<Junk>>}
         /\ \A value \in Values(m, "tier") : value = <<>> \/ Len(value) = 1
<1>1. Written(m)["tier"] = <<<<m.tier>>>> /\ <<<<m.tier>>>>[1] = <<m.tier>>
  BY DEF Written
<1>2. Len(<<m.tier>>) = 1 /\ Len(<<Junk>>) = 1
  OBVIOUS
<1> QED  BY <1>1, <1>2 DEF Values, Keys, Mandatory

\* Spoiling a line leaves its key.
LEMMA SpoiltField ==
  ASSUME NEW key \in Keys, NEW value \in Seq(Tokens), NEW other \in Seq(Tokens)
  PROVE  SpoiltLine(Line(key, value), other) = Line(key, other)
<1>1. /\ Separator(Line(key, value)) = 2
      /\ SubSeq(Line(key, value), 1, 2) = <<key, "=">>
  BY KeyIsToken, FieldLine DEF Line
<1> QED  BY <1>1 DEF SpoiltLine, Line

\* A line that may stand in recoverable notes still may when it is spoilt.
LEMMA SpoiltLineStays ==
  ASSUME NEW m \in Metadata, NEW line, Separator(line) > 0, NEW other \in {<<>>, <<Junk>>}
  PROVE  /\ Whole(line, m) => Whole(SpoiltLine(line, other), m)
         /\ LastLine(line, m) => LastLine(SpoiltLine(line, other), m)
<1>1. other \in Seq(Tokens) /\ \A key \in Keys : other \in Values(m, key)
  BY JunkIsLine DEF Values
<1>2. ASSUME NEW key \in Keys, NEW value \in Seq(Tokens), line = Line(key, value)
      PROVE  SpoiltLine(line, other) = Line(key, other)
  BY <1>1, <1>2, SpoiltField
<1>3. ASSUME Whole(line, m) PROVE Whole(SpoiltLine(line, other), m)
  <2>1. PICK key \in Keys \ {"tier"} : \E value \in Values(m, key) : line = Line(key, value)
    BY <1>3 DEF Whole
  <2>2. PICK value \in Values(m, key) : line = Line(key, value)
    BY <2>1
  <2>3. SpoiltLine(line, other) = Line(key, other)
    BY <1>2, <2>2, ValuesAreLines
  <2> QED  BY <1>1, <2>3 DEF Whole
<1>4. ASSUME Untiered(line) PROVE Untiered(SpoiltLine(line, other))
  <2>1. PICK key \in Keys \ {"tier"}, value \in Seq(Tokens) : line = Line(key, value)
    BY <1>4 DEF Untiered
  <2>2. SpoiltLine(line, other) = Line(key, other)
    BY <1>2, <2>1
  <2> QED  BY <1>1, <2>2 DEF Untiered
<1>5. ASSUME NEW value \in Values(m, "tier"), line = Line("tier", value)
      PROVE  LastLine(SpoiltLine(line, other), m)
  <2>1. "tier" \in Keys /\ value \in Seq(Tokens)
    BY TierValues, ValuesAreLines
  <2>2. SpoiltLine(line, other) = Line("tier", other)
    BY <1>2, <1>5, <2>1
  <2> QED  BY <1>1, <2>1, <2>2 DEF LastLine
<1> QED  BY <1>3, <1>4, <1>5 DEF LastLine

\* And may stand last when it is cut short.
LEMMA CutLastLine ==
  ASSUME NEW m \in Metadata, NEW line \in Seq(Tokens), LastLine(line, m),
         NEW n \in 0 .. Len(line)
  PROVE  LastLine(SubSeq(line, 1, n), m)
<1>1. CASE Untiered(line)
  BY <1>1, CutUntiered DEF LastLine
<1>2. ASSUME NEW value \in Values(m, "tier"), line = Line("tier", value)
      PROVE  LastLine(SubSeq(line, 1, n), m)
  <2>1. "tier" \in Keys /\ value \in Seq(Tokens) /\ (value = <<>> \/ Len(value) = 1)
    BY TierValues, ValuesAreLines
  <2>2. /\ n < 2 => Separator(SubSeq(line, 1, n)) = 0
        /\ n >= 2 => /\ n - 2 \in 0 .. Len(value)
                    /\ SubSeq(line, 1, n) = Line("tier", SubSeq(value, 1, n - 2))
    BY <1>2, <2>1, CutLine
  <2>3. n \in Nat /\ Len(value) \in Nat
    BY <2>1, Positions
  <2>4. CASE n < 2
    BY <2>2, <2>4 DEF LastLine, Untiered
  <2>5. CASE n >= 2
    <3>1. SubSeq(value, 1, n - 2) \in {value, <<>>}
      <4>1. CASE n - 2 = 0
        BY <4>1, SubSeqEmpty
      <4>2. CASE n - 2 # 0
        <5>1. n - 2 = Len(value)
          <6>1. n - 2 \in 0 .. Len(value) /\ (Len(value) = 0 \/ Len(value) = 1)
            BY <2>1, <2>2, <2>5, Positions
          <6> DEFINE k == n - 2
                     len == Len(value)
          <6>2. k \in 0 .. len /\ len \in {0, 1} /\ k # 0
            BY <4>2, <6>1
          <6> HIDE DEF k, len
          <6>3. k = len
            BY <6>2
          <6> QED  BY <6>3 DEF k, len
        <5> QED  BY <2>1, <5>1, SubSeqFull
      <4> QED  BY <4>1, <4>2
    <3>2. SubSeq(value, 1, n - 2) \in Values(m, "tier")
      BY <3>1 DEF Values
    <3> QED  BY <2>2, <2>5, <3>2 DEF LastLine
  <2> QED  BY <2>3, <2>4, <2>5
<1> QED  BY <1>1, <1>2 DEF LastLine

\* What put writes is recoverable.
LEMMA EncodedRecoverable ==
  ASSUME NEW m \in Metadata, OneLine(m)
  PROVE  Recoverable(EncodeMetadata(m), m)
<1> DEFINE e == EncodeMetadata(m)
           w == Written(m)
<1>1. /\ Len(e) = 8
      /\ e[1] = <<Header>>
      /\ e[2] = Line("provider", w["provider"][1])
      /\ e[3] = Line("project", w["project"][1])
      /\ e[4] = Line("source_description", w["source_description"][1])
      /\ e[5] = Line("acquired_via", w["acquired_via"][1])
      /\ e[6] = Line("acquired_at", w["acquired_at"][1])
      /\ e[7] = Line("expires_at", w["expires_at"][1])
      /\ e[8] = Line("tier", w["tier"][1])
  BY EncodedLines
<1>2. \A key \in Keys : w[key][1] \in Values(m, key)
  BY DEF Values
<1> HIDE DEF e, w
<1>3. Whole(e[1], m)
  BY <1>1, HeaderIsUnread DEF Whole
<1>4. ASSUME NEW i \in 2 .. 7 PROVE Whole(e[i], m)
  <2>1. PICK key \in Keys \ {"tier"} : e[i] = Line(key, w[key][1])
    BY <1>1 DEF Keys, Mandatory
  <2> QED  BY <1>2, <2>1 DEF Whole
<1>5. LastLine(e[8], m)
  BY <1>1, <1>2, TierValues DEF LastLine
<1> QED  BY <1>1, <1>3, <1>4, <1>5 DEF Recoverable, e

\* Every edit leaves recoverable notes recoverable: a line that is cut becomes
\* the last one, and one that was above the last had no tier.
LEMMA EditsKeepRecoverable ==
  ASSUME record \in Metadata, notes \in Seq(Seq(Tokens)), Recoverable(notes, record),
         DropLine \/ SpoilValue \/ CutShort
  PROVE  Recoverable(notes', record)
<1> DEFINE n == Len(notes)
<1>1. n \in Nat /\ DOMAIN notes = 1 .. n /\ \A i \in 1 .. n : notes[i] \in Seq(Tokens)
  BY Positions
<1>2. \A i \in 1 .. n : i < n => Whole(notes[i], record)
  BY DEF Recoverable
<1>3. \A i \in 1 .. n : LastLine(notes[i], record)
  BY <1>2, WholeIsUntiered DEF Recoverable, LastLine
<1>4. CASE DropLine
  <2>1. PICK i \in 1 .. n : notes' = RemoveAt(notes, i)
    BY <1>1, <1>4 DEF DropLine, Edit
  <2> DEFINE rest == RemoveAt(notes, i)
  <2>2. /\ Len(rest) = n - 1
        /\ \A j \in 1 .. Len(rest) : rest[j] = IF j < i THEN notes[j] ELSE notes[j + 1]
    BY <1>1, RemovedLine
  <2> HIDE DEF rest, n
  <2>3. ASSUME NEW j \in 1 .. Len(rest)
        PROVE  IF j < Len(rest) THEN Whole(rest[j], record) ELSE LastLine(rest[j], record)
    <3>1. /\ j \in 1 .. n /\ j + 1 \in 1 .. n /\ j < n
          /\ j < Len(rest) => j + 1 < n
      BY <1>1, <2>2
    <3>2. rest[j] = notes[j] \/ rest[j] = notes[j + 1]
      BY <2>2
    <3> QED  BY <1>2, <1>3, <3>1, <3>2
  <2> QED  BY <2>1, <2>3 DEF Recoverable, rest
<1>5. CASE SpoilValue
  <2>1. PICK i \in 1 .. n, value \in {<<>>, <<Junk>>} :
          /\ Separator(notes[i]) > 0
          /\ notes' = [notes EXCEPT ![i] = SubSeq(@, 1, Separator(@)) \o value]
    BY <1>1, <1>5 DEF SpoilValue, Edit
  <2> DEFINE spoilt == [notes EXCEPT ![i] = SubSeq(@, 1, Separator(@)) \o value]
  <2>2. /\ Len(spoilt) = n
        /\ \A j \in 1 .. n :
             spoilt[j] = IF j = i THEN SpoiltLine(notes[i], value) ELSE notes[j]
    BY <1>1, SpoiltText
  <2> HIDE DEF spoilt, n
  <2>3. /\ Whole(notes[i], record) => Whole(SpoiltLine(notes[i], value), record)
        /\ LastLine(notes[i], record) => LastLine(SpoiltLine(notes[i], value), record)
    BY <2>1, SpoiltLineStays
  <2>4. ASSUME NEW j \in 1 .. n
        PROVE  IF j < n THEN Whole(spoilt[j], record) ELSE LastLine(spoilt[j], record)
    BY <1>2, <1>3, <2>2, <2>3
  <2> QED  BY <2>1, <2>2, <2>4 DEF Recoverable, spoilt
<1>6. CASE CutShort
  <2>1. PICK i \in 1 .. n : \E c \in 0 .. Len(notes[i]) :
          notes' = SubSeq(notes, 1, i - 1) \o <<SubSeq(notes[i], 1, c)>>
    BY <1>1, <1>6 DEF CutShort, Edit
  <2>2. PICK c \in 0 .. Len(notes[i]) :
          notes' = SubSeq(notes, 1, i - 1) \o <<SubSeq(notes[i], 1, c)>>
    BY <2>1
  <2> DEFINE line == SubSeq(notes[i], 1, c)
             cut == SubSeq(notes, 1, i - 1) \o <<line>>
  <2>3. line \in Seq(Tokens) /\ LastLine(line, record)
    BY <1>1, <1>3, FirstTokens, CutLastLine
  <2> HIDE DEF line
  <2>4. /\ Len(cut) = i
        /\ \A j \in 1 .. i - 1 : cut[j] = notes[j]
        /\ cut[i] = line
    BY <1>1, <2>3, CutText
  <2> HIDE DEF cut, n
  <2>5. ASSUME NEW j \in 1 .. i
        PROVE  IF j < i THEN Whole(cut[j], record) ELSE LastLine(cut[j], record)
    <3>1. CASE j < i
      <4>1. j \in 1 .. i - 1 /\ j \in 1 .. n /\ j < n
        BY <1>1, <3>1
      <4> QED  BY <1>2, <2>4, <3>1, <4>1
    <3>2. CASE ~(j < i)
      BY <2>3, <2>4, <3>2
    <3> QED  BY <3>1, <3>2
  <2> QED  BY <2>2, <2>4, <2>5 DEF Recoverable, cut, line
<1> QED  BY <1>4, <1>5, <1>6

\* Notes of one-line texts stay recoverable through every edit.
THEOREM NotesRecoverable == Spec => [](OneLine(record) => Recoverable(notes, record))
<1> DEFINE Inv == OneLine(record) => Recoverable(notes, record)
<1>1. Init => Inv
  <2> SUFFICES ASSUME Init PROVE Recoverable(notes, record)
    OBVIOUS
  <2>1. Len(notes) = 0
    BY EmptySeq DEF Init
  <2> QED  BY <2>1 DEF Recoverable
<1>2. Kept /\ Inv /\ [Next]_vars => Inv'
  <2> SUFFICES ASSUME Kept, Inv, [Next]_vars, OneLine(record)'
               PROVE  Recoverable(notes, record)'
    OBVIOUS
  <2>1. record \in Metadata /\ notes \in Seq(Seq(Tokens))
    BY DEF Kept, TypeOK
  <2>2. CASE Put
    <3>1. record' = record /\ notes' = EncodeMetadata(record)
      BY <2>2 DEF Put
    <3>2. OneLine(record)
      BY <3>1
    <3>3. Recoverable(EncodeMetadata(record), record)
      BY <2>1, <3>2, EncodedRecoverable
    <3> QED  BY <3>1, <3>3
  <2>3. CASE DropLine \/ SpoilValue \/ CutShort
    <3>1. record' = record
      BY <2>1, <2>3, EditsAreTexts
    <3>2. Recoverable(notes, record)
      BY <3>1
    <3>3. Recoverable(notes', record)
      BY <2>1, <2>3, <3>2, EditsKeepRecoverable
    <3> QED  BY <3>1, <3>3
  <2>4. CASE Get \/ UNCHANGED vars
    BY <2>4 DEF Get, vars
  <2> QED  BY <2>2, <2>3, <2>4 DEF Next
<1> QED  BY <1>1, <1>2, NotesKept, PTL DEF Spec

\* What is read from recoverable notes when a record is read: of every field,
\* what was written, or nothing, or junk; and of the tier, what was written.
LEMMA RecoverableFields ==
  ASSUME NEW m \in Metadata, NEW text \in Seq(Seq(Tokens)), Recoverable(text, m),
         LinesOf(text, "tier") # {}, TierParses(Field(text, "tier"))
  PROVE  /\ Field(text, "tier") = <<m.tier>>
         /\ \A key \in Keys \ {"tier"} :
              LinesOf(text, key) # {} =>
                \E value \in Values(m, key) : Field(text, key) = Trim(value)
<1> DEFINE n == Len(text)
<1>1. n \in Nat /\ DOMAIN text = 1 .. n
  BY Positions
<1>2. PICK l \in LinesOf(text, "tier") :
        l \in 1 .. n /\ Field(text, "tier") = Value(text[l])
  BY FieldOfText
<1>3. Separator(text[l]) > 0 /\ Key(text[l]) = <<"tier">>
  BY DEF LinesOf
<1>4. ~Untiered(text[l])
  BY <1>3, UntieredUnread
<1>5. l = n /\ LastLine(text[n], m)
  <2>1. ~Whole(text[l], m)
    BY <1>4, WholeIsUntiered
  <2>2. /\ l < Len(text) => Whole(text[l], m)
        /\ ~(l < Len(text)) => LastLine(text[l], m)
    BY <1>2 DEF Recoverable
  <2>3. ~(l < Len(text))
    BY <2>1, <2>2, Zenon
  <2>4. l = n
    <3>1. n \in Nat /\ l \in 1 .. n /\ ~(l < n)
      BY <1>1, <1>2, <2>3
    <3> HIDE DEF n
    <3> QED  BY <3>1
  <2> QED  BY <2>2, <2>3, <2>4
<1>6. PICK value \in Values(m, "tier") : text[n] = Line("tier", value)
  BY <1>4, <1>5 DEF LastLine
<1>7. "tier" \in Keys /\ value \in Seq(Tokens)
  BY TierValues, ValuesAreLines
<1>8. Field(text, "tier") = Trim(value)
  BY <1>2, <1>5, <1>6, <1>7, KeyIsToken, FieldLine DEF Line
<1>9. value = <<m.tier>>
  <2>1. Len(<<>>) = 0 /\ <<Junk>>[1] = Junk
    OBVIOUS
  <2>2. Junk \notin Tiers
    BY DEF Junk, Tiers
  <2>3. ~TierParses(<<>>) /\ ~TierParses(<<Junk>>)
    BY <2>1, <2>2 DEF TierParses
  <2>4. Trim(<<>>) = <<>> /\ Trim(<<Junk>>) = <<Junk>>
    BY <1>7, ValuesAreLines
  <2> QED  BY <1>8, <2>3, <2>4, TierValues
<1>10. Field(text, "tier") = <<m.tier>>
  BY <1>8, <1>9, TierReads DEF Metadata
<1>11. ASSUME NEW key \in Keys \ {"tier"}, LinesOf(text, key) # {}
       PROVE  \E v \in Values(m, key) : Field(text, key) = Trim(v)
  <2>1. PICK i \in LinesOf(text, key) : i \in 1 .. n /\ Field(text, key) = Value(text[i])
    BY <1>11, FieldOfText
  <2>2. Separator(text[i]) > 0 /\ Key(text[i]) = <<key>>
    BY DEF LinesOf
  <2>3. i # n
    BY <1>6, <1>7, <2>2, KeyOfLine
  <2>4. Whole(text[i], m)
    <3>1. i < Len(text) => Whole(text[i], m)
      BY <2>1 DEF Recoverable
    <3>2. i < Len(text)
      <4>1. n \in Nat /\ i \in 1 .. n /\ i # n
        BY <1>1, <2>1, <2>3
      <4> HIDE DEF n
      <4>2. i < n
        BY <4>1
      <4> QED  BY <4>2 DEF n
    <3> QED  BY <3>1, <3>2, Zenon
  <2>5. PICK k \in Keys \ {"tier"} : \E v \in Values(m, k) : text[i] = Line(k, v)
    BY <2>2, <2>4 DEF Whole
  <2>6. PICK v \in Values(m, k) : text[i] = Line(k, v)
    BY <2>5
  <2>7. v \in Seq(Tokens)
    BY <2>6, ValuesAreLines
  <2>8. k = key
    BY <2>2, <2>6, <2>7, KeyOfLine
  <2>9. Value(text[i]) = Trim(v)
    BY <2>6, <2>7, KeyIsToken, FieldLine DEF Line
  <2> QED  BY <2>1, <2>8, <2>9
<1> QED  BY <1>10, <1>11

\* vault.rs:177-203: of a record that is read, tier, source and time are what
\* was written, whatever was dropped, spoilt or cut; a free text is that or
\* what the editor left, and an expiry that or none.
THEOREM NothingIsInventedHolds == Spec => []NothingIsInvented
<1> DEFINE Inv == OneLine(record) => Recoverable(notes, record)
<1>1. Kept /\ Inv => NothingIsInvented
  <2> SUFFICES ASSUME Kept, Recoverable(notes, record), pc = "read",
                      OneLine(record), answer # Unparseable
               PROVE  /\ answer.tier = record.tier
                      /\ answer.acquired_at = record.acquired_at
                      /\ answer.acquired_via = Trimmed(record).acquired_via
                      /\ answer.expires_at \in {record.expires_at, NoTime}
                      /\ answer.provider \in
                           {Trimmed(record).provider, <<<<>>>>, <<<<Junk>>>>}
                      /\ answer.project \in {Trimmed(record).project, <<<<Junk>>>>}
                      /\ answer.source_description \in
                           {Trimmed(record).source_description, <<<<Junk>>>>}
    BY DEF NothingIsInvented
  <2> DEFINE m == record
             Read(key) == Field(notes, key)
  <2>1. m \in Metadata /\ notes \in Seq(Seq(Tokens)) /\ answer = DecodeMetadata(notes)
    BY DEF Kept, TypeOK
  <2>2. Complete(notes)
    BY <2>1 DEF DecodeMetadata
  <2>3. /\ answer.tier = Read("tier")[1]
        /\ answer.acquired_at = Read("acquired_at")[1]
        /\ answer.acquired_via = Via(Read("acquired_via"))
        /\ answer.expires_at = Expiry(notes)
        /\ answer.provider = <<Read("provider")>>
        /\ answer.project = <<Read("project")>>
        /\ answer.source_description = <<Read("source_description")>>
    BY <2>1, <2>2 DEF DecodeMetadata
  <2>4. /\ Read("tier") = <<m.tier>>
        /\ \A key \in Keys \ {"tier"} :
             LinesOf(notes, key) # {} =>
               \E value \in Values(m, key) : Read(key) = Trim(value)
    BY <2>1, <2>2, RecoverableFields DEF Complete, Mandatory
  <2>5. /\ "acquired_at" \in Keys \ {"tier"} /\ "acquired_via" \in Keys \ {"tier"}
        /\ "expires_at" \in Keys \ {"tier"} /\ "project" \in Keys \ {"tier"}
        /\ LinesOf(notes, "acquired_at") # {} /\ LinesOf(notes, "acquired_via") # {}
        /\ "provider" \in Keys \ {"tier"} /\ "source_description" \in Keys \ {"tier"}
        /\ LinesOf(notes, "project") # {} /\ LinesOf(notes, "provider") # {}
        /\ LinesOf(notes, "source_description") # {}
    BY <2>2 DEF Complete, Mandatory, Keys
  <2>6. /\ Values(m, "acquired_at") = {TimeText(m.acquired_at)[1], <<>>, <<Junk>>}
        /\ Values(m, "expires_at") = {TimeText(m.expires_at)[1], <<>>, <<Junk>>}
        /\ Values(m, "acquired_via") = {ViaText(m.acquired_via)[1], <<>>, <<Junk>>}
        /\ Values(m, "provider") = {m.provider[1], <<>>, <<Junk>>}
        /\ Values(m, "project") = {m.project[1], <<>>, <<Junk>>}
        /\ Values(m, "source_description") = {m.source_description[1], <<>>, <<Junk>>}
    BY DEF Values, Written
  <2>7. Trim(<<>>) = <<>> /\ Trim(<<Junk>>) = <<Junk>>
    BY <2>1, <2>5, ValuesAreLines
  <2>8. /\ Len(<<>>) = 0 /\ <<Junk>>[1] = Junk /\ <<Junk>> # <<>>
        /\ Junk \notin Times /\ Junk \notin Kinds
    <3>1. Junk \notin Kinds
      BY DEF Junk, Kinds
    <3>2. <<Junk>> # <<>> /\ Len(<<>>) = 0 /\ <<Junk>>[1] = Junk
      OBVIOUS
    <3> QED  BY <3>1, <3>2, NotesAssumption
  <2>9. ~TimeParses(<<>>) /\ ~TimeParses(<<Junk>>)
    BY <2>8 DEF TimeParses
  <2>10. m.acquired_at \in Times \cup {NoTime} /\ m.expires_at \in Times \cup {NoTime}
    BY <2>1 DEF Metadata
  <2> HIDE DEF m
  <2>11. Read("acquired_at")[1] = m.acquired_at
    <3>1. TimeParses(Read("acquired_at"))
      BY <2>2 DEF Complete
    <3>2. Read("acquired_at") = Trim(TimeText(m.acquired_at)[1])
      BY <2>4, <2>5, <2>6, <2>7, <2>9, <3>1
    <3> QED  BY <2>10, <3>1, <3>2, TimeReads
  <2>12. Expiry(notes) \in {m.expires_at, NoTime}
    <3> SUFFICES ASSUME LinesOf(notes, "expires_at") # {}, TimeParses(Read("expires_at"))
                 PROVE  Read("expires_at")[1] = m.expires_at
      BY DEF Expiry
    <3>1. Read("expires_at") = Trim(TimeText(m.expires_at)[1])
      BY <2>4, <2>5, <2>6, <2>7, <2>9
    <3> QED  BY <2>10, <3>1, TimeReads
  <2>13. Via(Read("acquired_via")) = Trimmed(m).acquired_via
    <3>1. Via(Read("acquired_via")) # Unparseable
      BY <2>2 DEF Complete
    <3>2. Via(<<>>) = Unparseable /\ Via(<<Junk>>) = Unparseable
      <4>1. Head(<<Junk>>) = Junk
        OBVIOUS
      <4> QED  BY <2>8, <4>1 DEF Via
    <3>3. Read("acquired_via") = Trim(ViaText(m.acquired_via)[1])
      BY <2>4, <2>5, <2>6, <2>7, <3>1, <3>2
    <3> QED  BY <2>1, <3>3, ViaReads DEF m
  <2>14. /\ <<Read("project")>> \in {Trimmed(m).project, <<<<Junk>>>>}
         /\ <<Read("source_description")>> \in
              {Trimmed(m).source_description, <<<<Junk>>>>}
    <3>1. Read("project") # <<>> /\ Read("source_description") # <<>>
      <4>1. ~Blank(<<Read("project")>>) /\ ~Blank(<<Read("source_description")>>)
        BY <2>2 DEF Complete, Traceable
      <4>2. \A i \in DOMAIN <<<<>>>> : <<<<>>>>[i] = <<>>
        OBVIOUS
      <4>3. Blank(<<<<>>>>)
        BY <2>7, <4>2 DEF Blank
      <4> QED  BY <4>1, <4>3
    <3>2. Read("project") \in {Trim(m.project[1]), <<Junk>>}
      BY <2>4, <2>5, <2>6, <2>7, <3>1
    <3>3. Read("source_description") \in {Trim(m.source_description[1]), <<Junk>>}
      BY <2>4, <2>5, <2>6, <2>7, <3>1
    <3>4. /\ Trimmed(m).project = <<Trim(m.project[1])>>
          /\ Trimmed(m).source_description = <<Trim(m.source_description[1])>>
      BY <2>1 DEF Trimmed, Metadata, m
    <3> QED  BY <3>2, <3>3, <3>4
  <2>16. <<Read("provider")>> \in {Trimmed(m).provider, <<<<>>>>, <<<<Junk>>>>}
    <3>1. Read("provider") \in {Trim(m.provider[1]), <<>>, <<Junk>>}
      BY <2>4, <2>5, <2>6, <2>7
    <3>2. Trimmed(m).provider = <<Trim(m.provider[1])>>
      BY <2>1 DEF Trimmed, Metadata, m
    <3> QED  BY <3>1, <3>2
  <2>15. <<m.tier>>[1] = m.tier
    OBVIOUS
  <2> QED  BY <2>3, <2>4, <2>11, <2>12, <2>13, <2>14, <2>15, <2>16 DEF m
<1> QED  BY <1>1, NotesKept, NotesRecoverable, PTL

====
