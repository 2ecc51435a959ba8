----------------------------- MODULE VaultNotes ----------------------------
(* What the Notes field of an entry remembers (encode_metadata and         *)
(* decode_metadata, crates/custodly-vault/src/vault.rs): put writes one    *)
(* key=value line per field, somebody edits the notes in KeePassXC or they *)
(* are cut short, and get reads them back.                                 *)
(*                                                                         *)
(* A line is a sequence of tokens, Space and "=" among them; a text is the *)
(* sequence of its lines.  Times, tiers and kinds are one token each.      *)
(* Editing is external: the program has no operation for it.               *)
EXTENDS Naturals, SequencesExt

CONSTANTS Tokens,    \* what texts are made of
          Times,     \* the tokens that parse as a DateTime
          Records,   \* the metadata put is called with
          MAX_EDITS  \* bound: edits between put and get

Kinds == {"github-app-installation-token", "manual-entry", "migrated:"}
Tiers == {"0", "1", "2"}

Header == "[custodly:metadata:v1]"

Mandatory ==
  {"acquired_via", "tier", "acquired_at", "provider", "project",
   "source_description"}

Keys == Mandatory \cup {"expires_at"}

Space == "blank"
NoTime == "none" \* no time, written as an empty text
Junk == "junk"   \* a token that is no time, tier or kind

Texts == Seq(Seq(Tokens)) \ {<<>>}

\* Only a migrated secret says where it was found.
Sources ==
  [kind: Kinds \ {"migrated:"}, found_at: {<<<<>>>>}] \cup
  [kind: {"migrated:"}, found_at: Texts]

Metadata ==
  [provider: Texts, project: Texts, source_description: Texts,
   acquired_via: Sources, acquired_at: Times,
   expires_at: Times \cup {NoTime}, tier: Tiers]

ASSUME NotesAssumption ==
  /\ {Header, "=", Space, Junk} \cup Keys \cup Kinds \cup Tiers \subseteq Tokens
  /\ Times \subseteq Tokens \ {NoTime, Junk, Space}
  /\ Records \subseteq Metadata
  /\ MAX_EDITS \in Nat

Unparseable == [error |-> "UnparseableMetadata"]

VARIABLES record, pc, notes, edits, answer

vars == <<record, pc, notes, edits, answer>>

-----------------------------------------------------------------------------
(* Lines.                                                                  *)

Trim(line) ==
  LET ink == {i \in DOMAIN line : line[i] # Space}
  IN IF ink = {} THEN <<>> ELSE SubSeq(line, Min(ink), Max(ink))

\* Where split_once finds its separator; 0 when it does not.
\* Mutant: rsplit_once.
LastSeparator(line) ==
  LET at == {i \in DOMAIN line : line[i] = "="}
  IN IF at = {} THEN 0 ELSE Max(at)

Separator(line) ==
  LET at == {i \in DOMAIN line : line[i] = "="}
  IN IF at = {} THEN 0 ELSE Min(at)

Key(line)   == Trim(SubSeq(line, 1, Separator(line) - 1))
Value(line) == Trim(SubSeq(line, Separator(line) + 1, Len(line)))

\* The lines that decode_metadata reads under a key.
LinesOf(text, key) ==
  {i \in DOMAIN text : Separator(text[i]) > 0 /\ Key(text[i]) = <<key>>}

\* fields.get(key), when it is there.
\* Mutant: the first line of a key is kept.
FirstField(text, key) == Value(text[Min(LinesOf(text, key))])

Field(text, key) == Value(text[Max(LinesOf(text, key))])

-----------------------------------------------------------------------------
(* encode_metadata and decode_metadata.                                    *)

KeyLines(key, text) == [text EXCEPT ![1] = <<key, "=">> \o @]

ViaText(via) == [via.found_at EXCEPT ![1] = <<via.kind>> \o @]

TimeText(time) == IF time = NoTime THEN <<<<>>>> ELSE <<<<time>>>>

\* Mutant: the tier stands before the texts.
EncodeTierFirst(m) ==
  <<<<Header>>>>
    \o KeyLines("tier", <<<<m.tier>>>>)
    \o KeyLines("provider", m.provider)
    \o KeyLines("project", m.project)
    \o KeyLines("source_description", m.source_description)
    \o KeyLines("acquired_via", ViaText(m.acquired_via))
    \o KeyLines("acquired_at", TimeText(m.acquired_at))
    \o KeyLines("expires_at", TimeText(m.expires_at))

EncodeMetadata(m) ==
  <<<<Header>>>>
    \o KeyLines("provider", m.provider)
    \o KeyLines("project", m.project)
    \o KeyLines("source_description", m.source_description)
    \o KeyLines("acquired_via", ViaText(m.acquired_via))
    \o KeyLines("acquired_at", TimeText(m.acquired_at))
    \o KeyLines("expires_at", TimeText(m.expires_at))
    \o KeyLines("tier", <<<<m.tier>>>>)

\* EntryMetadata::new refuses a blank project or source_description.
Blank(text) == \A i \in DOMAIN text : Trim(text[i]) = <<>>
Traceable(project, source) == ~Blank(project) /\ ~Blank(source)

\* Mutant: a source that is none of the three is a manual entry.
ViaOrManual(value) ==
  IF value # <<>> /\ Head(value) \in Kinds
  THEN [kind |-> Head(value), found_at |-> <<Tail(value)>>]
  ELSE [kind |-> "manual-entry", found_at |-> <<<<>>>>]

Via(value) ==
  IF \/ value = <<>>
     \/ Head(value) \notin Kinds
     \/ Head(value) # "migrated:" /\ Len(value) # 1
  THEN Unparseable
  ELSE [kind |-> Head(value), found_at |-> <<Tail(value)>>]

\* Mutant: a tier is any token.
TierIsAnyToken(value) == Len(value) = 1

TierParses(value) == Len(value) = 1 /\ value[1] \in Tiers

TimeParses(value) == Len(value) = 1 /\ value[1] \in Times

\* A record that lacks nothing but perhaps its expiry: expires_at is optional,
\* and one that does not parse is dropped.
Complete(text) ==
  /\ \A key \in Mandatory : LinesOf(text, key) # {}
  /\ Via(Field(text, "acquired_via")) # Unparseable
  /\ TierParses(Field(text, "tier"))
  /\ TimeParses(Field(text, "acquired_at"))
  /\ Traceable(<<Field(text, "project")>>, <<Field(text, "source_description")>>)

Expiry(text) ==
  IF LinesOf(text, "expires_at") # {} /\ TimeParses(Field(text, "expires_at"))
  THEN Field(text, "expires_at")[1]
  ELSE NoTime

DecodeMetadata(text) ==
  IF ~Complete(text) THEN Unparseable
  ELSE [provider           |-> <<Field(text, "provider")>>,
        project            |-> <<Field(text, "project")>>,
        source_description |-> <<Field(text, "source_description")>>,
        acquired_via       |-> Via(Field(text, "acquired_via")),
        acquired_at        |-> Field(text, "acquired_at")[1],
        expires_at         |-> Expiry(text),
        tier               |-> Field(text, "tier")[1]]

-----------------------------------------------------------------------------

Init ==
  /\ record \in {m \in Records : Traceable(m.project, m.source_description)}
  /\ pc = "new"
  /\ notes = <<>>
  /\ edits = 0
  /\ answer = Unparseable

Put ==
  /\ pc = "new"
  /\ notes' = EncodeMetadata(record)
  /\ pc' = "stored"
  /\ UNCHANGED <<record, edits, answer>>

Edit(text) ==
  /\ pc = "stored"
  /\ edits < MAX_EDITS
  /\ notes' = text
  /\ edits' = edits + 1
  /\ UNCHANGED <<record, pc, answer>>

DropLine == \E i \in DOMAIN notes : Edit(RemoveAt(notes, i))

\* What was a value is now something else, or nothing.
SpoilValue ==
  \E i \in DOMAIN notes, value \in {<<>>, <<Junk>>} :
    /\ Separator(notes[i]) > 0
    /\ Edit([notes EXCEPT ![i] = SubSeq(@, 1, Separator(@)) \o value])

\* Line i ends after n tokens and is the last.
CutShort ==
  \E i \in DOMAIN notes : \E n \in 0 .. Len(notes[i]) :
    Edit(SubSeq(notes, 1, i - 1) \o <<SubSeq(notes[i], 1, n)>>)

Get ==
  /\ pc = "stored"
  /\ answer' = DecodeMetadata(notes)
  /\ pc' = "read"
  /\ UNCHANGED <<record, notes, edits>>

Next == Put \/ DropLine \/ SpoilValue \/ CutShort \/ Get

Spec == Init /\ [][Next]_vars

-----------------------------------------------------------------------------
(* Properties.                                                             *)

\* Every variable has its type.
TypeOK ==
  /\ record \in Metadata
  /\ pc \in {"new", "stored", "read"}
  /\ notes \in Seq(Seq(Tokens))
  /\ edits \in 0 .. MAX_EDITS
  /\ answer \in Metadata \cup {Unparseable}

OneLine(m) ==
  \A text \in {m.provider, m.project, m.source_description,
               m.acquired_via.found_at} : Len(text) = 1

\* A record as it comes back: without the blanks around its values.
Trimmed(m) ==
  [m EXCEPT !.provider           = <<Trim(@[1])>>,
            !.project            = <<Trim(@[1])>>,
            !.source_description = <<Trim(@[1])>>,
            !.acquired_via       = Via(Trim(<<@.kind>> \o @.found_at[1]))]

\* entry.rs: what put is given, get returns, whatever stands in the texts,
\* separators, keys and tiers included; only blanks around a value are lost.
\* For texts of one line.
RoundTrip ==
  pc = "read" /\ edits = 0 /\ OneLine(record) => answer = Trimmed(record)

\* vault.rs:164-175: a text that brings lines of its own may hide its own
\* field or one above it, but no tier, time or source that follows it.
LaterFieldsStand ==
  pc = "read" /\ edits = 0 /\ answer # Unparseable =>
    /\ answer.tier = record.tier
    /\ answer.acquired_at = record.acquired_at
    /\ answer.expires_at = record.expires_at
    /\ Len(record.acquired_via.found_at) = 1 =>
         answer.acquired_via = Trimmed(record).acquired_via

\* text is whole up to its last line, and that is cut short.
IsCutShort(text, whole) ==
  /\ text # whole
  /\ Len(text) \in 1 .. Len(whole)
  /\ IsPrefix(Front(text), whole)
  /\ IsPrefix(Last(text), whole[Len(text)])

\* vault.rs:177-180: notes of one-line texts that were cut short, wherever,
\* are refused: the last field is one that must be there.
PartialWriteRefused ==
  pc = "read" /\ OneLine(record) /\ IsCutShort(notes, EncodeMetadata(record)) =>
    answer = Unparseable

\* vault.rs:177-203: whatever was dropped, spoilt or cut from notes of one-line
\* texts, a record that is read has the tier, the source and the time that
\* were written.  A free text is what was written or what the editor left in
\* its place, and only the provider may be empty.  The expiry is what was
\* written or is lost, although a record without it is not complete.
NothingIsInvented ==
  pc = "read" /\ OneLine(record) /\ answer # Unparseable =>
    /\ answer.tier = record.tier
    /\ answer.acquired_at = record.acquired_at
    /\ answer.acquired_via = Trimmed(record).acquired_via
    /\ answer.expires_at \in {record.expires_at, NoTime}
    /\ answer.provider \in {Trimmed(record).provider, <<<<>>>>, <<<<Junk>>>>}
    /\ answer.project \in {Trimmed(record).project, <<<<Junk>>>>}
    /\ answer.source_description \in {Trimmed(record).source_description, <<<<Junk>>>>}

=============================================================================
