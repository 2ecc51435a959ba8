--------------------------- MODULE MCVaultNotes ---------------------------
(* An instance of VaultNotes: a plain record, one whose description brings *)
(* a line of its own, and every record that differs from one of them in    *)
(* one field, with texts that hold blanks, separators, keys and lines.     *)
EXTENDS VaultNotes

MCTimes == {"t1", "t2"}

MCTokens ==
  {Header, "=", Space, Junk, "github", "redaktly", "token", "x", "y"}
    \cup Keys \cup Kinds \cup Tiers \cup MCTimes

Plain ==
  [provider           |-> <<<<"github">>>>,
   project            |-> <<<<"redaktly">>>>,
   source_description |-> <<<<"token">>>>,
   acquired_via       |-> [kind |-> "github-app-installation-token",
                           found_at |-> <<<<>>>>],
   acquired_at        |-> "t1",
   expires_at         |-> "t2",
   tier               |-> "1"]

OddTexts ==
  {<<<<Space, "x", Space>>>>,
   <<<<"x", "=", "y">>>>,
   <<<<"tier", "=", "0">>>>,
   <<<<"=">>>>,
   <<<<Space>>>>,
   <<<<"x">>, <<"tier", "=", "0">>>>,
   <<<<"x">>, <<"expires_at", "=">>>>,
   <<<<"x">>, <<Space, "acquired_via", Space, "=", "manual-entry">>>>,
   <<<<"x">>, <<"project", "=", Space>>>>,
   <<<<"x">>, <<"acquired_at", "=", "t2">>, <<"y">>>>}

Vias ==
  {[kind |-> "manual-entry", found_at |-> <<<<>>>>]} \cup
  {[kind |-> "migrated:", found_at |-> text] : text \in OddTexts \cup {<<<<>>>>}}

\* The records that differ from the given one in one field.
Varied(m) ==
  {[m EXCEPT !.provider = text] : text \in OddTexts \cup {<<<<>>>>}} \cup
  {[m EXCEPT !.project = text] : text \in OddTexts} \cup
  {[m EXCEPT !.source_description = text] : text \in OddTexts} \cup
  {[m EXCEPT !.acquired_via = via] : via \in Vias} \cup
  {[m EXCEPT !.expires_at = NoTime], [m EXCEPT !.acquired_at = "t2"],
   [m EXCEPT !.tier = "0"], [m EXCEPT !.tier = "2"]}

MCRecords ==
  Varied(Plain) \cup
  Varied([Plain EXCEPT !.source_description = <<<<"x">>, <<"tier", "=", "0">>>>])
=============================================================================
