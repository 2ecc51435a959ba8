--------------------------- MODULE AbstractVault ---------------------------
(***************************************************************************)
(* What working.kdbx promises its readers and writers, whatever happens    *)
(* inside keepassxc-cli: a store of secrets by path, written once.         *)
(*                                                                         *)
(* A put takes effect in one step or not at all.  "stored" and             *)
(* "not_started" say which; "failed" leaves it open, and so does a writer  *)
(* that is killed.  A get hands out a secret that was in the store at some *)
(* moment of the call.                                                     *)
(*                                                                         *)
(* With a keepassxc-cli that saves over changes (overwrites) all that is   *)
(* left of the promise for a stored secret is that it was stored once.     *)
(***************************************************************************)
EXTENDS Sequences

CONSTANTS Calls,      \* calls of put and of get
          Workloads   \* what they may be asked to do, all together

VARIABLES
  request,     \* what each call is asked to do
  overwrites,  \* the installed keepassxc-cli saves over changes
  entries,     \* the store
  written,     \* the puts that have taken effect
  seen,        \* what each get has found
  answer,      \* what each call has been told
  got          \* the secret a get was handed, as a set of at most one

vars == <<request, overwrites, entries, written, seen, answer, got>>

Writers == {c \in Calls : request[c].op = "put"}
Readers == {c \in Calls : request[c].op = "get"}

Path(c) == request[c].project \o request[c].label

Entry(c) == [path |-> Path(c), secret |-> c]

Under(path, stored) == {e \in stored : e.path = path}

Init ==
  /\ request \in Workloads
  /\ overwrites \in BOOLEAN
  /\ entries = {}
  /\ written = {}
  /\ seen = [c \in Calls |-> {}]
  /\ answer = [c \in Calls |-> "none"]
  /\ got = [c \in Calls |-> {}]

\* What a save may keep of the other entries.
Kept ==
  IF overwrites THEN SUBSET {Entry(c) : c \in written} ELSE {entries}

\* A put takes effect, for a caller that waits for it, was told that it
\* failed, or was killed.
Write(c) ==
  /\ c \notin written
  /\ answer[c] \in {"none", "failed", "never"}
  /\ \E kept \in Kept :
       /\ Under(Path(c), kept) = {}
       /\ entries' = kept \cup {Entry(c)}
  /\ written' = written \cup {c}
  /\ UNCHANGED <<request, overwrites, seen, answer, got>>

\* A save that adds no entry.
Resave ==
  /\ entries' \in Kept
  /\ UNCHANGED <<request, overwrites, written, seen, answer, got>>

Find(c) ==
  /\ seen[c] = {}
  /\ seen' = [seen EXCEPT ![c] = Under(Path(c), entries)]
  /\ UNCHANGED <<request, overwrites, entries, written, answer, got>>

Tell(c, what) ==
  /\ answer[c] = "none"
  /\ answer' = [answer EXCEPT ![c] = what]
  /\ UNCHANGED <<request, overwrites, entries, written, seen>>

AnswerPut(c) ==
  /\ \/ c \in written /\ Tell(c, "stored")
     \/ c \notin written /\ Tell(c, "not_started")
     \/ Tell(c, "failed")
  /\ UNCHANGED got

\* "not_found" answers every failure; "unparseable" an entry edited by hand.
AnswerGet(c) ==
  \/ /\ Tell(c, "found")
     /\ \E e \in seen[c] : got' = [got EXCEPT ![c] = {e.secret}]
  \/ seen[c] # {} /\ Tell(c, "unparseable") /\ UNCHANGED got
  \/ Tell(c, "not_found") /\ UNCHANGED got

\* git-credential store and erase.
AnswerOther(c) == Tell(c, "ignored") /\ UNCHANGED got

\* The caller is killed.
Abandon(c) == Tell(c, "never") /\ UNCHANGED got

Next ==
  \/ \E c \in Writers : Write(c) \/ AnswerPut(c)
  \/ \E c \in Readers : Find(c) \/ AnswerGet(c)
  \/ \E c \in Calls \ (Writers \cup Readers) : AnswerOther(c)
  \/ \E c \in Calls : Abandon(c)
  \/ Resave

Spec == Init /\ [][Next]_vars

-----------------------------------------------------------------------------

\* What the steps amount to.  "stored" and "not_started" are true and stay
\* true; a get finds nothing but what puts have stored under its path, and
\* hands out one of the secrets it found; and unless saves overwrite, the
\* store is all that was stored, each path once.
Promises ==
  /\ \A c \in Writers :
       /\ answer[c] = "stored" => c \in written
       /\ answer[c] = "not_started" => c \notin written
  /\ \A c \in Readers :
       /\ answer[c] = "unparseable" => seen[c] # {}
       /\ answer[c] = "found" => got[c] # {}
       /\ got[c] \subseteq {e.secret : e \in seen[c]}
       /\ seen[c] \subseteq {Entry(w) : w \in {v \in written : Path(v) = Path(c)}}
  /\ entries \subseteq {Entry(w) : w \in written}
  /\ ~overwrites =>
       /\ entries = {Entry(w) : w \in written}
       /\ \A v, w \in written : Path(v) = Path(w) => v = w

=============================================================================
