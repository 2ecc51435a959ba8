------------------------------- MODULE Vault -------------------------------
(***************************************************************************)
(* crates/custodly-vault/src/vault.rs: Vault::put and Vault::get, and the  *)
(* git-credential command that calls get.                                  *)
(*                                                                         *)
(* Each element of Calls is one call, in a process of its own or not.      *)
(* Every command a call runs is a keepassxc-cli subprocess, which reads    *)
(* the whole of working.kdbx, changes what it read and writes the whole    *)
(* file back; nothing in the code keeps two of them apart.  A subprocess   *)
(* outlives a caller that is killed, and one whose wait for it fails: the  *)
(* `mkdir` of a put may overlap its `add`.  The secret of a put is named   *)
(* by the call.                                                            *)
(*                                                                         *)
(* keepassxc-cli is external: it refuses to make a group that exists or    *)
(* has no parent, and to add an entry whose path is taken or whose group   *)
(* is missing.  Without all of its input it ends and saves nothing.        *)
(* Whether it saves over a file that has changed since it was opened       *)
(* depends on its version.                                                 *)
(***************************************************************************)
EXTENDS Sequences, SequencesExt

CONSTANTS
  Calls,         \* calls of put, of get and of git-credential
  Workloads,     \* what the calls may be asked to do, all together
  NotedProjects  \* projects an edit of the Notes may name

VARIABLES
  request,     \* what each call is asked to do
  pc,          \* where each call is
  outcome,     \* what each call has returned
  got,         \* the VaultEntry a get returned, as a set of at most one
  child,       \* how far the subprocess of each command of a call is
  snapshot,    \* what that subprocess has read
  db,          \* working.kdbx
  overwrites,  \* the installed keepassxc-cli saves over changes
  overlapped   \* history: a subprocess has saved over changes

vars == <<request, pc, outcome, got, child, snapshot, db, overwrites, overlapped>>
caller == <<request, pc, outcome, got>>
file == <<db, overwrites, overlapped>>

Commands == {"mkdir", "add", "show"}
Phases == {"none", "started", "opened", "done", "failed"}

\* Projects and labels are sequences of names: "/" separates them in a path,
\* whether it was put there by format! or came with the project or the label.
Request ==
  [op:      {"put", "get", "erase"},  \* erase: git's store and erase
   project: Seq(STRING),
   label:   Seq(STRING)]

ASSUME VaultAssumption ==
  /\ Workloads \subseteq [Calls -> Request]
  /\ \A w \in Workloads : \A c \in Calls : w[c].project # <<>> /\ w[c].label # <<>>
  /\ NotedProjects \subseteq Seq(STRING) \ {<<>>}

\* Mutant: the label alone.
GroupPathOfLabel(c) == request[c].label

\* VaultEntry::new and SecretQuery::group_path.
GroupPath(c) == request[c].project \o request[c].label

\* What Notes name that decode_metadata refuses.
Unparseable == <<>>

NoCopy == [groups |-> {}, entries |-> {}]

Init ==
  /\ request \in Workloads
  /\ pc = [c \in Calls |-> CASE request[c].op = "put" -> "mkdir"
                             [] request[c].op = "get" -> "show"
                             [] OTHER -> "ignore"]
  /\ outcome = [c \in Calls |-> "none"]
  /\ got = [c \in Calls |-> {}]
  /\ child = [c \in Calls |-> [k \in Commands |-> "none"]]
  /\ snapshot = [c \in Calls |-> [k \in Commands |-> NoCopy]]
  /\ db = [groups |-> {<<>>}, entries |-> {}]
  /\ overwrites \in BOOLEAN
  /\ overlapped = FALSE

Under(path, entries) == {e \in entries : e.path = path}

-----------------------------------------------------------------------------
(* The caller.                                                             *)

Goto(c, place) == pc' = [pc EXCEPT ![c] = place]

Return(c, what) ==
  /\ pc' = [pc EXCEPT ![c] = "returned"]
  /\ outcome' = [outcome EXCEPT ![c] = what]

\* Mutant: get goes on with what an empty output parses to.
RunErrorDefaults(c, error) ==
  \/ pc[c] = "mkdir" /\ Goto(c, "add") /\ UNCHANGED outcome
  \/ pc[c] = "add" /\ Return(c, error)
  \/ pc[c] = "show" /\ Return(c, "unparseable")

\* Mutant: get has an answer of its own for a run() that failed.
RunErrorPassedOn(c, error) ==
  \/ pc[c] = "mkdir" /\ Goto(c, "add") /\ UNCHANGED outcome
  \/ pc[c] = "add" /\ Return(c, error)
  \/ pc[c] = "show" /\ Return(c, "cli_error")

\* Mutant: put tries again, and again.
RunErrorRetries(c, error) ==
  \/ pc[c] \in {"mkdir", "add"} /\ Goto(c, "add") /\ UNCHANGED outcome
  \/ pc[c] = "show" /\ Return(c, "not_found")

\* What put and get make of a run() that failed: ensure_group drops the
\* error, put reports it, get reports that there is no such entry.
RunError(c, error) ==
  \/ pc[c] = "mkdir" /\ Goto(c, "add") /\ UNCHANGED outcome
  \/ pc[c] = "add" /\ Return(c, error)
  \/ pc[c] = "show" /\ Return(c, "not_found")

\* run(): spawn the subprocess and feed it the password and the secret.
Spawn(c) ==
  /\ pc[c] \in Commands
  /\ child[c][pc[c]] = "none"
  /\ child' = [child EXCEPT ![c][pc[c]] = "started"]
  /\ UNCHANGED <<caller, snapshot, file>>

\* keepassxc-cli is not there or the keystore gives no password: run() says
\* "not_started".  It does not start or does not take its input: "failed".
SpawnFails(c) ==
  /\ pc[c] \in Commands
  /\ child[c][pc[c]] = "none"
  /\ \E error \in {"not_started", "failed"} : RunError(c, error)
  /\ UNCHANGED <<request, got, child, snapshot, file>>

\* The entry `show` printed.
Printed(c) ==
  CHOOSE e \in Under(GroupPath(c), snapshot[c]["show"].entries) : TRUE

\* Mutant: the exit status of the subprocess is not looked at.
RunReturnsUnchecked(c) ==
  /\ pc[c] \in Commands
  /\ child[c][pc[c]] \in {"done", "failed"}
  /\ \/ pc[c] = "mkdir" /\ Goto(c, "add") /\ UNCHANGED <<outcome, got>>
     \/ pc[c] = "add" /\ Return(c, "stored") /\ UNCHANGED got
     \/ pc[c] = "show" /\ Return(c, "not_found") /\ UNCHANGED got
  /\ UNCHANGED <<request, child, snapshot, file>>

\* The subprocess ends by itself and run() returns.  The project of what get
\* returns is the one the Notes name, and is compared with nothing.
RunReturns(c) ==
  /\ pc[c] \in Commands
  /\ \/ /\ child[c][pc[c]] = "failed"
        /\ RunError(c, "failed")
        /\ UNCHANGED got
     \/ /\ child[c][pc[c]] = "done"
        /\ \/ /\ pc[c] = "mkdir"
              /\ Goto(c, "add")
              /\ UNCHANGED <<outcome, got>>
           \/ /\ pc[c] = "add"
              /\ Return(c, "stored")
              /\ UNCHANGED got
           \/ /\ pc[c] = "show"
              /\ Printed(c).noted = Unparseable
              /\ Return(c, "unparseable")
              /\ UNCHANGED got
           \/ /\ pc[c] = "show"
              /\ Printed(c).noted # Unparseable
              /\ Return(c, "found")
              /\ got' = [got EXCEPT ![c] =
                   {[project |-> Printed(c).noted,
                     label   |-> request[c].label,
                     secret  |-> Printed(c).secret]}]
  /\ UNCHANGED <<request, child, snapshot, file>>

\* wait_with_output fails, and the subprocess goes on; or the subprocess dies
\* with its work done.  run() says "failed" either way.
RunFails(c) ==
  /\ pc[c] \in Commands
  /\ child[c][pc[c]] # "none"
  /\ RunError(c, "failed")
  /\ UNCHANGED <<request, got, child, snapshot, file>>

\* git-credential store and erase do nothing.
Ignore(c) ==
  /\ pc[c] = "ignore"
  /\ Return(c, "ignored")
  /\ UNCHANGED <<request, got, child, snapshot, file>>

\* The caller is killed.
Crash(c) ==
  /\ pc[c] \notin {"returned", "crashed"}
  /\ Goto(c, "crashed")
  /\ UNCHANGED <<request, outcome, got, child, snapshot, file>>

-----------------------------------------------------------------------------
(* keepassxc-cli, and the operator at the KeePassXC window.                *)

\* Mutant: entries are told apart by their secrets, not by their paths.
RefusedForGroup(c, k) ==
  LET project == request[c].project
  IN CASE k = "mkdir" -> project \in db.groups \/ Front(project) \notin db.groups
       [] k = "add" -> Front(GroupPath(c)) \notin db.groups
       [] OTHER -> Under(GroupPath(c), db.entries) = {}

\* The command cannot be carried out on the database as it is.
Refused(c, k) ==
  LET path == GroupPath(c)
      project == request[c].project
  IN CASE k = "mkdir" -> project \in db.groups \/ Front(project) \notin db.groups
       [] k = "add" ->
            Front(path) \notin db.groups \/ Under(path, db.entries) # {}
       [] OTHER -> Under(path, db.entries) = {}

\* The subprocess unlocks and reads the database.  `show` has then done what
\* it has to do.
Opens(c, k) ==
  /\ child[c][k] = "started"
  /\ \/ /\ Refused(c, k)
        /\ child' = [child EXCEPT ![c][k] = "failed"]
        /\ UNCHANGED snapshot
     \/ /\ ~Refused(c, k)
        /\ child' = [child EXCEPT ![c][k] = IF k = "show" THEN "done" ELSE "opened"]
        /\ snapshot' = [snapshot EXCEPT ![c][k] = db]
  /\ UNCHANGED <<caller, file>>

NewEntry(c) ==
  [path |-> GroupPath(c), noted |-> request[c].project, secret |-> c]

\* What the subprocess writes: what it read, changed.
Changed(c, k) ==
  IF k = "mkdir"
    THEN [snapshot[c][k] EXCEPT !.groups = @ \cup {request[c].project}]
    ELSE [snapshot[c][k] EXCEPT !.entries = @ \cup {NewEntry(c)}]

Saves(c, k) ==
  /\ child[c][k] = "opened"
  /\ overwrites \/ db = snapshot[c][k]
  /\ db' = Changed(c, k)
  /\ overlapped' = (overlapped \/ db # snapshot[c][k])
  /\ child' = [child EXCEPT ![c][k] = "done"]
  /\ snapshot' = [snapshot EXCEPT ![c][k] = NoCopy]
  /\ UNCHANGED <<caller, overwrites>>

\* The password is wrong, the file cannot be read or written or has changed
\* since it was read, or the subprocess dies with its work undone.
Fails(c, k) ==
  /\ child[c][k] \in {"started", "opened"}
  /\ child' = [child EXCEPT ![c][k] = "failed"]
  /\ snapshot' = [snapshot EXCEPT ![c][k] = NoCopy]
  /\ UNCHANGED <<caller, file>>

\* The operator edits the Notes of an entry: they name another project, or
\* no longer parse.
EditNotes(e) ==
  /\ \E noted \in (NotedProjects \cup {Unparseable}) \ {e.noted} :
       db' = [db EXCEPT !.entries = (@ \ {e}) \cup {[e EXCEPT !.noted = noted]}]
  /\ UNCHANGED <<caller, child, snapshot, overwrites, overlapped>>

-----------------------------------------------------------------------------
\* What a caller does by itself, its subprocess behaving.
Proceeds(c) == Spawn(c) \/ SpawnFails(c) \/ RunReturns(c) \/ Ignore(c)

Subprocess(c, k) == Opens(c, k) \/ Saves(c, k) \/ Fails(c, k)

Next ==
  \/ \E c \in Calls : Proceeds(c) \/ RunFails(c) \/ Crash(c)
  \/ \E c \in Calls, k \in Commands : Subprocess(c, k)
  \/ \E e \in db.entries : EditNotes(e)

Spec == Init /\ [][Next]_vars

\* A caller goes on by itself; a subprocess, which is given all its input at
\* once and is never waited for by another one, ends.  No wait has to fail.
FairSpec ==
  /\ Spec
  /\ \A c \in Calls : WF_vars(Proceeds(c))
  /\ \A c \in Calls, k \in Commands : WF_vars(Subprocess(c, k))

-----------------------------------------------------------------------------
(* Properties.                                                             *)

StoredEntry == [path: Seq(STRING), noted: Seq(STRING), secret: Calls]

Database == [groups: SUBSET Seq(STRING), entries: SUBSET StoredEntry]

\* Every variable has its type.
TypeOK ==
  /\ request \in Workloads
  /\ pc \in [Calls -> Commands \cup {"ignore", "returned", "crashed"}]
  /\ outcome \in [Calls -> {"none", "stored", "not_started", "failed", "found",
                            "not_found", "unparseable", "ignored"}]
  /\ got \in [Calls -> SUBSET [project: Seq(STRING), label: Seq(STRING),
                               secret: Calls]]
  /\ child \in [Calls -> [Commands -> Phases]]
  /\ snapshot \in [Calls -> [Commands -> Database]]
  /\ db \in Database
  /\ overwrites \in BOOLEAN
  /\ overlapped \in BOOLEAN

Stored(c) == \E e \in db.entries : e.secret = c

\* vault.rs:107-113: an entry whose put has returned stays, unless a
\* subprocess saved over a file that had changed since it read it.  One
\* command at a time, or a keepassxc-cli that looks, loses nothing.
LostOnlyByOverlap ==
  \A c \in Calls : outcome[c] = "stored" => Stored(c) \/ overlapped

\* entry.rs:11-15: a path never names two entries, although puts look for a
\* free path and take it in two steps.
PathsAreUnique ==
  \A e, f \in db.entries : e.path = f.path => e = f

\* entry.rs:8-15: who asks for a project's key by a plain name gets a secret
\* that was put under that project, whatever project the Notes name by now.
\* The paths of other projects that meet it have a "/" in the project or the
\* label.
PlainQueriesAreExact ==
  \A c \in Calls : Len(request[c].project) = 1 /\ Len(request[c].label) = 1 =>
    \A v \in got[c] : request[v.secret].project = request[c].project

\* Every put, get and git-credential returns, unless its process is killed:
\* no subprocess waits for another.
EveryCallEnds == \A c \in Calls : <>(pc[c] \in {"returned", "crashed"})

-----------------------------------------------------------------------------
(* The abstract store this implements.  An entry found is remembered by    *)
(* the copy of the database that `show` has read.                          *)

AbstractEntries(stored) == {[path |-> e.path, secret |-> e.secret] : e \in stored}

\* `add` of the call has saved the database.
Written == {c \in Calls : child[c]["add"] = "done"}

AV == INSTANCE AbstractVault WITH
  entries <- AbstractEntries(db.entries),
  written <- Written,
  seen    <- [c \in Calls |->
               IF child[c]["show"] = "done"
                 THEN AbstractEntries(Under(GroupPath(c), snapshot[c]["show"].entries))
                 ELSE {}],
  answer  <- [c \in Calls |->
               IF pc[c] = "crashed" THEN "never" ELSE outcome[c]],
  got     <- [c \in Calls |-> {v.secret : v \in got[c]}]

\* The subprocesses, however they overlap, amount to a store whose puts and
\* gets take effect at one instant.  Of the answers "not found" may be untrue
\* and "failed" leaves open whether the put takes effect; the others are
\* true, what get hands out was in the store during the call, and only a
\* save over changes may drop what was stored.
ImplementsAbstractVault == AV!Spec

=============================================================================
