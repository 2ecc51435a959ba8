---------------------------- MODULE VaultProofs ----------------------------
(***************************************************************************)
(* Safety of Vault for any number of calls, any projects and labels, and a *)
(* keepassxc-cli of either kind.                                           *)
(*                                                                         *)
(* The inductive invariant speaks of the copies of the database that the   *)
(* subprocesses hold as much as of the database itself: any of them may be *)
(* what is written next, by a subprocess nobody waits for any more.        *)
(***************************************************************************)
EXTENDS Vault, TLAPS

Wrote(c) == child[c]["add"] = "done"

\* An entry is under the path of the put of its secret, and that put's
\* subprocess has saved it.
FromItsPut(e) ==
  /\ e.secret \in Calls
  /\ e.path = GroupPath(e.secret)
  /\ Wrote(e.secret)

UniquePaths(stored) == \A e, f \in stored : e.path = f.path => e = f

\* A database, or a copy of one, that puts have made.
MadeByPuts(stored) == UniquePaths(stored) /\ \A e \in stored : FromItsPut(e)

CopiesInv(c) == \A k \in Commands : MadeByPuts(snapshot[c][k].entries)

\* What a get was handed is a secret of its path.
GotInv(c) ==
  \A v \in got[c] :
    \E e \in StoredEntry : e.path = GroupPath(c) /\ FromItsPut(e) /\ v.secret = e.secret

CallInv(c) ==
  /\ child[c]["show"] # "opened"
  /\ child[c]["add"] = "opened" => Under(GroupPath(c), snapshot[c]["add"].entries) = {}
  /\ child[c]["show"] = "done" => Under(GroupPath(c), snapshot[c]["show"].entries) # {}
  /\ child[c]["add"] # "none" => pc[c] \in {"add", "returned", "crashed"}
  /\ outcome[c] # "none" => pc[c] = "returned"
  /\ outcome[c] = "stored" => Wrote(c)
  /\ outcome[c] = "not_started" => child[c]["add"] = "none"

\* What was written is there, or a save has run over a change.
Kept == \A c \in Calls : Wrote(c) /\ ~overlapped => Stored(c)

VInv ==
  /\ TypeOK
  /\ MadeByPuts(db.entries)
  /\ Kept
  /\ \A c \in Calls : CopiesInv(c) /\ GotInv(c) /\ CallInv(c)

-----------------------------------------------------------------------------
(* Types.                                                                  *)

\* What is asked for has a project and a label.
LEMMA Requests ==
  ASSUME TypeOK, NEW c \in Calls
  PROVE  /\ request[c] \in Request
         /\ request[c].project \in Seq(STRING) /\ request[c].project # <<>>
         /\ request[c].label \in Seq(STRING) /\ request[c].label # <<>>
         /\ GroupPath(c) \in Seq(STRING)
<1>1. request \in [Calls -> Request]
  BY VaultAssumption DEF TypeOK
<1>2. request[c] \in Request
  BY <1>1
<1>3. /\ request[c].project \in Seq(STRING)
      /\ request[c].label \in Seq(STRING)
  BY <1>2 DEF Request
<1>4. request[c].project # <<>> /\ request[c].label # <<>>
  BY VaultAssumption DEF TypeOK
<1> QED  BY <1>2, <1>3, <1>4 DEF GroupPath

Places == Commands \cup {"ignore", "returned", "crashed"}

Outcomes == {"none", "stored", "not_started", "failed", "found", "not_found",
             "unparseable", "ignored"}

\* A copy not made yet is one of an empty database.
LEMMA NoCopyType == NoCopy \in Database
BY DEF NoCopy, Database

\* The initial states are well typed.
LEMMA InitTypes == Init => TypeOK
<1> SUFFICES ASSUME Init PROVE TypeOK
  OBVIOUS
<1>1. [groups |-> {<<>>}, entries |-> {}] \in Database
  BY DEF Database
<1>2. pc \in [Calls -> Places]
  BY DEF Init, Places, Commands
<1>3. child \in [Calls -> [Commands -> Phases]]
  BY DEF Init, Phases
<1>4. overwrites \in BOOLEAN /\ overlapped \in BOOLEAN
  BY DEF Init
<1>5. /\ outcome \in [Calls -> Outcomes]
      /\ got \in [Calls -> SUBSET [project: Seq(STRING), label: Seq(STRING),
                                   secret: Calls]]
  BY DEF Init, Outcomes
<1>6. db \in Database
  BY <1>1 DEF Init
<1>7. snapshot \in [Calls -> [Commands -> Database]]
  <2>1. [k \in Commands |-> NoCopy] \in [Commands -> Database]
    BY NoCopyType
  <2> QED  BY <2>1 DEF Init
<1> QED
  BY <1>2, <1>3, <1>4, <1>5, <1>6, <1>7 DEF Init, TypeOK, Places, Outcomes

\* What the subprocess of a call writes is a database.
LEMMA ChangedTypes ==
  ASSUME TypeOK, NEW c \in Calls, NEW k \in Commands
  PROVE  Changed(c, k) \in Database
<1>1. snapshot[c][k] \in Database
  BY DEF TypeOK
<1>2. /\ request[c].project \in Seq(STRING)
      /\ NewEntry(c) \in StoredEntry
  BY Requests DEF NewEntry, StoredEntry
<1> QED  BY <1>1, <1>2 DEF Changed, Database

\* The entry that a successful show has printed.
LEMMA PrintedEntry ==
  ASSUME VInv, NEW c \in Calls, child[c]["show"] = "done"
  PROVE  /\ Printed(c) \in Under(GroupPath(c), snapshot[c]["show"].entries)
         /\ Printed(c) \in StoredEntry
         /\ Printed(c).path = GroupPath(c)
         /\ FromItsPut(Printed(c))
<1>1. TypeOK /\ CopiesInv(c) /\ CallInv(c) /\ "show" \in Commands
  BY DEF VInv, Commands
<1>2. Printed(c) \in Under(GroupPath(c), snapshot[c]["show"].entries)
  BY <1>1 DEF CallInv, Printed
<1>3. snapshot[c]["show"].entries \subseteq StoredEntry
  BY <1>1 DEF TypeOK, Database
<1> QED  BY <1>1, <1>2, <1>3 DEF Under, CopiesInv, MadeByPuts

\* The VaultEntry made of it.
Handed(c) ==
  [project |-> Printed(c).noted, label |-> request[c].label, secret |-> Printed(c).secret]

\* One step of the caller of c that starts no subprocess.
CallerOf(c) == SpawnFails(c) \/ RunReturns(c) \/ RunFails(c) \/ Ignore(c) \/ Crash(c)

\* One step of a subprocess of c.
ChildOf(c) == Spawn(c) \/ \E k \in Commands : Subprocess(c, k)

\* Every step is one of these.
LEMMA Steps ==
  ASSUME [Next]_vars
  PROVE  \/ \E c \in Calls : CallerOf(c) \/ ChildOf(c)
         \/ \E e \in db.entries : EditNotes(e)
         \/ UNCHANGED vars
BY DEF Next, Proceeds, CallerOf, ChildOf

\* A caller that goes on or returns leaves the subprocesses and the file
\* alone, and gets nothing, or what show has printed.
LEMMA CallerSteps ==
  ASSUME TypeOK, NEW c \in Calls, CallerOf(c)
  PROVE  /\ UNCHANGED <<request, child, snapshot, file>>
         /\ pc' = [pc EXCEPT ![c] = pc'[c]] /\ outcome' = [outcome EXCEPT ![c] = outcome'[c]]
         /\ pc[c] \notin {"returned", "crashed"}
         /\ \/ /\ pc[c] = "mkdir" /\ pc'[c] = "add"
               /\ outcome'[c] = outcome[c] /\ got' = got
            \/ /\ pc[c] = "add" /\ pc'[c] = "returned"
               /\ outcome'[c] \in {"stored", "not_started", "failed"} /\ got' = got
               /\ outcome'[c] = "stored" => Wrote(c)
               /\ outcome'[c] = "not_started" => child[c]["add"] = "none"
            \/ /\ pc[c] = "show" /\ pc'[c] = "returned"
               /\ outcome'[c] = "not_found" /\ got' = got
            \/ /\ pc[c] = "show" /\ pc'[c] = "returned"
               /\ child[c]["show"] = "done"
               /\ outcome'[c] = "unparseable" /\ got' = got
            \/ /\ pc[c] = "show" /\ pc'[c] = "returned"
               /\ child[c]["show"] = "done"
               /\ outcome'[c] = "found" /\ got' = [got EXCEPT ![c] = {Handed(c)}]
            \/ /\ pc[c] = "ignore" /\ pc'[c] = "returned"
               /\ outcome'[c] = "ignored" /\ got' = got
            \/ /\ pc'[c] = "crashed" /\ outcome'[c] = outcome[c] /\ got' = got
<1> USE DEF Goto, Return
<1>1. pc \in [Calls -> Places] /\ outcome \in [Calls -> Outcomes]
  BY DEF TypeOK, Places, Outcomes
<1>2. \A p : pc' = [pc EXCEPT ![c] = p] => pc' = [pc EXCEPT ![c] = pc'[c]] /\ pc'[c] = p
  BY <1>1
<1>3. /\ \A o : outcome' = [outcome EXCEPT ![c] = o]
                  => outcome' = [outcome EXCEPT ![c] = outcome'[c]] /\ outcome'[c] = o
      /\ UNCHANGED outcome
           => outcome' = [outcome EXCEPT ![c] = outcome'[c]] /\ outcome'[c] = outcome[c]
  BY <1>1
<1>4. CASE SpawnFails(c)
  BY <1>2, <1>3, <1>4 DEF SpawnFails, RunError
<1>5. CASE RunReturns(c)
  <2>1. CASE child[c][pc[c]] = "failed"
    BY <1>2, <1>3, <1>5, <2>1 DEF RunReturns, RunError
  <2>2. CASE child[c][pc[c]] = "done"
    BY <1>2, <1>3, <1>5, <2>2 DEF RunReturns, Wrote, Handed
  <2> QED  BY <1>5, <2>1, <2>2 DEF RunReturns
<1>6. CASE RunFails(c)
  BY <1>2, <1>3, <1>6 DEF RunFails, RunError
<1>7. CASE Ignore(c)
  BY <1>2, <1>3, <1>7 DEF Ignore
<1>8. CASE Crash(c)
  BY <1>2, <1>3, <1>8 DEF Crash
<1> QED  BY <1>4, <1>5, <1>6, <1>7, <1>8 DEF CallerOf

\* A subprocess leaves the callers and the other subprocesses alone.
LEMMA ChildSteps ==
  ASSUME TypeOK, NEW c \in Calls, NEW k \in Commands, Subprocess(c, k)
  PROVE  /\ UNCHANGED <<caller, overwrites>>
         /\ child' = [child EXCEPT ![c][k] = child'[c][k]]
         /\ snapshot' = [snapshot EXCEPT ![c][k] = snapshot'[c][k]]
         /\ \/ /\ child[c][k] = "started" /\ child'[c][k] = "failed"
               /\ UNCHANGED <<snapshot, db, overlapped>>
            \/ /\ child[c][k] = "started" /\ ~Refused(c, k)
               /\ child'[c][k] = IF k = "show" THEN "done" ELSE "opened"
               /\ snapshot'[c][k] = db
               /\ UNCHANGED <<db, overlapped>>
            \/ /\ child[c][k] \in {"started", "opened"} /\ child'[c][k] = "failed"
               /\ snapshot'[c][k] = NoCopy
               /\ UNCHANGED <<db, overlapped>>
            \/ /\ child[c][k] = "opened" /\ child'[c][k] = "done"
               /\ overwrites \/ db = snapshot[c][k]
               /\ snapshot'[c][k] = NoCopy
               /\ db' = Changed(c, k)
               /\ overlapped' = (overlapped \/ db # snapshot[c][k])
<1> USE DEF file
<1>1. child \in [Calls -> [Commands -> Phases]] /\ snapshot \in [Calls -> [Commands -> Database]]
  BY DEF TypeOK
<1>2. \A p : child' = [child EXCEPT ![c][k] = p]
               => child' = [child EXCEPT ![c][k] = child'[c][k]] /\ child'[c][k] = p
  <2>1. \A p : [child EXCEPT ![c][k] = p][c][k] = p
    BY <1>1
  <2> QED  BY <2>1, Zenon
<1>3. /\ \A s : snapshot' = [snapshot EXCEPT ![c][k] = s]
                  => snapshot' = [snapshot EXCEPT ![c][k] = snapshot'[c][k]] /\ snapshot'[c][k] = s
      /\ UNCHANGED snapshot => snapshot' = [snapshot EXCEPT ![c][k] = snapshot'[c][k]]
  BY <1>1
<1>4. CASE Opens(c, k)
  BY <1>2, <1>3, <1>4 DEF Opens
<1>5. CASE Saves(c, k)
  BY <1>2, <1>3, <1>5 DEF Saves
<1>6. CASE Fails(c, k)
  BY <1>2, <1>3, <1>6 DEF Fails
<1> QED  BY <1>4, <1>5, <1>6 DEF Subprocess

\* An edit changes the project that one entry's Notes name.
LEMMA EditSteps ==
  ASSUME TypeOK, NEW e \in db.entries, EditNotes(e)
  PROVE  /\ UNCHANGED <<caller, child, snapshot, overwrites, overlapped>>
         /\ \E f \in StoredEntry :
              /\ f.path = e.path /\ f.secret = e.secret
              /\ db'.entries = (db.entries \ {e}) \cup {f}
              /\ db' \in Database
<1>1. PICK noted \in NotedProjects \cup {Unparseable} :
        db' = [db EXCEPT !.entries = (@ \ {e}) \cup {[e EXCEPT !.noted = noted]}]
  BY DEF EditNotes
<1>2. noted \in Seq(STRING)
  <2>1. CASE noted \in NotedProjects
    BY <2>1, VaultAssumption
  <2>2. CASE noted = <<>>
    BY <2>2
  <2> QED  BY <2>1, <2>2 DEF Unparseable
<1> DEFINE f == [e EXCEPT !.noted = noted]
<1>3. e \in StoredEntry /\ db \in Database
  BY DEF TypeOK, Database
<1>4. f \in StoredEntry /\ f.path = e.path /\ f.secret = e.secret
  BY <1>2, <1>3 DEF StoredEntry
<1> HIDE DEF f
<1>5. db'.entries = (db.entries \ {e}) \cup {f} /\ db' \in Database
  BY <1>1, <1>3, <1>4 DEF Database, f
<1> QED  BY <1>4, <1>5 DEF EditNotes

\* Every step keeps the types.
LEMMA TypeStep == VInv /\ [Next]_vars => TypeOK'
<1> SUFFICES ASSUME VInv, [Next]_vars PROVE TypeOK'
  OBVIOUS
<1>1. TypeOK
  BY DEF VInv
<1>2. ASSUME NEW c \in Calls, CallerOf(c) PROVE TypeOK'
  <2>1. pc \in [Calls -> Places] /\ outcome \in [Calls -> Outcomes]
    BY <1>1 DEF TypeOK, Places, Outcomes
  <2>2. pc'[c] \in Places /\ outcome'[c] \in Outcomes
    <3>1. outcome[c] \in Outcomes
      BY <2>1
    <3> QED  BY <1>1, <1>2, <3>1, CallerSteps DEF Places, Commands, Outcomes
  <2>3. pc' \in [Calls -> Places] /\ outcome' \in [Calls -> Outcomes]
    <3>1. /\ pc' = [pc EXCEPT ![c] = pc'[c]]
          /\ outcome' = [outcome EXCEPT ![c] = outcome'[c]]
      BY <1>1, <1>2, CallerSteps
    <3> QED  BY <2>1, <2>2, <3>1
  <2>4. got' \in [Calls -> SUBSET [project: Seq(STRING), label: Seq(STRING), secret: Calls]]
    <3>1. CASE got' = got
      BY <1>1, <3>1 DEF TypeOK
    <3>2. CASE child[c]["show"] = "done" /\ got' = [got EXCEPT ![c] = {Handed(c)}]
      <4>1. Printed(c) \in StoredEntry /\ request[c].label \in Seq(STRING)
        BY <1>1, <3>2, PrintedEntry, Requests
      <4>2. Handed(c) \in [project: Seq(STRING), label: Seq(STRING), secret: Calls]
        BY <4>1 DEF StoredEntry, Handed
      <4> QED  BY <1>1, <3>2, <4>2 DEF TypeOK
    <3> QED  BY <1>1, <1>2, <3>1, <3>2, CallerSteps
  <2>5. UNCHANGED <<request, child, snapshot, db, overwrites, overlapped>>
    BY <1>1, <1>2, CallerSteps DEF file
  <2> QED  BY <1>1, <2>3, <2>4, <2>5 DEF TypeOK, Places, Outcomes
<1>3. ASSUME NEW c \in Calls, Spawn(c) PROVE TypeOK'
  <2>1. child' \in [Calls -> [Commands -> Phases]]
    <3>1. child \in [Calls -> [Commands -> Phases]] /\ "started" \in Phases
      BY <1>1 DEF TypeOK, Phases
    <3>2. pc[c] \in Commands /\ child' = [child EXCEPT ![c][pc[c]] = "started"]
      BY <1>3 DEF Spawn
    <3> QED  BY <3>1, <3>2
  <2> QED  BY <1>1, <1>3, <2>1 DEF TypeOK, Spawn, caller, file
<1>4. ASSUME NEW c \in Calls, NEW k \in Commands, Subprocess(c, k) PROVE TypeOK'
  <2>1. child'[c][k] \in Phases
    BY <1>1, <1>4, ChildSteps DEF Phases
  <2>2. child' \in [Calls -> [Commands -> Phases]]
    <3>1. child' = [child EXCEPT ![c][k] = child'[c][k]]
      BY <1>1, <1>4, ChildSteps
    <3>2. child \in [Calls -> [Commands -> Phases]]
      BY <1>1 DEF TypeOK
    <3>3. PICK p \in Phases : child' = [child EXCEPT ![c][k] = p]
      BY <2>1, <3>1
    <3> QED  BY <3>2, <3>3
  <2>3. snapshot'[c][k] \in Database
    <3>1. snapshot[c][k] \in Database /\ db \in Database
      BY <1>1 DEF TypeOK
    <3> QED  BY <1>1, <1>4, <3>1, ChildSteps, NoCopyType
  <2>4. snapshot' \in [Calls -> [Commands -> Database]]
    <3>1. snapshot' = [snapshot EXCEPT ![c][k] = snapshot'[c][k]]
      BY <1>1, <1>4, ChildSteps
    <3>2. snapshot \in [Calls -> [Commands -> Database]]
      BY <1>1 DEF TypeOK
    <3>3. PICK s \in Database : snapshot' = [snapshot EXCEPT ![c][k] = s]
      BY <2>3, <3>1
    <3> QED  BY <3>2, <3>3
  <2>5. db' \in Database /\ overlapped' \in BOOLEAN
    <3>1. db \in Database /\ overlapped \in BOOLEAN /\ Changed(c, k) \in Database
      BY <1>1, ChangedTypes DEF TypeOK
    <3>2. /\ db' = db \/ db' = Changed(c, k)
          /\ overlapped' = overlapped \/ overlapped' = (overlapped \/ db # snapshot[c][k])
      BY <1>1, <1>4, ChildSteps, Zenon
    <3> QED  BY <3>1, <3>2
  <2>6. UNCHANGED <<caller, overwrites>>
    BY <1>1, <1>4, ChildSteps
  <2> QED  BY <1>1, <2>2, <2>4, <2>5, <2>6 DEF TypeOK, caller
<1>5. ASSUME NEW e \in db.entries, EditNotes(e) PROVE TypeOK'
  BY <1>1, <1>5, EditSteps DEF TypeOK, caller
<1>6. CASE UNCHANGED vars
  BY <1>1, <1>6 DEF TypeOK, vars
<1> QED  BY <1>2, <1>3, <1>4, <1>5, <1>6, Steps DEF ChildOf

-----------------------------------------------------------------------------
(* What no step undoes.                                                    *)

\* Requests stand, and what a subprocess has written.  Only a save writes.
LEMMA WrittenStands ==
  ASSUME VInv, [Next]_vars
  PROVE  /\ request' = request
         /\ \A q \in Calls : Wrote(q) => Wrote(q)'
         /\ \/ \A q \in Calls : Wrote(q)' => Wrote(q)
            \/ \E c \in Calls : Saves(c, "add")
<1>1. TypeOK /\ "add" \in Commands
  BY DEF VInv, Commands
<1> USE DEF Wrote
<1>2. ASSUME NEW c \in Calls, CallerOf(c)
      PROVE  request' = request /\ child' = child
  BY <1>1, <1>2, CallerSteps
<1>3. ASSUME NEW c \in Calls, Spawn(c)
      PROVE  request' = request /\ \A q \in Calls : Wrote(q) <=> Wrote(q)'
  <2>1. /\ request' = request
        /\ child' = [child EXCEPT ![c][pc[c]] = "started"]
        /\ child[c][pc[c]] = "none" /\ pc[c] \in Commands
    BY <1>3 DEF Spawn, caller
  <2> QED  BY <1>1, <2>1 DEF TypeOK
<1>4. ASSUME NEW c \in Calls, NEW k \in Commands, Subprocess(c, k)
      PROVE  /\ request' = request
             /\ \A q \in Calls : Wrote(q) => Wrote(q)'
             /\ (\A q \in Calls : Wrote(q)' => Wrote(q)) \/ Saves(c, "add")
  <2>1. /\ request' = request
        /\ child' = [child EXCEPT ![c][k] = child'[c][k]]
        /\ child[c][k] \in {"started", "opened"}
    BY <1>1, <1>4, ChildSteps DEF caller
  <2>2. \A q \in Calls, j \in Commands :
          q # c \/ j # k => child'[q][j] = child[q][j]
    BY <1>1, <2>1 DEF TypeOK
  <2>3. CASE k # "add"
    BY <1>1, <2>1, <2>2, <2>3
  <2>4. CASE k = "add" /\ (Opens(c, k) \/ Fails(c, k))
    <3>1. child'[c][k] # "done"
      BY <1>1, <2>4 DEF Opens, Fails, TypeOK
    <3> QED  BY <1>1, <2>1, <2>2, <2>4, <3>1
  <2>5. CASE k = "add" /\ Saves(c, k)
    BY <1>1, <2>1, <2>2, <2>5
  <2> QED  BY <1>4, <2>3, <2>4, <2>5 DEF Subprocess
<1>5. ASSUME NEW e \in db.entries, EditNotes(e)
      PROVE  request' = request /\ child' = child
  BY <1>1, <1>5, EditSteps DEF caller
<1>6. CASE UNCHANGED vars
  BY <1>6 DEF vars
<1> QED  BY <1>2, <1>3, <1>4, <1>5, <1>6, Steps DEF ChildOf

\* A copy that puts have made stays one.
LEMMA CopiesStand ==
  ASSUME VInv, [Next]_vars
  PROVE  /\ \A e : FromItsPut(e) => FromItsPut(e)'
         /\ \A stored : MadeByPuts(stored) =>
              UniquePaths(stored) /\ \A e \in stored : FromItsPut(e)'
         /\ \A c \in Calls : GroupPath(c)' = GroupPath(c)
<1>1. request' = request /\ \A q \in Calls : Wrote(q) => Wrote(q)'
  BY WrittenStands
<1>2. \A c \in Calls : GroupPath(c)' = GroupPath(c)
  BY <1>1 DEF GroupPath
<1>3. \A e : FromItsPut(e) => FromItsPut(e)'
  BY <1>1, <1>2 DEF FromItsPut
<1> QED  BY <1>2, <1>3 DEF MadeByPuts

\* The database remains one that puts have made.
LEMMA DatabaseStep == VInv /\ [Next]_vars => MadeByPuts(db.entries)' /\ Kept'
<1> SUFFICES ASSUME VInv, [Next]_vars
             PROVE  MadeByPuts(db.entries)' /\ Kept'
  OBVIOUS
<1>1. /\ TypeOK /\ MadeByPuts(db.entries) /\ Kept
      /\ \A c \in Calls : CopiesInv(c) /\ CallInv(c)
  BY DEF VInv
<1>2. ASSUME NEW c \in Calls, Saves(c, "mkdir")
      PROVE  MadeByPuts(db.entries)' /\ Kept'
  <2>1. "mkdir" \in Commands /\ "add" \in Commands
    BY DEF Commands
  <2>2. /\ db'.entries = snapshot[c]["mkdir"].entries
        /\ overlapped' = (overlapped \/ db # snapshot[c]["mkdir"])
        /\ child' = [child EXCEPT ![c]["mkdir"] = "done"]
    BY <1>1, <1>2, <2>1 DEF Saves, Changed, TypeOK, Database
  <2>3. MadeByPuts(db.entries)'
    BY <1>1, <2>1, <2>2, CopiesStand DEF CopiesInv, MadeByPuts, UniquePaths
  <2>4. \A q \in Calls : Wrote(q)' => Wrote(q)
    BY <1>1, <2>1, <2>2 DEF Wrote, TypeOK
  <2>5. Kept'
    BY <1>1, <2>2, <2>4 DEF Kept, Stored
  <2> QED  BY <2>3, <2>5
<1>3. ASSUME NEW c \in Calls, Saves(c, "add")
      PROVE  MadeByPuts(db.entries)' /\ Kept'
  <2>1. "add" \in Commands
    BY DEF Commands
  <2>2. /\ db'.entries = snapshot[c]["add"].entries \cup {NewEntry(c)}
        /\ overlapped' = (overlapped \/ db # snapshot[c]["add"])
        /\ child' = [child EXCEPT ![c]["add"] = "done"]
        /\ child[c]["add"] = "opened"
        /\ request' = request
    BY <1>1, <1>3, <2>1 DEF Saves, Changed, TypeOK, Database, caller
  <2>3. NewEntry(c).path = GroupPath(c) /\ NewEntry(c).secret = c
    BY DEF NewEntry
  <2>4. Wrote(c)'
    BY <1>1, <2>1, <2>2 DEF Wrote, TypeOK
  <2>5. NewEntry(c)' = NewEntry(c)
    BY <2>2, CopiesStand DEF NewEntry
  <2>6. FromItsPut(NewEntry(c))'
    BY <2>3, <2>4, <2>5, CopiesStand DEF FromItsPut
  <2>7. \A e \in snapshot[c]["add"].entries : e.path # GroupPath(c)
    BY <1>1, <2>2 DEF CallInv, Under
  <2>8. UniquePaths(db.entries)'
    BY <1>1, <2>1, <2>2, <2>3, <2>7 DEF CopiesInv, MadeByPuts, UniquePaths
  <2>9. MadeByPuts(db.entries)'
    BY <1>1, <2>1, <2>2, <2>5, <2>6, <2>8, CopiesStand DEF CopiesInv, MadeByPuts
  <2>10. \A q \in Calls : q # c => (Wrote(q)' => Wrote(q))
    BY <1>1, <2>1, <2>2 DEF Wrote, TypeOK
  <2>11. Kept'
    BY <1>1, <2>2, <2>3, <2>10 DEF Kept, Stored
  <2> QED  BY <2>9, <2>11
<1>4. ASSUME NEW e \in db.entries, EditNotes(e)
      PROVE  MadeByPuts(db.entries)' /\ Kept'
  <2>1. PICK f \in StoredEntry : /\ f.path = e.path /\ f.secret = e.secret
                                 /\ db'.entries = (db.entries \ {e}) \cup {f}
    BY <1>1, <1>4, EditSteps
  <2>2. UNCHANGED <<request, child, overlapped>>
    BY <1>1, <1>4, EditSteps DEF caller
  <2>3. UniquePaths(db.entries)'
    BY <1>1, <2>1 DEF MadeByPuts, UniquePaths
  <2>4. FromItsPut(f)'
    BY <1>1, <2>1, CopiesStand DEF MadeByPuts, FromItsPut
  <2>5. MadeByPuts(db.entries)'
    BY <1>1, <2>1, <2>3, <2>4, CopiesStand DEF MadeByPuts
  <2>6. Kept'
    BY <1>1, <2>1, <2>2 DEF Kept, Stored, Wrote
  <2> QED  BY <2>5, <2>6
<1>5. ASSUME UNCHANGED <<db, overlapped>>,
             \A q \in Calls : Wrote(q)' => Wrote(q)
      PROVE  MadeByPuts(db.entries)' /\ Kept'
  BY <1>1, <1>5, CopiesStand DEF MadeByPuts, UniquePaths, Kept, Stored
<1>6. ASSUME NEW c \in Calls, NEW k \in Commands, Subprocess(c, k)
      PROVE  MadeByPuts(db.entries)' /\ Kept'
  <2>1. CASE Saves(c, k)
    <3>1. k # "show"
      BY <1>1, <2>1 DEF Saves, CallInv
    <3> QED  BY <1>2, <1>3, <2>1, <3>1 DEF Commands
  <2>2. CASE ~Saves(c, k)
    <3>1. UNCHANGED <<db, overlapped>>
      BY <1>6, <2>2 DEF Subprocess, Opens, Fails, file
    <3>2. child' = [child EXCEPT ![c][k] = child'[c][k]]
      BY <1>1, <1>6, ChildSteps
    <3>3. k = "add" => child'[c][k] # "done"
      <4>1. child \in [Calls -> [Commands -> Phases]]
        BY <1>1 DEF TypeOK
      <4> QED  BY <1>6, <2>2, <4>1 DEF Subprocess, Opens, Fails
    <3>4. \A q \in Calls : Wrote(q)' => Wrote(q)
      BY <1>1, <3>2, <3>3 DEF Wrote, TypeOK, Commands
    <3> QED  BY <1>5, <3>1, <3>4
  <2> QED  BY <2>1, <2>2
<1>7. ASSUME NEW c \in Calls, Spawn(c) PROVE MadeByPuts(db.entries)' /\ Kept'
  <2>1. /\ child' = [child EXCEPT ![c][pc[c]] = "started"] /\ pc[c] \in Commands
        /\ UNCHANGED <<db, overlapped>>
    BY <1>7 DEF Spawn, file
  <2>2. \A q \in Calls : Wrote(q)' => Wrote(q)
    BY <1>1, <2>1 DEF Wrote, TypeOK, Commands
  <2> QED  BY <1>5, <2>1, <2>2
<1>8. ASSUME NEW c \in Calls, CallerOf(c) PROVE MadeByPuts(db.entries)' /\ Kept'
  BY <1>1, <1>5, <1>8, CallerSteps DEF file, Wrote
<1>9. CASE UNCHANGED vars
  BY <1>5, <1>9 DEF vars, Wrote
<1> QED  BY <1>4, <1>6, <1>7, <1>8, <1>9, Steps DEF ChildOf

-----------------------------------------------------------------------------
(* The invariant of a call.                                                *)

\* The copies that subprocesses hold remain made by puts.
LEMMA CopiesStep == VInv /\ [Next]_vars => \A q \in Calls : CopiesInv(q)'
<1> SUFFICES ASSUME VInv, [Next]_vars, NEW q \in Calls, NEW j \in Commands
             PROVE  MadeByPuts(snapshot[q][j].entries)'
  BY DEF CopiesInv
<1>1. /\ TypeOK /\ MadeByPuts(db.entries)
      /\ MadeByPuts(snapshot[q][j].entries)
  BY DEF VInv, CopiesInv
<1>2. ASSUME \/ snapshot'[q][j] = snapshot[q][j]
             \/ snapshot'[q][j] = db
             \/ snapshot'[q][j] = NoCopy
      PROVE  MadeByPuts(snapshot[q][j].entries)'
  <2>1. MadeByPuts(NoCopy.entries)
    BY DEF NoCopy, MadeByPuts, UniquePaths
  <2>2. MadeByPuts(snapshot'[q][j].entries)
    BY <1>1, <1>2, <2>1
  <2> QED  BY <2>2, CopiesStand DEF MadeByPuts, UniquePaths
<1>3. ASSUME NEW c \in Calls, NEW k \in Commands, Subprocess(c, k)
      PROVE  MadeByPuts(snapshot[q][j].entries)'
  <2>1. /\ snapshot' = [snapshot EXCEPT ![c][k] = snapshot'[c][k]]
        /\ \/ snapshot'[c][k] = db
           \/ snapshot'[c][k] = NoCopy
           \/ snapshot' = snapshot
    BY <1>1, <1>3, ChildSteps
  <2>2. snapshot'[q][j] = IF q = c /\ j = k THEN snapshot'[c][k] ELSE snapshot[q][j]
    BY <1>1, <2>1 DEF TypeOK
  <2> QED  BY <1>2, <2>1, <2>2
<1>4. CASE snapshot' = snapshot
  BY <1>2, <1>4
<1>5. ASSUME NEW c \in Calls, CallerOf(c) \/ Spawn(c) PROVE snapshot' = snapshot
  BY <1>1, <1>5, CallerSteps DEF Spawn
<1>6. ASSUME NEW e \in db.entries, EditNotes(e) PROVE snapshot' = snapshot
  BY <1>1, <1>6, EditSteps
<1> QED  BY <1>3, <1>4, <1>5, <1>6, Steps DEF ChildOf, vars

\* What was handed out stays a secret of its path.
LEMMA GotStep == VInv /\ [Next]_vars => \A q \in Calls : GotInv(q)'
<1> SUFFICES ASSUME VInv, [Next]_vars, NEW q \in Calls PROVE GotInv(q)'
  OBVIOUS
<1>1. TypeOK /\ GotInv(q)
  BY DEF VInv
<1>2. CASE got'[q] = got[q]
  BY <1>1, <1>2, CopiesStand DEF GotInv
<1>3. ASSUME NEW c \in Calls, CallerOf(c) PROVE GotInv(q)'
  <2>1. CASE child[c]["show"] = "done" /\ got' = [got EXCEPT ![c] = {Handed(c)}]
    <3>1. CASE q # c
      BY <1>1, <1>2, <2>1, <3>1 DEF TypeOK
    <3>2. CASE q = c
      <4>1. got'[q] = {Handed(q)}
        BY <1>1, <2>1, <3>2 DEF TypeOK
      <4>2. PICK e \in StoredEntry : /\ e.path = GroupPath(q) /\ FromItsPut(e)
                                     /\ e.secret = Printed(q).secret
        BY <2>1, <3>2, PrintedEntry
      <4>3. \A v \in got'[q] : v.secret = e.secret
        BY <4>1, <4>2 DEF Handed
      <4> QED  BY <4>2, <4>3, CopiesStand DEF GotInv
    <3> QED  BY <3>1, <3>2
  <2> QED  BY <1>1, <1>2, <1>3, <2>1, CallerSteps
<1>4. ASSUME NEW c \in Calls, ChildOf(c) PROVE got' = got
  BY <1>1, <1>4, ChildSteps DEF ChildOf, Spawn, caller
<1>5. ASSUME NEW e \in db.entries, EditNotes(e) PROVE got' = got
  BY <1>1, <1>5, EditSteps DEF caller
<1> QED  BY <1>2, <1>3, <1>4, <1>5, Steps DEF vars

\* Every step keeps the invariant of every call.
LEMMA CallStep == VInv /\ [Next]_vars => \A q \in Calls : CallInv(q)'
<1> SUFFICES ASSUME VInv, [Next]_vars, NEW q \in Calls PROVE CallInv(q)'
  OBVIOUS
<1>1. /\ TypeOK /\ CallInv(q) /\ "add" \in Commands /\ "show" \in Commands
      /\ child \in [Calls -> [Commands -> Phases]]
      /\ pc \in [Calls -> Places] /\ outcome \in [Calls -> Outcomes]
  BY DEF VInv, TypeOK, Commands, Places, Outcomes
<1>2. GroupPath(q)' = GroupPath(q) /\ (Wrote(q) => Wrote(q)')
  BY WrittenStands, CopiesStand
<1>3. ASSUME UNCHANGED <<pc, outcome, child, snapshot>> PROVE CallInv(q)'
  BY <1>1, <1>2, <1>3 DEF CallInv, Under, Wrote
<1>4. ASSUME NEW c \in Calls, CallerOf(c) PROVE CallInv(q)'
  <2>1. /\ UNCHANGED <<child, snapshot>>
        /\ pc' = [pc EXCEPT ![c] = pc'[c]] /\ outcome' = [outcome EXCEPT ![c] = outcome'[c]]
    BY <1>1, <1>4, CallerSteps
  <2>2. /\ child'[q] = child[q] /\ Wrote(q)' = Wrote(q)
        /\ Under(GroupPath(q), snapshot[q]["add"].entries)'
             = Under(GroupPath(q), snapshot[q]["add"].entries)
        /\ Under(GroupPath(q), snapshot[q]["show"].entries)'
             = Under(GroupPath(q), snapshot[q]["show"].entries)
    BY <1>2, <2>1 DEF Wrote, Under
  <2>3. CASE q # c
    <3>1. pc'[q] = pc[q] /\ outcome'[q] = outcome[q]
      BY <1>1, <2>1, <2>3
    <3> QED  BY <1>1, <2>2, <3>1 DEF CallInv
  <2>4. CASE q = c
    <3>1. /\ pc'[q] \in {"add", "returned", "crashed"}
          /\ outcome'[q] # "none" => pc'[q] = "returned"
          /\ outcome'[q] = "stored" => Wrote(q)
          /\ outcome'[q] = "not_started" => child[q]["add"] = "none"
      BY <1>1, <1>4, <2>4, CallerSteps DEF CallInv
    <3> QED  BY <1>1, <2>2, <3>1 DEF CallInv
  <2> QED  BY <2>3, <2>4
<1>5. ASSUME NEW c \in Calls, Spawn(c) PROVE CallInv(q)'
  <2>1. /\ child' = [child EXCEPT ![c][pc[c]] = "started"]
        /\ pc[c] \in Commands /\ child[c][pc[c]] = "none"
        /\ UNCHANGED <<pc, outcome, snapshot>>
    BY <1>5 DEF Spawn, caller
  <2>2. /\ Under(GroupPath(q), snapshot[q]["add"].entries)'
             = Under(GroupPath(q), snapshot[q]["add"].entries)
        /\ Under(GroupPath(q), snapshot[q]["show"].entries)'
             = Under(GroupPath(q), snapshot[q]["show"].entries)
    BY <1>2, <2>1 DEF Under
  <2>3. \A j \in Commands :
          child'[q][j] = IF q = c /\ j = pc[c] THEN "started" ELSE child[q][j]
    BY <1>1, <2>1
  <2>4. q = c => outcome[q] = "none"
    BY <1>1, <2>1 DEF CallInv, Commands
  <2> QED  BY <1>1, <1>2, <2>1, <2>2, <2>3, <2>4 DEF CallInv, Wrote
<1>6. ASSUME NEW c \in Calls, NEW k \in Commands, Subprocess(c, k) PROVE CallInv(q)'
  <2>1. /\ UNCHANGED <<pc, outcome, request>>
        /\ child' = [child EXCEPT ![c][k] = child'[c][k]]
        /\ snapshot' = [snapshot EXCEPT ![c][k] = snapshot'[c][k]]
        /\ child[c][k] \in {"started", "opened"} /\ child'[c][k] # "none"
    BY <1>1, <1>6, ChildSteps DEF caller
  <2>2. \A j \in Commands : q # c \/ j # k =>
          child'[q][j] = child[q][j] /\ snapshot'[q][j] = snapshot[q][j]
    BY <1>1, <2>1 DEF TypeOK
  <2>3. /\ child'[q]["show"] # "opened"
        /\ child'[q]["show"] = "done" =>
             Under(GroupPath(q), snapshot'[q]["show"].entries) # {}
    <3>1. CASE q # c \/ k # "show"
      BY <1>1, <2>2, <3>1 DEF CallInv
    <3>2. CASE q = c /\ k = "show"
      <4>1. ~Refused(q, "show") => Under(GroupPath(q), db.entries) # {}
        BY DEF Refused
      <4> QED  BY <1>1, <1>6, <3>2, <4>1, ChildSteps DEF CallInv
    <3> QED  BY <3>1, <3>2
  <2>4. child'[q]["add"] = "opened" =>
          Under(GroupPath(q), snapshot'[q]["add"].entries) = {}
    <3>1. CASE q # c \/ k # "add"
      BY <1>1, <2>2, <3>1 DEF CallInv
    <3>2. CASE q = c /\ k = "add"
      BY <1>1, <1>6, <3>2, ChildSteps DEF CallInv, Refused
    <3> QED  BY <3>1, <3>2
  <2>5. (child'[q]["add"] = "none") = (child[q]["add"] = "none")
    BY <1>1, <2>1, <2>2
  <2> QED
    BY <1>1, <1>2, <2>1, <2>3, <2>4, <2>5 DEF CallInv, Under
<1>7. ASSUME NEW e \in db.entries, EditNotes(e)
      PROVE  UNCHANGED <<pc, outcome, child, snapshot>>
  BY <1>1, <1>7, EditSteps DEF caller
<1> QED  BY <1>3, <1>4, <1>5, <1>6, <1>7, Steps DEF ChildOf, vars

\* The invariant holds in every reachable state.
THEOREM VaultInvariance == Spec => []VInv
<1>1. Init => VInv
  <2> SUFFICES ASSUME Init PROVE VInv
    OBVIOUS
  <2>1. /\ db.entries = {}
        /\ \A c \in Calls : /\ \A k \in Commands : child[c][k] = "none" /\ snapshot[c][k] = NoCopy
                            /\ outcome[c] = "none" /\ got[c] = {}
    BY DEF Init
  <2>2. MadeByPuts(db.entries) /\ Kept
    BY <2>1 DEF MadeByPuts, UniquePaths, Kept, Wrote, Commands
  <2>3. \A c \in Calls : CopiesInv(c) /\ GotInv(c) /\ CallInv(c)
    BY <2>1 DEF CallInv, GotInv, CopiesInv, MadeByPuts, UniquePaths, Commands, NoCopy
  <2> QED  BY <2>2, <2>3, InitTypes DEF VInv
<1>2. VInv /\ [Next]_vars => VInv'
  BY TypeStep, DatabaseStep, CopiesStep, GotStep, CallStep DEF VInv
<1> QED  BY <1>1, <1>2, PTL DEF Spec

-----------------------------------------------------------------------------
(* The properties of Vault.                                                *)

\* Every variable keeps its type.
THEOREM VaultTypeCorrect == Spec => []TypeOK
<1>1. VInv => TypeOK
  BY DEF VInv
<1> QED  BY <1>1, VaultInvariance, PTL

\* Only a save over a change loses an entry whose put has returned.
THEOREM LossHolds == Spec => []LostOnlyByOverlap
<1>1. VInv => LostOnlyByOverlap
  BY DEF VInv, CallInv, Kept, LostOnlyByOverlap
<1> QED  BY <1>1, VaultInvariance, PTL

\* No path names two entries, whatever was saved over what.
THEOREM UniquePathsHold == Spec => []PathsAreUnique
<1>1. VInv => PathsAreUnique
  BY DEF VInv, MadeByPuts, UniquePaths, PathsAreUnique
<1> QED  BY <1>1, VaultInvariance, PTL

\* Two non-empty paths that make a path of two names are one name each.
LEMMA TwoNames ==
  ASSUME NEW p \in Seq(STRING), NEW l \in Seq(STRING), NEW q \in Seq(STRING),
         NEW k \in Seq(STRING), p # <<>>, l # <<>>,
         Len(q) = 1, Len(k) = 1, p \o l = q \o k
  PROVE  p = q
<1>1. Len(p) \in Nat \ {0} /\ Len(l) \in Nat \ {0}
  OBVIOUS
<1>2. Len(p) + Len(l) = 2
  <2>1. Len(p \o l) = Len(p) + Len(l) /\ Len(q \o k) = Len(q) + Len(k)
    OBVIOUS
  <2> QED  BY <2>1
<1>3. Len(p) = 1
  BY <1>1, <1>2
<1>4. p[1] = q[1]
  <2>1. (p \o l)[1] = p[1] /\ (q \o k)[1] = q[1]
    BY <1>3
  <2> QED  BY <2>1
<1> QED  BY <1>3, <1>4

\* A query by plain names is answered with a secret that was put under the
\* project asked for, whatever an edit makes the Notes say.
THEOREM PlainQueriesHold == Spec => []PlainQueriesAreExact
<1>1. ASSUME VInv PROVE PlainQueriesAreExact
  <2> SUFFICES ASSUME NEW c \in Calls, NEW v \in got[c],
                      Len(request[c].project) = 1, Len(request[c].label) = 1
               PROVE  request[v.secret].project = request[c].project
    BY DEF PlainQueriesAreExact
  <2>1. PICK e \in StoredEntry :
          e.path = GroupPath(c) /\ FromItsPut(e) /\ v.secret = e.secret
    BY <1>1 DEF VInv, GotInv
  <2>2. /\ e.secret \in Calls
        /\ request[e.secret].project \o request[e.secret].label
             = request[c].project \o request[c].label
    BY <2>1 DEF FromItsPut, GroupPath
  <2>3. /\ request[e.secret].project \in Seq(STRING)
        /\ request[e.secret].project # <<>>
        /\ request[e.secret].label \in Seq(STRING)
        /\ request[e.secret].label # <<>>
    BY <1>1, <2>2, Requests DEF VInv
  <2>4. /\ request[c].project \in Seq(STRING)
        /\ request[c].label \in Seq(STRING)
    BY <1>1, Requests DEF VInv
  <2>5. request[e.secret].project = request[c].project
    BY <2>2, <2>3, <2>4, TwoNames
  <2> QED  BY <2>1, <2>5
<1> QED  BY <1>1, VaultInvariance, PTL

-----------------------------------------------------------------------------
(* Vault implements AbstractVault.                                         *)

\* What a call was asked to do is what it does, and all it answers to.
RoleInv(c) ==
  /\ pc[c] \in {"mkdir", "add"} => request[c].op = "put"
  /\ pc[c] = "show" => request[c].op = "get"
  /\ pc[c] = "ignore" => request[c].op = "erase"
  /\ child[c]["mkdir"] # "none" => request[c].op = "put"
  /\ child[c]["add"] # "none" => request[c].op = "put"
  /\ child[c]["show"] # "none" => request[c].op = "get"
  /\ request[c].op = "put" => outcome[c] \in {"none", "stored", "not_started", "failed"}

Roles == \A c \in Calls : RoleInv(c)

\* No call ever does anything it was not asked to.
LEMMA RolesInvariance == Spec => []Roles
<1>1. Init => Roles
  <2> SUFFICES ASSUME Init, NEW c \in Calls PROVE RoleInv(c)
    BY DEF Roles
  <2>1. /\ \A k \in Commands : child[c][k] = "none"
        /\ outcome[c] = "none"
        /\ pc[c] = CASE request[c].op = "put" -> "mkdir"
                     [] request[c].op = "get" -> "show"
                     [] OTHER -> "ignore"
    BY DEF Init
  <2>2. request[c].op \in {"put", "get", "erase"}
    <3>1. TypeOK
      BY InitTypes
    <3> QED  BY <3>1, Requests DEF Request
  <2> QED  BY <2>1, <2>2 DEF RoleInv, Commands
<1>2. VInv /\ Roles /\ [Next]_vars => Roles'
  <2> SUFFICES ASSUME VInv, Roles, [Next]_vars, NEW q \in Calls
               PROVE  RoleInv(q)'
    BY DEF Roles
  <2>1. /\ TypeOK /\ RoleInv(q) /\ request' = request
        /\ child \in [Calls -> [Commands -> Phases]]
        /\ pc \in [Calls -> Places] /\ outcome \in [Calls -> Outcomes]
    BY WrittenStands DEF VInv, Roles, TypeOK, Places, Outcomes
  <2>2. ASSUME UNCHANGED <<pc, outcome, child>> PROVE RoleInv(q)'
    BY <2>1, <2>2 DEF RoleInv
  <2>3. ASSUME NEW c \in Calls, CallerOf(c) PROVE RoleInv(q)'
    <3>1. /\ child' = child
          /\ pc' = [pc EXCEPT ![c] = pc'[c]] /\ outcome' = [outcome EXCEPT ![c] = outcome'[c]]
      BY <2>1, <2>3, CallerSteps
    <3>2. CASE q # c
      <4>1. pc'[q] = pc[q] /\ outcome'[q] = outcome[q]
        BY <2>1, <3>1, <3>2
      <4> QED  BY <2>1, <3>1, <4>1 DEF RoleInv
    <3>3. CASE q = c
      <4>1. /\ pc'[q] \in {"add", "returned", "crashed"}
            /\ pc'[q] = "add" => pc[q] = "mkdir"
            /\ pc[q] \in {"mkdir", "add"} =>
                 outcome'[q] \in {outcome[q], "stored", "not_started", "failed"}
            /\ pc[q] \in {"show", "ignore"} \/ pc[q] \in {"mkdir", "add"}
        BY <2>1, <2>3, <3>3, CallerSteps DEF Places, Commands
      <4>2. request[q].op = "put" => pc[q] \in {"mkdir", "add"}
        BY <2>1, <4>1 DEF RoleInv
      <4> QED  BY <2>1, <3>1, <4>1, <4>2 DEF RoleInv
    <3> QED  BY <3>2, <3>3
  <2>4. ASSUME NEW c \in Calls, Spawn(c) PROVE RoleInv(q)'
    <3>1. /\ child' = [child EXCEPT ![c][pc[c]] = "started"] /\ pc[c] \in Commands
          /\ UNCHANGED <<pc, outcome>>
      BY <2>4 DEF Spawn, caller
    <3>2. \A j \in Commands :
            child'[q][j] = IF q = c /\ j = pc[c] THEN "started" ELSE child[q][j]
      BY <2>1, <3>1
    <3> QED  BY <2>1, <3>1, <3>2 DEF RoleInv, Commands
  <2>5. ASSUME NEW c \in Calls, NEW k \in Commands, Subprocess(c, k) PROVE RoleInv(q)'
    <3>1. /\ child' = [child EXCEPT ![c][k] = child'[c][k]]
          /\ child[c][k] # "none"
          /\ UNCHANGED <<pc, outcome>>
      BY <2>1, <2>5, ChildSteps DEF caller
    <3>2. \A j \in Commands : child'[q][j] # "none" => child[q][j] # "none"
      BY <2>1, <3>1
    <3> QED  BY <2>1, <3>1, <3>2 DEF RoleInv, Commands
  <2>6. ASSUME NEW e \in db.entries, EditNotes(e) PROVE UNCHANGED <<pc, outcome, child>>
    BY <2>1, <2>6, EditSteps DEF caller
  <2> QED  BY <2>2, <2>3, <2>4, <2>5, <2>6, Steps DEF ChildOf, vars
<1> QED  BY <1>1, <1>2, VaultInvariance, PTL DEF Spec

\* The abstract view of a call, and of the store.
Seen(c) ==
  IF child[c]["show"] = "done"
    THEN AbstractEntries(Under(GroupPath(c), snapshot[c]["show"].entries))
    ELSE {}

Answer(c) == IF pc[c] = "crashed" THEN "never" ELSE outcome[c]

Got(c) == {v.secret : v \in got[c]}

SeenAll == [c \in Calls |-> Seen(c)]
AnswerAll == [c \in Calls |-> Answer(c)]
GotAll == [c \in Calls |-> Got(c)]
View == <<request, overwrites, AbstractEntries(db.entries), Written, SeenAll, AnswerAll, GotAll>>

\* They are what the refinement maps to.
LEMMA ViewOfVault == (UNCHANGED View) <=> (UNCHANGED AV!vars)
BY DEF View, SeenAll, AnswerAll, GotAll, AV!vars, Seen, Answer, Got

\* The abstract entries of a copy that puts have made are entries of puts
\* that have taken effect.
LEMMA CopiesAreWritten ==
  ASSUME NEW stored, MadeByPuts(stored)
  PROVE  AbstractEntries(stored) \subseteq {AV!Entry(c) : c \in Written}
<1>1. ASSUME NEW e \in stored
      PROVE  /\ e.secret \in Written
             /\ [path |-> e.path, secret |-> e.secret] = AV!Entry(e.secret)
  BY <1>1 DEF MadeByPuts, FromItsPut, AV!Entry, AV!Path, GroupPath, Written, Wrote
<1> QED  BY <1>1 DEF AbstractEntries

\* What is under a path is the same before and after the abstraction.
LEMMA UnderCommutes ==
  ASSUME NEW path, NEW stored
  PROVE  AbstractEntries(Under(path, stored)) = AV!Under(path, AbstractEntries(stored))
BY DEF AbstractEntries, Under, AV!Under

\* What a save keeps of the copy it was made from is what the store may keep.
LEMMA SaveKeeps ==
  ASSUME VInv, NEW c \in Calls, NEW k \in Commands, overwrites \/ db = snapshot[c][k]
  PROVE  AbstractEntries(snapshot[c][k].entries) \in AV!Kept
<1>1. CASE overwrites
  BY <1>1, CopiesAreWritten DEF VInv, CopiesInv, AV!Kept
<1>2. CASE ~overwrites
  BY <1>2 DEF AV!Kept
<1> QED  BY <1>1, <1>2

\* A call that returns, or is killed, is told so in the abstract.
LEMMA TellStep ==
  ASSUME VInv, NEW c \in Calls, CallerOf(c), NEW what, Answer(c)' = what
  PROVE  /\ what # "none" => AV!Tell(c, what)
         /\ got' = got => UNCHANGED GotAll
         /\ what = "none" /\ got' = got => UNCHANGED View
<1>1. /\ TypeOK /\ CallInv(c)
      /\ pc \in [Calls -> Places] /\ outcome \in [Calls -> Outcomes]
  BY DEF VInv, TypeOK, Places, Outcomes
<1>2. /\ UNCHANGED <<request, child, snapshot, db, overwrites>>
      /\ pc' = [pc EXCEPT ![c] = pc'[c]] /\ outcome' = [outcome EXCEPT ![c] = outcome'[c]]
      /\ pc[c] \notin {"returned", "crashed"}
  BY <1>1, CallerSteps DEF file
<1>3. Answer(c) = "none"
  BY <1>1, <1>2 DEF CallInv, Answer
<1>4. \A q \in Calls : q # c => Answer(q)' = Answer(q)
  BY <1>1, <1>2 DEF Answer
<1>5. AnswerAll' = [AnswerAll EXCEPT ![c] = what] /\ AnswerAll[c] = "none"
  BY <1>3, <1>4 DEF AnswerAll
<1>6. UNCHANGED <<AbstractEntries(db.entries), Written, SeenAll>>
  <2>1. \A q \in Calls : Seen(q)' = Seen(q)
    BY <1>2 DEF Seen, GroupPath
  <2> QED  BY <1>2, <2>1 DEF Written, AbstractEntries, SeenAll
<1>7. got' = got => UNCHANGED GotAll
  BY DEF GotAll, Got
<1>8. what = "none" => AnswerAll' = AnswerAll
  BY <1>3, <1>4 DEF AnswerAll
<1>9. what # "none" => AV!Tell(c, what)
  BY <1>2, <1>5, <1>6 DEF AV!Tell, AnswerAll, Answer, SeenAll, Seen
<1> QED  BY <1>2, <1>6, <1>7, <1>8, <1>9 DEF View

\* Every step of a caller is a step of the abstract store, or none.
LEMMA CallerSimulates ==
  ASSUME VInv, Roles, NEW c \in Calls, CallerOf(c)
  PROVE  [AV!Next]_(AV!vars)
<1>1. TypeOK /\ CallInv(c) /\ RoleInv(c) /\ outcome \in [Calls -> Outcomes]
  BY DEF VInv, Roles, TypeOK, Outcomes
<1>2. CASE pc[c] = "mkdir" /\ pc'[c] = "add" /\ outcome'[c] = outcome[c] /\ got' = got
  <2>1. Answer(c)' = "none"
    BY <1>1, <1>2 DEF CallInv, Answer
  <2> QED  BY <1>2, <2>1, TellStep, ViewOfVault
<1>3. ASSUME NEW what \in {"stored", "not_started", "failed"},
             pc[c] = "add", pc'[c] = "returned", got' = got, outcome'[c] = what,
             what = "stored" => Wrote(c),
             what = "not_started" => child[c]["add"] = "none"
      PROVE  AV!Next
  <2>1. Answer(c)' = what
    BY <1>3 DEF Answer
  <2>2. AV!Tell(c, what) /\ UNCHANGED GotAll
    BY <1>3, <2>1, TellStep
  <2>3. c \in AV!Writers
    BY <1>1, <1>3 DEF RoleInv, AV!Writers
  <2>4. /\ what = "stored" => c \in Written
        /\ what = "not_started" => c \notin Written
    BY <1>3 DEF Written, Wrote
  <2>5. AV!AnswerPut(c)
    BY <1>3, <2>2, <2>4 DEF AV!AnswerPut, GotAll, Got
  <2> QED  BY <2>3, <2>5 DEF AV!Next
<1>4. CASE pc[c] = "show" /\ pc'[c] = "returned" /\ outcome'[c] = "not_found" /\ got' = got
  <2>1. Answer(c)' = "not_found"
    BY <1>4 DEF Answer
  <2>2. AV!Tell(c, "not_found") /\ UNCHANGED GotAll
    BY <1>4, <2>1, TellStep
  <2>3. c \in AV!Readers
    BY <1>1, <1>4 DEF RoleInv, AV!Readers
  <2> QED  BY <2>2, <2>3 DEF AV!Next, AV!AnswerGet, GotAll, Got
<1>5. ASSUME child[c]["show"] = "done"
      PROVE  [path |-> Printed(c).path, secret |-> Printed(c).secret] \in SeenAll[c]
  BY <1>5, PrintedEntry DEF SeenAll, Seen, AbstractEntries
<1>6. CASE /\ pc[c] = "show" /\ pc'[c] = "returned" /\ child[c]["show"] = "done"
           /\ outcome'[c] = "unparseable" /\ got' = got
  <2>1. Answer(c)' = "unparseable"
    BY <1>6 DEF Answer
  <2>2. AV!Tell(c, "unparseable") /\ UNCHANGED GotAll
    BY <1>6, <2>1, TellStep
  <2>3. c \in AV!Readers /\ SeenAll[c] # {}
    BY <1>1, <1>5, <1>6 DEF RoleInv, AV!Readers
  <2> QED  BY <2>2, <2>3 DEF AV!Next, AV!AnswerGet, SeenAll, Seen, GotAll, Got
<1>7. CASE /\ pc[c] = "show" /\ pc'[c] = "returned" /\ child[c]["show"] = "done"
           /\ outcome'[c] = "found" /\ got' = [got EXCEPT ![c] = {Handed(c)}]
  <2>1. Answer(c)' = "found"
    BY <1>7 DEF Answer
  <2>2. AV!Tell(c, "found")
    BY <2>1, TellStep
  <2>3. c \in AV!Readers
    BY <1>1, <1>7 DEF RoleInv, AV!Readers
  <2>4. \E e \in SeenAll[c] : e.secret = Handed(c).secret
    BY <1>5, <1>7 DEF Handed
  <2>5. GotAll' = [GotAll EXCEPT ![c] = {Handed(c).secret}]
    <3>1. \A q \in Calls : got'[q] = IF q = c THEN {Handed(c)} ELSE got[q]
      BY <1>1, <1>7 DEF TypeOK
    <3>2. \A q \in Calls : Got(q)' = IF q = c THEN {Handed(c).secret} ELSE Got(q)
      BY <3>1 DEF Got
    <3> QED  BY <3>2 DEF GotAll
  <2>6. \E e \in SeenAll[c] : GotAll' = [GotAll EXCEPT ![c] = {e.secret}]
    BY <2>4, <2>5
  <2> QED  BY <2>2, <2>3, <2>6 DEF AV!Next, AV!AnswerGet, SeenAll, Seen, GotAll, Got
<1>8. CASE pc[c] = "ignore" /\ pc'[c] = "returned" /\ outcome'[c] = "ignored" /\ got' = got
  <2>1. Answer(c)' = "ignored"
    BY <1>8 DEF Answer
  <2>2. AV!Tell(c, "ignored") /\ UNCHANGED GotAll
    BY <1>8, <2>1, TellStep
  <2>3. c \notin AV!Writers \cup AV!Readers
    BY <1>1, <1>8 DEF RoleInv, AV!Writers, AV!Readers
  <2> QED  BY <2>2, <2>3 DEF AV!Next, AV!AnswerOther, GotAll, Got
<1>9. CASE pc'[c] = "crashed" /\ outcome'[c] = outcome[c] /\ got' = got
  <2>1. Answer(c)' = "never"
    BY <1>9 DEF Answer
  <2>2. AV!Tell(c, "never") /\ UNCHANGED GotAll
    BY <1>9, <2>1, TellStep
  <2> QED  BY <2>2 DEF AV!Next, AV!Abandon, GotAll, Got
<1> QED  BY <1>1, <1>2, <1>3, <1>4, <1>6, <1>7, <1>8, <1>9, CallerSteps

\* Every step of a subprocess is one too: a save of an add is the moment at
\* which the put takes effect, a show that has read the moment of the get.
LEMMA ChildSimulates ==
  ASSUME VInv, Roles, NEW c \in Calls, ChildOf(c)
  PROVE  [AV!Next]_(AV!vars)
<1>1. /\ TypeOK /\ CallInv(c) /\ RoleInv(c) /\ "add" \in Commands /\ "show" \in Commands
      /\ child \in [Calls -> [Commands -> Phases]]
      /\ snapshot \in [Calls -> [Commands -> Database]]
  BY DEF VInv, Roles, TypeOK, Commands
<1>2. UNCHANGED <<request, overwrites, pc, outcome, got>>
  BY <1>1, ChildSteps DEF ChildOf, Spawn, caller, file
<1>3. /\ UNCHANGED <<AnswerAll, GotAll>>
      /\ \A q \in Calls : GroupPath(q)' = GroupPath(q)
  BY <1>2 DEF AnswerAll, Answer, GotAll, Got, GroupPath
<1>4. ASSUME \A q \in Calls : Seen(q)' = Seen(q),
             \A q \in Calls : Wrote(q)' <=> Wrote(q)
      PROVE  UNCHANGED <<SeenAll, Written>>
  BY <1>4 DEF SeenAll, Written, Wrote
<1>5. ASSUME NEW k \in Commands,
             child' = [child EXCEPT ![c][k] = child'[c][k]],
             snapshot' = snapshot \/ snapshot' = [snapshot EXCEPT ![c][k] = snapshot'[c][k]],
             child[c][k] # "done"
      PROVE  /\ \A q \in Calls : q # c \/ k # "show" => Seen(q)' = Seen(q)
             /\ \A q \in Calls : q # c \/ k # "add" => (Wrote(q)' <=> Wrote(q))
             /\ k = "show" => Seen(c) = {}
             /\ k = "add" => ~Wrote(c)
  <2>1. \A q \in Calls, j \in Commands : q # c \/ j # k =>
          child'[q][j] = child[q][j] /\ snapshot'[q][j] = snapshot[q][j]
    BY <1>1, <1>5
  <2>2. ASSUME NEW q \in Calls, q # c \/ k # "show" PROVE Seen(q)' = Seen(q)
    <3>1. child'[q]["show"] = child[q]["show"] /\ snapshot'[q]["show"] = snapshot[q]["show"]
      BY <1>1, <2>1, <2>2
    <3> QED  BY <1>3, <3>1 DEF Seen
  <2>3. ASSUME NEW q \in Calls, q # c \/ k # "add" PROVE Wrote(q)' <=> Wrote(q)
    BY <1>1, <2>1, <2>3 DEF Wrote
  <2> QED  BY <1>5, <2>2, <2>3 DEF Seen, Wrote
<1>6. CASE Spawn(c)
  <2>1. /\ child' = [child EXCEPT ![c][pc[c]] = "started"]
        /\ child[c][pc[c]] = "none" /\ pc[c] \in Commands
        /\ UNCHANGED <<snapshot, db>>
    BY <1>6 DEF Spawn, file
  <2>2. child'[c][pc[c]] = "started" /\ child' = [child EXCEPT ![c][pc[c]] = child'[c][pc[c]]]
    BY <1>1, <2>1
  <2>3. pc[c] = "show" => Seen(c)' = {}
    BY <1>2, <2>2 DEF Seen
  <2>4. pc[c] = "add" => ~Wrote(c)'
    BY <1>2, <2>2 DEF Wrote
  <2>5. UNCHANGED <<SeenAll, Written>>
    BY <1>4, <1>5, <2>1, <2>2, <2>3, <2>4
  <2> QED  BY <1>2, <1>3, <2>1, <2>5, ViewOfVault DEF View, AbstractEntries
<1>7. ASSUME NEW k \in Commands, Opens(c, k) \/ Fails(c, k) PROVE [AV!Next]_(AV!vars)
  <2>1. /\ child' = [child EXCEPT ![c][k] = child'[c][k]]
        /\ snapshot' = [snapshot EXCEPT ![c][k] = snapshot'[c][k]]
        /\ child[c][k] \in {"started", "opened"}
    BY <1>1, <1>7, ChildSteps DEF Subprocess
  <2>2. /\ db' = db
        /\ \/ child'[c][k] = "failed"
           \/ k # "show" /\ child'[c][k] = "opened"
           \/ k = "show" /\ child'[c][k] = "done" /\ snapshot'[c][k] = db
    BY <1>1, <1>7 DEF Opens, Fails, file
  <2>3. k = "add" => ~Wrote(c)'
    BY <2>2 DEF Wrote
  <2>4. \A q \in Calls : Wrote(q)' <=> Wrote(q)
    BY <1>5, <2>1, <2>3
  <2>5. CASE ~(k = "show" /\ child'[c][k] = "done")
    <3>1. k = "show" => Seen(c)' = {}
      BY <2>5 DEF Seen
    <3>2. UNCHANGED <<SeenAll, Written>>
      BY <1>4, <1>5, <2>1, <2>4, <3>1
    <3> QED  BY <1>2, <1>3, <2>2, <3>2, ViewOfVault DEF View, AbstractEntries
  <2>6. CASE k = "show" /\ child'[c][k] = "done"
    <3>1. Seen(c)' = AbstractEntries(Under(GroupPath(c), db.entries))
      BY <1>3, <2>2, <2>6 DEF Seen, Under, AbstractEntries
    <3>2. Seen(c)' = AV!Under(AV!Path(c), AbstractEntries(db.entries))
      BY <3>1, UnderCommutes DEF AV!Path, GroupPath
    <3>3. Seen(c) = {} /\ \A q \in Calls : q # c => Seen(q)' = Seen(q)
      BY <1>5, <2>1, <2>6
    <3>4. /\ SeenAll' = [SeenAll EXCEPT
                           ![c] = AV!Under(AV!Path(c), AbstractEntries(db.entries))]
          /\ SeenAll[c] = {}
      BY <3>2, <3>3 DEF SeenAll
    <3>5. UNCHANGED <<Written, AbstractEntries(db.entries)>>
      BY <2>2, <2>4 DEF Written, Wrote, AbstractEntries
    <3>6. AV!Find(c)
      BY <1>2, <1>3, <3>4, <3>5
      DEF AV!Find, SeenAll, Seen, AnswerAll, Answer, GotAll, Got
    <3>7. c \in AV!Readers
      BY <1>1, <2>1, <2>6 DEF RoleInv, AV!Readers
    <3> QED  BY <3>6, <3>7 DEF AV!Next
  <2> QED  BY <2>5, <2>6
<1>8. ASSUME NEW k \in Commands, Saves(c, k) PROVE [AV!Next]_(AV!vars)
  <2>1. /\ child' = [child EXCEPT ![c][k] = child'[c][k]]
        /\ snapshot' = [snapshot EXCEPT ![c][k] = snapshot'[c][k]]
        /\ child[c][k] = "opened" /\ child'[c][k] = "done"
        /\ overwrites \/ db = snapshot[c][k]
        /\ db' = Changed(c, k)
        /\ k # "show"
    <3>1. child' = [child EXCEPT ![c][k] = "done"]
      BY <1>8 DEF Saves
    <3>2. child'[c][k] = "done"
      BY <1>1, <3>1
    <3>3. k # "show"
      BY <1>1, <1>8 DEF Saves, CallInv
    <3>4. child[c][k] = "opened" /\ db' = Changed(c, k) /\ (overwrites \/ db = snapshot[c][k])
      BY <1>8 DEF Saves
    <3>5. /\ child' = [child EXCEPT ![c][k] = child'[c][k]]
          /\ snapshot' = [snapshot EXCEPT ![c][k] = snapshot'[c][k]]
      BY <1>1, <1>8, ChildSteps DEF Subprocess
    <3> QED  BY <3>2, <3>3, <3>4, <3>5
  <2>2. UNCHANGED SeenAll
    BY <1>5, <2>1 DEF SeenAll
  <2>3. AbstractEntries(snapshot[c][k].entries) \in AV!Kept
    BY <2>1, SaveKeeps
  <2>4. CASE k = "mkdir"
    <3>1. db'.entries = snapshot[c][k].entries
      BY <1>1, <2>1, <2>4 DEF Changed, Database
    <3>2. AbstractEntries(db.entries)' = AbstractEntries(snapshot[c][k].entries)
      BY <3>1 DEF AbstractEntries
    <3>3. Written' = Written
      BY <1>5, <2>1, <2>4 DEF Written, Wrote
    <3>4. AV!Resave
      BY <1>2, <1>3, <2>2, <2>3, <3>2, <3>3
      DEF AV!Resave, SeenAll, Seen, AnswerAll, Answer, GotAll, Got
    <3> QED  BY <3>4 DEF AV!Next
  <2>5. CASE k = "add"
    <3>1. db'.entries = snapshot[c][k].entries \cup {NewEntry(c)}
      BY <1>1, <2>1, <2>5 DEF Changed, Database
    <3>2. AbstractEntries(db.entries)'
            = AbstractEntries(snapshot[c][k].entries) \cup {AV!Entry(c)}
      <4> DEFINE new == NewEntry(c)
      <4>1. [path |-> new.path, secret |-> new.secret] = AV!Entry(c)
        BY DEF NewEntry, AV!Entry, AV!Path, GroupPath
      <4>2. db'.entries = snapshot[c][k].entries \cup {new}
        BY <3>1
      <4> HIDE DEF new
      <4> QED  BY <4>1, <4>2 DEF AbstractEntries
    <3>3. c \notin Written /\ Written' = Written \cup {c}
      <4>1. ~Wrote(c) /\ Wrote(c)' /\ \A q \in Calls : q # c => (Wrote(q)' <=> Wrote(q))
        BY <1>5, <2>1, <2>5 DEF Wrote
      <4> QED  BY <4>1 DEF Written, Wrote
    <3>4. AV!Under(AV!Path(c), AbstractEntries(snapshot[c][k].entries)) = {}
      <4>1. Under(GroupPath(c), snapshot[c][k].entries) = {}
        BY <1>1, <2>1, <2>5 DEF CallInv
      <4>2. AbstractEntries({}) = {}
        BY DEF AbstractEntries
      <4> QED  BY <4>1, <4>2, UnderCommutes DEF AV!Path, GroupPath
    <3>5. c \in AV!Writers
      BY <1>1, <2>1, <2>5 DEF RoleInv, AV!Writers
    <3>6. AnswerAll[c] \in {"none", "failed", "never"}
      <4>1. outcome[c] \in {"none", "failed"}
        BY <1>1, <2>1, <2>5, <3>5 DEF RoleInv, CallInv, Wrote, AV!Writers
      <4> QED  BY <4>1 DEF AnswerAll, Answer
    <3>7. AV!Write(c)
      BY <1>2, <1>3, <2>2, <2>3, <3>2, <3>3, <3>4, <3>6
      DEF AV!Write, SeenAll, Seen, AnswerAll, Answer, GotAll, Got
    <3> QED  BY <3>5, <3>7 DEF AV!Next
  <2> QED  BY <2>1, <2>4, <2>5 DEF Commands
<1> QED  BY <1>6, <1>7, <1>8 DEF ChildOf, Subprocess

\* Vault keeps what AbstractVault promises, however its calls and their
\* subprocesses overlap, fail, are no longer waited for or are killed.
THEOREM VaultRefinement == Spec => ImplementsAbstractVault
<1>1. Init => AV!Init
  <2> SUFFICES ASSUME Init PROVE AV!Init
    OBVIOUS
  <2>1. /\ AbstractEntries(db.entries) = {}
        /\ \A c \in Calls : /\ \A k \in Commands : child[c][k] = "none"
                            /\ outcome[c] = "none" /\ got[c] = {} /\ pc[c] # "crashed"
        /\ request \in Workloads /\ overwrites \in BOOLEAN
    BY DEF Init, AbstractEntries
  <2>2. Written = {} /\ \A c \in Calls : Seen(c) = {} /\ Answer(c) = "none" /\ Got(c) = {}
    BY <2>1 DEF Written, Seen, Answer, Got, Commands
  <2> QED  BY <2>1, <2>2 DEF AV!Init, Seen, Answer, Got
<1>2. VInv /\ Roles /\ [Next]_vars => [AV!Next]_(AV!vars)
  <2> SUFFICES ASSUME VInv, Roles, [Next]_vars
               PROVE  [AV!Next]_(AV!vars)
    OBVIOUS
  <2>1. ASSUME NEW c \in Calls, CallerOf(c) \/ ChildOf(c) PROVE [AV!Next]_(AV!vars)
    BY <2>1, CallerSimulates, ChildSimulates
  <2>2. ASSUME UNCHANGED <<request, pc, outcome, got, child, snapshot, overwrites>>,
               AbstractEntries(db.entries)' = AbstractEntries(db.entries)
        PROVE  UNCHANGED AV!vars
    BY <2>2, ViewOfVault DEF View, Written, SeenAll, Seen, AnswerAll, Answer, GotAll, Got,
       GroupPath
  <2>3. ASSUME NEW e \in db.entries, EditNotes(e) PROVE UNCHANGED AV!vars
    <3>1. PICK f \in StoredEntry : /\ f.path = e.path /\ f.secret = e.secret
                                   /\ db'.entries = (db.entries \ {e}) \cup {f}
      BY <2>3, EditSteps DEF VInv
    <3>2. AbstractEntries(db.entries)' = AbstractEntries(db.entries)
      BY <3>1 DEF AbstractEntries
    <3>3. UNCHANGED <<request, pc, outcome, got, child, snapshot, overwrites>>
      BY <2>3, EditSteps DEF VInv, caller
    <3> QED  BY <2>2, <3>2, <3>3
  <2>4. CASE UNCHANGED vars
    BY <2>2, <2>4 DEF vars, AbstractEntries
  <2> QED  BY <2>1, <2>3, <2>4, Steps
<1> QED
  BY <1>1, <1>2, VaultInvariance, RolesInvariance, PTL
  DEF Spec, ImplementsAbstractVault, AV!Spec

-----------------------------------------------------------------------------
(* What AbstractVault itself amounts to, and so Vault with it.              *)

\* The promises of a store with these entries, puts, finds, answers and
\* secrets handed out.
PromisedBy(e, w, s, a, g) ==
  /\ \A c \in AV!Writers :
       /\ a[c] = "stored" => c \in w
       /\ a[c] = "not_started" => c \notin w
  /\ \A c \in AV!Readers :
       /\ a[c] = "unparseable" => s[c] # {}
       /\ a[c] = "found" => g[c] # {}
       /\ g[c] \subseteq {x.secret : x \in s[c]}
       /\ s[c] \subseteq {AV!Entry(v) : v \in {u \in w : AV!Path(u) = AV!Path(c)}}
  /\ e \subseteq {AV!Entry(v) : v \in w}
  /\ ~overwrites =>
       /\ e = {AV!Entry(v) : v \in w}
       /\ \A u, v \in w : AV!Path(u) = AV!Path(v) => u = v

\* A put that takes effect, also when the save drops what was there.
LEMMA WriteKeepsPromises ==
  ASSUME NEW e, NEW w, NEW s, NEW a, NEW g, PromisedBy(e, w, s, a, g),
         NEW c, c \notin w, a[c] \in {"none", "failed", "never"},
         NEW kept, kept \subseteq {AV!Entry(v) : v \in w}, ~overwrites => kept = e,
         AV!Under(AV!Path(c), kept) = {}
  PROVE  PromisedBy(kept \cup {AV!Entry(c)}, w \cup {c}, s, a, g)
<1> DEFINE w2 == w \cup {c}
           e2 == kept \cup {AV!Entry(c)}
<1>1. \A d \in AV!Writers : /\ a[d] = "stored" => d \in w2
                           /\ a[d] = "not_started" => d \notin w2
  BY DEF PromisedBy
<1>2. \A d \in AV!Readers :
        s[d] \subseteq {AV!Entry(v) : v \in {u \in w2 : AV!Path(u) = AV!Path(d)}}
  BY DEF PromisedBy
<1>3. e2 \subseteq {AV!Entry(v) : v \in w2}
  OBVIOUS
<1>4. ASSUME ~overwrites
      PROVE  /\ e2 = {AV!Entry(v) : v \in w2}
             /\ \A u, v \in w2 : AV!Path(u) = AV!Path(v) => u = v
  <2>1. /\ kept = {AV!Entry(v) : v \in w}
        /\ \A u, v \in w : AV!Path(u) = AV!Path(v) => u = v
    BY <1>4 DEF PromisedBy
  <2>2. \A v \in w : AV!Path(v) # AV!Path(c)
    <3>1. \A v \in w : AV!Entry(v) \in kept /\ AV!Entry(v).path = AV!Path(v)
      BY <2>1 DEF AV!Entry
    <3> QED  BY <3>1 DEF AV!Under
  <2> QED  BY <2>1, <2>2
<1> QED  BY <1>1, <1>2, <1>3, <1>4 DEF PromisedBy

\* A get that finds what is there.
LEMMA FindKeepsPromises ==
  ASSUME NEW e, NEW w, NEW s, NEW a, NEW g, PromisedBy(e, w, s, a, g),
         NEW c \in Calls, DOMAIN s = Calls, s[c] = {}
  PROVE  PromisedBy(e, w, [s EXCEPT ![c] = AV!Under(AV!Path(c), e)], a, g)
<1> DEFINE found == AV!Under(AV!Path(c), e)
           s2 == [s EXCEPT ![c] = found]
<1>1. found \subseteq {AV!Entry(v) : v \in {u \in w : AV!Path(u) = AV!Path(c)}}
  <2>1. \A x \in e : \E v \in w : x = AV!Entry(v)
    BY DEF PromisedBy
  <2>2. \A v : AV!Entry(v).path = AV!Path(v)
    BY DEF AV!Entry
  <2> QED  BY <2>1, <2>2 DEF AV!Under
<1> HIDE DEF found
<1>2. ASSUME NEW d \in AV!Readers
      PROVE  /\ a[d] = "unparseable" => s2[d] # {}
             /\ g[d] \subseteq {x.secret : x \in s2[d]}
             /\ s2[d] \subseteq {AV!Entry(v) : v \in {u \in w : AV!Path(u) = AV!Path(d)}}
  <2>1. d \in Calls
    BY DEF AV!Readers
  <2>2. /\ a[d] = "unparseable" => s[d] # {}
        /\ g[d] \subseteq {x.secret : x \in s[d]}
        /\ s[d] \subseteq {AV!Entry(v) : v \in {u \in w : AV!Path(u) = AV!Path(d)}}
    BY DEF PromisedBy
  <2>3. CASE d = c
    BY <1>1, <2>1, <2>2, <2>3
  <2>4. CASE d # c
    BY <2>1, <2>2, <2>4
  <2> QED  BY <2>3, <2>4
<1> HIDE DEF s2
<1>3. PromisedBy(e, w, s2, a, g)
  BY <1>2 DEF PromisedBy
<1> QED  BY <1>3 DEF s2, found

\* An answer, and what comes with it.
LEMMA TellKeepsPromises ==
  ASSUME NEW e, NEW w, NEW s, NEW a, NEW g, PromisedBy(e, w, s, a, g),
         NEW c \in Calls, DOMAIN a = Calls, DOMAIN g = Calls, NEW what, NEW handed,
         c \in AV!Writers => /\ what = "stored" => c \in w
                             /\ what = "not_started" => c \notin w,
         c \in AV!Readers => /\ what = "unparseable" => s[c] # {}
                             /\ what = "found" => handed # {}
                             /\ handed \subseteq {x.secret : x \in s[c]}
  PROVE  PromisedBy(e, w, s, [a EXCEPT ![c] = what], [g EXCEPT ![c] = handed])
<1> DEFINE a2 == [a EXCEPT ![c] = what]
           g2 == [g EXCEPT ![c] = handed]
<1>1. /\ \A d \in Calls : a2[d] = IF d = c THEN what ELSE a[d]
      /\ \A d \in Calls : g2[d] = IF d = c THEN handed ELSE g[d]
  OBVIOUS
<1> HIDE DEF a2, g2
<1>2. \A d \in AV!Writers : /\ a2[d] = "stored" => d \in w
                           /\ a2[d] = "not_started" => d \notin w
  BY <1>1 DEF PromisedBy, AV!Writers
<1>3. ASSUME NEW d \in AV!Readers
      PROVE  /\ a2[d] = "unparseable" => s[d] # {}
             /\ a2[d] = "found" => g2[d] # {}
             /\ g2[d] \subseteq {x.secret : x \in s[d]}
  <2>1. d \in Calls
    BY DEF AV!Readers
  <2>2. CASE d = c
    BY <1>1, <2>1, <2>2
  <2>3. CASE d # c
    BY <1>1, <2>1, <2>3 DEF PromisedBy
  <2> QED  BY <2>2, <2>3
<1> QED  BY <1>2, <1>3 DEF PromisedBy, a2, g2

\* AbstractVault keeps its promises.
LEMMA AbstractPromises == AV!Spec => []AV!Promises
<1> DEFINE e == AbstractEntries(db.entries)
           w == Written
           s == SeenAll
           a == AnswerAll
           g == GotAll
           Inv == PromisedBy(e, w, s, a, g)
<1> USE DEF SeenAll, AnswerAll, GotAll
<1>1. AV!Init => Inv
  BY DEF AV!Init, PromisedBy, Seen, Answer, Got, AV!Writers, AV!Readers
<1>2. Inv /\ [AV!Next]_(AV!vars) => Inv'
  <2> SUFFICES ASSUME Inv, [AV!Next]_(AV!vars) PROVE Inv'
    OBVIOUS
  <2>1. DOMAIN s = Calls /\ DOMAIN a = Calls /\ DOMAIN g = Calls
    OBVIOUS
  <2>2. ASSUME UNCHANGED <<request, overwrites>>, PromisedBy(e', w', s', a', g')
        PROVE  Inv'
    <3> HIDE DEF e, w, s, a, g
    <3>1. AV!Writers' = AV!Writers /\ AV!Readers' = AV!Readers
      BY <2>2 DEF AV!Writers, AV!Readers
    <3>2. \A c : AV!Path(c)' = AV!Path(c) /\ AV!Entry(c)' = AV!Entry(c)
      BY <2>2 DEF AV!Path, AV!Entry
    <3> QED  BY <2>2, <3>1, <3>2 DEF PromisedBy
  <2>3. CASE UNCHANGED AV!vars
    <3>1. UNCHANGED <<request, overwrites, e, w, s, a, g>>
      BY <2>3 DEF AV!vars, Seen, Answer, Got
    <3> HIDE DEF e, w, s, a, g
    <3> QED  BY <2>2, <3>1
  <2>4. ASSUME NEW c \in AV!Writers, AV!Write(c) PROVE Inv'
    <3>1. /\ c \notin w /\ a[c] \in {"none", "failed", "never"}
          /\ \E kept \in AV!Kept : /\ AV!Under(AV!Path(c), kept) = {}
                                   /\ e' = kept \cup {AV!Entry(c)}
          /\ w' = w \cup {c}
          /\ UNCHANGED <<request, overwrites, s, a, g>>
      BY <2>4 DEF AV!Write, Seen, Answer, Got
    <3>2. PICK kept \in AV!Kept : /\ AV!Under(AV!Path(c), kept) = {}
                                  /\ e' = kept \cup {AV!Entry(c)}
      BY <3>1
    <3>3. kept \subseteq {AV!Entry(v) : v \in w} /\ (~overwrites => kept = e)
      BY DEF AV!Kept, PromisedBy
    <3> HIDE DEF e, w, s, a, g
    <3>4. PromisedBy(kept \cup {AV!Entry(c)}, w \cup {c}, s, a, g)
      BY <3>1, <3>2, <3>3, WriteKeepsPromises
    <3> QED  BY <2>2, <3>1, <3>2, <3>4
  <2>5. ASSUME AV!Resave PROVE Inv'
    <3>1. /\ e' \subseteq {AV!Entry(v) : v \in w} /\ (~overwrites => e' = e)
          /\ UNCHANGED <<request, overwrites, w, s, a, g>>
      BY <2>5 DEF AV!Resave, AV!Kept, PromisedBy, Seen, Answer, Got
    <3> HIDE DEF e, w, s, a, g
    <3>2. PromisedBy(e', w, s, a, g)
      BY <3>1 DEF PromisedBy
    <3> QED  BY <2>2, <3>1, <3>2
  <2>6. ASSUME NEW c \in AV!Readers, AV!Find(c) PROVE Inv'
    <3>1. /\ s[c] = {}
          /\ s' = [s EXCEPT ![c] = AV!Under(AV!Path(c), e)]
          /\ UNCHANGED <<request, overwrites, e, w, a, g>>
      BY <2>6 DEF AV!Find, Seen, Answer, Got, AV!Readers
    <3>2. c \in Calls
      BY DEF AV!Readers
    <3> HIDE DEF e, w, s, a, g
    <3>3. PromisedBy(e, w, [s EXCEPT ![c] = AV!Under(AV!Path(c), e)], a, g)
      BY <2>1, <3>1, <3>2, FindKeepsPromises
    <3> QED  BY <2>2, <3>1, <3>3
  <2>7. ASSUME NEW c \in Calls, NEW what, NEW handed,
               AV!Tell(c, what), g' = [g EXCEPT ![c] = handed],
               c \in AV!Writers => /\ what = "stored" => c \in w
                                   /\ what = "not_started" => c \notin w,
               c \in AV!Readers => /\ what = "unparseable" => s[c] # {}
                                   /\ what = "found" => handed # {}
                                   /\ handed \subseteq {x.secret : x \in s[c]}
        PROVE  Inv'
    <3>1. /\ a' = [a EXCEPT ![c] = what]
          /\ UNCHANGED <<request, overwrites, e, w, s>>
      BY <2>7 DEF AV!Tell, Seen, Answer
    <3> HIDE DEF e, w, s, a, g
    <3>2. PromisedBy(e, w, s, [a EXCEPT ![c] = what], [g EXCEPT ![c] = handed])
      BY <2>1, <2>7, TellKeepsPromises
    <3> QED  BY <2>2, <2>7, <3>1, <3>2
  <2>8. ASSUME NEW c \in Calls, NEW what, AV!Tell(c, what), UNCHANGED g,
               c \in AV!Writers => /\ what = "stored" => c \in w
                                   /\ what = "not_started" => c \notin w,
               c \in AV!Readers => /\ what = "unparseable" => s[c] # {}
                                   /\ what # "found"
        PROVE  Inv'
    <3>1. g' = [g EXCEPT ![c] = g[c]]
      <4>1. g = [g EXCEPT ![c] = g[c]]
        OBVIOUS
      <4> QED  BY <2>8, <4>1
    <3> HIDE DEF e, w, s, a, g
    <3>2. c \in AV!Readers => g[c] \subseteq {x.secret : x \in s[c]}
      BY DEF PromisedBy
    <3> HIDE DEF Inv
    <3> DEFINE handed == g[c]
    <3>3. g' = [g EXCEPT ![c] = handed]
      BY <3>1
    <3>4. c \in AV!Readers => handed \subseteq {x.secret : x \in s[c]}
      BY <3>2
    <3> HIDE DEF handed
    <3> QED  BY <2>7, <2>8, <3>3, <3>4
  <2>9. ASSUME NEW c \in Calls,
               \/ c \in AV!Writers /\ AV!AnswerPut(c)
               \/ c \in AV!Readers /\ AV!AnswerGet(c)
               \/ c \notin AV!Writers \cup AV!Readers /\ AV!AnswerOther(c)
               \/ AV!Abandon(c)
        PROVE  Inv'
    <3>1. c \in AV!Writers => c \notin AV!Readers
      BY DEF AV!Writers, AV!Readers
    <3>2. CASE c \in AV!Writers /\ AV!AnswerPut(c)
      BY <2>8, <3>1, <3>2 DEF AV!AnswerPut, Got
    <3>3. CASE c \in AV!Readers /\ AV!AnswerGet(c)
      <4>1. ASSUME AV!Tell(c, "found"),
                   NEW x \in s[c], g' = [g EXCEPT ![c] = {x.secret}]
            PROVE  Inv'
        BY <2>7, <3>1, <3>3, <4>1
      <4>2. CASE \/ AV!Tell(c, "not_found") /\ UNCHANGED g
                 \/ s[c] # {} /\ AV!Tell(c, "unparseable") /\ UNCHANGED g
        BY <2>8, <3>1, <3>3, <4>2
      <4> QED  BY <3>3, <4>1, <4>2 DEF AV!AnswerGet, Seen, Got
    <3>4. CASE c \notin AV!Writers \cup AV!Readers /\ AV!AnswerOther(c)
      BY <2>8, <3>4 DEF AV!AnswerOther, Got
    <3>5. CASE AV!Abandon(c)
      BY <2>8, <3>5 DEF AV!Abandon, Got
    <3> QED  BY <2>9, <3>2, <3>3, <3>4, <3>5
  <2>10. AV!Writers \subseteq Calls /\ AV!Readers \subseteq Calls
    BY DEF AV!Writers, AV!Readers
  <2> QED  BY <2>3, <2>4, <2>5, <2>6, <2>9, <2>10 DEF AV!Next
<1>3. Inv => AV!Promises
  BY DEF PromisedBy, AV!Promises, Seen, Answer, Got
<1> QED  BY <1>1, <1>2, <1>3, PTL DEF AV!Spec

\* The vault keeps them.  A put told that it is stored, or that it was not
\* started, was told the truth for good; one told that it failed may have
\* stored all the same.  get and git-credential hand out only a secret that a
\* put stored under the path they were asked for and that was there during
\* the call.  Nothing is lost, nor two entries under one path, unless
\* keepassxc-cli saves over changes.
THEOREM VaultPromises == Spec => []AV!Promises
BY VaultRefinement, AbstractPromises, PTL DEF ImplementsAbstractVault

=============================================================================
