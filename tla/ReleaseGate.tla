---------------------------- MODULE ReleaseGate ----------------------------
(***************************************************************************)
(* The maintenance gate: the control row and the leases kept in PostgreSQL *)
(* (schema ops), the work that asks it for admission (API requests, the    *)
(* email and cleanup batches) and the release commands that close, drain,  *)
(* migrate behind it and open it again.                                    *)
(*                                                                         *)
(* One action is one round trip or one step inside a database transaction  *)
(* that another process can observe or wait for.  An UPDATE of the control *)
(* row travels as an element of stmts: its sender may stop waiting (client *)
(* timeout, killed process) while the server still applies it later.       *)
(***************************************************************************)
EXTENDS Integers, FiniteSets

CONSTANTS Requests,     \* API requests under withApiAdmission
          Batches,      \* email and cleanup batches under runAdmittedBatch
          LeaseIds,     \* the identifiers gen_random_uuid may return
          Controllers,  \* release runs and operator shells
          Shas,         \* commits that may be released
          Versions,     \* uploaded Worker versions
          Source,       \* Source[v]: the commit a version was built from
          InitialRows,  \* control rows the installation may start with
          MaxClock,     \* bound on the number of timestamps taken
          None

Holders == Requests \cup Batches

VARIABLES
  control,   \* the row of ops.release_control
  leases,    \* the ids in ops.release_leases
  hs,        \* where each holder is
  lease,     \* the lease a holder owns, or None
  clock,     \* the next timestamp
  stmts,     \* control-row UPDATEs sent and not yet applied or lost
  pc,        \* where each controller is
  waits,     \* the statement a controller waits for (its timestamp), or 0
  arg,       \* the --sha of the running command
  seen,      \* the control row the last status() read
  closure,   \* the closure (status after close) the controller works under
  evidence,  \* the evidence file a controller holds
  disturbed  \* history: work ran since the controller began to migrate

holderVars == <<hs, lease, leases>>
ctlVars    == <<pc, waits, arg, seen, closure, evidence>>
vars       == <<control, holderVars, clock, stmts, ctlVars, disturbed>>

-----------------------------------------------------------------------------
MaybeVersion == Versions \cup {None}
Timestamps == 0..MaxClock

\* A closed gate always names the commit it is closed for.
ControlRow ==
  {row \in [mode : {"open", "maintenance"}, target : Shas \cup {None},
            changedAt : Timestamps, web : MaybeVersion, api : MaybeVersion] :
     row.mode = "maintenance" => row.target \in Shas}

ClosedRow == {row \in ControlRow : row.mode = "maintenance"}

Evidence ==
  [sha : Shas, acceptedAt : Timestamps,
   web : Versions, webChanged : BOOLEAN, api : Versions, apiChanged : BOOLEAN]

\* The installation starts open: freshly seeded, or with a published pair.
StartRow(row) ==
  /\ row \in ControlRow
  /\ row.mode = "open"
  /\ row.changedAt = 0

ASSUME GateAssumption ==
  /\ Requests \cap Batches = {}
  /\ Source \in [Versions -> Shas]
  /\ None \notin LeaseIds \cup Shas \cup Versions
  /\ None \notin ControlRow /\ None \notin Evidence
  /\ MaxClock \in Nat
  /\ \A row \in InitialRows : StartRow(row)

CloseStmt == [op : {"close"}, by : Controllers, sha : Shas, at : Timestamps]
OpenStmt  == [op : {"open"}, by : Controllers, sha : Shas, at : Timestamps,
              closedAt : Timestamps, web : Versions, api : Versions]

\* The holder is doing the work it asked admission for.
Working(h) == hs[h] \in {"working", "streaming"}

Rest    == {"idle", "drained", "migrated"}
Phases  == Rest \cup
  {"closing", "closed", "drainRead", "drainCount", "migRead", "migCount",
   "migrating", "checkCount", "openRead", "openCount", "opening"}

Init ==
  /\ control \in InitialRows
  /\ leases = {}
  /\ hs = [h \in Holders |-> "idle"]
  /\ lease = [h \in Holders |-> None]
  /\ clock = 1
  /\ stmts = {}
  /\ pc = [c \in Controllers |-> "idle"]
  /\ waits = [c \in Controllers |-> 0]
  /\ arg = [c \in Controllers |-> None]
  /\ seen = [c \in Controllers |-> None]
  /\ closure = [c \in Controllers |-> None]
  /\ evidence = [c \in Controllers |-> None]
  /\ disturbed = [c \in Controllers |-> FALSE]

-----------------------------------------------------------------------------
(* Admission: ops.admit_release_lease, called by withApiAdmission and       *)
(* runAdmittedBatch.                                                        *)

\* SELECT mode ... FOR SHARE finds the gate open: the caller's transaction
\* holds the row's share lock until it commits or aborts.
AdmitRead(h) ==
  /\ hs[h] = "idle"
  /\ control.mode = "open"
  /\ hs' = [hs EXCEPT ![h] = "sharing"]
  /\ UNCHANGED <<control, lease, leases, clock, stmts, ctlVars, disturbed>>

\* INSERT of the lease and the end of the function's transaction.
AdmitInsert(h) ==
  /\ hs[h] = "sharing"
  /\ \E l \in LeaseIds \ (leases \cup {lease[g] : g \in Holders}) :
       /\ leases' = leases \cup {l}
       /\ lease' = [lease EXCEPT ![h] = l]
  /\ hs' = [hs EXCEPT ![h] = "granted"]
  /\ UNCHANGED <<control, clock, stmts, ctlVars, disturbed>>

\* The lease id reaches the caller, which starts its work.
AdmitReply(h) ==
  /\ hs[h] = "granted"
  /\ hs' = [hs EXCEPT ![h] = "working"]
  /\ disturbed' = [c \in Controllers |-> disturbed[c] \/ pc[c] = "migrating"]
  /\ UNCHANGED <<control, lease, leases, clock, stmts, ctlVars>>

\* The request's handler returned a response with a body: the lease is kept
\* until the body is read to its end, fails or is cancelled.
StartStream(h) ==
  /\ h \in Requests
  /\ hs[h] = "working"
  /\ hs' = [hs EXCEPT ![h] = "streaming"]
  /\ UNCHANGED <<control, lease, leases, clock, stmts, ctlVars, disturbed>>

\* Mutant: a batch's release is not in a finally block.
FinishWorkNoFinally(h) ==
  /\ hs[h] \in {"working", "streaming"}
  /\ h \in Requests
  /\ hs' = [hs EXCEPT ![h] = "releasing"]
  /\ UNCHANGED <<control, lease, leases, clock, stmts, ctlVars, disturbed>>

\* The work is over (returned without a body, threw, or its stream ended):
\* gate.release is called next, once.
FinishWork(h) ==
  /\ hs[h] \in {"working", "streaming"}
  /\ hs' = [hs EXCEPT ![h] = "releasing"]
  /\ UNCHANGED <<control, lease, leases, clock, stmts, ctlVars, disturbed>>

\* delete from ops.release_leases where id = lease
Release(h) ==
  /\ hs[h] = "releasing"
  /\ leases' = leases \ {lease[h]}
  /\ lease' = [lease EXCEPT ![h] = None]
  /\ hs' = [hs EXCEPT ![h] = "idle"]
  /\ UNCHANGED <<control, clock, stmts, ctlVars, disturbed>>

\* The admission call fails, its reply is lost, the delete fails or the
\* process is killed.  An uncommitted admission aborts; a committed lease
\* stays behind with no owner.
Abandon(h) ==
  /\ hs[h] # "idle"
  /\ hs' = [hs EXCEPT ![h] = "idle"]
  /\ lease' = [lease EXCEPT ![h] = None]
  /\ UNCHANGED <<control, leases, clock, stmts, ctlVars, disturbed>>

-----------------------------------------------------------------------------
(* Control-row UPDATEs at the server.                                       *)

Tick == /\ clock < MaxClock
        /\ clock' = clock + 1

\* The command of controller c is over: nothing of it is remembered.
Finish(c, p) ==
  /\ pc' = [pc EXCEPT ![c] = p]
  /\ waits' = [waits EXCEPT ![c] = 0]
  /\ arg' = [arg EXCEPT ![c] = None]
  /\ seen' = [seen EXCEPT ![c] = None]

command == <<pc, waits, arg, seen>>

\* Mutant: the admission reads the mode without FOR SHARE.
RowUnsharedLockless == TRUE

\* No admission holds the control row's share lock.
RowUnshared == \A h \in Holders : hs[h] # "sharing"

\* closeFor: needs the row's exclusive lock, which waits for every admission
\* that holds it shared.  changed_at = now() is when the statement started.
ApplyClose(s) ==
  /\ s.op = "close"
  /\ stmts' = stmts \ {s}
  /\ LET matches == control.mode = "open" \/ control.target = s.sha
         heard == waits[s.by] = s.at
     IN  /\ matches => RowUnshared
         /\ control' = IF matches
                       THEN [control EXCEPT !.mode = "maintenance",
                                            !.target = s.sha, !.changedAt = s.at]
                       ELSE control
         /\ CASE heard /\ matches -> /\ pc' = [pc EXCEPT ![s.by] = "closed"]
                                     /\ waits' = [waits EXCEPT ![s.by] = 0]
                                     /\ UNCHANGED <<arg, seen>>
              [] heard /\ ~matches -> Finish(s.by, "idle")
              [] OTHER -> UNCHANGED command
  /\ UNCHANGED <<holderVars, clock, closure, evidence, disturbed>>

\* Mutant: openFor does not compare changed_at.
OpenMatchesUnfenced(s) == /\ control.mode = "maintenance"
                          /\ control.target = s.sha
                          /\ leases = {}

\* The WHERE clause of openFor.
OpenMatches(s) == /\ control.mode = "maintenance"
                  /\ control.target = s.sha
                  /\ control.changedAt = s.closedAt
                  /\ leases = {}

\* The sender of statement s, if it still waits, ends its command.
Answer(s) == IF waits[s.by] = s.at THEN Finish(s.by, "idle")
                                   ELSE UNCHANGED command

\* Mutant: the API version columns are not set.
OpenedRowWebOnly(s) == [mode |-> "open", target |-> s.sha, changedAt |-> s.at,
                        web |-> s.web]

OpenedRow(s) == [mode |-> "open", target |-> s.sha, changedAt |-> s.at,
                 web |-> s.web, api |-> s.api]

\* openFor: one UPDATE that checks the closure and the leases it depends on.
ApplyOpen(s) ==
  /\ s.op = "open"
  /\ stmts' = stmts \ {s}
  /\ control' = IF OpenMatches(s) THEN OpenedRow(s) ELSE control
  /\ Answer(s)
  /\ UNCHANGED <<holderVars, clock, closure, evidence, disturbed>>

\* The statement never reaches the server.
LoseStmt(s) ==
  /\ stmts' = stmts \ {s}
  /\ Answer(s)
  /\ UNCHANGED <<control, holderVars, clock, closure, evidence, disturbed>>

-----------------------------------------------------------------------------
(* Release commands.                                                        *)

\* Controller c, between commands, starts one for commit sha.
Begin(c, sha, p) ==
  /\ pc[c] \in Rest
  /\ pc' = [pc EXCEPT ![c] = p]
  /\ arg' = [arg EXCEPT ![c] = sha]
  /\ seen' = [seen EXCEPT ![c] = None]

\* A command fails, times out or is killed.  What it sent stays sent.
GiveUp(c) ==
  /\ pc[c] \notin Rest
  /\ Finish(c, "idle")
  /\ UNCHANGED <<control, holderVars, clock, stmts, closure, evidence, disturbed>>

\* Controller c sends an UPDATE of the control row and waits for its result.
Send(c, stmt) ==
  /\ Tick
  /\ stmts' = stmts \cup {stmt}
  /\ waits' = [waits EXCEPT ![c] = stmt.at]

StartClose(c, sha) ==
  /\ Begin(c, sha, "closing")
  /\ Send(c, [op |-> "close", by |-> c, sha |-> sha, at |-> clock])
  /\ UNCHANGED <<control, holderVars, closure, evidence, disturbed>>

ClosedFor(row, sha) == row.mode = "maintenance" /\ row.target = sha

\* The status that follows a close is the closure the release works under.
CloseStatus(c) ==
  /\ pc[c] = "closed"
  /\ closure' = IF ClosedFor(control, arg[c])
                THEN [closure EXCEPT ![c] = control]
                ELSE closure
  /\ Finish(c, "idle")
  /\ UNCHANGED <<control, holderVars, clock, stmts, evidence, disturbed>>

\* status() is separate queries: the control row first, the lease count after
\* it.  StatusRead is the first; the command goes on to count in phase "to".
StatusRead(c, from, to) ==
  /\ pc[c] = from
  /\ pc' = [pc EXCEPT ![c] = to]
  /\ seen' = [seen EXCEPT ![c] = control]
  /\ UNCHANGED <<control, holderVars, clock, stmts, waits, arg, closure,
                 evidence, disturbed>>

\* An operator's status command: the closure others made becomes known.
ReadStatus(c) ==
  /\ pc[c] \in Rest
  /\ control.mode = "maintenance"
  /\ closure' = [closure EXCEPT ![c] = control]
  /\ UNCHANGED <<control, holderVars, clock, stmts, command, evidence, disturbed>>

StartDrain(c, sha) ==
  /\ Begin(c, sha, "drainRead")
  /\ UNCHANGED <<control, holderVars, clock, stmts, waits, closure, evidence,
                 disturbed>>

\* Done when no lease is left, an error on the wrong mode or SHA, and another
\* poll otherwise.  A drained controller remembers the closure it saw.
DrainCount(c) ==
  /\ pc[c] = "drainCount"
  /\ CASE ~ClosedFor(seen[c], arg[c]) -> Finish(c, "idle")
       [] ClosedFor(seen[c], arg[c]) /\ leases = {} ->
            /\ pc' = [pc EXCEPT ![c] = "drained"]
            /\ arg' = [arg EXCEPT ![c] = None]
            /\ UNCHANGED <<waits, seen>>
       [] OTHER -> /\ pc' = [pc EXCEPT ![c] = "drainRead"]
                   /\ seen' = [seen EXCEPT ![c] = None]
                   /\ UNCHANGED <<waits, arg>>
  /\ UNCHANGED <<control, holderVars, clock, stmts, closure, evidence, disturbed>>

\* The migration command is given the closure the release works under.
StartMigrate(c) ==
  /\ closure[c] # None
  /\ Begin(c, closure[c].target, "migRead")
  /\ UNCHANGED <<control, holderVars, clock, stmts, waits, closure, evidence,
                 disturbed>>

\* Mutant: the migration does not compare the closure's timestamp.
DrainedClosureAnyTime(c) ==
  /\ ClosedFor(seen[c], arg[c])
  /\ leases = {}

\* assertDrainedClosure, on the row read earlier and the leases now.
DrainedClosure(c) ==
  /\ ClosedFor(seen[c], arg[c])
  /\ seen[c].changedAt = closure[c].changedAt
  /\ leases = {}

\* The first assertion: on success the reviewed SQL starts to run.
MigrateBegin(c) ==
  /\ pc[c] = "migCount"
  /\ IF DrainedClosure(c)
     THEN /\ pc' = [pc EXCEPT ![c] = "migrating"]
          /\ seen' = [seen EXCEPT ![c] = None]
          /\ disturbed' = [disturbed EXCEPT ![c] = \E h \in Holders : Working(h)]
          /\ UNCHANGED <<waits, arg>>
     ELSE /\ Finish(c, "idle")
          /\ UNCHANGED disturbed
  /\ UNCHANGED <<control, holderVars, clock, stmts, closure, evidence>>

\* The SQL is done and the second assertion decides the outcome.
MigrateEnd(c) ==
  /\ pc[c] = "checkCount"
  /\ Finish(c, IF DrainedClosure(c) THEN "migrated" ELSE "idle")
  /\ UNCHANGED <<control, holderVars, clock, stmts, closure, evidence, disturbed>>

\* Mutant: the commit a changed Worker was built from is not compared.
VersionOkAnyCommit(v, changed, previous, sha) ==
  IF changed THEN v # previous ELSE v = previous

\* releaseVersion: a changed Worker comes from this commit and is not the
\* previous version; an unchanged one is exactly the previous version.
VersionOk(v, changed, previous, sha) ==
  IF changed THEN Source[v] = sha /\ v # previous ELSE v = previous

\* previousVersions is null unless the row carries both versions.
Previous(row, v) == IF row.web = None \/ row.api = None THEN None ELSE v

\* The checks on the versions an evidence names, against the row's.
VersionsOk(e, row) ==
  /\ VersionOk(e.web, e.webChanged, Previous(row, row.web), e.sha)
  /\ VersionOk(e.api, e.apiChanged, Previous(row, row.api), e.sha)
  /\ e.webChanged \/ e.apiChanged

\* buildReleaseEvidence, after the deployment passed its private smoke: the
\* evidence names the versions deployed and the moment they were accepted.
Accept(c) ==
  /\ pc[c] \in Rest
  /\ closure[c] # None
  /\ closure[c].changedAt < clock
  /\ Tick
  /\ \E web, api \in Versions, webChanged, apiChanged \in BOOLEAN :
       LET e == [sha |-> closure[c].target, acceptedAt |-> clock,
                 web |-> web, webChanged |-> webChanged,
                 api |-> api, apiChanged |-> apiChanged]
       IN  /\ VersionsOk(e, closure[c])
           /\ evidence' = [evidence EXCEPT ![c] = e]
  /\ UNCHANGED <<control, holderVars, stmts, command, closure, disturbed>>

StartOpen(c) ==
  /\ evidence[c] # None
  /\ Begin(c, evidence[c].sha, "openRead")
  /\ UNCHANGED <<control, holderVars, clock, stmts, waits, closure, evidence,
                 disturbed>>

\* validateReleaseEvidence, against the row status() returned.
ValidEvidence(e, row) == e.acceptedAt > row.changedAt /\ VersionsOk(e, row)

\* The rest of the open command: count the leases, validate the evidence
\* against the row read before, and send openFor.
OpenSend(c) ==
  /\ pc[c] = "openCount"
  /\ IF /\ ClosedFor(seen[c], arg[c])
        /\ leases = {}
        /\ ValidEvidence(evidence[c], seen[c])
     THEN /\ Send(c, [op |-> "open", by |-> c, sha |-> arg[c], at |-> clock,
                      closedAt |-> seen[c].changedAt,
                      web |-> evidence[c].web, api |-> evidence[c].api])
          /\ pc' = [pc EXCEPT ![c] = "opening"]
          /\ seen' = [seen EXCEPT ![c] = None]
          /\ UNCHANGED arg
     ELSE /\ Finish(c, "idle")
          /\ UNCHANGED <<clock, stmts>>
  /\ UNCHANGED <<control, holderVars, closure, evidence, disturbed>>

-----------------------------------------------------------------------------
HolderNext(h) ==
  \/ AdmitRead(h)
  \/ AdmitInsert(h)
  \/ AdmitReply(h)
  \/ StartStream(h)
  \/ FinishWork(h)
  \/ Release(h)
  \/ Abandon(h)

ServerNext(s) == ApplyClose(s) \/ ApplyOpen(s) \/ LoseStmt(s)

ControllerNext(c) ==
  \/ \E sha \in Shas : StartClose(c, sha) \/ StartDrain(c, sha)
  \/ CloseStatus(c)
  \/ ReadStatus(c)
  \/ StatusRead(c, "drainRead", "drainCount")
  \/ DrainCount(c)
  \/ StartMigrate(c)
  \/ StatusRead(c, "migRead", "migCount")
  \/ MigrateBegin(c)
  \/ StatusRead(c, "migrating", "checkCount")
  \/ MigrateEnd(c)
  \/ Accept(c)
  \/ StartOpen(c)
  \/ StatusRead(c, "openRead", "openCount")
  \/ OpenSend(c)
  \/ GiveUp(c)

Next ==
  \/ \E h \in Holders : HolderNext(h)
  \/ \E s \in stmts : ServerNext(s)
  \/ \E c \in Controllers : ControllerNext(c)

Spec == Init /\ [][Next]_vars

\* A process that is not killed goes on: an admission is answered, a request
\* ends (its stream is read, cancelled or cut by the platform), a release is
\* sent.  Nothing is assumed of the release commands.
HolderFairness ==
  \A h \in Holders :
    /\ WF_vars(AdmitInsert(h) \/ AdmitReply(h))
    /\ WF_vars(FinishWork(h))
    /\ WF_vars(Release(h))

FairSpec == Spec /\ HolderFairness

-----------------------------------------------------------------------------
(* What the gate promises.                                                  *)

\* What a command in a given phase has read or been given.
PhaseOK(c) ==
  /\ pc[c] \in {"drainCount", "migCount", "checkCount", "openCount", "drained"} =>
       seen[c] # None
  /\ pc[c] \in {"migRead", "migCount", "migrating", "checkCount"} =>
       closure[c] # None
  /\ pc[c] \in {"openRead", "openCount"} =>
       evidence[c] # None /\ arg[c] = evidence[c].sha

TypeOK ==
  /\ control \in ControlRow
  /\ leases \subseteq LeaseIds
  /\ hs \in [Holders -> {"idle", "sharing", "granted", "working", "streaming",
                        "releasing"}]
  /\ lease \in [Holders -> LeaseIds \cup {None}]
  /\ clock \in 1..(MaxClock + 1)
  /\ stmts \subseteq CloseStmt \cup OpenStmt
  /\ pc \in [Controllers -> Phases]
  /\ waits \in [Controllers -> Timestamps]
  /\ arg \in [Controllers -> Shas \cup {None}]
  /\ seen \in [Controllers -> ControlRow \cup {None}]
  /\ closure \in [Controllers -> ClosedRow \cup {None}]
  /\ evidence \in [Controllers -> Evidence \cup {None}]
  /\ disturbed \in [Controllers -> BOOLEAN]
  /\ \A c \in Controllers : PhaseOK(c)

\* The closure a drain reported empty is still the current one.
HoldsDrained(c) ==
  pc[c] = "drained" /\ control.changedAt = seen[c].changedAt

\* drain() reads the control row and counts the leases in two queries, and
\* admissions run all the time.  Still, once drain has returned, no lease
\* exists and no request or batch works until the gate is moved again: the
\* release may change the site behind the closed gate.
DrainedIsQuiet ==
  \A c \in Controllers :
    HoldsDrained(c) => leases = {} /\ \A h \in Holders : ~Working(h)

\* runReleaseMigrationCli checks the closure before and after the SQL and
\* nothing in between.  A migration it reports as applied and validated ran
\* with no admitted work at any moment, even if another shell opened and
\* closed the gate meanwhile.
ValidatedMigrationWasAlone ==
  \A c \in Controllers : pc[c] = "migrated" => ~disturbed[c]

Opens == control.mode = "maintenance" /\ control'.mode = "open"

\* An open command that timed out may still reach the server after the
\* orchestrator has reclosed.  The gate is opened only by a statement sent
\* after the close it undoes, never by one from before.
OpensAfterItsClosure ==
  [][Opens => control'.changedAt > control.changedAt]_control

\* openFor writes the versions of an evidence that was validated against an
\* earlier read of the row.  Whatever others did in between, an opening
\* replaces a Worker version only by one built from the released commit, and
\* replaces at least one.
PublishedMove ==
  Opens =>
    /\ control'.web # control.web => Source[control'.web] = control.target
    /\ control'.api # control.api => Source[control'.api] = control.target
    /\ control'.web # control.web \/ control'.api # control.api
PublishesTheRelease == [][PublishedMove]_control

\* A lease nobody owns: its admission or release was lost, or its process
\* was killed.
Orphans == leases \ {lease[h] : h \in Holders}

\* Closing the gate stops new leases, so it drains: unless it is opened
\* again or an orphaned lease is left, every lease is gone in the end.
ClosedGateDrains ==
  control.mode = "maintenance" ~>
    (leases = {} \/ Orphans # {} \/ control.mode = "open")

\* The row lock, the lease table and the fenced UPDATEs amount to the
\* abstract gate.
Gate == INSTANCE AdmissionGate
          WITH open <- control.mode = "open", inside <- leases
GateSpec == Gate!Spec
=============================================================================
