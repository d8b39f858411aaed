--------------------------- MODULE ReleaseCutover ---------------------------
(***************************************************************************)
(* A production release from a push to main to the deployment record: the  *)
(* run's sequence of checks and commands, the gate's row, the two Workers, *)
(* the schema, the recovery point and the deployment ledger.               *)
(*                                                                         *)
(* The workflow's concurrency group runs one release at a time; a run may  *)
(* be repeated.  What a run asks of PostgreSQL, Cloudflare, Neon or GitHub  *)
(* to change travels as an element of flight: the run may time out or be   *)
(* killed while the command is still carried out later.                    *)
(*                                                                         *)
(* Commits of main are numbered in order, 0 is what the site runs when it  *)
(* is handed to the workflow.                                              *)
(***************************************************************************)
EXTENDS Integers, Sequences

CONSTANTS MaxCommit,   \* bound on the commits pushed
          Touches,     \* Touches[c]: the Workers a commit's files belong to
          Migration,   \* Migration[c]: "none", or its review's classification
          Requests,    \* requests a visitor may have under way
          MaxClock,    \* bound on the gate statements sent
          MaxUploads,  \* bound on the preparations
          None

VARIABLES
  main,      \* the head of main
  gate,      \* the row of ops.release_control
  inside,    \* requests that hold a lease
  live,      \* the version each Worker serves at 100%
  schema,    \* the commit up to which migrations are applied
  stale,     \* a request wrote since the last recovery point was made
  ledger,    \* the GitHub deployments, oldest first
  clock,     \* the next timestamp of a gate statement
  uploads,   \* preparations that uploaded versions
  flight,    \* commands sent and not yet carried out or lost
  result,    \* how the last run of each commit ended
  pc, sha,   \* where the run is, and the commit it releases
  base,      \* the accepted baseline: the published commit and versions
  prepared,  \* the version uploaded for each Worker, or None
  closure,   \* changedAt of the closure, or None
  awaits,    \* the command the run waits for, or None
  checked    \* history: commits whose public check passed

site     == <<inside, live, schema, stale>>
world    == <<main, gate, site, ledger>>
runVars  == <<pc, sha, base, prepared, closure, awaits>>
vars     == <<world, clock, uploads, flight, result, runVars, checked>>

-----------------------------------------------------------------------------
Commits    == 0..MaxCommit
Workers    == {"web", "backend"}
Kinds      == {"none", "nonbreaking", "breaking", "blocked"}
Version    == [id : Nat, src : Commits]
Pair       == [Workers -> Version]
GateRow    == [mode : {"open", "maintenance"}, target : Commits,
               changedAt : Nat, pair : Pair]
Baseline   == [sha : Commits, pair : Pair]
Deployment == [sha : Commits, pair : Pair, ok : BOOLEAN]

Command ==
  [op : {"close"}, sha : Commits, at : Nat]
    \cup [op : {"point"}, at : Nat]
    \cup [op : {"migrate"}, sha : Commits]
    \cup [op : {"promote"}, worker : Workers, version : Version]
    \cup [op : {"open"}, sha : Commits, at : Nat, closedAt : Nat, pair : Pair]
    \cup [op : {"deployment"}, sha : Commits, pair : Pair]
    \cup [op : {"status"}, entry : Nat]

Reclosing == {"reclose", "reclosing", "reclosed"}
OpenPhase == {"open", "opening", "opened", "public", "record", "recording",
              "status", "reporting"}
Phases    == OpenPhase \cup Reclosing \cup
  {"idle", "baseline", "ledger", "head", "verify", "preflight", "prepare",
   "headAgain", "recheck", "close", "closing", "closed", "drain", "point",
   "pointing", "migrate", "migrating", "validate", "promoteWeb", "promotingWeb",
   "promoteApi", "promotingApi", "readBack", "smoke"}

\* A run that ends with "closed" or "reclosed" reports a closed site.
Outcomes == {"none", "queued", "released", "skipped", "failed", "closed",
             "reclosed", "incident", "lost"}

ASSUME CutoverAssumption ==
  /\ MaxCommit \in Nat /\ MaxClock \in Nat /\ MaxUploads \in Nat
  /\ Touches \in [1..MaxCommit -> SUBSET Workers]
  /\ Migration \in [1..MaxCommit -> Kinds]
  /\ None \notin Command /\ None \notin Nat
  /\ None \notin Version /\ None \notin Baseline

First == [w \in Workers |-> [id |-> 0, src |-> 0]]

Init ==
  /\ main = 0
  /\ gate = [mode |-> "open", target |-> 0, changedAt |-> 0, pair |-> First]
  /\ inside = {} /\ live = First /\ schema = 0 /\ stale = TRUE
  /\ ledger = <<[sha |-> 0, pair |-> First, ok |-> TRUE]>>
  /\ clock = 1 /\ uploads = 0 /\ flight = {}
  /\ result = [c \in 1..MaxCommit |-> "none"]
  /\ pc = "idle" /\ sha = 0
  /\ base = None /\ prepared = None /\ closure = None /\ awaits = None
  /\ checked = {0}

-----------------------------------------------------------------------------
(* The plan: what lies between the published commit and the candidate.      *)

Migrations(from, to) == {c \in from + 1 .. to : Migration[c] # "none"}

\* Mutant: a migration does not concern the web Worker by itself.
ChangedByFiles(w) == \E c \in base.sha + 1 .. sha : w \in Touches[c]

\* classifyReleaseImpact: a migration concerns both Workers.
Changed(w) ==
  \E c \in base.sha + 1 .. sha : w \in Touches[c] \/ Migration[c] # "none"

\* validateMigrationReviews
Reviewed(kind) == \E c \in base.sha + 1 .. sha : Migration[c] = kind

\* The migrations a commit's code expects are the ones the schema has.
Expects(c) == Migrations(0, c) = Migrations(0, schema)

-----------------------------------------------------------------------------
(* The run.                                                                  *)

Go(p) == pc' = p

\* The run is over.  A failure between its closure and its opening, or one it
\* reclosed after, is reported as such.
End(how) ==
  /\ result' = [result EXCEPT ![sha] = how]
  /\ pc' = "idle" /\ sha' = 0
  /\ base' = None /\ prepared' = None /\ closure' = None /\ awaits' = None

\* An error: reclose once the gate may be open, and stop otherwise.
Throw ==
  \/ /\ pc \in OpenPhase
     /\ Go("reclose") /\ awaits' = None
     /\ UNCHANGED <<result, sha, base, prepared, closure>>
  \/ pc \in Reclosing /\ End("incident")
  \/ /\ pc \notin OpenPhase \cup Reclosing
     /\ End(IF closure = None THEN "failed" ELSE "closed")

\* A step that only reads: on to phase p when ok, an error otherwise.
Check(ok, p) ==
  /\ IF ok THEN Go(p) /\ UNCHANGED <<result, sha, base, prepared, closure, awaits>>
           ELSE Throw
  /\ UNCHANGED <<world, clock, uploads, flight, checked>>

\* Command c is on its way and the run waits for it in phase p.
Send(c, p) ==
  /\ flight' = flight \cup {c}
  /\ awaits' = c
  /\ Go(p)
  /\ UNCHANGED <<world, result, sha, base, prepared, closure, checked>>

\* Command c leaves the flight; if the run waits for it and it succeeded it
\* goes on with phase p, otherwise with an error.
Answer(c, ok, p) ==
  /\ flight' = flight \ {c}
  /\ \/ /\ awaits = c /\ ok
        /\ Go(p) /\ awaits' = None
        /\ UNCHANGED <<result, sha, base, prepared, closure>>
     \/ awaits = c /\ ~ok /\ Throw
     \/ awaits # c /\ UNCHANGED <<result, runVars>>
  /\ UNCHANGED <<clock, uploads>>

\* Any step may throw, and every call to the outside has a timeout.
Fail == /\ pc # "idle"
        /\ Throw
        /\ UNCHANGED <<world, clock, uploads, flight, checked>>

\* The job reaches its time limit or its machine is lost.
Kill == /\ pc # "idle"
        /\ End("lost")
        /\ UNCHANGED <<world, clock, uploads, flight, checked>>

-----------------------------------------------------------------------------
(* Before the closure.                                                       *)

\* runLiveRelease: the commit must be the head of main.
Start(c) ==
  /\ pc = "idle" /\ c \in 1..main
  /\ IF main = c
     THEN Go("baseline") /\ sha' = c /\ UNCHANGED result
     ELSE result' = [result EXCEPT ![c] = "failed"] /\ UNCHANGED <<pc, sha>>
  /\ UNCHANGED <<world, clock, uploads, flight, base, prepared, closure, awaits,
                 checked>>

\* acceptedGate
ReadBaseline ==
  /\ pc = "baseline"
  /\ IF gate.mode = "open"
     THEN /\ Go("ledger")
          /\ base' = [sha |-> gate.target, pair |-> gate.pair]
          /\ UNCHANGED <<result, sha, prepared, closure, awaits>>
     ELSE Throw
  /\ UNCHANGED <<world, clock, uploads, flight, checked>>

\* Mutant: what the gate publishes is the baseline, whatever the ledger says.
InLedgerOrNot == TRUE

\* selectProductionBaseline and sameBaseline, on the newest deployment.
InLedger == LET d == ledger[Len(ledger)] IN
  d.ok /\ d.sha = base.sha /\ d.pair = base.pair

\* readProductionBaseline, then resolveReleasePlan and executeRelease's checks.
ReadLedger ==
  /\ pc = "ledger"
  /\ IF InLedger /\ base.sha <= sha /\ ~Reviewed("blocked")
     THEN IF \E w \in Workers : Changed(w)
          THEN Go("head") /\ UNCHANGED <<result, sha, base, prepared, closure, awaits>>
          ELSE End("skipped")
     ELSE Throw
  /\ UNCHANGED <<world, clock, uploads, flight, checked>>

\* assertCurrentMain
CheckHead(p, q) == pc = p /\ Check(main = sha, q)

\* assertGateBaseline
AtBaseline == gate.mode = "open" /\ gate.pair = base.pair

CheckGate(p, q) == pc = p /\ Check(AtBaseline, q)

\* verifyProduction's own read: the gate still publishes the baseline.
Preflight == pc = "preflight" /\ Check(gate.target = base.sha, "prepare")

\* Mutant: the upload is not tagged with its commit.
UploadedUntagged == [id |-> uploads + 1]

\* The version the run uploads for a changed Worker.
Uploaded == [id |-> uploads + 1, src |-> sha]

\* prepareWorkerVersions: both Workers serve the baseline; the changed ones
\* are built and uploaded.
Prepare ==
  /\ pc = "prepare"
  /\ uploads < MaxUploads
  /\ IF \A w \in Workers : live[w].id = base.pair[w].id
     THEN /\ Go("headAgain")
          /\ uploads' = uploads + 1
          /\ prepared' = [w \in Workers |->
               IF Changed(w) THEN Uploaded ELSE None]
          /\ UNCHANGED <<result, sha, base, closure, awaits>>
     ELSE Throw /\ UNCHANGED uploads
  /\ UNCHANGED <<world, clock, flight, checked>>

-----------------------------------------------------------------------------
(* Closing, draining and what happens behind the closed gate.                *)

Stamp == clock < MaxClock /\ clock' = clock + 1

SendClose(p, q) ==
  /\ pc = p
  /\ Stamp
  /\ Send([op |-> "close", sha |-> sha, at |-> clock], q)
  /\ UNCHANGED uploads

\* closeFor, at the server.  The close that ends a failed opening is the same
\* command.
ApplyClose(c) ==
  /\ c.op = "close"
  /\ LET matches == gate.mode = "open" \/ gate.target = c.sha
     IN  /\ gate' = IF matches
                    THEN [gate EXCEPT !.mode = "maintenance", !.target = c.sha,
                                      !.changedAt = c.at]
                    ELSE gate
         /\ Answer(c, matches, IF pc = "closing" THEN "closed" ELSE "reclosed")
  /\ UNCHANGED <<main, site, ledger, checked>>

ClosedFor(c) == gate.mode = "maintenance" /\ gate.target = c

\* The status that follows the close is the closure.
ReadClosure ==
  /\ pc = "closed"
  /\ IF ClosedFor(sha)
     THEN /\ Go("drain") /\ closure' = gate.changedAt
          /\ UNCHANGED <<result, sha, base, prepared, awaits>>
     ELSE Throw
  /\ UNCHANGED <<world, clock, uploads, flight, checked>>

\* Mutant: the leases are not waited for.
DrainedAtOnce == TRUE

Drained == inside = {}

\* Polls until nothing holds a lease; a gate that is not closed is an error.
Drain ==
  /\ pc = "drain"
  /\ ClosedFor(sha) => Drained
  /\ Check(ClosedFor(sha),
           IF Reviewed("breaking") THEN "point"
           ELSE IF Reviewed("nonbreaking") THEN "migrate" ELSE "promoteWeb")

\* createNeonRecoveryPoint
SendPoint == /\ pc = "point"
             /\ Send([op |-> "point", at |-> closure], "pointing")
             /\ UNCHANGED <<clock, uploads>>

ApplyPoint(c) ==
  /\ c.op = "point"
  /\ stale' = FALSE
  /\ Answer(c, TRUE, "migrate")
  /\ UNCHANGED <<main, gate, inside, live, schema, ledger, checked>>

\* assertDrainedClosure
DrainedClosure == ClosedFor(sha) /\ gate.changedAt = closure /\ inside = {}

\* The pending migrations must be the reviewed ones.
SendMigrate ==
  /\ pc = "migrate"
  /\ IF DrainedClosure /\ Migrations(schema, sha) = Migrations(base.sha, sha)
     THEN Send([op |-> "migrate", sha |-> sha], "migrating") /\ UNCHANGED <<clock, uploads>>
     ELSE Throw /\ UNCHANGED <<world, clock, uploads, flight, checked>>

ApplyMigrate(c) ==
  /\ c.op = "migrate"
  /\ schema' = c.sha
  /\ Answer(c, TRUE, "validate")
  /\ UNCHANGED <<main, gate, inside, live, stale, ledger, checked>>

Validate == pc = "validate" /\ Check(Expects(sha) /\ DrainedClosure, "promoteWeb")

\* deployPreparedVersions promotes what was uploaded, the web Worker first.
Promote(w, p, q, next) ==
  /\ pc = p
  /\ IF prepared[w] = None
     THEN Check(TRUE, next)
     ELSE /\ Send([op |-> "promote", worker |-> w, version |-> prepared[w]], q)
          /\ UNCHANGED <<clock, uploads>>

ApplyPromote(c) ==
  /\ c.op = "promote"
  /\ live' = [live EXCEPT ![c.worker] = c.version]
  /\ Answer(c, TRUE, IF c.worker = "web" THEN "promoteApi" ELSE "readBack")
  /\ UNCHANGED <<main, gate, inside, schema, stale, ledger, checked>>

\* What is recorded as deployed: the changed Workers come from this commit.
Deployed == [w \in Workers |-> IF prepared[w] = None THEN base.pair[w] ELSE prepared[w]]

\* The active versions, read back.
ReadBack ==
  /\ pc = "readBack"
  /\ Check(\A w \in Workers : live[w].id = Deployed[w].id, "smoke")

\* /health/ready: the database has the revision the API was built for.
Ready == Expects(live["backend"].src)

\* runPrivateReleaseSmoke
Smoke == pc = "smoke" /\ Check(gate.mode = "maintenance" /\ Ready, "open")

-----------------------------------------------------------------------------
(* Opening, checking and recording.                                          *)

\* releaseVersion, against the versions of the gate's row.
Evident(w) ==
  IF prepared[w] = None THEN Deployed[w] = gate.pair[w]
                        ELSE /\ Deployed[w].src = sha
                             /\ Deployed[w].id # gate.pair[w].id

\* The open command reads the gate, validates the evidence and sends openFor.
SendOpen ==
  /\ pc = "open"
  /\ IF /\ ClosedFor(sha) /\ inside = {}
        /\ \A w \in Workers : Evident(w)
     THEN /\ Stamp
          /\ Send([op |-> "open", sha |-> sha, at |-> clock,
                   closedAt |-> gate.changedAt, pair |-> Deployed], "opening")
          /\ UNCHANGED uploads
     ELSE Throw /\ UNCHANGED <<world, clock, uploads, flight, checked>>

\* Mutant: openFor does not compare changed_at.
OpenMatchesUnfenced(c) ==
  gate.mode = "maintenance" /\ gate.target = c.sha /\ inside = {}

\* The WHERE clause of openFor.
OpenMatches(c) ==
  /\ gate.mode = "maintenance" /\ gate.target = c.sha
  /\ gate.changedAt = c.closedAt
  /\ inside = {}

ApplyOpen(c) ==
  /\ c.op = "open"
  /\ gate' = IF OpenMatches(c)
             THEN [mode |-> "open", target |-> c.sha, changedAt |-> c.at,
                   pair |-> c.pair]
             ELSE gate
  /\ Answer(c, OpenMatches(c), "opened")
  /\ UNCHANGED <<main, site, ledger, checked>>

OpenFor(c) == gate.mode = "open" /\ gate.target = c

\* assertGate and assertOpenedVersions, on the status after the opening.
ReadOpened ==
  pc = "opened" /\ Check(OpenFor(sha) /\ gate.pair = Deployed, "public")

\* runPublicReleaseCheck
PublicCheck ==
  /\ pc = "public"
  /\ IF OpenFor(sha) /\ Ready
     THEN /\ Go("record")
          /\ checked' = checked \cup {sha}
          /\ UNCHANGED <<result, sha, base, prepared, closure, awaits>>
     ELSE Throw /\ UNCHANGED checked
  /\ UNCHANGED <<world, clock, uploads, flight>>

\* recordDeployment: the deployment, then its status.
SendDeployment ==
  /\ pc = "record"
  /\ Send([op |-> "deployment", sha |-> sha, pair |-> Deployed], "recording")
  /\ UNCHANGED <<clock, uploads>>

ApplyDeployment(c) ==
  /\ c.op = "deployment"
  /\ ledger' = Append(ledger, [sha |-> c.sha, pair |-> c.pair, ok |-> FALSE])
  /\ Answer(c, TRUE, "status")
  /\ UNCHANGED <<main, gate, site, checked>>

\* The deployment is named by the id in GitHub's reply.
SendStatus ==
  /\ pc = "status"
  /\ \E i \in DOMAIN ledger :
       /\ ledger[i].sha = sha /\ ledger[i].pair = Deployed
       /\ Send([op |-> "status", entry |-> i], "reporting")
  /\ UNCHANGED <<clock, uploads>>

ApplyStatus(c) ==
  /\ c.op = "status"
  /\ ledger' = [ledger EXCEPT ![c.entry].ok = TRUE]
  /\ flight' = flight \ {c}
  /\ IF awaits = c THEN End("released") ELSE UNCHANGED <<result, runVars>>
  /\ UNCHANGED <<main, gate, site, clock, uploads, checked>>

\* The status after the reclose; the run ends with the error it had.
ReadReclosed ==
  /\ pc = "reclosed"
  /\ IF ClosedFor(sha) THEN End("reclosed") ELSE Throw
  /\ UNCHANGED <<world, clock, uploads, flight, checked>>

\* A command never reaches its server; its run waits for the timeout.
Lose(c) == /\ flight' = flight \ {c}
           /\ UNCHANGED <<world, clock, uploads, result, runVars, checked>>

-----------------------------------------------------------------------------
(* Everybody else.                                                           *)

Push == /\ main < MaxCommit
        /\ main' = main + 1
        /\ result' = [result EXCEPT ![main + 1] = "queued"]
        /\ UNCHANGED <<gate, site, ledger, clock, uploads, flight, runVars, checked>>

Enter(q) == /\ gate.mode = "open" /\ q \notin inside
            /\ inside' = inside \cup {q}
            /\ UNCHANGED <<main, gate, live, schema, stale, ledger, clock, uploads,
                           flight, result, runVars, checked>>

Write(q) == /\ q \in inside
            /\ stale' = TRUE
            /\ UNCHANGED <<main, gate, inside, live, schema, ledger, clock, uploads,
                           flight, result, runVars, checked>>

Leave(q) == /\ q \in inside
            /\ inside' = inside \ {q}
            /\ UNCHANGED <<main, gate, live, schema, stale, ledger, clock, uploads,
                           flight, result, runVars, checked>>

-----------------------------------------------------------------------------
RunNext ==
  \/ \E c \in 1..MaxCommit : Start(c)
  \/ ReadBaseline \/ ReadLedger
  \/ CheckHead("head", "verify") \/ CheckHead("headAgain", "recheck")
  \/ CheckGate("verify", "preflight") \/ CheckGate("recheck", "close")
  \/ Preflight \/ Prepare
  \/ SendClose("close", "closing") \/ ReadClosure \/ Drain
  \/ SendPoint \/ SendMigrate \/ Validate
  \/ Promote("web", "promoteWeb", "promotingWeb", "promoteApi")
  \/ Promote("backend", "promoteApi", "promotingApi", "readBack")
  \/ ReadBack \/ Smoke
  \/ SendOpen \/ ReadOpened \/ PublicCheck \/ SendDeployment \/ SendStatus
  \/ SendClose("reclose", "reclosing") \/ ReadReclosed
  \/ Fail \/ Kill

FlightNext ==
  \E c \in flight :
    \/ ApplyClose(c) \/ ApplyPoint(c) \/ ApplyMigrate(c) \/ ApplyPromote(c)
    \/ ApplyOpen(c) \/ ApplyDeployment(c) \/ ApplyStatus(c) \/ Lose(c)

VisitorNext == \E q \in Requests : Enter(q) \/ Write(q) \/ Leave(q)

Next == RunNext \/ FlightNext \/ VisitorNext \/ Push

Spec == Init /\ [][Next]_vars

-----------------------------------------------------------------------------
(* Properties.                                                               *)

TypeOK ==
  /\ main \in Commits /\ gate \in GateRow /\ inside \subseteq Requests
  /\ live \in Pair /\ schema \in Commits /\ stale \in BOOLEAN
  /\ ledger \in Seq(Deployment) /\ clock \in Nat /\ uploads \in Nat
  /\ flight \subseteq Command
  /\ result \in [1..MaxCommit -> Outcomes]
  /\ pc \in Phases /\ sha \in Commits
  /\ base \in Baseline \cup {None}
  /\ prepared = None \/ prepared \in [Workers -> Version \cup {None}]
  /\ closure \in Nat \cup {None}
  /\ awaits \in Command \cup {None}
  /\ checked \subseteq Commits

\* While the site is open the Workers serve exactly what the gate publishes,
\* and each was built for the schema the database has.
OpenSiteFits ==
  gate.mode = "open" =>
    /\ live = gate.pair
    /\ \A w \in Workers : Expects(live[w].src)

Fit(web, api, level) ==
  /\ Migrations(0, web.src) = Migrations(0, level)
  /\ Migrations(0, api.src) = Migrations(0, level)

Site == INSTANCE MaintainedSite WITH
          open <- gate.mode = "open", web <- live["web"],
          api <- live["backend"], Fits <- Fit

\* The whole cutover is a maintained site: what it runs on is only replaced
\* while it is closed and empty, and it opens on Workers that fit the schema.
SiteSpec == Site!Spec

\* A breaking migration is applied only to data that its recovery point has:
\* no request wrote since the point was made.
PointHasTheData ==
  [][schema' # schema /\ (\E c \in schema + 1 .. schema' : Migration[c] = "breaking")
       => ~stale]_vars

\* A release is only ever planned against a commit whose public check passed.
BaselineWasChecked ==
  pc \notin {"idle", "baseline", "ledger"} => base.sha \in checked

\* A failed release that reports a closed site leaves it closed.
FailureStaysClosed ==
  []((\E c \in 1..MaxCommit : result[c] \in {"closed", "reclosed"})
       => [](gate.mode = "maintenance"))
=============================================================================
