------------------------- MODULE ReleaseCutoverProofs -------------------------
(***************************************************************************)
(* Proofs about ReleaseCutover, for any commits, reviews and requests: that *)
(* whatever command of whatever run is lost, late or refused, an open site *)
(* serves what its gate publishes and fits its schema, a failed release     *)
(* leaves it closed, and the cutover implements the maintained site.       *)
(***************************************************************************)
EXTENDS ReleaseCutover, TLAPS

-----------------------------------------------------------------------------
(* The invariant.                                                           *)

\* No run has read the gate; a run plans, uploads and closes; it works behind
\* its closure; it has the schema its commit was built for.
Early    == {"idle", "baseline"}
Planning == {"ledger", "head", "verify", "preflight", "prepare"}
Closing  == {"headAgain", "recheck", "close", "closing", "closed"}
Behind   == {"drain", "point", "pointing", "migrate", "migrating", "validate"}
Settling == {"promoteWeb", "promotingWeb", "promoteApi", "promotingApi",
             "readBack", "smoke", "open", "opening"}

\* An open command of the run, or of one that has ended, may be on its way.
OpenPending == Early \cup {"opening", "reclose", "reclosing"}

HasMigrations == \E c \in base.sha + 1 .. sha : Migration[c] # "none"

\* What the run knows.
RunInv ==
  /\ pc # "idle" => sha \in 1..MaxCommit
  /\ pc \notin Early => base \in Baseline
  /\ pc \notin Early \cup {"ledger"} => base.sha <= sha /\ ~Reviewed("blocked")
  /\ pc \notin Early \cup Planning =>
       /\ prepared \in [Workers -> Version \cup {None}]
       /\ \A w \in Workers :
            /\ Changed(w) => prepared[w] # None /\ prepared[w].src = sha
            /\ ~Changed(w) => prepared[w] = None
  /\ pc \in Early \cup Planning \cup Closing => closure = None
  /\ pc \in Behind \cup Settling => closure \in Nat
  /\ pc \in Behind \ {"drain"} => HasMigrations

\* What the run waits for.
WaitInv ==
  awaits # None =>
    /\ awaits.op = "close" => pc \in {"closing", "reclosing"}
    /\ awaits.op = "point" => pc = "pointing"
    /\ awaits.op = "migrate" => pc = "migrating" /\ awaits.sha = sha
    /\ awaits.op = "promote" =>
         /\ awaits.worker = "web" => pc = "promotingWeb"
         /\ awaits.worker = "backend" => pc = "promotingApi"
         /\ prepared[awaits.worker] = awaits.version
    /\ awaits.op = "open" => pc = "opening"
    /\ awaits.op = "deployment" => pc = "recording"
    /\ awaits.op = "status" => pc = "reporting"

\* An open command that would find the closure it was sent for.
Fenced(c) == /\ c.op = "open"
             /\ gate.mode = "maintenance" /\ gate.target = c.sha
             /\ gate.changedAt = c.closedAt

\* A close on its way has a timestamp of its own: no open is fenced by it.
StampInv ==
  /\ gate.changedAt < clock
  /\ \A c \in flight : c.op \in {"close", "open"} => c.at < clock
  /\ \A c \in flight : c.op = "open" => c.closedAt < clock
  /\ \A c \in flight : c.op = "close" =>
       /\ gate.changedAt # c.at
       /\ \A d \in flight : /\ d.op = "close" /\ d.at = c.at => d = c
                            /\ d.op = "open" => d.at # c.at /\ d.closedAt # c.at

\* While the schema or a Worker may still be replaced the site is closed and
\* empty, and nothing will open it but the run that waits.
ChangeInv ==
  /\ \A c \in flight : c.op \in {"migrate", "promote"} =>
       /\ gate.mode = "maintenance" /\ inside = {}
       /\ \A d \in flight : ~Fenced(d)
       /\ pc \in Early \/ awaits = c
  /\ \A c, d \in flight : c.op = "migrate" /\ d.op = "migrate" => c = d

\* What an open command that can succeed would publish fits.
OpenInv ==
  \A d \in flight : Fenced(d) =>
    /\ d.pair = live /\ Expects(d.sha)
    /\ \A w \in Workers : Expects(d.pair[w].src)
    /\ pc \in OpenPending
    /\ pc = "opening" => awaits = d

SiteInv ==
  gate.mode = "open" =>
    live = gate.pair /\ Expects(gate.target) /\ \A w \in Workers : Expects(live[w].src)

\* What the run found stays so until the run itself changes it.
BaseInv ==
  /\ pc \in Planning \cup Closing \cup Behind \cup Settling => gate.pair = base.pair
  /\ pc \in Planning \cup Closing \cup (Behind \ {"validate"}) =>
       Expects(base.sha) /\ \A w \in Workers : Expects(base.pair[w].src)
  /\ pc \in Planning \cup Closing \cup Behind \cup {"promoteWeb", "promotingWeb"} =>
       live["web"] = base.pair["web"]
  /\ pc \in Planning \cup Closing \cup Behind
            \cup {"promoteWeb", "promotingWeb", "promoteApi", "promotingApi"} =>
       live["backend"] = base.pair["backend"]
  /\ pc \in Settling => Expects(sha) /\ \A w \in Workers : Expects(Deployed[w].src)
  /\ pc \in {"promoteApi", "promotingApi", "readBack", "smoke", "open", "opening"} =>
       live["web"] = Deployed["web"]
  /\ pc \in {"readBack", "smoke", "open", "opening"} => live["backend"] = Deployed["backend"]
  /\ pc \in Behind \cup Settling => ClosedFor(sha)
  /\ pc \in (Behind \ {"drain"}) \cup Settling => inside = {}

\* Nothing was written since the point that a breaking migration may need.
DataInv ==
  /\ pc \in {"migrate", "migrating"} /\ Reviewed("breaking") => ~stale
  /\ \A c \in flight :
       c.op = "migrate" /\ (\E k \in schema + 1 .. c.sha : Migration[k] = "breaking") => ~stale

\* Only commits that were checked are recorded as deployed.
LedgerInv ==
  /\ ledger # <<>>
  /\ \A i \in DOMAIN ledger : ledger[i].ok => ledger[i].sha \in checked
  /\ \A c \in flight : c.op = "status" =>
       c.entry \in DOMAIN ledger /\ ledger[c.entry].sha \in checked
  /\ pc \in {"record", "recording", "status", "reporting"} => sha \in checked
  /\ BaselineWasChecked

\* The site is closed and no command will open it.
Dead == gate.mode = "maintenance" /\ pc \in Early /\ \A d \in flight : ~Fenced(d)

FailedRuns == {c \in 1..MaxCommit : result[c] \in {"closed", "reclosed"}}

DeadInv == FailedRuns # {} => Dead

IInv == /\ TypeOK /\ RunInv /\ WaitInv /\ StampInv /\ ChangeInv /\ OpenInv
        /\ SiteInv /\ BaseInv /\ DataInv /\ LedgerInv /\ DeadInv

LEMMA Starts == Init => IInv
<1> SUFFICES ASSUME Init PROVE IInv OBVIOUS
<1>1. First \in Pair BY CutoverAssumption DEF First, Pair, Version, Commits
<1>2. TypeOK
  BY <1>1, CutoverAssumption
  DEF Init, TypeOK, GateRow, Commits, Deployment, Outcomes, Phases
<1>3. RunInv /\ WaitInv /\ StampInv /\ ChangeInv /\ OpenInv /\ DataInv
  BY DEF Init, RunInv, WaitInv, StampInv, ChangeInv, OpenInv, DataInv, Early, Behind,
         Settling, Planning, Closing
<1>4. Expects(0) BY <1>2 DEF Init, Expects
<1>5. SiteInv /\ BaseInv
  BY <1>4 DEF Init, SiteInv, BaseInv, Early, Behind, Settling, Planning, Closing, First
<1>6. LedgerInv BY DEF Init, LedgerInv, BaselineWasChecked
<1>7. FailedRuns = {} BY DEF Init, FailedRuns
<1>8. QED BY <1>2, <1>3, <1>5, <1>6, <1>7 DEF IInv, DeadInv

-----------------------------------------------------------------------------
(* Helpers.                                                                 *)

\* The phases that wait for a command.
Waiting == {"closing", "reclosing", "pointing", "migrating", "promotingWeb",
            "promotingApi", "opening", "recording", "reporting"}

LEMMA OnlyWaitersAwait ==
  ASSUME TypeOK, WaitInv, pc \notin Waiting
  PROVE  awaits = None
BY DEF TypeOK, WaitInv, Waiting, Command, Workers

\* The gate's row, field by field.
LEMMA TypedPairs ==
  ASSUME TypeOK
  PROVE  /\ gate.mode \in {"open", "maintenance"} /\ gate.target \in Commits
         /\ gate.changedAt \in Nat /\ gate.pair \in Pair
BY DEF TypeOK, GateRow

\* A run has stopped, or has only the reclosing left.
Stopped ==
  \/ /\ pc \in OpenPhase /\ pc' = "reclose" /\ awaits' = None
     /\ UNCHANGED <<result, sha, base, prepared, closure>>
  \/ \E how \in Outcomes :
       /\ End(how)
       /\ how \in {"closed", "reclosed"} => ClosedFor(sha) /\ pc \notin OpenPending

LEMMA ThrowStops ==
  ASSUME RunInv, BaseInv, pc \in Phases, pc # "idle", Throw
  PROVE  Stopped
<1>1. CASE pc \in OpenPhase BY <1>1 DEF Throw, Stopped, Go, OpenPhase, Reclosing
<1>2. CASE pc \in Reclosing
  BY <1>2 DEF Throw, Stopped, Reclosing, OpenPhase, Outcomes
<1>3. CASE pc \notin OpenPhase \cup Reclosing
  <2>1. End(IF closure = None THEN "failed" ELSE "closed") BY <1>3 DEF Throw
  <2>2. closure = None \/ pc \in Behind \cup Settling
    BY <1>3 DEF RunInv, Phases, Early, Planning, Closing, Behind, Settling
  <2>3. closure # None => ClosedFor(sha) /\ pc \notin OpenPending
    BY <2>2, <1>3 DEF BaseInv, OpenPending, OpenPhase, Behind, Settling, Early
  <2>4. QED BY <2>1, <2>3 DEF Stopped, Outcomes
<1>4. QED BY <1>1, <1>2, <1>3

\* The world and the commands stay; some commands may be done with.
Still == /\ UNCHANGED <<main, gate, site, clock, checked>>
         /\ flight' \subseteq flight
         /\ \/ UNCHANGED ledger
            \/ ledger' \in Seq(Deployment) /\ LedgerInv'

-----------------------------------------------------------------------------
(* A run that stops keeps the invariant.                                    *)

LEMMA StoppingKeeps ==
  ASSUME IInv, Stopped, Still, uploads' = uploads, pc # "idle"
  PROVE  IInv'
<1> USE DEF IInv
<1>1. sha \in 1..MaxCommit BY DEF RunInv
<1>2. pc' \in {"idle", "reclose"} /\ awaits' = None BY DEF Stopped, End
<1>3. /\ result' \in [1..MaxCommit -> Outcomes]
      /\ sha' = 0 \/ UNCHANGED sha
      /\ \/ UNCHANGED <<base, prepared, closure>>
         \/ base' = None /\ prepared' = None /\ closure' = None
  BY <1>1 DEF Stopped, End, TypeOK
<1>4. TypeOK'
  BY <1>2, <1>3, CutoverAssumption
  DEF TypeOK, Still, site, Phases, OpenPhase, Reclosing, Commits
<1>5. RunInv'
  <2>1. CASE pc' = "idle"
    BY <2>1 DEF RunInv, Stopped, End, Early, Planning, Closing, Behind, Settling
  <2>2. CASE pc' = "reclose" /\ pc \in OpenPhase /\ UNCHANGED <<sha, base, prepared, closure>>
    BY <2>2 DEF RunInv, OpenPhase, Early, Planning, Closing, Behind, Settling,
                Reviewed, Changed
  <2>3. QED BY <2>1, <2>2 DEF Stopped, End
<1>6. WaitInv' BY <1>2 DEF WaitInv
<1>7. StampInv' BY DEF StampInv, Still
<1>8. pc \in Early /\ pc # "idle" => pc' = "idle"
  BY DEF Stopped, End, Early, OpenPhase
<1>9. ChangeInv'
  <2>1. ASSUME NEW c \in flight', c.op \in {"migrate", "promote"}, pc' \notin Early
        PROVE  FALSE
    <3>1. pc' = "reclose" /\ pc \in OpenPhase BY <1>2, <2>1 DEF Early, Stopped, End
    <3>2. awaits = c BY <3>1, <2>1 DEF ChangeInv, Still, OpenPhase, Early
    <3>3. c.op = "migrate" \/ c.worker \in Workers
      BY <2>1, CutoverAssumption DEF TypeOK, Still, Command
    <3>4. c # None BY <2>1, CutoverAssumption DEF TypeOK, Still
    <3>5. QED BY <3>1, <3>2, <3>3, <3>4, <2>1 DEF WaitInv, OpenPhase, Workers
  <2>2. QED BY <2>1 DEF ChangeInv, Still, Fenced, site
<1>10. OpenInv'
  <2>1. pc \in OpenPending => pc' \in OpenPending
    BY <1>2 DEF OpenPending, Early
  <2>2. QED BY <2>1, <1>2 DEF OpenInv, Still, Fenced, site, Expects, Migrations, OpenPending, Early
<1>11. SiteInv' BY DEF SiteInv, Still, site, Expects, Migrations
<1>12. BaseInv'
  BY <1>2 DEF BaseInv, Planning, Closing, Behind, Settling
<1>13. DataInv' BY <1>2 DEF DataInv, Still, site
<1>14. LedgerInv'
  BY <1>2, <1>3 DEF LedgerInv, BaselineWasChecked, Still, Stopped, End, OpenPhase
<1>15. DeadInv'
  <2>1. FailedRuns # {} => Dead' BY <1>8 DEF DeadInv, Dead, Still, Fenced, Early
  <2>2. ASSUME FailedRuns' # {}, FailedRuns = {} PROVE Dead'
    <3>1. PICK how \in Outcomes : 
             End(how) /\ (how \in {"closed", "reclosed"} => ClosedFor(sha) /\ pc \notin OpenPending)
      BY <2>2 DEF Stopped, FailedRuns
    <3>2. how \in {"closed", "reclosed"}
      BY <3>1, <2>2 DEF FailedRuns, End, TypeOK
    <3>3. gate.mode = "maintenance" /\ \A d \in flight : ~Fenced(d)
      BY <3>1, <3>2 DEF ClosedFor, OpenInv
    <3>4. QED BY <3>1, <3>3 DEF Dead, Still, Fenced, End, Early
  <2>3. QED BY <2>1, <2>2 DEF DeadInv
<1>16. QED
  BY <1>4, <1>5, <1>6, <1>7, <1>9, <1>10, <1>11, <1>12, <1>13, <1>14, <1>15

-----------------------------------------------------------------------------
(* A step of the run that only reads and goes on.                           *)

Reads ==
  /\ UNCHANGED <<gate, site, ledger, clock, flight>>
  /\ pc \notin Waiting /\ awaits' = None
  /\ FailedRuns' \subseteq FailedRuns
  /\ pc \in Early => pc' \in Early \/ gate.mode = "open"
  /\ pc \in OpenPending => pc \in Early

LEMMA ReadingKeepsTheWorld ==
  ASSUME IInv, Reads
  PROVE  WaitInv' /\ StampInv' /\ ChangeInv' /\ OpenInv' /\ SiteInv' /\ DeadInv'
<1> USE DEF IInv
<1>1. awaits = None BY OnlyWaitersAwait DEF Reads
<1>2. \A c \in flight : c # None BY CutoverAssumption DEF TypeOK
<1>3. WaitInv' BY DEF Reads, WaitInv
<1>4. StampInv' BY DEF Reads, StampInv
<1>5. \A c \in flight : c.op \in {"migrate", "promote"} =>
         gate.mode = "maintenance" /\ pc \in Early
  BY <1>1, <1>2 DEF ChangeInv
<1>6. ChangeInv' BY <1>5 DEF Reads, ChangeInv, Fenced, site
<1>7. \A d \in flight : Fenced(d) => pc' \in Early
  BY DEF Reads, OpenInv, Fenced
<1>8. OpenInv'
  BY <1>7 DEF Reads, OpenInv, Fenced, site, Expects, Migrations, OpenPending, Early
<1>9. SiteInv' BY DEF Reads, SiteInv, site, Expects, Migrations
<1>10. DeadInv' BY DEF Reads, DeadInv, Dead, Fenced
<1>11. QED BY <1>3, <1>4, <1>6, <1>8, <1>9, <1>10

\* Most of them only go on.
Passes ==
  /\ UNCHANGED <<main, gate, site, ledger, clock, uploads, flight, result, sha, base,
                 prepared, closure, awaits, checked>>
  /\ pc' \in Phases

LEMMA PassingKeeps ==
  ASSUME IInv, Passes, pc \notin Waiting \cup {"idle", "reclose"}, pc # "baseline",
         pc' \notin Early,
         RunInv', BaseInv', DataInv', LedgerInv'
  PROVE  IInv'
<1> USE DEF IInv
<1>1. awaits = None BY OnlyWaitersAwait
<1>2. TypeOK' BY DEF Passes, TypeOK, site
<1>3. Reads
  BY <1>1 DEF Passes, Reads, Waiting, FailedRuns, OpenPending, Early
<1>4. QED BY <1>2, <1>3, ReadingKeepsTheWorld

LEMMA SamePlan ==
  ASSUME UNCHANGED <<sha, base, prepared>>
  PROVE  /\ \A w \in Workers : Changed(w)' <=> Changed(w)
         /\ \A k : Reviewed(k)' <=> Reviewed(k)
         /\ HasMigrations' <=> HasMigrations
         /\ Deployed' = Deployed
BY DEF Changed, Reviewed, HasMigrations, Deployed

LEMMA SameSchema ==
  ASSUME schema' = schema
  PROVE  \A c : Expects(c)' <=> Expects(c)
BY DEF Expects, Migrations

LEMMA CheckPasses ==
  ASSUME IInv, NEW ok, NEW p, Check(ok, p), pc \notin Waiting \cup Early \cup {"reclose"},
         p \in Phases \ Early,
         ok /\ Passes /\ pc' = p => RunInv' /\ BaseInv' /\ DataInv' /\ LedgerInv'
  PROVE  IInv'
<1>1. CASE ok
  <2>1. Passes /\ pc' = p BY <1>1 DEF Check, Passes, world, Go
  <2>2. QED BY <1>1, <2>1, PassingKeeps DEF Early
<1>2. CASE ~ok
  <2>1. Stopped BY <1>2, ThrowStops DEF Check, IInv, TypeOK, Early
  <2>2. Still /\ uploads' = uploads BY DEF Check, Still, world
  <2>3. QED BY <2>1, <2>2, StoppingKeeps DEF Early
<1>3. QED BY <1>1, <1>2

LEMMA HeadKeeps ==
  ASSUME IInv, CheckHead("head", "verify") \/ CheckHead("headAgain", "recheck")
  PROVE  IInv'
<1> DEFINE p == IF pc = "head" THEN "verify" ELSE "recheck"
<1>1. Check(main = sha, p) /\ pc \in {"head", "headAgain"} BY DEF CheckHead
<1>2. ASSUME Passes, pc' = p PROVE RunInv' /\ BaseInv' /\ DataInv' /\ LedgerInv'
  <2> USE <1>1, <1>2, SamePlan, SameSchema DEF IInv, Passes, site
  <2>1. RunInv' BY DEF RunInv, Early, Planning, Closing, Behind, Settling
  <2>2. BaseInv' BY DEF BaseInv, Early, Planning, Closing, Behind, Settling
  <2>3. DataInv' BY DEF DataInv
  <2>4. LedgerInv' BY DEF LedgerInv, BaselineWasChecked
  <2>5. QED BY <2>1, <2>2, <2>3, <2>4
<1>3. QED
  BY <1>1, <1>2, CheckPasses DEF Waiting, Early, Phases, OpenPhase

LEMMA GateChecksKeep ==
  ASSUME IInv, CheckGate("verify", "preflight") \/ CheckGate("recheck", "close") \/ Preflight
  PROVE  IInv'
<1>1. PICK ok, q :
        /\ Check(ok, q)
        /\ \/ pc = "verify" /\ q = "preflight"
           \/ pc = "recheck" /\ q = "close"
           \/ pc = "preflight" /\ q = "prepare"
  BY DEF CheckGate, Preflight
<1>2. ASSUME Passes, pc' = q PROVE RunInv' /\ BaseInv' /\ DataInv' /\ LedgerInv'
  <2> USE <1>1, <1>2, SamePlan, SameSchema DEF IInv, Passes, site
  <2>1. RunInv' BY DEF RunInv, Early, Planning, Closing, Behind, Settling
  <2>2. BaseInv' BY DEF BaseInv, Early, Planning, Closing, Behind, Settling, ClosedFor
  <2>3. DataInv' BY DEF DataInv
  <2>4. LedgerInv' BY DEF LedgerInv, BaselineWasChecked
  <2>5. QED BY <2>1, <2>2, <2>3, <2>4
<1>3. QED
  BY <1>1, <1>2, CheckPasses DEF Waiting, Early, Phases, OpenPhase

\* A commit whose release has no migration to apply expects the schema that
\* the baseline expects.
LEMMA NothingToApply ==
  ASSUME base.sha \in Commits, sha \in Commits, base.sha <= sha, Expects(base.sha),
         ~HasMigrations
  PROVE  Expects(sha)
<1>1. \A c \in 1..MaxCommit : c \in base.sha + 1 .. sha => Migration[c] = "none"
  BY DEF HasMigrations
<1>2. Migrations(0, sha) = Migrations(0, base.sha)
  BY <1>1, CutoverAssumption DEF Migrations, Commits
<1>3. QED BY <1>2 DEF Expects

LEMMA DrainKeeps ==
  ASSUME IInv, Drain
  PROVE  IInv'
<1> DEFINE p == IF Reviewed("breaking") THEN "point"
                ELSE IF Reviewed("nonbreaking") THEN "migrate" ELSE "promoteWeb"
<1>1. pc = "drain" /\ Check(ClosedFor(sha), p) /\ (ClosedFor(sha) => inside = {})
  BY DEF Drain, Drained
<1>2. ASSUME Passes, pc' = p, ClosedFor(sha) PROVE RunInv' /\ BaseInv' /\ DataInv' /\ LedgerInv'
  <2> USE <1>1, <1>2, SamePlan, SameSchema DEF IInv, Passes, site
  <2>1. /\ sha \in 1..MaxCommit /\ base \in Baseline /\ base.sha <= sha
        /\ prepared \in [Workers -> Version \cup {None}]
    BY DEF RunInv, Early, Planning, Closing, Behind, Settling
  <2>2. base.sha \in Commits /\ sha \in Commits
    BY <2>1, CutoverAssumption DEF Baseline, Commits
  <2>3. p = "promoteWeb" \/ HasMigrations BY DEF HasMigrations, Reviewed
  <2>4. CASE p # "promoteWeb"
    <3> USE <2>4
    <3>1. RunInv' BY <2>3 DEF RunInv, Early, Planning, Closing, Behind, Settling
    <3>2. BaseInv' BY DEF BaseInv, Early, Planning, Closing, Behind, Settling, ClosedFor
    <3>3. DataInv' BY DEF DataInv
    <3>4. LedgerInv' BY DEF LedgerInv, BaselineWasChecked
    <3>5. QED BY <3>1, <3>2, <3>3, <3>4
  <2>5. CASE p = "promoteWeb"
    <3> USE <2>5
    <3>1. ~HasMigrations
      <4>1. ~Reviewed("breaking") /\ ~Reviewed("nonbreaking") /\ ~Reviewed("blocked")
        BY DEF RunInv, Early
      <4>2. \A c \in base.sha + 1 .. sha : Migration[c] \in Kinds
        BY <2>2, CutoverAssumption DEF Commits
      <4>3. QED BY <4>1, <4>2 DEF HasMigrations, Reviewed, Kinds
    <3>2. Expects(base.sha) /\ \A w \in Workers : Expects(base.pair[w].src)
      BY DEF BaseInv, Behind
    <3>3. Expects(sha) BY <2>1, <2>2, <3>1, <3>2, NothingToApply
    <3>4. \A w \in Workers : Expects(Deployed[w].src)
      <4> TAKE w \in Workers
      <4>1. prepared[w] # None => prepared[w].src = sha BY DEF RunInv, Early, Planning
      <4>2. QED BY <3>2, <3>3, <4>1 DEF Deployed
    <3>5. RunInv' BY DEF RunInv, Early, Planning, Closing, Behind, Settling
    <3>6. BaseInv' BY <3>3, <3>4 DEF BaseInv, Early, Planning, Closing, Behind, Settling, ClosedFor
    <3>7. DataInv' BY DEF DataInv
    <3>8. LedgerInv' BY DEF LedgerInv, BaselineWasChecked
    <3>9. QED BY <3>5, <3>6, <3>7, <3>8
  <2>6. QED BY <2>4, <2>5
<1>3. QED
  BY <1>1, <1>2, CheckPasses DEF Waiting, Early, Phases, OpenPhase

LEMMA ValidateKeeps ==
  ASSUME IInv, Validate
  PROVE  IInv'
<1>1. pc = "validate" /\ Check(Expects(sha) /\ DrainedClosure, "promoteWeb") BY DEF Validate
<1>2. ASSUME Passes, pc' = "promoteWeb", Expects(sha)
      PROVE  RunInv' /\ BaseInv' /\ DataInv' /\ LedgerInv'
  <2> USE <1>1, <1>2, SamePlan, SameSchema DEF IInv, Passes, site
  <2>1. \A w \in Workers : Expects(Deployed[w].src)
    <3>1. \A w \in Workers : Changed(w)
      BY DEF RunInv, HasMigrations, Changed, Behind
    <3>2. QED BY <3>1 DEF RunInv, Deployed, Early, Planning
  <2>2. RunInv' BY DEF RunInv, Early, Planning, Closing, Behind, Settling
  <2>3. BaseInv' BY <2>1 DEF BaseInv, Early, Planning, Closing, Behind, Settling, ClosedFor
  <2>4. DataInv' BY DEF DataInv
  <2>5. LedgerInv' BY DEF LedgerInv, BaselineWasChecked
  <2>6. QED BY <2>2, <2>3, <2>4, <2>5
<1>3. QED
  BY <1>1, <1>2, CheckPasses DEF Waiting, Early, Phases, OpenPhase

\* Nothing was uploaded for the Worker: it keeps the baseline's version.
LEMMA SkippingKeeps ==
  ASSUME IInv, NEW w \in Workers, NEW p, NEW next,
         \/ w = "web" /\ p = "promoteWeb" /\ next = "promoteApi"
         \/ w = "backend" /\ p = "promoteApi" /\ next = "readBack",
         pc = p, prepared[w] = None, Check(TRUE, next)
  PROVE  IInv'
<1>1. ASSUME Passes, pc' = next PROVE RunInv' /\ BaseInv' /\ DataInv' /\ LedgerInv'
  <2> USE <1>1, SamePlan, SameSchema DEF IInv, Passes, site
  <2>1. Deployed[w] = base.pair[w] BY DEF Deployed
  <2>2. RunInv' BY DEF RunInv, Early, Planning, Closing, Behind, Settling
  <2>3. BaseInv' BY <2>1 DEF BaseInv, Early, Planning, Closing, Behind, Settling, ClosedFor
  <2>4. DataInv' BY DEF DataInv
  <2>5. LedgerInv' BY DEF LedgerInv, BaselineWasChecked
  <2>6. QED BY <2>2, <2>3, <2>4, <2>5
<1>2. QED BY <1>1, CheckPasses DEF Waiting, Early, Phases, OpenPhase

LEMMA LateReadsKeep ==
  ASSUME IInv, ReadBack \/ Smoke \/ ReadOpened
  PROVE  IInv'
<1>1. PICK ok, q :
        /\ Check(ok, q)
        /\ \/ pc = "readBack" /\ q = "smoke"
           \/ pc = "smoke" /\ q = "open"
           \/ pc = "opened" /\ q = "public"
  BY DEF ReadBack, Smoke, ReadOpened
<1>2. ASSUME Passes, pc' = q PROVE RunInv' /\ BaseInv' /\ DataInv' /\ LedgerInv'
  <2> USE <1>1, <1>2, SamePlan, SameSchema DEF IInv, Passes, site
  <2>1. RunInv' BY DEF RunInv, Early, Planning, Closing, Behind, Settling
  <2>2. BaseInv' BY DEF BaseInv, Early, Planning, Closing, Behind, Settling, ClosedFor
  <2>3. DataInv' BY DEF DataInv
  <2>4. LedgerInv' BY DEF LedgerInv, BaselineWasChecked
  <2>5. QED BY <2>1, <2>2, <2>3, <2>4
<1>3. QED
  BY <1>1, <1>2, CheckPasses DEF Waiting, Early, Phases, OpenPhase

\* Fail, Kill and every error.
LEMMA ErrorKeeps ==
  ASSUME IInv, pc # "idle",
         Throw \/ (\E how \in Outcomes \ {"closed", "reclosed"} : End(how))
               \/ (pc = "reclosed" /\ ClosedFor(sha) /\ End("reclosed")),
         UNCHANGED <<world, clock, uploads, flight, checked>>
  PROVE  IInv'
<1>1. Stopped
  <2>1. CASE Throw BY <2>1, ThrowStops DEF IInv, TypeOK
  <2>2. CASE \E how \in Outcomes \ {"closed", "reclosed"} : End(how) BY <2>2 DEF Stopped
  <2>3. CASE pc = "reclosed" /\ ClosedFor(sha) /\ End("reclosed")
    BY <2>3 DEF Stopped, Outcomes, OpenPending, Early
  <2>4. QED BY <2>1, <2>2, <2>3
<1>2. Still BY DEF Still, world
<1>3. QED BY <1>1, <1>2, StoppingKeeps

LEMMA StartKeeps ==
  ASSUME IInv, NEW c \in 1..MaxCommit, Start(c)
  PROVE  IInv'
<1> USE DEF IInv
<1>1. awaits = None BY OnlyWaitersAwait DEF Start, Waiting
<1>2. pc = "idle" /\ pc' \in Early /\ sha' \in {c, sha}
      /\ (pc' # "idle" => sha' = c)
      /\ UNCHANGED <<world, clock, uploads, flight, base, prepared, closure, awaits, checked>>
  BY DEF Start, Go, Early
<1>3. result' \in [1..MaxCommit -> Outcomes] /\ FailedRuns' \subseteq FailedRuns
  BY DEF Start, TypeOK, Outcomes, FailedRuns
<1>4. TypeOK'
  BY <1>2, <1>3, CutoverAssumption DEF TypeOK, world, site, Phases, Early, Commits
<1>5. Reads BY <1>1, <1>2, <1>3 DEF Reads, world, Waiting, Early
<1>6. RunInv' /\ BaseInv'
  BY <1>2 DEF RunInv, BaseInv, Early, Planning, Closing, Behind, Settling
<1>7. DataInv' /\ LedgerInv'
  BY <1>2 DEF DataInv, LedgerInv, BaselineWasChecked, Early, world, site
<1>8. QED BY <1>4, <1>5, <1>6, <1>7, ReadingKeepsTheWorld

LEMMA ReadBaselineKeeps ==
  ASSUME IInv, ReadBaseline
  PROVE  IInv'
<1>1. CASE gate.mode # "open" BY <1>1, ErrorKeeps DEF ReadBaseline
<1>2. CASE gate.mode = "open"
  <2> USE <1>2 DEF IInv
  <2>1. /\ pc = "baseline" /\ pc' = "ledger"
        /\ base' = [sha |-> gate.target, pair |-> gate.pair]
        /\ UNCHANGED <<world, clock, uploads, flight, result, sha, prepared, closure,
                       awaits, checked>>
    BY DEF ReadBaseline, Go
  <2>2. base' \in Baseline BY <2>1, TypedPairs DEF Baseline
  <2>3. TypeOK' BY <2>1, <2>2 DEF TypeOK, world, site, Phases
  <2>4. awaits = None BY <2>1, OnlyWaitersAwait DEF Waiting
  <2>5. Reads BY <2>1, <2>4 DEF Reads, world, Waiting, FailedRuns, Early, OpenPending
  <2>6. RunInv' BY <2>1, <2>2 DEF RunInv, Early, Planning, Closing, Behind, Settling
  <2>7. BaseInv'
    BY <2>1, SameSchema
    DEF BaseInv, SiteInv, Early, Planning, Closing, Behind, Settling, world, site, Workers
  <2>8. DataInv' /\ LedgerInv'
    BY <2>1 DEF DataInv, LedgerInv, BaselineWasChecked, world, site
  <2>9. QED BY <2>3, <2>5, <2>6, <2>7, <2>8, ReadingKeepsTheWorld
<1>3. QED BY <1>1, <1>2

LEMMA ReadLedgerKeeps ==
  ASSUME IInv, ReadLedger
  PROVE  IInv'
<1> DEFINE Fine == InLedger /\ base.sha <= sha /\ ~Reviewed("blocked")
           Some == \E w \in Workers : Changed(w)
<1>1. CASE ~Fine BY <1>1, ErrorKeeps DEF ReadLedger
<1>2. CASE Fine /\ ~Some BY <1>2, ErrorKeeps DEF ReadLedger, Outcomes
<1>3. CASE Fine /\ Some
  <2> HIDE DEF Some
  <2> USE <1>3 DEF IInv
  <2>1. /\ pc = "ledger" /\ pc' = "head"
        /\ UNCHANGED <<world, clock, uploads, flight, result, sha, base, prepared, closure,
                       awaits, checked>>
    BY DEF ReadLedger, Go, Some
  <2>2. Passes BY <2>1 DEF Passes, world, Phases
  <2> USE <2>1, SamePlan, SameSchema DEF world, site
  <2>3. RunInv' BY DEF RunInv, Early, Planning, Closing, Behind, Settling
  <2>4. BaseInv' BY DEF BaseInv, Early, Planning, Closing, Behind, Settling
  <2>5. DataInv' BY DEF DataInv
  <2>6. base.sha \in checked
    <3>1. ledger \in Seq(Deployment) /\ ledger # <<>> BY DEF TypeOK, LedgerInv
    <3>2. Len(ledger) \in DOMAIN ledger BY <3>1
    <3>3. QED BY <3>2 DEF InLedger, LedgerInv
  <2>7. LedgerInv' BY <2>6 DEF LedgerInv, BaselineWasChecked
  <2>8. QED
    BY <2>2, <2>3, <2>4, <2>5, <2>7, PassingKeeps DEF Waiting, Early
<1>4. QED BY <1>1, <1>2, <1>3

LEMMA PrepareKeeps ==
  ASSUME IInv, Prepare
  PROVE  IInv'
<1> DEFINE Serving == \A w \in Workers : live[w].id = base.pair[w].id
<1>1. CASE ~Serving BY <1>1, ErrorKeeps DEF Prepare
<1>2. CASE Serving
  <2> HIDE DEF Serving
  <2> USE DEF IInv
  <2>1. /\ pc = "prepare" /\ pc' = "headAgain" /\ uploads' = uploads + 1
        /\ prepared' = [w \in Workers |-> IF Changed(w) THEN Uploaded ELSE None]
        /\ UNCHANGED <<world, clock, flight, result, sha, base, closure, awaits, checked>>
    BY <1>2 DEF Prepare, Go, Serving
  <2>2. Uploaded \in Version /\ Uploaded # None /\ Uploaded.src = sha
    BY CutoverAssumption DEF Uploaded, Version, TypeOK
  <2>3. prepared' \in [Workers -> Version \cup {None}] BY <2>1, <2>2
  <2>4. TypeOK' BY <2>1, <2>3 DEF TypeOK, world, site, Phases
  <2>5. awaits = None BY <2>1, OnlyWaitersAwait DEF Waiting
  <2>6. Reads BY <2>1, <2>5 DEF Reads, world, Waiting, FailedRuns, Early, OpenPending
  <2>7. \A w \in Workers : Changed(w)' <=> Changed(w) BY <2>1 DEF Changed
  <2>8. RunInv'
    BY <2>1, <2>2, <2>3, <2>7
    DEF RunInv, Reviewed, Early, Planning, Closing, Behind, Settling
  <2>9. BaseInv'
    BY <2>1, SameSchema
    DEF BaseInv, Early, Planning, Closing, Behind, Settling, world, site
  <2>10. DataInv' /\ LedgerInv'
    BY <2>1 DEF DataInv, LedgerInv, BaselineWasChecked, world, site
  <2>11. QED BY <2>4, <2>6, <2>8, <2>9, <2>10, ReadingKeepsTheWorld
<1>3. QED BY <1>1, <1>2

LEMMA ReadClosureKeeps ==
  ASSUME IInv, ReadClosure
  PROVE  IInv'
<1>1. CASE ~ClosedFor(sha) BY <1>1, ErrorKeeps DEF ReadClosure
<1>2. CASE ClosedFor(sha)
  <2> USE DEF IInv
  <2>1. /\ pc = "closed" /\ pc' = "drain" /\ closure' = gate.changedAt
        /\ UNCHANGED <<world, clock, uploads, flight, result, sha, base, prepared, awaits,
                       checked>>
    BY <1>2 DEF ReadClosure, Go
  <2>2. closure' \in Nat BY <2>1, TypedPairs
  <2>3. TypeOK' BY <2>1, <2>2 DEF TypeOK, world, site, Phases
  <2>4. awaits = None BY <2>1, OnlyWaitersAwait DEF Waiting
  <2>5. Reads BY <2>1, <2>4 DEF Reads, world, Waiting, FailedRuns, Early, OpenPending
  <2>6. RunInv'
    BY <2>1, <2>2, SamePlan DEF RunInv, Early, Planning, Closing, Behind, Settling
  <2>7. BaseInv'
    BY <1>2, <2>1, SameSchema
    DEF BaseInv, Early, Planning, Closing, Behind, Settling, world, site, ClosedFor
  <2>8. DataInv' /\ LedgerInv'
    BY <2>1 DEF DataInv, LedgerInv, BaselineWasChecked, world, site
  <2>9. QED BY <2>3, <2>5, <2>6, <2>7, <2>8, ReadingKeepsTheWorld
<1>3. QED BY <1>1, <1>2

LEMMA PublicCheckKeeps ==
  ASSUME IInv, PublicCheck
  PROVE  IInv'
<1>1. CASE ~(OpenFor(sha) /\ Ready) BY <1>1, ErrorKeeps DEF PublicCheck
<1>2. CASE OpenFor(sha) /\ Ready
  <2> USE DEF IInv
  <2>1. /\ pc = "public" /\ pc' = "record" /\ checked' = checked \cup {sha}
        /\ UNCHANGED <<world, clock, uploads, flight, result, sha, base, prepared, closure,
                       awaits>>
    BY <1>2 DEF PublicCheck, Go
  <2>2. TypeOK' BY <2>1 DEF TypeOK, world, site, Phases, OpenPhase
  <2>3. awaits = None BY <2>1, OnlyWaitersAwait DEF Waiting
  <2>4. Reads BY <2>1, <2>3 DEF Reads, world, Waiting, FailedRuns, Early, OpenPending
  <2>5. RunInv'
    BY <2>1, SamePlan DEF RunInv, Early, Planning, Closing, Behind, Settling
  <2>6. BaseInv' BY <2>1 DEF BaseInv, Planning, Closing, Behind, Settling
  <2>7. DataInv' BY <2>1 DEF DataInv, world, site
  <2>8. LedgerInv' BY <2>1 DEF LedgerInv, BaselineWasChecked, world
  <2>9. QED BY <2>2, <2>4, <2>5, <2>6, <2>7, <2>8, ReadingKeepsTheWorld
<1>3. QED BY <1>1, <1>2

-----------------------------------------------------------------------------
(* A step of the run that sends a command.                                  *)

LEMMA SendingKeeps ==
  ASSUME IInv, NEW c \in Command, NEW p \in Waiting, Send(c, p), uploads' = uploads,
         clock' \in Nat,
         pc \notin Waiting \cup Early \cup Planning,
         pc \in OpenPending => p \in OpenPending,
         p \in {"recording", "reporting"} => pc \in {"record", "status"},
         c.op \in {"migrate", "promote"} =>
           gate.mode = "maintenance" /\ inside = {} /\ pc \notin OpenPending,
         p = "opening" => pc = "open",
         Fenced(c) => /\ c.pair = live /\ Expects(c.sha) /\ p \in OpenPending
                      /\ \A w \in Workers : Expects(c.pair[w].src),
         c.op = "status" => c.entry \in DOMAIN ledger /\ ledger[c.entry].sha \in checked,
         RunInv', WaitInv', StampInv', BaseInv', DataInv'
  PROVE  IInv'
<1> USE DEF IInv
<1>1. /\ pc' = p /\ awaits' = c /\ flight' = flight \cup {c}
      /\ UNCHANGED <<world, result, sha, base, prepared, closure, checked>>
  BY DEF Send, Go
<1>2. awaits = None BY OnlyWaitersAwait
<1>3. TypeOK'
  BY <1>1 DEF TypeOK, world, site, Phases, OpenPhase, Reclosing, Waiting
<1>4. \A d \in flight : d.op \notin {"migrate", "promote"}
  BY <1>2, CutoverAssumption DEF ChangeInv, TypeOK
<1>5. \A d \in flight' : Fenced(d)' <=> Fenced(d) BY <1>1 DEF Fenced, world
<1>6. ChangeInv'
  <2>1. ASSUME NEW d \in flight', d.op \in {"migrate", "promote"}
        PROVE  /\ d = c /\ gate'.mode = "maintenance" /\ inside' = {}
               /\ \A e \in flight' : ~Fenced(e)'
    <3>1. d = c BY <2>1, <1>1, <1>4
    <3>2. ~Fenced(c) BY <3>1, <2>1 DEF Fenced
    <3>3. \A e \in flight' : ~Fenced(e) BY <3>1, <3>2, <2>1, <1>1 DEF OpenInv
    <3>4. QED BY <3>1, <3>3, <1>1, <1>5, <2>1 DEF world, site
  <2>2. \A d, e \in flight' : d.op = "migrate" /\ e.op = "migrate" => d = e
    BY <2>1
  <2>3. \A d \in flight' : d.op \in {"migrate", "promote"} => awaits' = d
    BY <2>1, <1>1
  <2>4. QED BY <2>1, <2>2, <2>3 DEF ChangeInv
<1>7. OpenInv'
  <2>1. ASSUME NEW d \in flight', Fenced(d)
        PROVE  /\ d.pair = live /\ Expects(d.sha) /\ p \in OpenPending
               /\ \A w \in Workers : Expects(d.pair[w].src)
               /\ p = "opening" => d = c
    <3>1. CASE d = c BY <3>1, <2>1
    <3>2. CASE d \in flight /\ d # c
      BY <3>2, <2>1 DEF OpenInv, OpenPending, Early
    <3>3. QED BY <3>1, <3>2, <1>1
  <2>2. QED BY <2>1, <1>1, <1>5, SameSchema DEF OpenInv, world, site
<1>8. SiteInv' BY <1>1, SameSchema DEF SiteInv, world, site
<1>9. LedgerInv'
  BY <1>1 DEF LedgerInv, BaselineWasChecked, world, Early, Planning, Waiting
<1>10. DeadInv' BY <1>1 DEF DeadInv, Dead, FailedRuns
<1>11. QED BY <1>3, <1>6, <1>7, <1>8, <1>9, <1>10

\* What the versions of a release's Workers are.
LEMMA DeployedIsAPair ==
  ASSUME RunInv, pc \notin Early \cup Planning
  PROVE  Deployed \in Pair
BY DEF RunInv, Deployed, Pair, Baseline, Early, Planning

\* A command that has no timestamp to compare.
LEMMA OthersKeepStamps ==
  ASSUME StampInv, NEW c, c.op \notin {"close", "open"}, flight' = flight \cup {c},
         UNCHANGED <<gate, clock>>
  PROVE  StampInv'
BY DEF StampInv

LEMMA SendCloseKeeps ==
  ASSUME IInv, SendClose("close", "closing") \/ SendClose("reclose", "reclosing")
  PROVE  IInv'
<1> DEFINE c == [op |-> "close", sha |-> sha, at |-> clock]
           p == IF pc = "close" THEN "closing" ELSE "reclosing"
<1> USE DEF IInv
<1>1. /\ pc \in {"close", "reclose"} /\ Send(c, p) /\ clock' = clock + 1
      /\ uploads' = uploads
  BY DEF SendClose, Stamp
<1>2. /\ pc' = p /\ awaits' = c /\ flight' = flight \cup {c}
      /\ UNCHANGED <<world, sha, base, prepared, closure>>
  BY <1>1 DEF Send, Go
<1>3. c \in Command BY DEF TypeOK, Command
<1>4. RunInv'
  BY <1>1, <1>2, SamePlan DEF RunInv, Early, Planning, Closing, Behind, Settling
<1>5. WaitInv' BY <1>1, <1>2 DEF WaitInv
<1>6. StampInv'
  <2>1. clock \in Nat /\ gate.changedAt \in Nat BY TypedPairs DEF TypeOK
  <2>2. \A d \in flight : /\ d.op \in {"close", "open"} => d.at \in Nat
                          /\ d.op = "open" => d.closedAt \in Nat
    BY DEF TypeOK, Command
  <2>3. c.op = "close" /\ c.at = clock OBVIOUS
  <2> HIDE DEF c
  <2>4. gate'.changedAt < clock' /\ gate' = gate BY <2>1, <1>1, <1>2 DEF StampInv, world
  <2>5. \A d \in flight' : /\ d.op \in {"close", "open"} => d.at < clock'
                           /\ d.op = "open" => d.closedAt < clock'
    BY <2>1, <2>2, <2>3, <1>1, <1>2 DEF StampInv
  <2>6. \A d \in flight : /\ d.op \in {"close", "open"} => d.at # clock
                          /\ d.op = "open" => d.closedAt # clock
    BY <2>1, <2>2 DEF StampInv
  <2>7. \A e \in flight' : e.op = "close" =>
          /\ gate.changedAt # e.at
          /\ \A d \in flight' : /\ d.op = "close" /\ d.at = e.at => d = e
                                /\ d.op = "open" => d.at # e.at /\ d.closedAt # e.at
    BY <2>1, <2>3, <2>6, <1>2 DEF StampInv
  <2>8. QED BY <2>4, <2>5, <2>7 DEF StampInv
<1>7. BaseInv'
  BY <1>1, <1>2, SamePlan, SameSchema
  DEF BaseInv, Early, Planning, Closing, Behind, Settling, world, site, ClosedFor
<1>8. DataInv' BY <1>1, <1>2, SamePlan DEF DataInv, world, site
<1>9. ~Fenced(c) BY DEF Fenced
<1>10. clock' \in Nat BY <1>1 DEF TypeOK
<1>11. c.op = "close" OBVIOUS
<1> HIDE DEF c
<1>12. QED
  BY <1>1, <1>3, <1>4, <1>5, <1>6, <1>7, <1>8, <1>9, <1>10, <1>11, SendingKeeps
  DEF Waiting, Early, Planning, OpenPending

LEMMA SendPointKeeps ==
  ASSUME IInv, SendPoint
  PROVE  IInv'
<1> DEFINE c == [op |-> "point", at |-> closure]
<1> USE DEF IInv
<1>1. pc = "point" /\ Send(c, "pointing") /\ UNCHANGED <<clock, uploads>> BY DEF SendPoint
<1>2. /\ pc' = "pointing" /\ awaits' = c /\ flight' = flight \cup {c}
      /\ UNCHANGED <<world, sha, base, prepared, closure>>
  BY <1>1 DEF Send, Go
<1>3. c \in Command BY <1>1 DEF RunInv, Command, Behind
<1>4. RunInv'
  BY <1>1, <1>2, SamePlan DEF RunInv, Early, Planning, Closing, Behind, Settling
<1>5. WaitInv' BY <1>2 DEF WaitInv
<1>6. StampInv' BY <1>1, <1>2, OthersKeepStamps DEF world
<1>7. BaseInv'
  BY <1>1, <1>2, SamePlan, SameSchema
  DEF BaseInv, Early, Planning, Closing, Behind, Settling, world, site, ClosedFor
<1>8. DataInv' BY <1>1, <1>2 DEF DataInv, world, site
<1>9. ~Fenced(c) /\ c.op = "point" /\ clock' \in Nat BY <1>1 DEF Fenced, TypeOK
<1> HIDE DEF c
<1>10. QED
  BY <1>1, <1>3, <1>4, <1>5, <1>6, <1>7, <1>8, <1>9, SendingKeeps
  DEF Waiting, Early, Planning, OpenPending

LEMMA SendMigrateKeeps ==
  ASSUME IInv, SendMigrate
  PROVE  IInv'
<1> DEFINE c == [op |-> "migrate", sha |-> sha]
           Pending == Migrations(schema, sha) = Migrations(base.sha, sha)
<1> USE DEF IInv
<1>1. CASE ~(DrainedClosure /\ Pending) BY <1>1, ErrorKeeps DEF SendMigrate
<1>2. CASE DrainedClosure /\ Pending
  <2>1. pc = "migrate" /\ Send(c, "migrating") /\ UNCHANGED <<clock, uploads>>
    BY <1>2 DEF SendMigrate
  <2>2. /\ pc' = "migrating" /\ awaits' = c /\ flight' = flight \cup {c}
        /\ UNCHANGED <<world, sha, base, prepared, closure>>
    BY <2>1 DEF Send, Go
  <2>3. c \in Command BY DEF TypeOK, Command
  <2>4. RunInv'
    BY <2>1, <2>2, SamePlan DEF RunInv, Early, Planning, Closing, Behind, Settling
  <2>5. WaitInv' BY <2>2 DEF WaitInv
  <2>6. StampInv' BY <2>1, <2>2, OthersKeepStamps DEF world
  <2>7. BaseInv'
    BY <2>1, <2>2, SamePlan, SameSchema
    DEF BaseInv, Early, Planning, Closing, Behind, Settling, world, site, ClosedFor
  <2>8. (\E k \in schema + 1 .. sha : Migration[k] = "breaking") => Reviewed("breaking")
    BY <1>2 DEF Migrations, Reviewed
  <2>9. DataInv' BY <2>1, <2>2, <2>8, SamePlan DEF DataInv, world, site
  <2>10. ~Fenced(c) /\ c.op = "migrate" /\ clock' \in Nat BY <2>1 DEF Fenced, TypeOK
  <2>11. gate.mode = "maintenance" /\ inside = {}
    BY <2>1 DEF BaseInv, Behind, ClosedFor
  <2> HIDE DEF c
  <2>12. QED
    BY <2>1, <2>3, <2>4, <2>5, <2>6, <2>7, <2>9, <2>10, <2>11, SendingKeeps
    DEF Waiting, Early, Planning, OpenPending
<1>3. QED BY <1>1, <1>2

LEMMA SendPromoteKeeps ==
  ASSUME IInv, NEW w \in Workers, NEW p, NEW q,
         \/ w = "web" /\ p = "promoteWeb" /\ q = "promotingWeb"
         \/ w = "backend" /\ p = "promoteApi" /\ q = "promotingApi",
         pc = p, prepared[w] # None,
         Send([op |-> "promote", worker |-> w, version |-> prepared[w]], q),
         UNCHANGED <<clock, uploads>>
  PROVE  IInv'
<1> DEFINE c == [op |-> "promote", worker |-> w, version |-> prepared[w]]
<1> USE DEF IInv
<1>1. /\ pc' = q /\ awaits' = c /\ flight' = flight \cup {c}
      /\ UNCHANGED <<world, sha, base, prepared, closure>>
  BY DEF Send, Go
<1>2. c \in Command BY DEF RunInv, Command, Early, Planning
<1>3. RunInv'
  BY <1>1, SamePlan DEF RunInv, Early, Planning, Closing, Behind, Settling
<1>4. WaitInv' BY <1>1 DEF WaitInv
<1>5. StampInv' BY <1>1, OthersKeepStamps DEF world
<1>6. BaseInv'
  BY <1>1, SamePlan, SameSchema
  DEF BaseInv, Early, Planning, Closing, Behind, Settling, world, site, ClosedFor
<1>7. DataInv' BY <1>1 DEF DataInv, world, site
<1>8. ~Fenced(c) /\ c.op = "promote" /\ clock' \in Nat BY DEF Fenced, TypeOK
<1>9. gate.mode = "maintenance" /\ inside = {}
  BY DEF BaseInv, Settling, ClosedFor
<1> HIDE DEF c
<1>10. Send(c, q) BY DEF c
<1>11. QED
  BY <1>2, <1>3, <1>4, <1>5, <1>6, <1>7, <1>8, <1>9, <1>10, SendingKeeps
  DEF Waiting, Early, Planning, OpenPending

LEMMA PromoteKeeps ==
  ASSUME IInv, \/ Promote("web", "promoteWeb", "promotingWeb", "promoteApi")
               \/ Promote("backend", "promoteApi", "promotingApi", "readBack")
  PROVE  IInv'
BY SkippingKeeps, SendPromoteKeeps DEF Promote, Workers

LEMMA SendOpenKeeps ==
  ASSUME IInv, SendOpen
  PROVE  IInv'
<1> DEFINE c == [op |-> "open", sha |-> sha, at |-> clock,
                 closedAt |-> gate.changedAt, pair |-> Deployed]
           Sent == ClosedFor(sha) /\ inside = {} /\ \A w \in Workers : Evident(w)
<1> USE DEF IInv
<1>1. CASE ~Sent BY <1>1, ErrorKeeps DEF SendOpen
<1>2. CASE Sent
  <2>1. pc = "open" /\ Send(c, "opening") /\ clock' = clock + 1 /\ UNCHANGED uploads
    BY <1>2 DEF SendOpen, Stamp
  <2>2. /\ pc' = "opening" /\ awaits' = c /\ flight' = flight \cup {c}
        /\ UNCHANGED <<world, sha, base, prepared, closure>>
    BY <2>1 DEF Send, Go
  <2>3. Deployed \in Pair BY <2>1, DeployedIsAPair DEF Early, Planning
  <2>4. clock \in Nat /\ gate.changedAt \in Nat BY TypedPairs DEF TypeOK
  <2>5. c \in Command BY <2>3, <2>4 DEF TypeOK, Command
  <2>6. RunInv'
    BY <2>1, <2>2, SamePlan DEF RunInv, Early, Planning, Closing, Behind, Settling
  <2>7. WaitInv' BY <2>2 DEF WaitInv
  <2>8. c.op = "open" /\ c.at = clock /\ c.closedAt = gate.changedAt /\ c.pair = Deployed
        /\ c.sha = sha
    OBVIOUS
  <2> HIDE DEF c
  <2>9. StampInv'
    <3>1. \A d \in flight : /\ d.op \in {"close", "open"} => d.at \in Nat
                            /\ d.op = "open" => d.closedAt \in Nat
      BY DEF TypeOK, Command
    <3>2. gate'.changedAt < clock' BY <2>1, <2>2, <2>4 DEF StampInv, world
    <3>3. \A d \in flight' : /\ d.op \in {"close", "open"} => d.at < clock'
                             /\ d.op = "open" => d.closedAt < clock'
      BY <3>1, <2>1, <2>2, <2>4, <2>8 DEF StampInv
    <3>4. \A e \in flight : e.op = "close" => e.at # clock /\ e.at # gate.changedAt
      BY <3>1, <2>4 DEF StampInv
    <3>5. \A e \in flight' : e.op = "close" =>
            /\ gate.changedAt # e.at
            /\ \A d \in flight' : /\ d.op = "close" /\ d.at = e.at => d = e
                                  /\ d.op = "open" => d.at # e.at /\ d.closedAt # e.at
      BY <3>4, <2>2, <2>8 DEF StampInv
    <3>6. QED BY <3>2, <3>3, <3>5, <2>2 DEF StampInv, world
  <2>10. BaseInv'
    BY <2>1, <2>2, SamePlan, SameSchema
    DEF BaseInv, Early, Planning, Closing, Behind, Settling, world, site, ClosedFor
  <2>11. DataInv' BY <2>1, <2>2, <2>8 DEF DataInv, world, site
  <2>12. /\ Deployed = live /\ Expects(sha)
         /\ \A w \in Workers : Expects(Deployed[w].src)
    BY <2>1, <2>3 DEF BaseInv, Settling, TypeOK, Pair, Workers
  <2>13. clock' \in Nat BY <2>1, <2>4
  <2>14. QED
    BY <2>1, <2>5, <2>6, <2>7, <2>8, <2>9, <2>10, <2>11, <2>12, <2>13, SendingKeeps
    DEF Waiting, Early, Planning, OpenPending
<1>3. QED BY <1>1, <1>2

LEMMA SendDeploymentKeeps ==
  ASSUME IInv, SendDeployment
  PROVE  IInv'
<1> DEFINE c == [op |-> "deployment", sha |-> sha, pair |-> Deployed]
<1> USE DEF IInv
<1>1. pc = "record" /\ Send(c, "recording") /\ UNCHANGED <<clock, uploads>>
  BY DEF SendDeployment
<1>2. /\ pc' = "recording" /\ awaits' = c /\ flight' = flight \cup {c}
      /\ UNCHANGED <<world, sha, base, prepared, closure>>
  BY <1>1 DEF Send, Go
<1>3. Deployed \in Pair BY <1>1, DeployedIsAPair DEF Early, Planning
<1>4. c \in Command BY <1>3 DEF TypeOK, Command
<1>5. RunInv'
  BY <1>1, <1>2, SamePlan DEF RunInv, Early, Planning, Closing, Behind, Settling
<1>6. WaitInv' BY <1>2 DEF WaitInv
<1>7. StampInv' BY <1>1, <1>2, OthersKeepStamps DEF world
<1>8. BaseInv' BY <1>2 DEF BaseInv, Planning, Closing, Behind, Settling
<1>9. DataInv' BY <1>2 DEF DataInv, world, site
<1>10. ~Fenced(c) /\ c.op = "deployment" /\ clock' \in Nat BY <1>1 DEF Fenced, TypeOK
<1> HIDE DEF c
<1>11. QED
  BY <1>1, <1>4, <1>5, <1>6, <1>7, <1>8, <1>9, <1>10, SendingKeeps
  DEF Waiting, Early, Planning, OpenPending

LEMMA SendStatusKeeps ==
  ASSUME IInv, SendStatus
  PROVE  IInv'
<1> USE DEF IInv
<1>1. PICK i \in DOMAIN ledger :
        /\ ledger[i].sha = sha
        /\ Send([op |-> "status", entry |-> i], "reporting")
  BY DEF SendStatus
<1> DEFINE c == [op |-> "status", entry |-> i]
<1>2. /\ pc = "status" /\ pc' = "reporting" /\ awaits' = c /\ flight' = flight \cup {c}
      /\ UNCHANGED <<world, sha, base, prepared, closure, clock, uploads>>
  BY <1>1 DEF Send, Go, SendStatus
<1>3. c \in Command BY DEF TypeOK, Command
<1>4. RunInv'
  BY <1>2, SamePlan DEF RunInv, Early, Planning, Closing, Behind, Settling
<1>5. WaitInv' BY <1>2 DEF WaitInv
<1>6. StampInv' BY <1>2, OthersKeepStamps DEF world
<1>7. BaseInv' BY <1>2 DEF BaseInv, Planning, Closing, Behind, Settling
<1>8. DataInv' BY <1>2 DEF DataInv, world, site
<1>9. ~Fenced(c) /\ c.op = "status" /\ c.entry = i /\ clock' \in Nat
  BY <1>2 DEF Fenced, TypeOK
<1>10. ledger[i].sha \in checked BY <1>1, <1>2 DEF LedgerInv
<1>11. Send(c, "reporting") BY <1>1
<1> HIDE DEF c
<1>12. QED
  BY <1>2, <1>3, <1>4, <1>5, <1>6, <1>7, <1>8, <1>9, <1>10, <1>11, SendingKeeps
  DEF Waiting, Early, Planning, OpenPending

-----------------------------------------------------------------------------
(* A command is carried out, or lost.                                       *)

\* A command leaves the flight and nothing else changes.
LEMMA LosingKeeps ==
  ASSUME IInv, flight' \subseteq flight,
         UNCHANGED <<world, clock, uploads, result, runVars, checked>>
  PROVE  IInv'
<1> USE SamePlan, SameSchema DEF IInv, world, site, runVars
<1>1. TypeOK' /\ RunInv' /\ WaitInv'
  BY DEF TypeOK, RunInv, WaitInv, Early, Planning, Closing, Behind, Settling
<1>2. \A d \in flight' : Fenced(d)' <=> Fenced(d) BY DEF Fenced
<1>3. StampInv' /\ ChangeInv' /\ OpenInv' BY <1>2 DEF StampInv, ChangeInv, OpenInv
<1>4. SiteInv' BY DEF SiteInv
<1>5. BaseInv' BY DEF BaseInv, Early, Planning, Closing, Behind, Settling, ClosedFor
<1>6. DataInv' /\ LedgerInv' BY DEF DataInv, LedgerInv, BaselineWasChecked
<1>7. DeadInv' BY DEF DeadInv, Dead, FailedRuns, Fenced
<1>8. QED BY <1>1, <1>3, <1>4, <1>5, <1>6, <1>7

\* The run is told that its command was refused, or does not wait for it.
LEMMA RefusalKeeps ==
  ASSUME IInv, NEW c \in flight, NEW p, Answer(c, FALSE, p), UNCHANGED <<world, checked>>
  PROVE  IInv'
<1>1. CASE awaits = c /\ Throw
  <2>1. pc # "idle"
    BY <1>1, CutoverAssumption, OnlyWaitersAwait DEF IInv, TypeOK, Waiting
  <2>2. Stopped BY <1>1, <2>1, ThrowStops DEF IInv, TypeOK
  <2>3. Still /\ uploads' = uploads BY DEF Answer, Still, world
  <2>4. QED BY <2>1, <2>2, <2>3, StoppingKeeps
<1>2. CASE UNCHANGED <<result, runVars>> BY <1>2, LosingKeeps DEF Answer
<1>3. QED BY <1>1, <1>2 DEF Answer

\* What an answer that is not a refusal does to the run.
Answered(c, p) ==
  /\ flight' = flight \ {c}
  /\ UNCHANGED <<result, sha, base, prepared, closure, clock, uploads>>
  /\ \/ awaits = c /\ pc' = p /\ awaits' = None
     \/ awaits # c /\ UNCHANGED <<pc, awaits>>

LEMMA AnsweredWhenOk ==
  ASSUME NEW c, NEW p, Answer(c, TRUE, p)
  PROVE  Answered(c, p)
BY DEF Answer, Answered, Go, runVars

LEMMA ApplyCloseKeeps ==
  ASSUME IInv, NEW c \in flight, ApplyClose(c)
  PROVE  IInv'
<1> DEFINE matches == gate.mode = "open" \/ gate.target = c.sha
           p == IF pc = "closing" THEN "closed" ELSE "reclosed"
<1>1. CASE ~matches
  <2>1. Answer(c, FALSE, p) /\ UNCHANGED <<world, checked>>
    BY <1>1 DEF ApplyClose, world
  <2>2. QED BY <2>1, RefusalKeeps
<1>2. CASE matches
  <2> USE DEF IInv
  <2>1. /\ gate' = [gate EXCEPT !.mode = "maintenance", !.target = c.sha, !.changedAt = c.at]
        /\ c.op = "close" /\ Answered(c, p)
        /\ UNCHANGED <<main, site, ledger, checked>>
    BY <1>2, AnsweredWhenOk DEF ApplyClose
  <2>2. c.sha \in Commits /\ c.at \in Nat /\ c # None
    BY <2>1, CutoverAssumption DEF TypeOK, Command
  <2>3. /\ gate' \in GateRow /\ gate'.mode = "maintenance" /\ gate'.target = c.sha
        /\ gate'.changedAt = c.at /\ gate'.pair = gate.pair
    BY <2>1, <2>2 DEF TypeOK, GateRow
  <2>4. \/ awaits = c /\ pc \in {"closing", "reclosing"} /\ pc' = p /\ awaits' = None
        \/ awaits # c /\ UNCHANGED <<pc, awaits>>
    BY <2>1, <2>2 DEF Answered, WaitInv
  <2> DEFINE Rest == UNCHANGED <<result, sha, base, prepared, closure, clock, uploads,
                                 main, site, ledger, checked>>
  <2>5. Rest /\ flight' = flight \ {c} BY <2>1 DEF Answered
  <2> HIDE DEF matches
  <2>6. TypeOK'
    BY <2>3, <2>4, <2>5 DEF TypeOK, site, Phases, Reclosing
  <2>7. RunInv'
    BY <2>4, <2>5, SamePlan DEF RunInv, Early, Planning, Closing, Behind, Settling
  <2>8. WaitInv' BY <2>4, <2>5 DEF WaitInv
  <2>9. StampInv' BY <2>1, <2>3, <2>5 DEF StampInv
  <2>10. \A d \in flight' : ~Fenced(d)' BY <2>1, <2>3, <2>5 DEF StampInv, Fenced
  <2>11. ChangeInv'
    <3>1. ASSUME NEW d \in flight', d.op \in {"migrate", "promote"}
          PROVE  inside' = {} /\ (pc' \in Early \/ awaits' = d)
      <4>1. d # c BY <3>1, <2>5
      <4>2. inside' = {} BY <3>1, <2>5 DEF ChangeInv, site
      <4>3. CASE awaits = c BY <3>1, <4>1, <4>3, <2>4, <2>5 DEF ChangeInv, Early
      <4>4. CASE awaits # c BY <3>1, <4>2, <4>4, <2>4, <2>5 DEF ChangeInv
      <4>5. QED BY <4>2, <4>3, <4>4
    <3>2. \A d, e \in flight' : d.op = "migrate" /\ e.op = "migrate" => d = e
      BY <2>5 DEF ChangeInv
    <3>3. QED BY <3>1, <3>2, <2>3, <2>10 DEF ChangeInv
  <2>12. OpenInv' BY <2>10 DEF OpenInv
  <2>13. SiteInv' BY <2>3 DEF SiteInv
  <2>14. BaseInv'
    <3>1. pc' \in Behind \cup Settling => pc' = pc /\ gate'.target = gate.target
      BY <1>2, <2>3, <2>4 DEF BaseInv, ClosedFor, matches, Behind, Settling
    <3>2. QED
      BY <3>1, <2>3, <2>4, <2>5, SamePlan, SameSchema
      DEF BaseInv, Early, Planning, Closing, Behind, Settling, site, ClosedFor
  <2>15. DataInv' BY <2>4, <2>5, SamePlan DEF DataInv, site
  <2>16. LedgerInv' BY <2>4, <2>5 DEF LedgerInv, BaselineWasChecked
  <2>17. DeadInv'
    BY <2>3, <2>4, <2>5, <2>10 DEF DeadInv, Dead, FailedRuns, Early
  <2>18. QED
    BY <2>6, <2>7, <2>8, <2>9, <2>11, <2>12, <2>13, <2>14, <2>15, <2>16, <2>17
<1>3. QED BY <1>1, <1>2

\* A change of the schema or of a Worker: the run waits for it or has ended,
\* and no other change or opening is possible.
LEMMA OneChange ==
  ASSUME IInv, NEW c \in flight, c.op \in {"migrate", "promote"}
  PROVE  /\ gate.mode = "maintenance" /\ inside = {}
         /\ \A d \in flight : ~Fenced(d)
         /\ pc \in Early \/ awaits = c
         /\ awaits = c => \A d \in flight : d.op \in {"migrate", "promote"} => d = c
<1>1. c # None BY CutoverAssumption DEF IInv, TypeOK
<1>2. awaits = c => pc \notin Early BY <1>1, OnlyWaitersAwait DEF IInv, Waiting, Early
<1>3. QED BY <1>2 DEF IInv, ChangeInv

LEMMA ChangingKeeps ==
  ASSUME IInv, NEW c \in flight, NEW p, c.op \in {"migrate", "promote"}, Answered(c, p),
         UNCHANGED <<main, gate, inside, ledger, checked>>
  PROVE  StampInv' /\ ChangeInv' /\ OpenInv' /\ SiteInv' /\ DeadInv' /\ WaitInv'
<1> USE DEF IInv
<1>1. /\ gate.mode = "maintenance" /\ inside = {}
      /\ \A d \in flight : ~Fenced(d)
      /\ pc \in Early \/ awaits = c
      /\ awaits = c => \A d \in flight : d.op \in {"migrate", "promote"} => d = c
  BY OneChange
<1>2. \A d \in flight' : ~Fenced(d)' BY <1>1 DEF Answered, Fenced
<1>3. StampInv' BY DEF Answered, StampInv
<1>4. WaitInv' BY DEF Answered, WaitInv
<1>5. ChangeInv' BY <1>1, <1>2 DEF Answered, ChangeInv
<1>6. OpenInv' BY <1>2 DEF OpenInv
<1>7. SiteInv' BY <1>1 DEF SiteInv
<1>8. c # None BY CutoverAssumption DEF TypeOK
<1>9. awaits = c => pc \notin Early BY <1>8, OnlyWaitersAwait DEF Waiting, Early
<1>10. DeadInv' BY <1>1, <1>2, <1>9 DEF DeadInv, Dead, FailedRuns, Answered
<1>11. QED BY <1>3, <1>4, <1>5, <1>6, <1>7, <1>10

LEMMA ApplyMigrateKeeps ==
  ASSUME IInv, NEW c \in flight, ApplyMigrate(c)
  PROVE  IInv'
<1> USE DEF IInv
<1>1. /\ c.op = "migrate" /\ schema' = c.sha /\ Answered(c, "validate")
      /\ UNCHANGED <<main, gate, inside, live, stale, ledger, checked>>
  BY AnsweredWhenOk DEF ApplyMigrate
<1>2. c.sha \in Commits /\ c # None BY <1>1, CutoverAssumption DEF TypeOK, Command
<1>3. \/ awaits = c /\ pc = "migrating" /\ pc' = "validate" /\ awaits' = None
      \/ pc \in Early /\ UNCHANGED <<pc, awaits>>
  BY <1>1, <1>2, OneChange, OnlyWaitersAwait DEF Answered, WaitInv, Waiting, Early
<1>4. TypeOK' BY <1>1, <1>2, <1>3 DEF TypeOK, Answered, Phases
<1>5. StampInv' /\ ChangeInv' /\ OpenInv' /\ SiteInv' /\ DeadInv' /\ WaitInv'
  BY <1>1, ChangingKeeps
<1>6. RunInv'
  BY <1>1, <1>3, SamePlan
  DEF RunInv, Answered, Early, Planning, Closing, Behind, Settling
<1>7. BaseInv'
  BY <1>1, <1>3, SamePlan
  DEF BaseInv, Answered, Early, Planning, Closing, Behind, Settling, ClosedFor
<1>8. DataInv'
  <2>1. \A d \in flight' : d.op # "migrate" BY <1>1 DEF Answered, ChangeInv
  <2>2. QED BY <2>1, <1>3 DEF DataInv, Early
<1>9. LedgerInv' BY <1>1, <1>3 DEF LedgerInv, BaselineWasChecked, Answered
<1>10. QED BY <1>4, <1>5, <1>6, <1>7, <1>8, <1>9

LEMMA ApplyPromoteKeeps ==
  ASSUME IInv, NEW c \in flight, ApplyPromote(c)
  PROVE  IInv'
<1> DEFINE p == IF c.worker = "web" THEN "promoteApi" ELSE "readBack"
<1> USE DEF IInv
<1>1. /\ c.op = "promote" /\ live' = [live EXCEPT ![c.worker] = c.version] /\ Answered(c, p)
      /\ UNCHANGED <<main, gate, inside, schema, stale, ledger, checked>>
  BY AnsweredWhenOk DEF ApplyPromote
<1>2. c.worker \in Workers /\ c.version \in Version /\ c # None
  BY <1>1, CutoverAssumption DEF TypeOK, Command
<1>3. \/ /\ awaits = c /\ pc' = p /\ awaits' = None /\ prepared[c.worker] = c.version
         /\ \/ c.worker = "web" /\ pc = "promotingWeb"
            \/ c.worker = "backend" /\ pc = "promotingApi"
      \/ pc \in Early /\ UNCHANGED <<pc, awaits>>
  BY <1>1, <1>2, OneChange, OnlyWaitersAwait DEF Answered, WaitInv, Waiting, Early, Workers
<1>4. live' \in Pair /\ live'[c.worker] = c.version
      /\ \A w \in Workers : w # c.worker => live'[w] = live[w]
  BY <1>1, <1>2 DEF TypeOK, Pair
<1>5. TypeOK' BY <1>1, <1>3, <1>4 DEF TypeOK, Answered, Phases
<1>6. StampInv' /\ ChangeInv' /\ OpenInv' /\ SiteInv' /\ DeadInv' /\ WaitInv'
  BY <1>1, ChangingKeeps
<1>7. RunInv'
  BY <1>1, <1>3, SamePlan
  DEF RunInv, Answered, Early, Planning, Closing, Behind, Settling
<1>8. BaseInv'
  <2>1. CASE pc \in Early /\ UNCHANGED <<pc, awaits>>
    BY <2>1 DEF BaseInv, Early, Planning, Closing, Behind, Settling
  <2>2. CASE pc \notin Early
    <3>1. c.version # None /\ Deployed[c.worker] = c.version
      BY <2>2, <1>2, <1>3, CutoverAssumption DEF Deployed
    <3>2. QED
      BY <2>2, <3>1, <1>1, <1>3, <1>4, SamePlan, SameSchema
      DEF BaseInv, Answered, Early, Planning, Closing, Behind, Settling, ClosedFor, Workers
  <2>3. QED BY <2>1, <2>2, <1>3 DEF Early
<1>9. DataInv' BY <1>1, <1>3 DEF DataInv, Answered, Early
<1>10. LedgerInv' BY <1>1, <1>3 DEF LedgerInv, BaselineWasChecked, Answered
<1>11. QED BY <1>5, <1>6, <1>7, <1>8, <1>9, <1>10

LEMMA ApplyPointKeeps ==
  ASSUME IInv, NEW c \in flight, ApplyPoint(c)
  PROVE  IInv'
<1> USE SamePlan, SameSchema DEF IInv
<1>1. /\ c.op = "point" /\ stale' = FALSE /\ Answered(c, "migrate")
      /\ UNCHANGED <<main, gate, inside, live, schema, ledger, checked>>
  BY AnsweredWhenOk DEF ApplyPoint
<1>2. c # None BY CutoverAssumption DEF TypeOK
<1>3. \/ awaits = c /\ pc = "pointing" /\ pc' = "migrate" /\ awaits' = None
      \/ awaits # c /\ UNCHANGED <<pc, awaits>>
  BY <1>1, <1>2 DEF Answered, WaitInv
<1>4. TypeOK' BY <1>1, <1>3 DEF TypeOK, Answered, Phases
<1>5. RunInv'
  BY <1>1, <1>3 DEF RunInv, Answered, Early, Planning, Closing, Behind, Settling
<1>6. WaitInv' BY <1>1, <1>3 DEF WaitInv, Answered
<1>7. StampInv' BY <1>1 DEF StampInv, Answered
<1>8. \A d \in flight' : d \in flight /\ d # c /\ (Fenced(d)' <=> Fenced(d))
  BY <1>1 DEF Answered, Fenced
<1>9. ChangeInv' BY <1>1, <1>3, <1>8 DEF ChangeInv, Early
<1>10. OpenInv'
  BY <1>1, <1>3, <1>8 DEF OpenInv, OpenPending, Early
<1>11. SiteInv' BY <1>1 DEF SiteInv
<1>12. BaseInv'
  BY <1>1, <1>3
  DEF BaseInv, Answered, Early, Planning, Closing, Behind, Settling, ClosedFor
<1>13. DataInv' BY <1>1 DEF DataInv
<1>14. LedgerInv' BY <1>1, <1>3 DEF LedgerInv, BaselineWasChecked, Answered
<1>15. DeadInv' BY <1>1, <1>3, <1>8 DEF DeadInv, Dead, FailedRuns, Answered, Early
<1>16. QED
  BY <1>4, <1>5, <1>6, <1>7, <1>9, <1>10, <1>11, <1>12, <1>13, <1>14, <1>15

LEMMA ApplyOpenKeeps ==
  ASSUME IInv, NEW c \in flight, ApplyOpen(c)
  PROVE  IInv'
<1>1. CASE ~OpenMatches(c)
  <2>1. Answer(c, FALSE, "opened") /\ UNCHANGED <<world, checked>>
    BY <1>1 DEF ApplyOpen, OpenMatches, Answer, world
  <2>2. QED BY <2>1, RefusalKeeps
<1>2. CASE OpenMatches(c)
  <2> USE SamePlan, SameSchema DEF IInv
  <2>1. /\ gate' = [mode |-> "open", target |-> c.sha, changedAt |-> c.at, pair |-> c.pair]
        /\ c.op = "open" /\ Answered(c, "opened")
        /\ UNCHANGED <<main, site, ledger, checked>>
    BY <1>2, AnsweredWhenOk DEF ApplyOpen
  <2>2. /\ c.sha \in Commits /\ c.at \in Nat /\ c.pair \in Pair /\ c # None
    BY <2>1, CutoverAssumption DEF TypeOK, Command
  <2>3. Fenced(c) BY <1>2, <2>1 DEF OpenMatches, Fenced
  <2>4. /\ c.pair = live /\ Expects(c.sha)
        /\ \A w \in Workers : Expects(live[w].src)
        /\ pc \in OpenPending /\ (pc = "opening" => awaits = c)
    BY <2>3 DEF OpenInv
  <2>5. /\ pc' \in Early \cup {"opened", "reclose", "reclosing"}
        /\ \/ awaits = c /\ pc = "opening" /\ pc' = "opened" /\ awaits' = None
           \/ awaits # c /\ UNCHANGED <<pc, awaits>>
    BY <2>1, <2>2, <2>4 DEF Answered, WaitInv, OpenPending
  <2>6. /\ flight' = flight \ {c}
        /\ UNCHANGED <<result, sha, base, prepared, closure, clock, uploads>>
    BY <2>1 DEF Answered
  <2>7. TypeOK'
    BY <2>1, <2>2, <2>5, <2>6
    DEF TypeOK, GateRow, site, Phases, OpenPhase, Reclosing, Early
  <2>8. RunInv'
    BY <2>5, <2>6 DEF RunInv, Early, Planning, Closing, Behind, Settling
  <2>9. WaitInv' BY <2>5, <2>6 DEF WaitInv
  <2>10. StampInv' BY <2>1, <2>6 DEF StampInv
  <2>11. ChangeInv' BY <2>3, <2>6 DEF ChangeInv
  <2>12. OpenInv' BY <2>1 DEF OpenInv, Fenced
  <2>13. SiteInv' BY <2>1, <2>4 DEF SiteInv, site
  <2>14. BaseInv'
    BY <2>5 DEF BaseInv, Early, Planning, Closing, Behind, Settling
  <2>15. DataInv' BY <2>1, <2>5, <2>6 DEF DataInv, site, Early
  <2>16. LedgerInv' BY <2>1, <2>5, <2>6 DEF LedgerInv, BaselineWasChecked
  <2>17. DeadInv' BY <2>3, <2>6 DEF DeadInv, Dead, FailedRuns
  <2>18. QED
    BY <2>7, <2>8, <2>9, <2>10, <2>11, <2>12, <2>13, <2>14, <2>15, <2>16, <2>17
<1>3. QED BY <1>1, <1>2

LEMMA ApplyDeploymentKeeps ==
  ASSUME IInv, NEW c \in flight, ApplyDeployment(c)
  PROVE  IInv'
<1> USE SamePlan, SameSchema DEF IInv, site
<1> DEFINE d == [sha |-> c.sha, pair |-> c.pair, ok |-> FALSE]
<1>1. /\ c.op = "deployment" /\ ledger' = Append(ledger, d) /\ Answered(c, "status")
      /\ UNCHANGED <<main, gate, site, checked>>
  BY AnsweredWhenOk DEF ApplyDeployment
<1>2. c # None /\ d \in Deployment
  BY <1>1, CutoverAssumption DEF TypeOK, Command, Deployment
<1>3. \/ awaits = c /\ pc = "recording" /\ pc' = "status" /\ awaits' = None
      \/ awaits # c /\ UNCHANGED <<pc, awaits>>
  BY <1>1, <1>2 DEF Answered, WaitInv
<1>4. ledger \in Seq(Deployment) BY DEF TypeOK
<1>5. /\ ledger' \in Seq(Deployment) /\ ledger' # <<>>
      /\ \A i \in DOMAIN ledger : i \in DOMAIN ledger' /\ ledger'[i] = ledger[i]
      /\ \A i \in DOMAIN ledger' : i \in DOMAIN ledger \/ ledger'[i] = d
  BY <1>1, <1>2, <1>4
<1>6. d.ok = FALSE OBVIOUS
<1> HIDE DEF d
<1>7. TypeOK' BY <1>1, <1>3, <1>5 DEF TypeOK, Answered, Phases, OpenPhase
<1>8. RunInv'
  BY <1>1, <1>3 DEF RunInv, Answered, Early, Planning, Closing, Behind, Settling
<1>9. WaitInv' BY <1>1, <1>3 DEF WaitInv, Answered
<1>10. StampInv' BY <1>1 DEF StampInv, Answered
<1>11. \A e \in flight' : e \in flight /\ e # c /\ (Fenced(e)' <=> Fenced(e))
  BY <1>1 DEF Answered, Fenced
<1>12. ChangeInv' BY <1>1, <1>3, <1>11 DEF ChangeInv, Early
<1>13. OpenInv' BY <1>1, <1>3, <1>11 DEF OpenInv, OpenPending, Early
<1>14. SiteInv' BY <1>1 DEF SiteInv
<1>15. BaseInv'
  BY <1>1, <1>3
  DEF BaseInv, Answered, Early, Planning, Closing, Behind, Settling, ClosedFor
<1>16. DataInv' BY <1>1, <1>3 DEF DataInv, Answered
<1>17. LedgerInv'
  BY <1>1, <1>3, <1>5, <1>6, <1>11 DEF LedgerInv, BaselineWasChecked, Answered
<1>18. DeadInv' BY <1>1, <1>3, <1>11 DEF DeadInv, Dead, FailedRuns, Answered, Early
<1>19. QED
  BY <1>7, <1>8, <1>9, <1>10, <1>12, <1>13, <1>14, <1>15, <1>16, <1>17, <1>18

LEMMA ApplyStatusKeeps ==
  ASSUME IInv, NEW c \in flight, ApplyStatus(c)
  PROVE  IInv'
<1> USE DEF IInv
<1>1. /\ c.op = "status" /\ ledger' = [ledger EXCEPT ![c.entry].ok = TRUE]
      /\ flight' = flight \ {c}
      /\ UNCHANGED <<main, gate, site, clock, uploads, checked>>
      /\ \/ awaits = c /\ End("released")
         \/ awaits # c /\ UNCHANGED <<result, runVars>>
  BY DEF ApplyStatus
<1>2. c # None /\ c.entry \in DOMAIN ledger /\ ledger[c.entry].sha \in checked
  BY <1>1, CutoverAssumption DEF LedgerInv, TypeOK
<1>3. ledger \in Seq(Deployment) /\ ledger # <<>> BY DEF TypeOK, LedgerInv
<1>4. ledger[c.entry] \in Deployment BY <1>2, <1>3
<1>5. ledger' = [ledger EXCEPT ![c.entry] = [ledger[c.entry] EXCEPT !.ok = TRUE]] BY <1>1
<1>6. [ledger[c.entry] EXCEPT !.ok = TRUE] \in Deployment BY <1>4 DEF Deployment
<1>7. ledger' \in Seq(Deployment) /\ ledger' # <<>> BY <1>2, <1>3, <1>5, <1>6
<1>8. DOMAIN ledger' = DOMAIN ledger
      /\ \A i \in DOMAIN ledger : /\ ledger'[i].sha = ledger[i].sha
                                  /\ i # c.entry => ledger'[i] = ledger[i]
  BY <1>2, <1>3, <1>4, <1>5 DEF Deployment
<1>9. LedgerInv'
  <2>1. /\ \A i \in DOMAIN ledger' : ledger'[i].ok => ledger'[i].sha \in checked'
        /\ \A d \in flight' : d.op = "status" =>
             d.entry \in DOMAIN ledger' /\ ledger'[d.entry].sha \in checked'
    BY <1>1, <1>2, <1>8 DEF LedgerInv
  <2>2. pc' = "idle" \/ UNCHANGED <<pc, sha, base>> BY <1>1 DEF End, runVars
  <2>3. QED BY <2>1, <2>2, <1>1, <1>7 DEF LedgerInv, BaselineWasChecked
<1>10. CASE awaits = c
  <2>1. pc = "reporting" BY <1>1, <1>2, <1>10 DEF WaitInv
  <2>2. End("released") BY <1>1, <1>10
  <2>3. Stopped BY <2>2 DEF Stopped, Outcomes
  <2>4. Still BY <1>1, <1>7, <1>9 DEF Still
  <2>5. QED BY <1>1, <2>1, <2>3, <2>4, StoppingKeeps
<1>11. CASE awaits # c
  <2> USE SamePlan, SameSchema DEF site, runVars
  <2>1. UNCHANGED <<result, runVars>> BY <1>1, <1>11
  <2>2. TypeOK' /\ RunInv' /\ WaitInv'
    BY <1>1, <1>7, <2>1 DEF TypeOK, RunInv, WaitInv, Early, Planning, Closing, Behind, Settling
  <2>3. \A d \in flight' : Fenced(d)' <=> Fenced(d) BY <1>1 DEF Fenced
  <2>4. StampInv' /\ ChangeInv' /\ OpenInv'
    BY <1>1, <2>1, <2>3 DEF StampInv, ChangeInv, OpenInv
  <2>5. SiteInv' BY <1>1 DEF SiteInv
  <2>6. BaseInv'
    BY <1>1, <2>1 DEF BaseInv, Early, Planning, Closing, Behind, Settling, ClosedFor
  <2>7. DataInv' BY <1>1, <2>1 DEF DataInv
  <2>8. DeadInv' BY <1>1, <2>1, <2>3 DEF DeadInv, Dead, FailedRuns
  <2>9. QED BY <1>9, <2>2, <2>4, <2>5, <2>6, <2>7, <2>8
<1>12. QED BY <1>10, <1>11

-----------------------------------------------------------------------------
(* Everybody else.                                                          *)

LEMMA VisitorsKeep ==
  ASSUME IInv, NEW q \in Requests, Enter(q) \/ Write(q) \/ Leave(q)
  PROVE  IInv'
<1> USE SamePlan, SameSchema DEF IInv, runVars
<1>1. UNCHANGED <<main, gate, live, schema, ledger, clock, uploads, flight, result,
                  runVars, checked>>
  BY DEF Enter, Write, Leave
<1>2. \/ gate.mode = "open" /\ inside' \subseteq inside \cup {q} /\ UNCHANGED stale
      \/ inside # {} /\ inside' \subseteq inside /\ stale' \in {stale, TRUE}
  BY DEF Enter, Write, Leave
<1>3. TypeOK' BY <1>1, <1>2 DEF TypeOK
<1>4. RunInv' /\ WaitInv'
  BY <1>1 DEF RunInv, WaitInv, Early, Planning, Closing, Behind, Settling
<1>5. \A d \in flight' : Fenced(d)' <=> Fenced(d) BY <1>1 DEF Fenced
<1>6. StampInv' /\ OpenInv' BY <1>1, <1>5 DEF StampInv, OpenInv
<1>7. ChangeInv'
  <2>1. \A d \in flight : d.op \in {"migrate", "promote"} => inside' = {}
    BY <1>2 DEF ChangeInv
  <2>2. QED BY <1>1, <1>5, <2>1 DEF ChangeInv
<1>8. SiteInv' BY <1>1 DEF SiteInv
<1>9. BaseInv'
  <2>1. pc \in (Behind \ {"drain"}) \cup Settling => inside' = {}
    BY <1>2 DEF BaseInv, ClosedFor
  <2>2. QED
    BY <1>1, <2>1 DEF BaseInv, Early, Planning, Closing, Behind, Settling, ClosedFor
<1>10. DataInv'
  <2>1. CASE UNCHANGED stale BY <1>1, <2>1 DEF DataInv
  <2>2. CASE inside # {}
    BY <1>1, <2>2 DEF DataInv, BaseInv, ChangeInv, Behind
  <2>3. QED BY <1>2, <2>1, <2>2
<1>11. LedgerInv' BY <1>1 DEF LedgerInv, BaselineWasChecked
<1>12. DeadInv' BY <1>1, <1>5 DEF DeadInv, Dead, FailedRuns
<1>13. QED
  BY <1>3, <1>4, <1>6, <1>7, <1>8, <1>9, <1>10, <1>11, <1>12

LEMMA PushKeeps ==
  ASSUME IInv, Push
  PROVE  IInv'
<1> USE SamePlan, SameSchema DEF IInv, runVars, site
<1>1. /\ main < MaxCommit /\ main' = main + 1
      /\ result' = [result EXCEPT ![main + 1] = "queued"]
      /\ UNCHANGED <<gate, site, ledger, clock, uploads, flight, runVars, checked>>
  BY DEF Push
<1>2. result' \in [1..MaxCommit -> Outcomes] /\ FailedRuns' \subseteq FailedRuns
  BY <1>1, CutoverAssumption DEF TypeOK, Outcomes, FailedRuns, Commits
<1>3. TypeOK' BY <1>1, <1>2, CutoverAssumption DEF TypeOK, Commits
<1>4. RunInv' /\ WaitInv'
  BY <1>1 DEF RunInv, WaitInv, Early, Planning, Closing, Behind, Settling
<1>5. \A d \in flight' : Fenced(d)' <=> Fenced(d) BY <1>1 DEF Fenced
<1>6. StampInv' /\ ChangeInv' /\ OpenInv'
  BY <1>1, <1>5 DEF StampInv, ChangeInv, OpenInv
<1>7. SiteInv' BY <1>1 DEF SiteInv
<1>8. BaseInv'
  BY <1>1 DEF BaseInv, Early, Planning, Closing, Behind, Settling, ClosedFor
<1>9. DataInv' /\ LedgerInv' BY <1>1 DEF DataInv, LedgerInv, BaselineWasChecked
<1>10. DeadInv' BY <1>1, <1>2, <1>5 DEF DeadInv, Dead
<1>11. QED BY <1>3, <1>4, <1>6, <1>7, <1>8, <1>9, <1>10

-----------------------------------------------------------------------------
(* Every step keeps the invariant.                                          *)

LEMMA RunKeeps ==
  ASSUME IInv, RunNext
  PROVE  IInv'
<1>1. CASE \E c \in 1..MaxCommit : Start(c) BY <1>1, StartKeeps
<1>2. CASE ReadBaseline \/ ReadLedger BY <1>2, ReadBaselineKeeps, ReadLedgerKeeps
<1>3. CASE CheckHead("head", "verify") \/ CheckHead("headAgain", "recheck")
  BY <1>3, HeadKeeps
<1>4. CASE CheckGate("verify", "preflight") \/ CheckGate("recheck", "close") \/ Preflight
  BY <1>4, GateChecksKeep
<1>5. CASE Prepare BY <1>5, PrepareKeeps
<1>6. CASE SendClose("close", "closing") \/ SendClose("reclose", "reclosing")
  BY <1>6, SendCloseKeeps
<1>7. CASE ReadClosure \/ Drain BY <1>7, ReadClosureKeeps, DrainKeeps
<1>8. CASE SendPoint \/ SendMigrate \/ Validate
  BY <1>8, SendPointKeeps, SendMigrateKeeps, ValidateKeeps
<1>9. CASE \/ Promote("web", "promoteWeb", "promotingWeb", "promoteApi")
           \/ Promote("backend", "promoteApi", "promotingApi", "readBack")
  BY <1>9, PromoteKeeps
<1>10. CASE ReadBack \/ Smoke \/ ReadOpened BY <1>10, LateReadsKeep
<1>11. CASE SendOpen \/ PublicCheck \/ SendDeployment \/ SendStatus
  BY <1>11, SendOpenKeeps, PublicCheckKeeps, SendDeploymentKeeps, SendStatusKeeps
<1>12. CASE ReadReclosed BY <1>12, ErrorKeeps DEF ReadReclosed
<1>13. CASE Fail BY <1>13, ErrorKeeps DEF Fail
<1>14. CASE Kill BY <1>14, ErrorKeeps DEF Kill, Outcomes
<1>15. QED
  BY <1>1, <1>2, <1>3, <1>4, <1>5, <1>6, <1>7, <1>8, <1>9, <1>10, <1>11, <1>12,
     <1>13, <1>14
  DEF RunNext

LEMMA Keeps == IInv /\ [Next]_vars => IInv'
<1> SUFFICES ASSUME IInv, [Next]_vars PROVE IInv' OBVIOUS
<1>1. CASE RunNext BY <1>1, RunKeeps
<1>2. CASE FlightNext
  <2>1. PICK c \in flight :
          \/ ApplyClose(c) \/ ApplyPoint(c) \/ ApplyMigrate(c) \/ ApplyPromote(c)
          \/ ApplyOpen(c) \/ ApplyDeployment(c) \/ ApplyStatus(c) \/ Lose(c)
    BY <1>2 DEF FlightNext
  <2>2. CASE Lose(c) BY <2>2, LosingKeeps DEF Lose
  <2>3. QED
    BY <2>1, <2>2, ApplyCloseKeeps, ApplyPointKeeps, ApplyMigrateKeeps,
       ApplyPromoteKeeps, ApplyOpenKeeps, ApplyDeploymentKeeps, ApplyStatusKeeps
<1>3. CASE VisitorNext BY <1>3, VisitorsKeep DEF VisitorNext
<1>4. CASE Push BY <1>4, PushKeeps
<1>5. CASE UNCHANGED vars BY <1>5, LosingKeeps DEF vars
<1>6. QED BY <1>1, <1>2, <1>3, <1>4, <1>5 DEF Next

THEOREM InductiveInvariant == Spec => []IInv
BY Starts, Keeps, PTL DEF Spec

-----------------------------------------------------------------------------
(* What follows.                                                            *)

\* Types: every variable of the release keeps its type.
THEOREM TypeCorrect == Spec => []TypeOK
<1>1. IInv => TypeOK BY DEF IInv
<1>2. QED BY <1>1, InductiveInvariant, PTL

\* While the site is open the Workers serve exactly what the gate publishes,
\* and each was built for the schema the database has: whatever command of
\* whatever run is late, lost or refused.
THEOREM OpenSitesFit == Spec => []OpenSiteFits
<1>1. IInv => OpenSiteFits BY DEF IInv, SiteInv, OpenSiteFits
<1>2. QED BY <1>1, InductiveInvariant, PTL

\* readProductionBaseline: a release is only ever planned against a commit
\* whose public check passed.
THEOREM BaselinesWereChecked == Spec => []BaselineWasChecked
<1>1. IInv => BaselineWasChecked BY DEF IInv, LedgerInv
<1>2. QED BY <1>1, InductiveInvariant, PTL

\* createNeonRecoveryPoint and applyPendingMigrations: a breaking migration is
\* applied only to data that its recovery point has.
THEOREM PointsHaveTheData == Spec => PointHasTheData
<1>1. ASSUME IInv, Next, schema' # schema,
             \E c \in schema + 1 .. schema' : Migration[c] = "breaking"
      PROVE  ~stale
  <2>1. PICK c \in flight : ApplyMigrate(c)
    <3>1. CASE FlightNext
      BY <3>1, <1>1
      DEF FlightNext, ApplyClose, ApplyPoint, ApplyPromote, ApplyOpen, ApplyDeployment,
          ApplyStatus, Lose, site, world
    <3>2. ~RunNext
      <4>1. RunNext => UNCHANGED schema
        BY DEF RunNext, Start, ReadBaseline, ReadLedger, CheckHead, CheckGate, Preflight,
               Prepare, SendClose, ReadClosure, Drain, SendPoint, SendMigrate, Validate,
               Promote, ReadBack, Smoke, SendOpen, ReadOpened, PublicCheck,
               SendDeployment, SendStatus, ReadReclosed, Fail, Kill, Check, Send, world,
               site
      <4>2. QED BY <4>1, <1>1
    <3>3. ~VisitorNext /\ ~Push
      BY <1>1 DEF VisitorNext, Enter, Write, Leave, Push, site
    <3>4. QED BY <1>1, <3>1, <3>2, <3>3 DEF Next
  <2>2. c.op = "migrate" /\ schema' = c.sha BY <2>1 DEF ApplyMigrate
  <2>3. QED BY <1>1, <2>2 DEF IInv, DataInv
<1>2. IInv /\ [Next]_vars =>
        [schema' # schema /\ (\E c \in schema + 1 .. schema' : Migration[c] = "breaking")
           => ~stale]_vars
  BY <1>1
<1>3. QED BY <1>2, InductiveInvariant, PTL DEF Spec, PointHasTheData

\* A closed gate that nothing will open stays so: a new run finds it closed
\* and stops, and no open command is fenced by it.
LEMMA DeadStays == IInv /\ Dead /\ [Next]_vars => Dead'
<1> SUFFICES ASSUME IInv, Dead, [Next]_vars PROVE Dead' OBVIOUS
<1> USE DEF IInv
<1>1. awaits = None BY OnlyWaitersAwait DEF Dead, Waiting, Early
<1>2. \A c \in flight : c # None BY CutoverAssumption DEF TypeOK
<1>3. CASE RunNext
  <2>1. UNCHANGED <<gate, flight>> /\ pc' \in Early
    <3>1. CASE \E c \in 1..MaxCommit : Start(c)
      BY <3>1 DEF Start, Go, world, Early
    <3>2. CASE ReadBaseline
      BY <3>2 DEF ReadBaseline, Throw, End, OpenPhase, Reclosing, world, Dead, Early
    <3>3. CASE Fail
      BY <3>3 DEF Fail, Throw, End, OpenPhase, Reclosing, world, Dead, Early
    <3>4. CASE Kill BY <3>4 DEF Kill, End, world, Early
    <3>5. QED
      BY <1>3, <3>1, <3>2, <3>3, <3>4
      DEF RunNext, ReadLedger, CheckHead, CheckGate, Preflight, Prepare, SendClose,
          ReadClosure, Drain, SendPoint, SendMigrate, Validate, Promote, ReadBack, Smoke,
          SendOpen, ReadOpened, PublicCheck, SendDeployment, SendStatus, ReadReclosed,
          Dead, Early
  <2>2. QED BY <2>1 DEF Dead, Fenced
<1>4. CASE FlightNext
  <2>1. PICK c \in flight :
          \/ ApplyClose(c) \/ ApplyPoint(c) \/ ApplyMigrate(c) \/ ApplyPromote(c)
          \/ ApplyOpen(c) \/ ApplyDeployment(c) \/ ApplyStatus(c) \/ Lose(c)
    BY <1>4 DEF FlightNext
  <2>2. awaits # c BY <1>1, <1>2
  <2>3. flight' = flight \ {c} /\ pc' = pc
    BY <2>1, <2>2
    DEF ApplyClose, ApplyPoint, ApplyMigrate, ApplyPromote, ApplyOpen, ApplyDeployment,
        ApplyStatus, Lose, Answer, runVars
  <2>4. CASE ApplyClose(c) /\ gate' # gate
    <3>1. c.op = "close"
          /\ gate' = [gate EXCEPT !.mode = "maintenance", !.target = c.sha, !.changedAt = c.at]
      BY <2>4 DEF ApplyClose
    <3>2. gate'.mode = "maintenance" /\ gate'.changedAt = c.at BY <3>1 DEF TypeOK, GateRow
    <3>3. \A d \in flight' : ~Fenced(d)' BY <3>1, <3>2, <2>3 DEF StampInv, Fenced
    <3>4. QED BY <2>3, <3>2, <3>3 DEF Dead
  <2>5. CASE UNCHANGED gate BY <2>3, <2>5 DEF Dead, Fenced
  <2>6. ~(ApplyOpen(c) /\ gate' # gate)
    BY DEF ApplyOpen, OpenMatches, Dead, Fenced
  <2>7. QED
    BY <2>1, <2>4, <2>5, <2>6
    DEF ApplyPoint, ApplyMigrate, ApplyPromote, ApplyDeployment, ApplyStatus, Lose, world
<1>5. CASE VisitorNext
  BY <1>5 DEF VisitorNext, Enter, Write, Leave, runVars, Dead, Fenced
<1>6. CASE Push BY <1>6 DEF Push, runVars, Dead, Fenced
<1>7. CASE UNCHANGED vars BY <1>7 DEF vars, world, runVars, Dead, Fenced
<1>8. QED BY <1>3, <1>4, <1>5, <1>6, <1>7 DEF Next

\* runLiveRelease: a failed release that reports a closed site leaves it
\* closed for good.
THEOREM FailuresStayClosed == Spec => FailureStaysClosed
<1>1. IInv /\ (\E c \in 1..MaxCommit : result[c] \in {"closed", "reclosed"}) => Dead
  BY DEF IInv, DeadInv, FailedRuns
<1>2. Dead => gate.mode = "maintenance" BY DEF Dead
<1>3. QED
  BY <1>1, <1>2, DeadStays, InductiveInvariant, PTL DEF Spec, FailureStaysClosed

-----------------------------------------------------------------------------
(* The cutover is a maintained site.                                        *)

LEMMA SiteStarts == Init => Site!Init
<1> SUFFICES ASSUME Init PROVE Site!Init OBVIOUS
<1>1. gate.mode = "open" /\ inside = {} /\ schema = 0
      /\ live["web"].src = 0 /\ live["backend"].src = 0
  BY DEF Init, First, Workers
<1>2. QED BY <1>1 DEF Site!Init, Fit

\* What the site's variables are made of.
Shown == <<gate, inside, live, schema>>

LEMMA ShownStays == UNCHANGED Shown => UNCHANGED Site!siteVars
BY DEF Shown, Site!siteVars

LEMMA RunsAreUnseen == RunNext => UNCHANGED Shown
BY DEF RunNext, Start, ReadBaseline, ReadLedger, CheckHead, CheckGate, Preflight,
       Prepare, SendClose, ReadClosure, Drain, SendPoint, SendMigrate, Validate,
       Promote, ReadBack, Smoke, SendOpen, ReadOpened, PublicCheck,
       SendDeployment, SendStatus, ReadReclosed, Fail, Kill, Check, Send, world,
       site, Shown

LEMMA SiteSteps == IInv /\ [Next]_vars => [Site!Next]_Site!siteVars
<1> SUFFICES ASSUME IInv, [Next]_vars PROVE [Site!Next]_Site!siteVars OBVIOUS
<1> USE DEF IInv
<1>1. CASE RunNext BY <1>1, RunsAreUnseen, ShownStays
<1>2. CASE FlightNext
  <2>1. PICK c \in flight :
          \/ ApplyClose(c) \/ ApplyPoint(c) \/ ApplyMigrate(c) \/ ApplyPromote(c)
          \/ ApplyOpen(c) \/ ApplyDeployment(c) \/ ApplyStatus(c) \/ Lose(c)
    BY <1>2 DEF FlightNext
  <2>2. CASE ApplyClose(c)
    <3>1. gate' = gate \/ gate'.mode = "maintenance"
      BY <2>2 DEF ApplyClose, TypeOK, GateRow
    <3>2. UNCHANGED <<inside, live, schema>> BY <2>2 DEF ApplyClose, site
    <3>3. CASE gate' = gate BY <3>2, <3>3, ShownStays DEF Shown
    <3>4. CASE gate'.mode = "maintenance" /\ gate.mode = "open"
      BY <3>2, <3>4 DEF Site!Next, Site!Close
    <3>5. CASE gate'.mode = "maintenance" /\ gate.mode # "open"
      BY <3>2, <3>5 DEF Site!siteVars
    <3>6. QED BY <3>1, <3>3, <3>4, <3>5
  <2>3. CASE ApplyMigrate(c)
    <3>1. gate.mode = "maintenance" /\ inside = {} BY <2>3, OneChange DEF ApplyMigrate
    <3>2. UNCHANGED <<gate, inside, live>> BY <2>3 DEF ApplyMigrate
    <3>3. QED BY <3>1, <3>2 DEF Site!Next, Site!Replace
  <2>4. CASE ApplyPromote(c)
    <3>1. gate.mode = "maintenance" /\ inside = {} BY <2>4, OneChange DEF ApplyPromote
    <3>2. UNCHANGED <<gate, inside, schema>> BY <2>4 DEF ApplyPromote
    <3>3. UNCHANGED live["web"] \/ UNCHANGED live["backend"]
      BY <2>4 DEF ApplyPromote, TypeOK, Pair, Workers
    <3>4. QED BY <3>1, <3>2, <3>3 DEF Site!Next, Site!Replace
  <2>5. CASE ApplyOpen(c) /\ OpenMatches(c)
    <3>1. gate.mode = "maintenance" /\ inside = {} /\ Fenced(c)
      BY <2>5 DEF ApplyOpen, OpenMatches, Fenced
    <3>2. Expects(live["web"].src) /\ Expects(live["backend"].src)
      BY <3>1 DEF OpenInv, Workers
    <3>3. gate'.mode = "open" /\ UNCHANGED <<inside, live, schema>>
      BY <2>5 DEF ApplyOpen, site
    <3>4. QED BY <3>1, <3>2, <3>3 DEF Site!Next, Site!Open, Fit, Expects
  <2>6. CASE ApplyPoint(c) \/ ApplyDeployment(c) \/ ApplyStatus(c) \/ Lose(c)
             \/ (ApplyOpen(c) /\ ~OpenMatches(c))
    <3>1. UNCHANGED Shown
      BY <2>6 DEF ApplyPoint, ApplyDeployment, ApplyStatus, Lose, ApplyOpen, site, world,
                  Shown
    <3>2. QED BY <3>1, ShownStays
  <2>7. QED BY <2>1, <2>2, <2>3, <2>4, <2>5, <2>6
<1>3. CASE VisitorNext
  <2>1. PICK q \in Requests : Enter(q) \/ Write(q) \/ Leave(q) BY <1>3 DEF VisitorNext
  <2>2. CASE Enter(q) BY <2>2 DEF Enter, Site!Next, Site!Enter
  <2>3. CASE Leave(q) BY <2>3 DEF Leave, Site!Next, Site!Leave
  <2>4. CASE Write(q) BY <2>4, ShownStays DEF Write, Shown
  <2>5. QED BY <2>1, <2>2, <2>3, <2>4
<1>4. CASE Push BY <1>4, ShownStays DEF Push, site, Shown
<1>5. CASE UNCHANGED vars BY <1>5, ShownStays DEF vars, world, site, Shown
<1>6. QED BY <1>1, <1>2, <1>3, <1>4, <1>5 DEF Next

\* The whole cutover implements the maintained site: what it runs on is only
\* replaced while it is closed and empty, one thing at a time, and it opens on
\* Workers that fit the schema.
THEOREM ImplementsTheSite == Spec => SiteSpec
BY SiteStarts, SiteSteps, InductiveInvariant, PTL DEF Spec, SiteSpec, Site!Spec
=============================================================================
