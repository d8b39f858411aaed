------------------------- MODULE ReleaseGateProofs -------------------------
(***************************************************************************)
(* Proofs about ReleaseGate for any set of holders, controllers, commits,  *)
(* versions and any bound on the clock.                                    *)
(*                                                                         *)
(* The argument: a lease is inserted only under the row's share lock, which *)
(* is only held while the gate is open (LeaseInv), and a closure can be     *)
(* recognised by its changed_at, because a timestamp belongs to one         *)
(* statement and a statement is applied at most once (TimeInv).  So what a  *)
(* controller saw at a closure is still true while changed_at is the same   *)
(* (SnapshotInv), and an empty lease table stays empty (QuietInv).          *)
(***************************************************************************)
EXTENDS ReleaseGate, TLAPS

\* A holder past the insert owns a lease of its own that is in the table,
\* and the share lock is only ever held on an open gate.
LeaseInv ==
  /\ \A h \in Holders : hs[h] = "sharing" => control.mode = "open"
  /\ \A h \in Holders :
       hs[h] \in {"granted", "working", "streaming", "releasing"} =>
         lease[h] \in leases
  /\ \A h \in Holders : hs[h] \in {"idle", "sharing"} => lease[h] = None
  /\ \A g, h \in Holders : g # h /\ lease[g] # None => lease[g] # lease[h]

\* A statement in flight carries a timestamp no row ever had.
TimeInv ==
  /\ control.changedAt < clock
  /\ \A s \in stmts : s.at < clock /\ s.at # control.changedAt
  /\ \A s, t \in stmts : s.at = t.at => s = t
  /\ \A s \in stmts : s.op = "open" =>
       /\ s.closedAt < s.at
       /\ \A t \in stmts : t.at # s.closedAt
  /\ \A c \in Controllers : \A row \in {seen[c], closure[c]} :
       row # None => /\ row.changedAt < clock
                     /\ \A s \in stmts : s.at # row.changedAt

\* A row seen earlier with the current timestamp is the current row.
SnapshotInv ==
  \A c \in Controllers : \A row \in {seen[c], closure[c]} :
    row # None /\ row.changedAt = control.changedAt => row = control

\* A controller that relies on a closure, and what it may rely on.
Quiet(c) ==
  /\ closure[c] # None => closure[c].mode = "maintenance"
  /\ pc[c] = "drained" =>
       /\ seen[c].mode = "maintenance"
       /\ seen[c].changedAt = control.changedAt => leases = {}
  /\ pc[c] \in {"migrating", "checkCount"} =>
       (closure[c].changedAt = control.changedAt => leases = {} /\ ~disturbed[c])
  /\ pc[c] = "checkCount" =>
       (seen[c].changedAt = closure[c].changedAt => ~disturbed[c])
  /\ pc[c] = "migrated" => ~disturbed[c]

QuietInv == \A c \in Controllers : Quiet(c)

IInv == TypeOK /\ LeaseInv /\ TimeInv /\ SnapshotInv /\ QuietInv

-----------------------------------------------------------------------------
(* Type correctness.                                                        *)

\* Every step of the gate keeps every variable in its type.
LEMMA TypeStep == TypeOK /\ [Next]_vars => TypeOK'
<1> USE GateAssumption DEF TypeOK, PhaseOK, Rest, Phases, Timestamps, holderVars, ctlVars, command
<1> SUFFICES ASSUME TypeOK, [Next]_vars PROVE TypeOK'
  OBVIOUS
<1>1. ASSUME NEW h \in Holders, HolderNext(h) PROVE TypeOK'
  <2>1. CASE AdmitRead(h)    BY <2>1 DEF AdmitRead
  <2>2. CASE AdmitInsert(h)  BY <2>2 DEF AdmitInsert
  <2>3. CASE AdmitReply(h)
    <3>1. disturbed' \in [Controllers -> BOOLEAN]
      BY <2>3, Zenon DEF AdmitReply
    <3>2. QED BY <2>3, <3>1 DEF AdmitReply
  <2>4. CASE StartStream(h)  BY <2>4 DEF StartStream
  <2>5. CASE FinishWork(h)   BY <2>5 DEF FinishWork
  <2>6. CASE Release(h)      BY <2>6 DEF Release
  <2>7. CASE Abandon(h)      BY <2>7 DEF Abandon
  <2>8. QED BY <1>1, <2>1, <2>2, <2>3, <2>4, <2>5, <2>6, <2>7 DEF HolderNext
<1>2. ASSUME NEW s \in stmts, ServerNext(s) PROVE TypeOK'
  <2>0. /\ s \in CloseStmt \cup OpenStmt
        /\ s.by \in Controllers /\ s.at \in Timestamps /\ s.sha \in Shas
    BY DEF CloseStmt, OpenStmt
  <2>1. CASE ApplyClose(s)
    <3>1. control' \in ControlRow
      BY <2>0, <2>1 DEF ApplyClose, ControlRow
    <3>2. /\ pc' \in [Controllers -> Phases]
          /\ waits' \in [Controllers -> Timestamps]
          /\ arg' \in [Controllers -> Shas \cup {None}]
          /\ seen' \in [Controllers -> ControlRow \cup {None}]
      BY <2>0, <2>1 DEF ApplyClose, Finish
    <3>3. \A c \in Controllers : PhaseOK(c)'
      <4> SUFFICES ASSUME NEW c \in Controllers PROVE PhaseOK(c)'
        OBVIOUS
      <4>1. \/ pc'[c] = pc[c] /\ seen'[c] = seen[c] /\ arg'[c] = arg[c]
            \/ pc'[c] \in {"closed", "idle"}
        BY <2>0, <2>1 DEF ApplyClose, Finish
      <4>2. closure' = closure /\ evidence' = evidence
        BY <2>1 DEF ApplyClose
      <4>3. QED BY <4>1, <4>2
    <3>4. QED BY <2>1, <3>1, <3>2, <3>3 DEF ApplyClose
  <2>2. CASE ApplyOpen(s)
    <3>1. control' \in ControlRow
      BY <2>0, <2>2 DEF ApplyOpen, OpenedRow, OpenStmt, CloseStmt, ControlRow, MaybeVersion
    <3>2. QED BY <2>0, <2>2, <3>1 DEF ApplyOpen, Answer, Finish
  <2>3. CASE LoseStmt(s)
    <3>1. \/ UNCHANGED command
          \/ Finish(s.by, "idle")
      BY <2>3 DEF LoseStmt, Answer
    <3>2. \A c \in Controllers : PhaseOK(c)'
      <4>1. CASE UNCHANGED command
        BY <2>3, <4>1 DEF LoseStmt
      <4>2. CASE Finish(s.by, "idle")
        <5> SUFFICES ASSUME NEW c \in Controllers PROVE PhaseOK(c)'
          OBVIOUS
        <5>1. \/ pc'[c] = pc[c] /\ seen'[c] = seen[c] /\ arg'[c] = arg[c]
              \/ pc'[c] = "idle"
          BY <2>0, <4>2 DEF Finish
        <5>2. QED BY <2>3, <5>1 DEF LoseStmt
      <4>3. QED BY <3>1, <4>1, <4>2
    <3>3. QED BY <2>0, <2>3, <3>1, <3>2 DEF LoseStmt, Finish
  <2>4. QED BY <1>2, <2>1, <2>2, <2>3 DEF ServerNext
<1>3. ASSUME NEW c \in Controllers, ControllerNext(c) PROVE TypeOK'
  <2>1. CASE \E sha \in Shas : StartClose(c, sha)
    BY <2>1 DEF StartClose, Begin, Send, Tick, CloseStmt
  <2>2. CASE \E sha \in Shas : StartDrain(c, sha)
    BY <2>2 DEF StartDrain, Begin
  <2>3. CASE CloseStatus(c)
    BY <2>3 DEF CloseStatus, Finish, ClosedFor, ClosedRow
  <2>4. CASE ReadStatus(c)
    BY <2>4 DEF ReadStatus, ClosedRow
  <2>5. CASE \/ StatusRead(c, "drainRead", "drainCount")
             \/ StatusRead(c, "migRead", "migCount")
             \/ StatusRead(c, "migrating", "checkCount")
             \/ StatusRead(c, "openRead", "openCount")
    BY <2>5 DEF StatusRead
  <2>6. CASE DrainCount(c)
    BY <2>6 DEF DrainCount, Finish
  <2>7. CASE StartMigrate(c)
    BY <2>7 DEF StartMigrate, Begin, ControlRow, ClosedRow
  <2>8. CASE MigrateBegin(c)
    <3>1. disturbed' \in [Controllers -> BOOLEAN]
      BY <2>8, Zenon DEF MigrateBegin
    <3>2. QED BY <2>8, <3>1 DEF MigrateBegin, Finish
  <2>9. CASE MigrateEnd(c)
    BY <2>9 DEF MigrateEnd, Finish
  <2>10. CASE Accept(c)
    BY <2>10 DEF Accept, Tick, Evidence, ControlRow, ClosedRow
  <2>11. CASE StartOpen(c)
    BY <2>11 DEF StartOpen, Begin, Evidence
  <2>12. CASE OpenSend(c)
    <3>1. CASE /\ ClosedFor(seen[c], arg[c])
               /\ leases = {}
               /\ ValidEvidence(evidence[c], seen[c])
      <4>1. /\ arg[c] \in Shas
            /\ seen[c].changedAt \in Timestamps
            /\ evidence[c].web \in Versions /\ evidence[c].api \in Versions
        BY <2>12, <3>1 DEF OpenSend, ClosedFor, ControlRow, Evidence
      <4>2. QED BY <2>12, <3>1, <4>1 DEF OpenSend, Send, Tick, OpenStmt
    <3>2. CASE ~ /\ ClosedFor(seen[c], arg[c])
                 /\ leases = {}
                 /\ ValidEvidence(evidence[c], seen[c])
      BY <2>12, <3>2 DEF OpenSend, Finish
    <3>3. QED BY <3>1, <3>2
  <2>13. CASE GiveUp(c)
    BY <2>13 DEF GiveUp, Finish
  <2>14. QED
    BY <1>3, <2>1, <2>2, <2>3, <2>4, <2>5, <2>6, <2>7, <2>8, <2>9, <2>10,
       <2>11, <2>12, <2>13 DEF ControllerNext
<1>4. CASE UNCHANGED vars
  BY <1>4 DEF vars
<1>5. QED BY <1>1, <1>2, <1>3, <1>4 DEF Next

\* The gate's variables keep their types in every behaviour.
THEOREM TypeCorrect == Spec => []TypeOK
<1>1. Init => TypeOK
  BY GateAssumption DEF Init, TypeOK, PhaseOK, StartRow, Rest, Phases, Timestamps
<1>2. QED BY <1>1, TypeStep, PTL DEF Spec

-----------------------------------------------------------------------------
(* Preservation of the invariant's parts.                                   *)

\* What a controller's step leaves alone.
LEMMA ControllerFrame ==
  ASSUME NEW c \in Controllers, ControllerNext(c)
  PROVE  UNCHANGED <<control, holderVars>>
<1> USE DEF holderVars
<1>1. CASE \E sha \in Shas : StartClose(c, sha) \/ StartDrain(c, sha)
  BY <1>1 DEF StartClose, StartDrain
<1>2. CASE \/ StatusRead(c, "drainRead", "drainCount")
           \/ StatusRead(c, "migRead", "migCount")
           \/ StatusRead(c, "migrating", "checkCount")
           \/ StatusRead(c, "openRead", "openCount")
  BY <1>2 DEF StatusRead
<1>3. CASE CloseStatus(c) \/ ReadStatus(c) \/ DrainCount(c) \/ StartMigrate(c)
  BY <1>3 DEF CloseStatus, ReadStatus, DrainCount, StartMigrate
<1>4. CASE MigrateBegin(c) \/ MigrateEnd(c) \/ Accept(c) \/ StartOpen(c)
  BY <1>4 DEF MigrateBegin, MigrateEnd, Accept, StartOpen
<1>5. CASE OpenSend(c) \/ GiveUp(c)
  BY <1>5 DEF OpenSend, GiveUp
<1>6. QED BY <1>1, <1>2, <1>3, <1>4, <1>5 DEF ControllerNext

\* A server step applies or loses one statement.  If it changes the row, the
\* row takes the statement's timestamp, and a close finds no share lock.
LEMMA ServerFrame ==
  ASSUME TypeOK, NEW s \in stmts, ServerNext(s)
  PROVE  /\ stmts' = stmts \ {s}
         /\ UNCHANGED <<holderVars, clock, closure, evidence, disturbed>>
         /\ \A c \in Controllers : seen'[c] \in {seen[c], None}
         /\ \A c \in Controllers :
              \/ pc'[c] = pc[c] /\ seen'[c] = seen[c]
              \/ pc'[c] \in {"closed", "idle"}
         /\ \/ UNCHANGED control
            \/ /\ control'.changedAt = s.at
               /\ control'.mode = "maintenance"
               /\ \A h \in Holders : hs[h] # "sharing"
            \/ /\ control'.changedAt = s.at
               /\ s.op = "open"
               /\ OpenMatches(s)
               /\ control'.mode = "open"
<1> USE DEF TypeOK, holderVars, command
<1>0. s.by \in Controllers
  BY DEF CloseStmt, OpenStmt
<1>1. CASE ApplyClose(s)
  <2>1. \/ UNCHANGED control
        \/ /\ control'.changedAt = s.at
           /\ control'.mode = "maintenance"
           /\ \A h \in Holders : hs[h] # "sharing"
    BY <1>1 DEF ApplyClose, RowUnshared, ControlRow
  <2>2. \A c \in Controllers : seen'[c] \in {seen[c], None}
    BY <1>0, <1>1 DEF ApplyClose, Finish
  <2>3. \A c \in Controllers :
          \/ pc'[c] = pc[c] /\ seen'[c] = seen[c]
          \/ pc'[c] \in {"closed", "idle"}
    BY <1>0, <1>1 DEF ApplyClose, Finish
  <2>4. QED BY <1>1, <2>1, <2>2, <2>3 DEF ApplyClose
<1>2. CASE ApplyOpen(s)
  BY <1>0, <1>2 DEF ApplyOpen, OpenedRow, Answer, Finish
<1>3. CASE LoseStmt(s)
  BY <1>0, <1>3 DEF LoseStmt, Answer, Finish
<1>4. QED BY <1>1, <1>2, <1>3 DEF ServerNext

LEMMA LeaseStep == TypeOK /\ LeaseInv /\ [Next]_vars => LeaseInv'
<1> SUFFICES ASSUME TypeOK, LeaseInv, [Next]_vars PROVE LeaseInv'
  OBVIOUS
<1> USE GateAssumption DEF TypeOK, LeaseInv, holderVars
<1>1. ASSUME NEW h \in Holders, HolderNext(h) PROVE LeaseInv'
  <2>1. CASE AdmitRead(h)    BY <2>1 DEF AdmitRead
  <2>2. CASE AdmitInsert(h)
    <3>1. PICK l \in LeaseIds \ (leases \cup {lease[g] : g \in Holders}) :
            /\ leases' = leases \cup {l}
            /\ lease' = [lease EXCEPT ![h] = l]
      BY <2>2 DEF AdmitInsert
    <3>2. \A g \in Holders : l # lease[g]
      BY <3>1
    <3>3. QED BY <2>2, <3>1, <3>2 DEF AdmitInsert
  <2>3. CASE AdmitReply(h)   BY <2>3 DEF AdmitReply
  <2>4. CASE StartStream(h)  BY <2>4 DEF StartStream
  <2>5. CASE FinishWork(h)   BY <2>5 DEF FinishWork
  <2>6. CASE Release(h)      BY <2>6 DEF Release
  <2>7. CASE Abandon(h)      BY <2>7 DEF Abandon
  <2>8. QED BY <1>1, <2>1, <2>2, <2>3, <2>4, <2>5, <2>6, <2>7 DEF HolderNext
<1>2. ASSUME NEW s \in stmts, ServerNext(s) PROVE LeaseInv'
  <2>1. UNCHANGED <<hs, lease, leases>>
    BY <1>2, ServerFrame
  <2>2. \A h \in Holders : hs[h] = "sharing" => control'.mode = "open"
    BY <1>2, ServerFrame
  <2>3. QED BY <2>1, <2>2
<1>3. ASSUME NEW c \in Controllers, ControllerNext(c) PROVE LeaseInv'
  BY <1>3, ControllerFrame
<1>4. CASE UNCHANGED vars
  BY <1>4 DEF vars
<1>5. QED BY <1>1, <1>2, <1>3, <1>4 DEF Next

LEMMA HolderFrame ==
  ASSUME NEW h \in Holders, HolderNext(h)
  PROVE  UNCHANGED <<control, clock, stmts, ctlVars>>
BY DEF HolderNext, AdmitRead, AdmitInsert, AdmitReply, StartStream, FinishWork,
       Release, Abandon

LEMMA TimeStep == TypeOK /\ TimeInv /\ [Next]_vars => TimeInv'
<1> SUFFICES ASSUME TypeOK, TimeInv, [Next]_vars PROVE TimeInv'
  OBVIOUS
<1> USE GateAssumption DEF TimeInv
<1>0. /\ clock \in Int
      /\ \A s \in stmts : s.at \in Int
      /\ control \in ControlRow /\ control.changedAt \in Int
      /\ \A c \in Controllers : \A row \in {seen[c], closure[c]} :
           row # None => row.changedAt \in Int
  BY DEF TypeOK, ControlRow, ClosedRow, CloseStmt, OpenStmt, Timestamps
<1>00. \A s \in stmts : s.op = "open" => s.closedAt \in Int
  BY DEF TypeOK, CloseStmt, OpenStmt, Timestamps
<1>1. ASSUME NEW h \in Holders, HolderNext(h) PROVE TimeInv'
  BY <1>1, HolderFrame DEF ctlVars
<1>2. ASSUME NEW s \in stmts, ServerNext(s) PROVE TimeInv'
  <2>1. /\ stmts' = stmts \ {s} /\ clock' = clock /\ closure' = closure
        /\ \A c \in Controllers : seen'[c] \in {seen[c], None}
        /\ control'.changedAt \in {control.changedAt, s.at}
    BY <1>2, ServerFrame
  <2>2. QED BY <2>1
<1>3. ASSUME NEW c \in Controllers, ControllerNext(c) PROVE TimeInv'
  <2>0. control' = control
    BY <1>3, ControllerFrame
  <2>1. CASE \E sha \in Shas : StartClose(c, sha)
    BY <1>0, <1>00, <2>0, <2>1 DEF StartClose, Begin, Send, Tick, TypeOK
  <2>2. CASE OpenSend(c)
    <3>1. CASE UNCHANGED <<clock, stmts>>
      BY <2>0, <2>2, <3>1 DEF OpenSend, Finish, Send, TypeOK
    <3>2. CASE Send(c, [op |-> "open", by |-> c, sha |-> arg[c], at |-> clock,
                        closedAt |-> seen[c].changedAt,
                        web |-> evidence[c].web, api |-> evidence[c].api])
      <4>1. seen[c] # None
        BY <2>2 DEF OpenSend, TypeOK, PhaseOK
      <4>2. \A d \in Controllers : seen'[d] \in {seen[d], None}
        BY <2>2 DEF OpenSend, Finish, TypeOK
      <4>3. QED
        BY <1>0, <1>00, <2>0, <2>2, <3>2, <4>1, <4>2 DEF OpenSend, Send, Tick
    <3>3. QED BY <2>2, <3>1, <3>2 DEF OpenSend
  <2>3. CASE \/ StatusRead(c, "drainRead", "drainCount")
             \/ StatusRead(c, "migRead", "migCount")
             \/ StatusRead(c, "migrating", "checkCount")
             \/ StatusRead(c, "openRead", "openCount")
    BY <2>0, <2>3 DEF StatusRead, TypeOK
  <2>4. CASE CloseStatus(c) \/ ReadStatus(c)
    BY <2>0, <2>4 DEF CloseStatus, ReadStatus, Finish, command, TypeOK
  <2>5. CASE Accept(c)
    BY <1>0, <2>0, <2>5 DEF Accept, Tick, command
  <2>6. CASE \/ \E sha \in Shas : StartDrain(c, sha)
             \/ DrainCount(c) \/ StartMigrate(c) \/ MigrateBegin(c)
             \/ MigrateEnd(c) \/ StartOpen(c) \/ GiveUp(c)
    <3>1. /\ UNCHANGED <<clock, stmts, closure>>
          /\ \A d \in Controllers : seen'[d] \in {seen[d], None}
      BY <2>6 DEF StartDrain, DrainCount, StartMigrate, MigrateBegin,
                  MigrateEnd, StartOpen, GiveUp, Begin, Finish, TypeOK
    <3>2. QED BY <2>0, <3>1
  <2>7. QED BY <1>3, <2>1, <2>2, <2>3, <2>4, <2>5, <2>6 DEF ControllerNext
<1>4. CASE UNCHANGED vars
  BY <1>4 DEF vars, ctlVars
<1>5. QED BY <1>1, <1>2, <1>3, <1>4 DEF Next

\* How a controller's step changes what controllers remember of the row.
LEMMA MemoryFrame ==
  ASSUME TypeOK, NEW c \in Controllers, ControllerNext(c)
  PROVE  \A d \in Controllers :
           /\ seen'[d] \in {seen[d], None, control}
           /\ closure'[d] \in {closure[d], control}
<1> USE DEF TypeOK
<1>1. CASE \E sha \in Shas : StartClose(c, sha) \/ StartDrain(c, sha)
  BY <1>1 DEF StartClose, StartDrain, Begin
<1>2. CASE \/ StatusRead(c, "drainRead", "drainCount")
           \/ StatusRead(c, "migRead", "migCount")
           \/ StatusRead(c, "migrating", "checkCount")
           \/ StatusRead(c, "openRead", "openCount")
  BY <1>2 DEF StatusRead
<1>3. CASE CloseStatus(c) \/ ReadStatus(c)
  BY <1>3 DEF CloseStatus, ReadStatus, Finish, command
<1>4. CASE DrainCount(c) \/ StartMigrate(c) \/ MigrateBegin(c) \/ MigrateEnd(c)
  BY <1>4 DEF DrainCount, StartMigrate, MigrateBegin, MigrateEnd, Begin, Finish
<1>5. CASE Accept(c) \/ StartOpen(c) \/ OpenSend(c) \/ GiveUp(c)
  BY <1>5 DEF Accept, StartOpen, OpenSend, GiveUp, Begin, Finish, command
<1>6. QED BY <1>1, <1>2, <1>3, <1>4, <1>5 DEF ControllerNext

LEMMA SnapshotStep ==
  TypeOK /\ TimeInv /\ SnapshotInv /\ [Next]_vars => SnapshotInv'
<1> SUFFICES ASSUME TypeOK, TimeInv, SnapshotInv, [Next]_vars PROVE SnapshotInv'
  OBVIOUS
<1> USE DEF SnapshotInv
<1>1. ASSUME NEW h \in Holders, HolderNext(h) PROVE SnapshotInv'
  BY <1>1, HolderFrame DEF ctlVars
<1>2. ASSUME NEW s \in stmts, ServerNext(s) PROVE SnapshotInv'
  <2>1. /\ closure' = closure
        /\ \A c \in Controllers : seen'[c] \in {seen[c], None}
        /\ control' = control \/ control'.changedAt = s.at
    BY <1>2, ServerFrame
  <2>2. QED BY <2>1 DEF TimeInv
<1>3. ASSUME NEW c \in Controllers, ControllerNext(c) PROVE SnapshotInv'
  <2>1. control' = control
    BY <1>3, ControllerFrame
  <2>2. QED BY <1>3, <2>1, MemoryFrame
<1>4. CASE UNCHANGED vars
  BY <1>4 DEF vars, ctlVars
<1>5. QED BY <1>1, <1>2, <1>3, <1>4 DEF Next

\* In a closure some controller holds, with no lease left, nothing is added:
\* an insert needs the share lock, and that needs an open gate.
LEMMA QuietHolder ==
  ASSUME TypeOK, LeaseInv, SnapshotInv, QuietInv,
         NEW h \in Holders, HolderNext(h)
  PROVE  QuietInv'
<1> USE DEF QuietInv, Quiet
<1>1. UNCHANGED <<control, clock, stmts, ctlVars>>
  BY HolderFrame
<1>2. ASSUME control.mode = "maintenance", leases = {}
      PROVE  leases' = {} /\ disturbed' = disturbed
  BY <1>2 DEF HolderNext, AdmitRead, AdmitInsert, AdmitReply, StartStream,
              FinishWork, Release, Abandon, LeaseInv, TypeOK
<1>3. \A c \in Controllers : pc[c] # "migrating" => disturbed'[c] = disturbed[c]
  BY DEF HolderNext, AdmitRead, AdmitInsert, AdmitReply, StartStream,
         FinishWork, Release, Abandon, TypeOK
<1>4. SUFFICES ASSUME NEW c \in Controllers PROVE Quiet(c)'
  OBVIOUS
<1>5. \A row \in {seen[c], closure[c]} :
        row # None /\ row.changedAt = control.changedAt => row = control
  BY DEF SnapshotInv
<1>6. /\ pc[c] = "drained" => seen[c] # None
      /\ pc[c] \in {"migrating", "checkCount"} => closure[c] # None
  BY DEF TypeOK, PhaseOK
<1>7. QED BY <1>1, <1>2, <1>3, <1>5, <1>6 DEF ctlVars

LEMMA QuietServer ==
  ASSUME TypeOK, TimeInv, QuietInv, NEW s \in stmts, ServerNext(s)
  PROVE  QuietInv'
<1> USE DEF QuietInv, Quiet, holderVars
<1>1. /\ UNCHANGED <<leases, closure, disturbed>>
      /\ \A c \in Controllers :
           \/ pc'[c] = pc[c] /\ seen'[c] = seen[c]
           \/ pc'[c] \in {"closed", "idle"}
      /\ control' = control \/ control'.changedAt = s.at
  BY ServerFrame
<1>2. SUFFICES ASSUME NEW c \in Controllers PROVE Quiet(c)'
  OBVIOUS
<1>3. \A row \in {seen[c], closure[c]} : row # None => s.at # row.changedAt
  BY DEF TimeInv
<1>4. /\ pc[c] = "drained" => seen[c] # None
      /\ pc[c] \in {"migrating", "checkCount"} => closure[c] # None
  BY DEF TypeOK, PhaseOK
<1>5. QED BY <1>1, <1>3, <1>4

LEMMA QuietController ==
  ASSUME TypeOK, LeaseInv, TimeInv, SnapshotInv, QuietInv,
         NEW c \in Controllers, ControllerNext(c)
  PROVE  QuietInv'
<1> USE DEF QuietInv, Quiet
<1>1. control' = control /\ leases' = leases
  BY ControllerFrame DEF holderVars
<1>2. CASE \/ \E sha \in Shas : StartClose(c, sha) \/ StartDrain(c, sha)
           \/ StartMigrate(c) \/ StartOpen(c)
  <2>1. /\ closure' = closure /\ disturbed' = disturbed
        /\ pc'[c] \in {"closing", "drainRead", "migRead", "openRead"}
        /\ \A d \in Controllers : d # c => pc'[d] = pc[d] /\ seen'[d] = seen[d]
    BY <1>2 DEF StartClose, StartDrain, StartMigrate, StartOpen, Begin, TypeOK
  <2>2. QED BY <1>1, <2>1
<1>3. CASE CloseStatus(c)
  BY <1>1, <1>3 DEF CloseStatus, Finish, ClosedFor, TypeOK
<1>4. CASE ReadStatus(c)
  BY <1>1, <1>4 DEF ReadStatus, command, TypeOK, Rest
<1>5. CASE \/ StatusRead(c, "drainRead", "drainCount")
           \/ StatusRead(c, "migRead", "migCount")
           \/ StatusRead(c, "openRead", "openCount")
  BY <1>1, <1>5 DEF StatusRead, TypeOK
<1>6. CASE StatusRead(c, "migrating", "checkCount")
  BY <1>1, <1>6 DEF StatusRead, TypeOK
<1>7. CASE DrainCount(c)
  BY <1>1, <1>7 DEF DrainCount, Finish, ClosedFor, TypeOK, PhaseOK
<1>8. CASE MigrateBegin(c)
  <2>1. leases = {} => \A h \in Holders : ~Working(h)
    BY DEF LeaseInv, Working
  <2>2. disturbed' \in [Controllers -> BOOLEAN]
        /\ \A d \in Controllers : d # c => disturbed'[d] = disturbed[d]
    BY <1>8, Zenon DEF MigrateBegin, TypeOK
  <2>3. CASE DrainedClosure(c)
    <3>1. leases = {} /\ (disturbed'[c] <=> \E h \in Holders : Working(h))
      BY <1>8, <2>3, Zenon DEF MigrateBegin, DrainedClosure, TypeOK
    <3>2. ~disturbed'[c]
      BY <2>1, <3>1, Zenon
    <3>3. QED BY <1>1, <1>8, <2>2, <2>3, <3>1, <3>2 DEF MigrateBegin, TypeOK
  <2>4. CASE ~DrainedClosure(c)
    BY <1>1, <1>8, <2>4 DEF MigrateBegin, Finish, TypeOK
  <2>5. QED BY <2>3, <2>4
<1>9. CASE MigrateEnd(c)
  BY <1>1, <1>9 DEF MigrateEnd, DrainedClosure, Finish, TypeOK
<1>10. CASE Accept(c)
  BY <1>1, <1>10 DEF Accept, command
<1>11. CASE OpenSend(c)
  BY <1>1, <1>11 DEF OpenSend, Finish, TypeOK
<1>12. CASE GiveUp(c)
  BY <1>1, <1>12 DEF GiveUp, Finish, TypeOK
<1>13. QED
  BY <1>2, <1>3, <1>4, <1>5, <1>6, <1>7, <1>8, <1>9, <1>10, <1>11, <1>12
  DEF ControllerNext

LEMMA QuietStep == IInv /\ [Next]_vars => QuietInv'
<1> SUFFICES ASSUME IInv, [Next]_vars PROVE QuietInv'
  OBVIOUS
<1>1. CASE Next
  BY <1>1, QuietHolder, QuietServer, QuietController DEF IInv, Next
<1>2. CASE UNCHANGED vars
  BY <1>2 DEF IInv, QuietInv, Quiet, vars, ctlVars, holderVars
<1>3. QED BY <1>1, <1>2

\* The inductive invariant holds in every behaviour of the gate.
THEOREM InductiveInvariant == Spec => []IInv
<1>1. Init => IInv
  <2> SUFFICES ASSUME Init PROVE IInv
    OBVIOUS
  <2>1. TypeOK
    BY GateAssumption DEF Init, TypeOK, PhaseOK, StartRow, Rest, Phases, Timestamps
  <2>2. LeaseInv
    BY DEF Init, LeaseInv
  <2>3. TimeInv /\ SnapshotInv /\ QuietInv
    BY GateAssumption DEF Init, TimeInv, SnapshotInv, QuietInv, Quiet, StartRow
  <2>4. QED BY <2>1, <2>2, <2>3 DEF IInv
<1>2. IInv /\ [Next]_vars => IInv'
  BY TypeStep, LeaseStep, TimeStep, SnapshotStep, QuietStep DEF IInv
<1>3. QED BY <1>1, <1>2, PTL DEF Spec

-----------------------------------------------------------------------------
(* What follows from it.                                                    *)

\* A drain's answer stays true as long as its closure is the current one: no
\* lease and no work, whatever admissions and other shells do.
THEOREM DrainedStaysQuiet == Spec => []DrainedIsQuiet
<1>1. IInv => DrainedIsQuiet
  BY DEF IInv, LeaseInv, QuietInv, Quiet, DrainedIsQuiet, HoldsDrained, Working
<1>2. QED BY <1>1, InductiveInvariant, PTL

\* A migration reported as validated ran with no admitted work beside it.
THEOREM MigrationAlone == Spec => []ValidatedMigrationWasAlone
<1>1. IInv => ValidatedMigrationWasAlone
  BY DEF IInv, QuietInv, Quiet, ValidatedMigrationWasAlone
<1>2. QED BY <1>1, InductiveInvariant, PTL

\* Only an open statement sent after the current closure opens the gate.
THEOREM NoLateOpen == Spec => OpensAfterItsClosure
<1>1. IInv /\ [Next]_vars => [Opens => control'.changedAt > control.changedAt]_control
  <2> SUFFICES ASSUME IInv, Next, Opens
               PROVE  control'.changedAt > control.changedAt
    BY DEF vars
  <2>1. CASE \E h \in Holders : HolderNext(h)
    BY <2>1, HolderFrame DEF Opens
  <2>2. CASE \E c \in Controllers : ControllerNext(c)
    BY <2>2, ControllerFrame DEF Opens
  <2>3. CASE \E s \in stmts : ServerNext(s)
    <3>1. PICK s \in stmts : ServerNext(s)
      BY <2>3
    <3>2. /\ control'.changedAt = s.at
          /\ s.op = "open" /\ OpenMatches(s)
      BY <3>1, ServerFrame DEF Opens, IInv
    <3>3. s.closedAt < s.at /\ s.closedAt = control.changedAt
      BY <3>2 DEF IInv, TimeInv, OpenMatches
    <3>4. s.at \in Int /\ control.changedAt \in Int
      BY DEF IInv, TypeOK, ControlRow, CloseStmt, OpenStmt, Timestamps
    <3>5. QED BY <3>2, <3>3, <3>4
  <2>4. QED BY <2>1, <2>2, <2>3 DEF Next
<1>2. QED BY <1>1, InductiveInvariant, PTL DEF Spec, OpensAfterItsClosure

\* The row lock, the lease table and the fenced updates implement the
\* abstract gate: work enters only while it is open, and it is opened only
\* when nothing is inside.
THEOREM ImplementsAdmissionGate == Spec => GateSpec
<1>1. Init => Gate!Init
  BY GateAssumption DEF Init, Gate!Init, StartRow
<1>2. IInv /\ [Next]_vars => [Gate!Next]_Gate!agVars
  <2> SUFFICES ASSUME IInv, [Next]_vars
               PROVE  Gate!Next \/ UNCHANGED Gate!agVars
    OBVIOUS
  <2> USE DEF Gate!agVars, Gate!Next, Gate!Enter, Gate!Leave, Gate!Close, Gate!Open
  <2>1. ASSUME NEW h \in Holders, HolderNext(h)
        PROVE  Gate!Next \/ UNCHANGED Gate!agVars
    <3>1. control' = control
      BY <2>1, HolderFrame
    <3>2. CASE AdmitInsert(h)
      BY <3>1, <3>2 DEF AdmitInsert, IInv, LeaseInv
    <3>3. CASE Release(h)
      <4>1. lease[h] \in leases /\ lease[h] \in LeaseIds
        BY <3>3 DEF Release, IInv, LeaseInv, TypeOK
      <4>2. QED BY <3>1, <3>3, <4>1 DEF Release
    <3>4. CASE \/ AdmitRead(h) \/ AdmitReply(h) \/ StartStream(h)
               \/ FinishWork(h) \/ Abandon(h)
      BY <3>1, <3>4 DEF AdmitRead, AdmitReply, StartStream, FinishWork, Abandon
    <3>5. QED BY <2>1, <3>2, <3>3, <3>4 DEF HolderNext
  <2>2. ASSUME NEW s \in stmts, ServerNext(s)
        PROVE  Gate!Next \/ UNCHANGED Gate!agVars
    <3>1. /\ leases' = leases
          /\ \/ control' = control
             \/ control'.mode = "maintenance"
             \/ OpenMatches(s) /\ control'.mode = "open"
      BY <2>2, ServerFrame DEF IInv, holderVars
    <3>2. control.mode \in {"open", "maintenance"}
      BY DEF IInv, TypeOK, ControlRow
    <3>3. QED BY <3>1, <3>2 DEF OpenMatches
  <2>3. ASSUME NEW c \in Controllers, ControllerNext(c)
        PROVE  Gate!Next \/ UNCHANGED Gate!agVars
    BY <2>3, ControllerFrame DEF holderVars
  <2>4. CASE UNCHANGED vars
    BY <2>4 DEF vars, holderVars
  <2>5. QED BY <2>1, <2>2, <2>3, <2>4 DEF Next
<1>3. QED BY <1>1, <1>2, InductiveInvariant, PTL DEF Spec, GateSpec, Gate!Spec

\* An open statement in flight for the current closure publishes versions
\* validated against the row that is still there.
PublishInv ==
  \A s \in stmts :
    s.op = "open" /\ s.closedAt = control.changedAt =>
      /\ s.web # control.web => Source[s.web] = s.sha
      /\ s.api # control.api => Source[s.api] = s.sha
      /\ s.web # control.web \/ s.api # control.api

LEMMA ValidVersionsMove ==
  ASSUME NEW row \in ControlRow, NEW e \in Evidence, VersionsOk(e, row)
  PROVE  /\ e.web # row.web => Source[e.web] = e.sha
         /\ e.api # row.api => Source[e.api] = e.sha
         /\ e.web # row.web \/ e.api # row.api
<1>1. e.web # None /\ e.api # None
  BY GateAssumption DEF Evidence
<1>2. QED BY <1>1 DEF VersionsOk, VersionOk, Previous

LEMMA PublishStep == IInv /\ PublishInv /\ [Next]_vars => PublishInv'
<1> SUFFICES ASSUME IInv, PublishInv, [Next]_vars PROVE PublishInv'
  OBVIOUS
<1> USE DEF PublishInv
<1>1. ASSUME NEW h \in Holders, HolderNext(h) PROVE PublishInv'
  BY <1>1, HolderFrame
<1>2. ASSUME NEW s \in stmts, ServerNext(s) PROVE PublishInv'
  <2>1. stmts' = stmts \ {s} /\ (control' = control \/ control'.changedAt = s.at)
    BY <1>2, ServerFrame DEF IInv
  <2>2. QED BY <2>1 DEF IInv, TimeInv
<1>3. ASSUME NEW c \in Controllers, ControllerNext(c) PROVE PublishInv'
  <2>1. control' = control
    BY <1>3, ControllerFrame
  <2>2. CASE OpenSend(c)
    <3>1. CASE UNCHANGED stmts
      BY <2>1, <3>1
    <3>2. CASE stmts' # stmts
      <4> DEFINE new == [op |-> "open", by |-> c, sha |-> arg[c], at |-> clock,
                         closedAt |-> seen[c].changedAt,
                         web |-> evidence[c].web, api |-> evidence[c].api]
      <4>1. /\ stmts' = stmts \cup {new}
            /\ ClosedFor(seen[c], arg[c])
            /\ ValidEvidence(evidence[c], seen[c])
            /\ seen[c] # None /\ evidence[c] # None
        <5>1. seen[c] # None /\ evidence[c] # None
          BY <2>2 DEF OpenSend, IInv, TypeOK, PhaseOK
        <5>2. QED BY <2>2, <3>2, <5>1 DEF OpenSend, Send
      <4>2. /\ seen[c] \in ControlRow /\ evidence[c] \in Evidence
            /\ evidence[c].sha = arg[c]
        BY <2>2, <4>1 DEF OpenSend, IInv, TypeOK, PhaseOK
      <4>3. seen[c].changedAt = control.changedAt => seen[c] = control
        BY <4>1 DEF IInv, SnapshotInv
      <4>4. VersionsOk(evidence[c], seen[c])
        BY <4>1 DEF ValidEvidence
      <4>5. QED BY <2>1, <4>1, <4>2, <4>3, <4>4, ValidVersionsMove
    <3>3. QED BY <3>1, <3>2
  <2>3. CASE \E sha \in Shas : StartClose(c, sha)
    BY <2>1, <2>3 DEF StartClose, Send
  <2>4. CASE \/ StatusRead(c, "drainRead", "drainCount")
             \/ StatusRead(c, "migRead", "migCount")
             \/ StatusRead(c, "migrating", "checkCount")
             \/ StatusRead(c, "openRead", "openCount")
    BY <2>1, <2>4 DEF StatusRead
  <2>5. CASE \/ \E sha \in Shas : StartDrain(c, sha)
             \/ CloseStatus(c) \/ ReadStatus(c) \/ DrainCount(c)
             \/ StartMigrate(c) \/ MigrateBegin(c) \/ MigrateEnd(c)
             \/ Accept(c) \/ StartOpen(c) \/ GiveUp(c)
    BY <2>1, <2>5 DEF StartDrain, CloseStatus, ReadStatus, DrainCount,
       StartMigrate, MigrateBegin, MigrateEnd, Accept, StartOpen, GiveUp
  <2>6. QED BY <1>3, <2>2, <2>3, <2>4, <2>5 DEF ControllerNext
<1>4. CASE UNCHANGED vars
  BY <1>4 DEF vars
<1>5. QED BY <1>1, <1>2, <1>3, <1>4 DEF Next

\* Every opening moves a Worker, and only to a version of the released
\* commit, however stale the status the open command validated against.
THEOREM OpeningPublishesTheRelease == Spec => PublishesTheRelease
<1>1. Init => PublishInv
  BY DEF Init, PublishInv
<1>2. IInv /\ PublishInv /\ [Next]_vars => PublishInv'
  BY PublishStep
<1>3. IInv /\ PublishInv /\ [Next]_vars => [PublishedMove]_control
  <2> SUFFICES ASSUME IInv, PublishInv, Next, Opens
               PROVE  PublishedMove
    BY DEF vars, PublishedMove
  <2>1. CASE \E h \in Holders : HolderNext(h)
    BY <2>1, HolderFrame DEF Opens
  <2>2. CASE \E c \in Controllers : ControllerNext(c)
    BY <2>2, ControllerFrame DEF Opens
  <2>3. CASE \E s \in stmts : ServerNext(s)
    <3>1. PICK s \in stmts : ServerNext(s)
      BY <2>3
    <3>2. ApplyOpen(s) /\ OpenMatches(s) /\ control' = OpenedRow(s)
      BY <3>1 DEF Opens, ServerNext, ApplyClose, ApplyOpen, LoseStmt, IInv,
                  TypeOK, ControlRow
    <3>3. QED BY <3>2 DEF PublishInv, PublishedMove, ApplyOpen, OpenMatches, OpenedRow
  <2>4. QED BY <2>1, <2>2, <2>3 DEF Next
<1>4. QED BY <1>1, <1>2, <1>3, InductiveInvariant, PTL DEF Spec, PublishesTheRelease
=============================================================================
