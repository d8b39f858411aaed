------------------------------- MODULE GuestExport -------------------------------
(***************************************************************************)
(* The CSV export of guests, LoveChapterService.streamGuestCsv: the first  *)
(* page is read before the headers are sent, and each pull of the response *)
(* stream sends the header, sends one row, reads the next page or ends the *)
(* file.                                                                   *)
(***************************************************************************)
EXTENDS WeddingLists

CONSTANT Wedding   \* the wedding that is exported

VARIABLES phase,   \* "none", "header", "rows", "closed", "failed", "cancelled"
          view,    \* the filter of the export
          queue,   \* rows of the page read last that are not sent yet
          cursor, sent,
          readAt   \* history: the changes committed when the first page was read

exportVars == <<phase, view, queue, cursor, sent, readAt>>
vars == <<listVars, exportVars>>

Init ==
  /\ row = [r \in Rows |-> None] /\ pending = {} /\ clock = 0
  /\ changes = 0 /\ touched = [r \in Rows |-> 0]
  /\ phase = "none" /\ view = "open" /\ queue = {} /\ cursor = None /\ sent = {}
  /\ readAt = 0

\* The rows of one page of the file, in the view and behind the cursor.
Exported(f, c) == Page(Wedding, f, c)

Start ==
  /\ phase = "none"
  /\ \E f \in {"open", "done"} :
       /\ view' = f
       /\ queue' = Exported(f, None)
       /\ cursor' = DateCursor(Wedding, f, None)
  /\ phase' = "header" /\ readAt' = changes
  /\ UNCHANGED <<listVars, sent>>

PullHeader ==
  /\ phase = "header" /\ phase' = "rows"
  /\ UNCHANGED <<listVars, view, queue, cursor, sent, readAt>>

PullRow ==
  /\ phase = "rows" /\ queue # {}
  /\ \E r \in queue :
       /\ sent' = sent \cup {r} /\ queue' = queue \ {r}
  /\ UNCHANGED <<listVars, phase, view, cursor, readAt>>

PullPage ==
  /\ phase = "rows" /\ queue = {} /\ cursor # None
  /\ queue' = Exported(view, cursor)
  /\ cursor' = DateCursor(Wedding, view, cursor)
  /\ UNCHANGED <<listVars, phase, view, sent, readAt>>

Close ==
  /\ phase = "rows" /\ queue = {} /\ cursor = None
  /\ phase' = "closed"
  /\ UNCHANGED <<listVars, view, queue, cursor, sent, readAt>>

\* A page cannot be read, or the browser goes away.
Stop ==
  /\ phase \in {"header", "rows"}
  /\ phase' \in {"failed", "cancelled"} /\ queue' = {}
  /\ UNCHANGED <<listVars, view, cursor, sent, readAt>>

Export == Start \/ PullHeader \/ PullRow \/ PullPage \/ Close \/ Stop

Next == Export \/ (Others /\ UNCHANGED exportVars)

Spec == Init /\ [][Next]_vars

-----------------------------------------------------------------------------
\* A finished file has every guest who was in the exported view all the time,
\* over however many pages it was read.
ExportListsEveryGuest ==
  phase = "closed" => Steady(Wedding, view, readAt) \subseteq sent
=============================================================================
