--------------------------- MODULE MaintainedSite ---------------------------
(***************************************************************************)
(* What a maintenance cutover promises about a site, without saying how a   *)
(* release goes about it: requests enter while the site is open, nothing    *)
(* the site runs on is replaced while it is open or a request is inside,    *)
(* and it opens only on Workers that fit the schema.                        *)
(***************************************************************************)
CONSTANTS Requests,
          Fits(_, _, _)   \* the web and the API version fit the schema

VARIABLES open,     \* ordinary traffic is let in
          inside,   \* requests under way
          web,      \* the web Worker's version
          api,      \* the API Worker's version
          schema    \* the database schema

siteVars == <<open, inside, web, api, schema>>

Init == /\ open = TRUE
        /\ inside = {}
        /\ Fits(web, api, schema)

Enter(q) == /\ open /\ q \notin inside
            /\ inside' = inside \cup {q}
            /\ UNCHANGED <<open, web, api, schema>>

Leave(q) == /\ q \in inside
            /\ inside' = inside \ {q}
            /\ UNCHANGED <<open, web, api, schema>>

Close == /\ open /\ ~open'
         /\ UNCHANGED <<inside, web, api, schema>>

\* One thing at a time is replaced.
Replace == /\ ~open /\ inside = {}
           /\ \/ UNCHANGED <<web, api>>
              \/ UNCHANGED <<api, schema>>
              \/ UNCHANGED <<web, schema>>
           /\ UNCHANGED <<open, inside>>

Open == /\ ~open /\ inside = {} /\ Fits(web, api, schema)
        /\ open'
        /\ UNCHANGED <<inside, web, api, schema>>

Next == \/ \E q \in Requests : Enter(q) \/ Leave(q)
        \/ Close \/ Replace \/ Open

Spec == Init /\ [][Next]_siteVars
=============================================================================
