--------------------------- MODULE MCBrowserSession ---------------------------
(* Instances of BrowserSession for TLC. *)
EXTENDS BrowserSession

OneBrowser == [t \in Tabs |-> CHOOSE b \in Browsers : TRUE]

(***************************************************************************)
(* What the next steps and the properties depend on.  A session nobody can *)
(* present any more is only counted, and the history variables of Sessions *)
(* guard nothing.  The account never changes here.                         *)
(***************************************************************************)
Presentable ==
  ({jar[b].refresh : b \in Browsers}
     \cup UNION {{tab[t].row, request[t].token, request[t].row} : t \in Tabs}) \ {None}

View ==
  <<issued, [s \in Presentable |-> rows[s].revoked], jar, tab, lost,
    [t \in Tabs |-> [pc |-> request[t].pc, token |-> request[t].token,
                     row |-> request[t].row, reason |-> request[t].reason]]>>
=============================================================================
