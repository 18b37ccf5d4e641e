---------------------------- MODULE MCGrantFeed ----------------------------
(* Four transactions in two blocks, one to a page; two grants, one full and *)
(* one pseudonymous at first, the second empty or over the same             *)
(* transactions.  The owner of the first changes its level at most once,    *)
(* before the pages hold more than MaxRows rows.                            *)
EXTENDS GrantFeed

CONSTANTS g1, g2, MaxRows
MCSources == {g1, g2}

MCInit == /\ FeedInit
          /\ masked \in {{}, mine}
          /\ granted[g2] \in {{}, granted[g1]}
          /\ level[g1] = "full" /\ level[g2] = "pseudonymous"

MCNext == /\ FeedNext
          /\ srvLevel' # srvLevel =>
               /\ srvLevel[g1] = "full" /\ srvLevel'[g2] = srvLevel[g2]
               /\ \A p \in Pages : Cardinality(feeds[p].rows) <= MaxRows
MCSpec == MCInit /\ [][MCNext]_feedVars
=============================================================================
