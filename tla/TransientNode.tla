--------------------------- MODULE TransientNode ---------------------------
(***************************************************************************)
(* What a transient database node (live_state, live_events_feed) promises  *)
(* its readers.  The node holds entries, each known by the ingestion       *)
(* sequence number it was routed under.  A clean match boundary empties    *)
(* the node and opens a new epoch; from then on no entry of an earlier     *)
(* epoch ever appears in it again.  Nothing is promised about which        *)
(* entries of the current epoch are visible: both lanes may drop, and the  *)
(* live node is overwritten by every write.                                *)
(***************************************************************************)
EXTENDS Naturals

VARIABLES node,   \* the sequence numbers whose data the node shows
          epoch   \* the boundary that opened the current epoch

nodeVars == <<node, epoch>>

NodeTypeOK == node \in SUBSET Nat /\ epoch \in Nat

NodeInit == node = {} /\ epoch = 0

(* A write, of a new entry or over the whole node, is never older than the *)
(* epoch.                                                                  *)
Publish ==
  /\ node' \in SUBSET Nat
  /\ \A s \in node' : s >= epoch
  /\ UNCHANGED epoch

(* A boundary whose barrier was clean: the node is empty and older data is *)
(* shut out for good.                                                      *)
OpenEpoch ==
  /\ node' = {}
  /\ epoch' \in Nat
  /\ epoch' > epoch

NodeNext == Publish \/ OpenEpoch

NodeSpec == NodeInit /\ [][NodeNext]_nodeVars

(* No entry of a closed epoch is ever visible.                             *)
NoGhostData == \A s \in node : s >= epoch
=============================================================================
