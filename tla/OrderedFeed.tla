----------------------------- MODULE OrderedFeed -----------------------------
(***************************************************************************)
(* What a receiving layer promises the one above it: no item offered is    *)
(* delivered twice or after a later one; and if the layer is lossless,     *)
(* each is delivered.  For shots (R10Session) and frames (StreamBuffer).   *)
(***************************************************************************)
EXTENDS Naturals, Sequences

CONSTANTS Items, Lossless
VARIABLES offered, delivered
feed == <<offered, delivered>>

Init == offered = <<>> /\ delivered = <<>>

Offer(item) ==
  /\ \A i \in DOMAIN offered : offered[i] # item
  /\ offered' = Append(offered, item)
  /\ UNCHANGED delivered

Deliver(i) ==
  /\ \A j \in i .. Len(offered), k \in DOMAIN delivered : offered[j] # delivered[k]
  /\ Lossless => i = Len(delivered) + 1
  /\ delivered' = Append(delivered, offered[i])
  /\ UNCHANGED offered

Delivers == \E i \in DOMAIN offered : Deliver(i)

Next == Delivers \/ \E item \in Items : Offer(item)

Safety == Init /\ [][Next]_feed
Spec == Safety /\ (Lossless => WF_feed(Delivers))
===============================================================================
