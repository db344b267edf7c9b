---------------------------- MODULE MCRoomAccess ----------------------------
(***************************************************************************)
(* Values for the constants of RoomAccess.                                 *)
(***************************************************************************)
EXTENDS RoomAccess, Naturals, TLC

CONSTANTS host, guest, staff, r1, r2, r3

OwnerByHost == [r \in Guest |-> host]

\* Bounds: at most two packets are under way at a time.  The host goes into the
\* first room, and stays there once the guest has come; nobody rings for the host.
\* The settings of that room change, one thing at a time; the second room keeps its
\* bell and is never loaded.  Nothing is looked at beyond an answer
\* that outlives its visit.
Busy == {t \in DOMAIN task : Pc(t) # "ready"}
Changes ==
  {x \in {"door", "super", "rights", "bans", "tele", "deleted"} :
     CASE x = "door" -> door[r1] # "bell" /\ bans = {}
       [] x = "super" -> super # {}
       [] x = "rights" -> rights # {}
       [] x = "bans" -> bans # {}
       [] x = "tele" -> sess[guest].tele # NoRoom
       [] x = "deleted" -> exists # Room}
Bounded ==
  /\ Cardinality(Busy) <= 2 /\ ~({host, Cycle} \subseteq Busy)
  /\ Cardinality(Changes) <= 1
  /\ door[r2] = "bell" /\ r2 \in exists \ (super \cup loaded)
  /\ rights \cup bans \subseteq {<<r1, guest>>}
  /\ (Pc(guest) # "ready" \/ sess[guest] # Outside => row[host] = r1 /\ sess[host].inside)
  /\ sess[host].cur # r2 /\ sess[host].tele = NoRoom
  /\ allowed[host] = NoRoom /\ denied[host] = NoRoom
  /\ outlived = {}
=============================================================================
