---------------------------- MODULE MCChangeFeed ----------------------------
(***************************************************************************)
(* A personal ledger ("mine") with one client, one debt, one period and    *)
(* one payment, and a client of another owner in the same change table.    *)
(***************************************************************************)
EXTENDS ChangeFeed

CONSTANTS c1, c2, d1, i1, p1, phone, tab

MCParentOf ==
  [r \in {c1, c2, d1, i1, p1} |->
     CASE r \in {c1, c2} -> r [] r = d1 -> c1 [] OTHER -> d1]
MCScopeOf == [r \in {c1, c2, d1, i1, p1} |-> IF r = c2 THEN "theirs" ELSE "mine"]
MCDeviceScope == [d \in Phones \cup Tabs |-> "mine"]
MCLegacy == {c1, d1, i1, p1}
MCLegacyKey ==
  [r \in MCLegacy |-> CASE r = c1 -> 1 [] r = d1 -> 2 [] r = i1 -> 3 [] OTHER -> 4]
MCLegacyLink == [r \in MCLegacy |-> IF r = p1 THEN i1 ELSE NoPeriod]
MCPhone == {phone}
MCTab == {tab}
MCNone == {}
=============================================================================
