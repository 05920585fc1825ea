-------------------------- MODULE MCDatabaseStart --------------------------
(***************************************************************************)
(* DatabaseStart for TLC: a first release, its successor, one that edited  *)
(* the first migration and one that put a migration before it.  Three      *)
(* schemas, two of which share a lock key; profiles that use one schema in *)
(* different roles and with different peers.                               *)
(***************************************************************************)
EXTENDS DatabaseStart

CONSTANTS A, B, C

Migration(i, sum) == [id |-> i, sum |-> sum]

MCReleases == {"first", "second", "edited", "inserted"}
MCDeclared ==
    [r \in MCReleases |->
        CASE r = "first" -> <<Migration(2, "x")>>
          [] r = "second" -> <<Migration(2, "x"), Migration(3, "x")>>
          [] r = "edited" -> <<Migration(2, "y"), Migration(3, "x")>>
          [] r = "inserted" -> <<Migration(1, "x"), Migration(2, "x")>>]

MCKey == [s \in Schemas |-> IF s = B THEN 2 ELSE 1]

MCProfiles ==
    {[app |-> A, queue |-> B], [app |-> B, queue |-> A], [app |-> A, queue |-> C], [app |-> A, queue |-> None]}
=============================================================================
