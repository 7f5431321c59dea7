------------------------ MODULE MCRelationshipStore ------------------------
(* TLC instances of RelationshipStore: the declarations the tests of the     *)
(* crate use, with the owners' ids as the values of their key column.        *)
EXTENDS RelationshipStore, TLC

Declare(kind, byId, nullable) ==
  [kind |-> kind, byId |-> byId, unique |-> kind = "has_one", nullable |-> nullable]

Posts == Declare("has_many", TRUE, TRUE)
Articles == Declare("has_many", TRUE, FALSE)
Profiles == Declare("has_one", TRUE, FALSE)
OrgMembers == Declare("has_one", FALSE, TRUE)
Teams == Declare("has_many", FALSE, TRUE)

AllSchemas == {Posts, Articles, Profiles, OrgMembers}
ById == {Posts}
ByKey == {Teams}

Symmetry == Permutations(Requests) \cup Permutations(Owners) \cup Permutations(Members)
=============================================================================
