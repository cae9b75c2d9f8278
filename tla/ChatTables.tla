------------------------------ MODULE ChatTables ------------------------------
(***************************************************************************)
(* What the chat service's friend and group commands write in MySQL.  Each *)
(* statement opens a connection of its own, may fail, and is not part of a *)
(* transaction; the services log a failure and tell nobody.                *)
(*                                                                         *)
(* One user acts, and "befriends" one other; groups are numbered as        *)
(* allgroup's ids are.                                                     *)
(***************************************************************************)
EXTENDS Naturals

CONSTANT MaxGroups   \* bound on the groups that are created

ASSUME GroupsAssumption == MaxGroups \in Nat

VARIABLES
  friendRows,   \* table friend: pairs <<userid, friendid>>
  allgroup,     \* table allgroup: the ids given out
  groupuser,    \* table groupuser: pairs <<groupid, grouprole>> of the user
  faulted       \* history: a statement failed, or a server died between two

tableVars == <<friendRows, allgroup, groupuser, faulted>>

People == {"user", "friend"}
GroupIds == 1 .. MaxGroups
Roles == {"creator", "normal"}

TablesTypeOK ==
  /\ friendRows \subseteq People \X People
  /\ allgroup \subseteq GroupIds
  /\ groupuser \subseteq GroupIds \X Roles
  /\ faulted \in BOOLEAN

TablesInit ==
  /\ friendRows = {}
  /\ allgroup = {}
  /\ groupuser = {}
  /\ faulted = FALSE

\* connect or the statement failed: nothing is written, the handler goes on.
StatementFails ==
  /\ faulted' = TRUE
  /\ UNCHANGED <<friendRows, allgroup, groupuser>>

\* FriendModel::insert.
InsertFriend(a, b) ==
  \/ StatementFails
  \/ /\ friendRows' = friendRows \cup {<<a, b>>}
     /\ UNCHANGED <<allgroup, groupuser, faulted>>

\* GroupModel::createGroup that returns true with the id g.
InsertGroup(g) ==
  /\ g \in GroupIds \ allgroup
  /\ \A h \in allgroup : h < g
  /\ allgroup' = allgroup \cup {g}
  /\ UNCHANGED <<friendRows, groupuser, faulted>>

\* GroupModel::addGroup: whether there is a group of that id is not looked at.
InsertMember(g, role) ==
  \/ StatementFails
  \/ /\ groupuser' = groupuser \cup {<<g, role>>}
     /\ UNCHANGED <<friendRows, allgroup, faulted>>

\* A friendship is in the table in both directions.
Mutual == \A a, b \in People : <<a, b>> \in friendRows <=> <<b, a>> \in friendRows

\* A group has its creator, and nobody is creator of a group that is not there.
HasCreator(g) == <<g, "creator">> \in groupuser
==============================================================================
