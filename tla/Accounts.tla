------------------------------ MODULE Accounts ------------------------------
(***************************************************************************)
(* Users, their passwords, groups and courses: the tables of class         *)
(* OperatingSystem in blocks 1 to 3 of the image, the directories of the   *)
(* courses, and the requests of src/Server/server.cpp that change them.    *)
(*                                                                         *)
(* A step is one request: its handler holds the writer lock.  The sender   *)
(* is any user number here, and that of a session in Sessions.             *)
(* Requests that are refused change nothing and are stuttering steps.      *)
(* What a course directory contains is FileSystem's matter, and what a     *)
(* revocation brings back is UndoLog's: it returns the tables, which are   *)
(* saved like any block, to what an earlier request left.                  *)
(***************************************************************************)
EXTENDS Integers, FiniteSets, FiniteSetsExt

CONSTANTS
  MAX_USER_NUMBER, MAX_GROUP_NUMBER, MAX_USER_NUMBER_IN_GROUP,
  UserNames, CourseNames, Passwords,
  Noise  \* what a password reads as once group members are written over it

ASSUME TablesAssumption ==
  /\ MAX_USER_NUMBER \in Nat /\ MAX_USER_NUMBER >= 2
  /\ MAX_GROUP_NUMBER \in Nat /\ MAX_GROUP_NUMBER > 3
  /\ MAX_USER_NUMBER_IN_GROUP \in Nat /\ MAX_USER_NUMBER_IN_GROUP >= 2

ASSUME NamesAssumption ==
  /\ Passwords # {} /\ Noise \notin Passwords
  /\ "" \notin UserNames \cup CourseNames \cup Passwords \cup {Noise}

VARIABLES
  users,      \* userBlock: name and main group, by user number
  passwords,  \* passwordBlock, by user number
  groups,     \* groupBlock: name and members, by group number
  courses     \* the directories of the courses: owner and group, by name

vars == <<users, passwords, groups, courses>>

UserIDs == 0 .. MAX_USER_NUMBER - 1
GroupIDs == 0 .. MAX_GROUP_NUMBER - 1
SystemUsers == {0, 1}
SystemGroups == {0, 1, 2}
Teacher == 1
Student == 2

NoUser == [userName |-> "", groupID |-> -1]
NoGroup == [groupName |-> "", userID |-> {}]
NoCourse == [owner |-> -1, groupID |-> -1]

(* versionreset.backup, the image of a new installation.                   *)
Init ==
  /\ users = [u \in UserIDs |->
                CASE u = 0 -> [userName |-> "system", groupID |-> 0]
                  [] u = 1 -> [userName |-> "admin", groupID |-> 0]
                  [] u > 1 -> NoUser]
  /\ passwords \in {[u \in UserIDs |-> IF u \in SystemUsers THEN p ELSE ""] :
                      p \in Passwords}
  /\ groups = [g \in GroupIDs |->
                 CASE g = 0 -> [groupName |-> "admin", userID |-> SystemUsers]
                   [] g = 1 -> [groupName |-> "teacher", userID |-> {}]
                   [] g = 2 -> [groupName |-> "student", userID |-> {}]
                   [] g > 2 -> NoGroup]
  /\ courses = [c \in CourseNames |-> NoCourse]

-----------------------------------------------------------------------------
Live(u) == users[u] # NoUser
IsAdministrator(u) == users[u].groupID = 0
Exists(c) == courses[c] # NoCourse

UsersNamed(name) == {u \in UserIDs : users[u].userName = name}
GroupsNamed(name) == {g \in GroupIDs : groups[g].groupName = name}
FreeUsers == {u \in UserIDs : ~ Live(u)}
FreeGroups == {g \in GroupIDs : groups[g] = NoGroup}

AlwaysFree(name) == TRUE  \* a slip
NameFree(name) == UsersNamed(name) = {}

(* checkUserFromGroup for the group that has the name of the course.       *)
IsMember(u, c) == Live(u) /\ \E g \in GroupsNamed(c) : u \in groups[g].userID

(* The permissions of a course directory: 7 for the owner, 7 for the       *)
(* group, 0 for others.                                                    *)
CanRead(exec, c) ==
  /\ Exists(c)
  /\ \/ IsAdministrator(exec)
     \/ exec = courses[c].owner
     \/ Live(exec) /\ exec \in groups[courses[c].groupID].userID

(* addUserToGroup: a full group stays as it is, and nobody is told.        *)
WithMemberOver(group, u) ==  \* a slip
  [group EXCEPT !.userID = @ \cup {u}]
WithMember(group, u) ==
  IF Cardinality(group.userID) < MAX_USER_NUMBER_IN_GROUP
  THEN [group EXCEPT !.userID = @ \cup {u}] ELSE group
WithoutMember(group, u) == [group EXCEPT !.userID = @ \ {u}]

-----------------------------------------------------------------------------
CreateUser(exec, name, password, group) ==
  /\ IsAdministrator(exec)
  /\ NameFree(name)
  /\ FreeUsers # {}
  /\ LET u == Min(FreeUsers)
     IN  /\ users' = [users EXCEPT ![u] = [userName |-> name, groupID |-> group]]
         /\ passwords' = [passwords EXCEPT ![u] = password]
         /\ groups' = [groups EXCEPT ![group] = WithMember(@, u)]
  /\ UNCHANGED courses

(* deleteTeacherCourse and deleteStudentCourse go through the directories. *)
OwnedByNobody(u) == {}  \* a slip
OwnedCourses(u) ==
  {c \in CourseNames : users[u].groupID = Teacher /\ courses[c].owner = u}
TakenByNobody(u) == {}  \* a slip
TakenCourses(u) ==
  {c \in CourseNames : users[u].groupID = Student /\ Exists(c) /\ IsMember(u, c)}

DeleteUser(exec, u) ==
  /\ IsAdministrator(exec)
  /\ Live(u) /\ u \notin SystemUsers
  /\ LET owned == OwnedCourses(u)
         left == TakenCourses(u)
         main == users[u].groupID
     IN  /\ courses' = [c \in CourseNames |-> IF c \in owned THEN NoCourse ELSE courses[c]]
         /\ groups' = [g \in GroupIDs |->
                         IF groups[g].groupName \in owned THEN NoGroup
                         ELSE IF g = main \/ groups[g].groupName \in left
                         THEN WithoutMember(groups[g], u) ELSE groups[g]]
  /\ users' = [users EXCEPT ![u] = NoUser]
  /\ passwords' = [passwords EXCEPT ![u] = ""]

(***************************************************************************)
(* createGroup, addUserToGroup and createDirectory; the last fails when    *)
(* the image is full, and nobody is told.  A struct Group takes 130 bytes, *)
(* so the members of the last group lie beyond the block, over the         *)
(* password of user 0: clearing them writes over it.                       *)
(***************************************************************************)
CreateCourse(exec, c, t, fits) ==
  /\ IsAdministrator(exec)
  /\ users[t].groupID = Teacher
  /\ ~ Exists(c)
  /\ GroupsNamed(c) = {} /\ FreeGroups # {}
  /\ LET g == Min(FreeGroups)
     IN  /\ groups' = [groups EXCEPT ![g] = WithMember([@ EXCEPT !.groupName = c], t)]
         /\ courses' = IF fits THEN [courses EXCEPT ![c] = [owner |-> t, groupID |-> g]]
                               ELSE courses
         /\ passwords' = IF g = MAX_GROUP_NUMBER - 1
                         THEN [passwords EXCEPT ![0] = Noise] ELSE passwords
  /\ UNCHANGED users

(* Whoever can read the directory can have it deleted.                     *)
DeleteCourse(exec, c) ==
  /\ CanRead(exec, c)
  /\ courses' = [courses EXCEPT ![c] = NoCourse]
  /\ groups' = [g \in GroupIDs |-> IF groups[g].groupName = c THEN NoGroup ELSE groups[g]]
  /\ UNCHANGED <<users, passwords>>

AddToCourse(exec, u, c) ==
  /\ IsAdministrator(exec)
  /\ Live(u) /\ Exists(c)
  /\ ~ IsMember(u, c)
  /\ groups' = [g \in GroupIDs |-> IF groups[g].groupName = c
                                   THEN WithMember(groups[g], u) ELSE groups[g]]
  /\ UNCHANGED <<users, passwords, courses>>

DeleteFromCourse(exec, u, c) ==
  /\ IsAdministrator(exec)
  /\ Live(u) /\ Exists(c)
  /\ IsMember(u, c)
  /\ groups' = [g \in GroupIDs |-> IF groups[g].groupName = c
                                   THEN WithoutMember(groups[g], u) ELSE groups[g]]
  /\ UNCHANGED <<users, passwords, courses>>

(* Anybody who knows the old password.                                     *)
ModifyPassword(u, new) ==
  /\ Live(u)
  /\ passwords[u] # Noise
  /\ passwords' = [passwords EXCEPT ![u] = new]
  /\ UNCHANGED <<users, groups, courses>>

(* The requests that are executed for the user with a given number.        *)
Request(exec) ==
  \/ \E name \in UserNames, password \in Passwords, group \in SystemGroups :
       CreateUser(exec, name, password, group)
  \/ \E u \in UserIDs : DeleteUser(exec, u)
  \/ \E c \in CourseNames :
       \/ \E t \in UserIDs, fits \in BOOLEAN : CreateCourse(exec, c, t, fits)
       \/ DeleteCourse(exec, c)
       \/ \E u \in UserIDs : AddToCourse(exec, u, c) \/ DeleteFromCourse(exec, u, c)

Next ==
  \/ \E exec \in UserIDs : Request(exec)
  \/ \E u \in UserIDs, new \in Passwords : ModifyPassword(u, new)

Spec == Init /\ [][Next]_vars

-----------------------------------------------------------------------------
TypeOK ==
  /\ users \in [UserIDs -> [userName : UserNames \cup {"system", "admin"},
                            groupID : SystemGroups] \cup {NoUser}]
  /\ passwords \in [UserIDs -> Passwords \cup {"", Noise}]
  /\ groups \in [GroupIDs ->
                   [groupName : CourseNames \cup {"", "admin", "teacher", "student"},
                    userID : SUBSET UserIDs]]
  /\ \A g \in GroupIDs : Cardinality(groups[g].userID) <= MAX_USER_NUMBER_IN_GROUP
  /\ courses \in [CourseNames ->
                    [owner : UserIDs, groupID : GroupIDs] \cup {NoCourse}]

(***************************************************************************)
(* A name stands for one user and for one group at a time, so looking up   *)
(* the first match (getUserID, getGroupID) finds the right one.            *)
(***************************************************************************)
NamesUnique ==
  /\ \A u, v \in UserIDs : Live(u) /\ users[u].userName = users[v].userName => u = v
  /\ \A g, h \in GroupIDs : groups[g] # NoGroup /\ groups[g].groupName = groups[h].groupName
                              => g = h

(***************************************************************************)
(* The directory of a course refers to the group that has its name and to  *)
(* a user who is still a teacher: no deletion of a user, a group or a      *)
(* course, and no reuse of a number, leaves a course in other hands.       *)
(***************************************************************************)
CoursesConsistent ==
  \A c \in CourseNames : Exists(c) =>
    /\ groups[courses[c].groupID].groupName = c
    /\ users[courses[c].owner].groupID = Teacher

(***************************************************************************)
(* A student who is deleted is in no course any more and not among the     *)
(* students: whoever gets the number next inherits nothing from him.       *)
(***************************************************************************)
StudentLeaves ==
  [][ \A u \in UserIDs :
        (users[u].groupID = Student /\ users'[u] = NoUser) =>
          \A g \in GroupIDs :
            (g \in SystemGroups \/ \E c \in CourseNames : courses[c].groupID = g)
              => u \notin groups'[g].userID ]_vars
=============================================================================
