--------------------------- MODULE SessionsProofs ---------------------------
(***************************************************************************)
(* Proofs about the accounts and the sessions, for all numbers of users,   *)
(* groups, members and clients.                                            *)
(***************************************************************************)
EXTENDS Sessions, FiniteSetTheorems, WellFoundedInduction, TLAPS

(***************************************************************************)
(* What the invariants of Accounts rest on: the system's groups keep their *)
(* names and are no groups of courses, a group without a name is free, and *)
(* the members of a system's group have it as their main group.            *)
(***************************************************************************)
SystemGroupsKept ==
  /\ groups[0].groupName = "admin"
  /\ groups[1].groupName = "teacher"
  /\ groups[2].groupName = "student"
UnnamedFree == \A g \in GroupIDs : groups[g].groupName = "" => groups[g] = NoGroup
CourseGroups == \A c \in CourseNames : Exists(c) => courses[c].groupID \notin SystemGroups
MainGroups ==
  \A g \in SystemGroups : \A u \in groups[g].userID : users[u].groupID = g

AccountsInv ==
  /\ TypeOK
  /\ SystemGroupsKept /\ UnnamedFree /\ CourseGroups /\ MainGroups
  /\ NamesUnique /\ CoursesConsistent

GroupNames == CourseNames \cup {"", "admin", "teacher", "student"}
GroupValues == [groupName : GroupNames, userID : SUBSET UserIDs]
UserValues ==
  [userName : UserNames \cup {"system", "admin"}, groupID : SystemGroups] \cup {NoUser}
CourseValues == [owner : UserIDs, groupID : GroupIDs] \cup {NoCourse}
Small(group) == Cardinality(group.userID) <= MAX_USER_NUMBER_IN_GROUP

-----------------------------------------------------------------------------
(* First fit finds something: a set of numbers that is not empty has a     *)
(* least element.                                                          *)
LEMMA MinOfNumbers ==
  ASSUME NEW S \in SUBSET Nat, S # {}
  PROVE  Min(S) \in S
<1>1. \E x \in S : \A y \in S : ~ (<<y, x>> \in OpToRel(<, Nat))
  BY NatLessThanWellFounded, WFMin
<1>2. \A x, y \in Nat : y < x => <<y, x>> \in OpToRel(<, Nat)
  BY DEF OpToRel
<1>3. \E x \in S : \A y \in S : ~ (y < x)
  BY <1>1, <1>2
<1>4. \E x \in S : \A y \in S : x <= y
  BY <1>3
<1> QED
  BY <1>4 DEF Min

LEMMA Numbers ==
  /\ SystemUsers \subseteq UserIDs /\ SystemGroups \subseteq GroupIDs
  /\ UserIDs \subseteq Nat /\ GroupIDs \subseteq Nat
  /\ IsFiniteSet(UserIDs)
<1>1. SystemUsers \subseteq UserIDs /\ SystemGroups \subseteq GroupIDs
  BY TablesAssumption DEF UserIDs, GroupIDs, SystemUsers, SystemGroups
<1>2. UserIDs \subseteq Nat /\ GroupIDs \subseteq Nat
  BY DEF UserIDs, GroupIDs
<1>3. MAX_USER_NUMBER - 1 \in Int /\ 0 \in Int
  BY TablesAssumption
<1>4. IsFiniteSet(UserIDs)
  BY <1>3, FS_Interval DEF UserIDs
<1> QED
  BY <1>1, <1>2, <1>4

(* A group gains at most the member that is added, never more than fit.    *)
LEMMA WithMemberFacts ==
  ASSUME NEW G \in GroupValues, Small(G), NEW u \in UserIDs
  PROVE  /\ WithMember(G, u) \in GroupValues
         /\ Small(WithMember(G, u))
         /\ WithMember(G, u).groupName = G.groupName
         /\ WithMember(G, u).userID \subseteq G.userID \cup {u}
<1>1. IsFiniteSet(G.userID)
  BY Numbers, FS_Subset DEF GroupValues
<1>2. Cardinality(G.userID) \in Nat
  BY <1>1, FS_CardinalityType
<1>3. Cardinality(G.userID \cup {u}) = IF u \in G.userID THEN Cardinality(G.userID)
                                      ELSE Cardinality(G.userID) + 1
  BY <1>1, FS_AddElement
<1>4. CASE Cardinality(G.userID) < MAX_USER_NUMBER_IN_GROUP
  <2>1. WithMember(G, u) = [G EXCEPT !.userID = @ \cup {u}]
    BY <1>4 DEF WithMember
  <2>2. Cardinality(G.userID \cup {u}) <= MAX_USER_NUMBER_IN_GROUP
    BY <1>2, <1>3, <1>4, TablesAssumption
  <2>3. G = [groupName |-> G.groupName, userID |-> G.userID]
    BY DEF GroupValues
  <2>4. WithMember(G, u) = [groupName |-> G.groupName, userID |-> G.userID \cup {u}]
    BY <2>1, <2>3
  <2> QED
    BY <2>2, <2>4 DEF GroupValues, Small
<1>5. CASE ~ (Cardinality(G.userID) < MAX_USER_NUMBER_IN_GROUP)
  BY <1>5 DEF WithMember
<1> QED
  BY <1>4, <1>5

LEMMA WithoutMemberFacts ==
  ASSUME NEW G \in GroupValues, Small(G), NEW u
  PROVE  /\ WithoutMember(G, u) \in GroupValues
         /\ Small(WithoutMember(G, u))
         /\ WithoutMember(G, u).groupName = G.groupName
         /\ WithoutMember(G, u).userID = G.userID \ {u}
<1>1. IsFiniteSet(G.userID)
  BY Numbers, FS_Subset DEF GroupValues
<1>2. Cardinality(G.userID \ {u}) <= Cardinality(G.userID)
  BY <1>1, FS_Subset
<1>3. Cardinality(G.userID) \in Nat /\ Cardinality(G.userID \ {u}) \in Nat
  BY <1>1, FS_CardinalityType, FS_RemoveElement
<1>4. Cardinality(G.userID \ {u}) <= MAX_USER_NUMBER_IN_GROUP
  BY <1>2, <1>3, TablesAssumption DEF Small
<1>5. WithoutMember(G, u) = [groupName |-> G.groupName, userID |-> G.userID \ {u}]
  BY DEF WithoutMember, GroupValues
<1> QED
  BY <1>4, <1>5 DEF GroupValues, Small

LEMMA NoGroupFacts == NoGroup \in GroupValues /\ Small(NoGroup)
<1>1. Cardinality({}) <= MAX_USER_NUMBER_IN_GROUP
  BY FS_EmptySet, TablesAssumption
<1> QED
  BY <1>1 DEF NoGroup, GroupValues, GroupNames, Small

(* The values of what is free are in no group and have no name.            *)
LEMMA FreeValues ==
  /\ NoUser.groupID \notin SystemGroups /\ NoUser.userName = ""
  /\ NoUser.groupID # 0 /\ NoUser.groupID # Teacher /\ NoUser.groupID # Student
  /\ NoGroup.groupName = "" /\ NoGroup.userID = {}
  /\ Teacher \in SystemGroups /\ Student \in SystemGroups
  /\ \A g \in SystemGroups : g = 0 \/ g = 1 \/ g = 2
BY DEF NoUser, NoGroup, SystemGroups, Teacher, Student

(* The type invariant in the terms of the lemmas above.                    *)
LEMMA TypeFacts ==
  TypeOK <=> /\ users \in [UserIDs -> UserValues]
             /\ passwords \in [UserIDs -> Passwords \cup {"", Noise}]
             /\ groups \in [GroupIDs -> GroupValues]
             /\ \A g \in GroupIDs : Small(groups[g])
             /\ courses \in [CourseNames -> CourseValues]
BY DEF TypeOK, UserValues, GroupValues, GroupNames, CourseValues, Small

LEMMA TypeFactsNext ==
  TypeOK' <=> /\ users' \in [UserIDs -> UserValues]
              /\ passwords' \in [UserIDs -> Passwords \cup {"", Noise}]
              /\ groups' \in [GroupIDs -> GroupValues]
              /\ \A g \in GroupIDs : Small(groups'[g])
              /\ courses' \in [CourseNames -> CourseValues]
BY DEF TypeOK, UserValues, GroupValues, GroupNames, CourseValues, Small

-----------------------------------------------------------------------------
LEMMA InitInv == Init => AccountsInv
<1> SUFFICES ASSUME Init PROVE AccountsInv
  OBVIOUS
<1>1. /\ users \in [UserIDs -> UserValues]
      /\ users[0] = [userName |-> "system", groupID |-> 0]
      /\ users[1] = [userName |-> "admin", groupID |-> 0]
      /\ \A u \in UserIDs : u # 0 /\ u # 1 => users[u] = NoUser
  <2>1. 0 \in UserIDs /\ 1 \in UserIDs /\ \A u \in UserIDs : u = 0 \/ u = 1 \/ u > 1
    BY TablesAssumption DEF UserIDs
  <2>2. users = [u \in UserIDs |->
                   CASE u = 0 -> [userName |-> "system", groupID |-> 0]
                     [] u = 1 -> [userName |-> "admin", groupID |-> 0]
                     [] u > 1 -> NoUser]
    BY DEF Init
  <2>3. users[0] = [userName |-> "system", groupID |-> 0]
    BY <2>1, <2>2
  <2>4. users[1] = [userName |-> "admin", groupID |-> 0]
    BY <2>1, <2>2
  <2>5. \A u \in UserIDs : u # 0 /\ u # 1 => users[u] = NoUser
    BY <2>1, <2>2
  <2>6. 0 \in SystemGroups
    BY DEF SystemGroups
  <2>7. \A u \in UserIDs : users[u] \in UserValues
    BY <2>1, <2>3, <2>4, <2>5, <2>6 DEF UserValues
  <2>8. users \in [UserIDs -> UserValues]
    BY <2>2, <2>7
  <2> QED
    BY <2>3, <2>4, <2>5, <2>8
<1>2. /\ groups[0] = [groupName |-> "admin", userID |-> SystemUsers]
      /\ groups[1] = [groupName |-> "teacher", userID |-> {}]
      /\ groups[2] = [groupName |-> "student", userID |-> {}]
      /\ \A g \in GroupIDs : g # 0 /\ g # 1 /\ g # 2 => groups[g] = NoGroup
  <2>1. /\ 0 \in GroupIDs /\ 1 \in GroupIDs /\ 2 \in GroupIDs
        /\ \A g \in GroupIDs : g = 0 \/ g = 1 \/ g = 2 \/ g > 2
    BY TablesAssumption DEF GroupIDs
  <2>2. groups = [g \in GroupIDs |->
                    CASE g = 0 -> [groupName |-> "admin", userID |-> SystemUsers]
                      [] g = 1 -> [groupName |-> "teacher", userID |-> {}]
                      [] g = 2 -> [groupName |-> "student", userID |-> {}]
                      [] g > 2 -> NoGroup]
    BY DEF Init
  <2>3. groups[0] = [groupName |-> "admin", userID |-> SystemUsers]
    BY <2>1, <2>2
  <2>4. groups[1] = [groupName |-> "teacher", userID |-> {}]
    BY <2>1, <2>2
  <2>5. groups[2] = [groupName |-> "student", userID |-> {}]
    BY <2>1, <2>2
  <2>6. \A g \in GroupIDs : g # 0 /\ g # 1 /\ g # 2 => groups[g] = NoGroup
    BY <2>1, <2>2
  <2> QED
    BY <2>3, <2>4, <2>5, <2>6
<1>3. \A g \in GroupIDs : groups[g] \in GroupValues /\ Small(groups[g])
  <2>1. SystemUsers \subseteq UserIDs /\ Cardinality({}) = 0
    BY Numbers, FS_EmptySet
  <2>2. Cardinality(SystemUsers) <= MAX_USER_NUMBER_IN_GROUP
    <3>1. IsFiniteSet({0}) /\ Cardinality({0}) = 1
      BY FS_Singleton
    <3>2. Cardinality({0} \cup {1}) = 2
      BY <3>1, FS_AddElement
    <3>3. SystemUsers = {0} \cup {1}
      BY DEF SystemUsers
    <3> QED
      BY <3>2, <3>3, TablesAssumption
  <2>3. Cardinality({}) <= MAX_USER_NUMBER_IN_GROUP
    BY <2>1, TablesAssumption
  <2>4. /\ groups[0] \in GroupValues /\ Small(groups[0])
        /\ groups[1] \in GroupValues /\ Small(groups[1])
        /\ groups[2] \in GroupValues /\ Small(groups[2])
    BY <1>2, <2>1, <2>2, <2>3 DEF GroupValues, GroupNames, Small
  <2> QED
    BY <1>2, <2>4, NoGroupFacts
<1>4. TypeOK
  <2>1. groups \in [GroupIDs -> GroupValues]
    BY <1>3 DEF Init
  <2>2. courses \in [CourseNames -> CourseValues]
    BY DEF Init, CourseValues
  <2>3. passwords \in [UserIDs -> Passwords \cup {"", Noise}]
    BY DEF Init
  <2> QED
    BY <1>1, <1>3, <2>1, <2>2, <2>3, TypeFacts
<1>5. /\ groups[0].groupName = "admin" /\ groups[0].userID = SystemUsers
      /\ groups[1].groupName = "teacher" /\ groups[1].userID = {}
      /\ groups[2].groupName = "student" /\ groups[2].userID = {}
  BY <1>2
<1>6. users[0].userName = "system" /\ users[1].userName = "admin"
  BY <1>1
<1>7. \A g \in GroupIDs : g = 0 \/ g = 1 \/ g = 2 \/ groups[g] = NoGroup
  BY <1>2
<1>8. \A u \in UserIDs : u = 0 \/ u = 1 \/ users[u] = NoUser
  BY <1>1
<1>9. SystemGroupsKept
  BY <1>5 DEF SystemGroupsKept
<1>10. UnnamedFree
  BY <1>5, <1>7 DEF UnnamedFree
<1>11. \A c \in CourseNames : courses[c] = NoCourse
  BY DEF Init
<1>12. CourseGroups /\ CoursesConsistent
  BY <1>11 DEF CourseGroups, CoursesConsistent, Exists
<1>13. MainGroups
  <2>1. \A u \in SystemUsers : users[u].groupID = 0
    BY <1>1 DEF SystemUsers
  <2> QED
    BY <1>5, <2>1, FreeValues DEF MainGroups
<1>14. NamesUnique
  <2>1. ASSUME NEW u \in UserIDs, NEW v \in UserIDs,
               users[u] # NoUser, users[u].userName = users[v].userName
        PROVE  u = v
    BY <1>6, <1>8, <2>1, FreeValues
  <2>2. ASSUME NEW g \in GroupIDs, NEW h \in GroupIDs,
               groups[g] # NoGroup, groups[g].groupName = groups[h].groupName
        PROVE  g = h
    BY <1>5, <1>7, <2>2, FreeValues
  <2> QED
    BY <2>1, <2>2 DEF NamesUnique, Live
<1> QED
  BY <1>4, <1>9, <1>10, <1>12, <1>13, <1>14 DEF AccountsInv

(* A new user joins one group, which has a name and keeps it.              *)
LEMMA CreateUserStep ==
  ASSUME AccountsInv, NEW exec, NEW name \in UserNames, NEW password \in Passwords,
         NEW group \in SystemGroups, CreateUser(exec, name, password, group)
  PROVE  AccountsInv'
<1> DEFINE u == Min(FreeUsers)
<1>1. u \in UserIDs /\ users[u] = NoUser
  <2>1. FreeUsers \in SUBSET Nat /\ FreeUsers # {}
    BY Numbers DEF FreeUsers, CreateUser
  <2>2. u \in FreeUsers
    BY <2>1, MinOfNumbers
  <2> QED
    BY <2>2 DEF FreeUsers, Live
<1>2. /\ users' = [users EXCEPT ![u] = [userName |-> name, groupID |-> group]]
      /\ passwords' = [passwords EXCEPT ![u] = password]
      /\ groups' = [groups EXCEPT ![group] = WithMember(@, u)]
      /\ courses' = courses
      /\ UsersNamed(name) = {}
  BY DEF CreateUser, NameFree
<1> HIDE DEF u
<1>3. /\ users \in [UserIDs -> UserValues]
      /\ passwords \in [UserIDs -> Passwords \cup {"", Noise}]
      /\ groups \in [GroupIDs -> GroupValues]
      /\ \A g \in GroupIDs : Small(groups[g])
      /\ courses \in [CourseNames -> CourseValues]
  BY TypeFacts DEF AccountsInv
<1>4. group \in GroupIDs
  BY Numbers
<1>5. /\ WithMember(groups[group], u) \in GroupValues
      /\ Small(WithMember(groups[group], u))
      /\ WithMember(groups[group], u).groupName = groups[group].groupName
      /\ WithMember(groups[group], u).userID \subseteq groups[group].userID \cup {u}
  BY <1>1, <1>3, <1>4, WithMemberFacts
<1>6. /\ groups'[group] = WithMember(groups[group], u)
      /\ \A g \in GroupIDs : g # group => groups'[g] = groups[g]
  BY <1>2, <1>3, <1>4
<1>7. \A g \in GroupIDs : groups'[g].groupName = groups[g].groupName
  BY <1>5, <1>6
<1>8. groups[group] # NoGroup /\ groups[group].groupName # ""
  BY FreeValues DEF AccountsInv, SystemGroupsKept
<1>9. /\ users'[u] = [userName |-> name, groupID |-> group]
      /\ \A v \in UserIDs : v # u => users'[v] = users[v]
  BY <1>1, <1>2, <1>3
<1>10. TypeOK'
  <2>1. users' \in [UserIDs -> UserValues]
    BY <1>1, <1>2, <1>3 DEF UserValues
  <2>2. passwords' \in [UserIDs -> Passwords \cup {"", Noise}]
    BY <1>2, <1>3
  <2>3. groups' \in [GroupIDs -> GroupValues] /\ \A g \in GroupIDs : Small(groups'[g])
    BY <1>2, <1>3, <1>4, <1>5, <1>6
  <2> QED
    BY <1>2, <1>3, <2>1, <2>2, <2>3, TypeFactsNext
<1>11. SystemGroupsKept'
  BY <1>7, Numbers DEF AccountsInv, SystemGroupsKept, SystemGroups
<1>12. UnnamedFree'
  BY <1>6, <1>7, <1>8 DEF AccountsInv, UnnamedFree
<1>13. CourseGroups'
  BY <1>2 DEF AccountsInv, CourseGroups, Exists
<1>14. MainGroups'
  <2> SUFFICES ASSUME NEW g \in SystemGroups, NEW v \in groups'[g].userID
               PROVE  users'[v].groupID = g
    BY DEF MainGroups
  <2>1. g \in GroupIDs
    BY Numbers
  <2>2. CASE v = u
    <3>1. users[u].groupID \notin SystemGroups
      BY <1>1, FreeValues
    <3>2. u \notin groups[g].userID
      BY <3>1 DEF AccountsInv, MainGroups
    <3>3. g = group
      BY <1>6, <2>1, <2>2, <3>2
    <3> QED
      BY <1>9, <2>2, <3>3
  <2>3. CASE v # u
    <3>1. v \in groups[g].userID
      BY <1>5, <1>6, <2>1, <2>3
    <3>2. users[v].groupID = g /\ v \in UserIDs
      BY <1>3, <2>1, <3>1 DEF AccountsInv, MainGroups, GroupValues
    <3> QED
      BY <1>9, <2>3, <3>2
  <2> QED
    BY <2>2, <2>3
<1>15. NamesUnique'
  <2>1. \A v \in UserIDs : v # u => users'[v].userName # name
    BY <1>2, <1>9 DEF UsersNamed
  <2>2. ASSUME NEW v \in UserIDs, NEW w \in UserIDs,
               users'[v] # NoUser, users'[v].userName = users'[w].userName
        PROVE  v = w
    <3>1. CASE v = u \/ w = u
      BY <1>9, <2>1, <2>2, <3>1
    <3>2. CASE v # u /\ w # u
      BY <1>9, <2>2, <3>2 DEF AccountsInv, NamesUnique, Live
    <3> QED
      BY <3>1, <3>2
  <2>3. ASSUME NEW g \in GroupIDs, NEW h \in GroupIDs,
               groups'[g] # NoGroup, groups'[g].groupName = groups'[h].groupName
        PROVE  g = h
    BY <1>6, <1>7, <1>8, <2>3 DEF AccountsInv, NamesUnique
  <2> QED
    BY <2>2, <2>3 DEF NamesUnique, Live
<1>16. CoursesConsistent'
  <2> SUFFICES ASSUME NEW c \in CourseNames, courses[c] # NoCourse
               PROVE  /\ groups'[courses[c].groupID].groupName = c
                      /\ users'[courses[c].owner].groupID = Teacher
    BY <1>2 DEF CoursesConsistent, Exists
  <2>1. courses[c].groupID \in GroupIDs /\ courses[c].owner \in UserIDs
    BY <1>3 DEF CourseValues
  <2>2. /\ groups[courses[c].groupID].groupName = c
        /\ users[courses[c].owner].groupID = Teacher
    BY DEF AccountsInv, CoursesConsistent, Exists
  <2>3. courses[c].owner # u
    BY <1>1, <2>2, FreeValues
  <2> QED
    BY <1>7, <1>9, <2>1, <2>2, <2>3
<1> QED
  BY <1>10, <1>11, <1>12, <1>13, <1>14, <1>15, <1>16 DEF AccountsInv

(* The tables, element by element; and a name that is "" belongs to nobody.*)
LEMMA Elements ==
  ASSUME AccountsInv
  PROVE  /\ \A u \in UserIDs : users[u] # NoUser => users[u].userName # ""
         /\ \A u \in UserIDs : users[u] \in UserValues
         /\ \A g \in GroupIDs : groups[g] \in GroupValues /\ Small(groups[g])
         /\ \A c \in CourseNames : courses[c] # NoCourse =>
              courses[c].owner \in UserIDs /\ courses[c].groupID \in GroupIDs
         /\ \A c \in CourseNames : c # ""
<1>1. /\ users \in [UserIDs -> UserValues]
      /\ groups \in [GroupIDs -> GroupValues]
      /\ \A g \in GroupIDs : Small(groups[g])
      /\ courses \in [CourseNames -> CourseValues]
  BY TypeFacts DEF AccountsInv
<1>2. \A v \in UserValues : v # NoUser => v.userName # ""
  BY NamesAssumption DEF UserValues
<1>3. \A c \in CourseValues : c # NoCourse => c.owner \in UserIDs /\ c.groupID \in GroupIDs
  BY DEF CourseValues
<1>4. \A c \in CourseNames : c # ""
  BY NamesAssumption
<1> QED
  BY <1>1, <1>2, <1>3, <1>4

(* The group with the name of an existing course is the one its directory  *)
(* refers to, and none of the system's.                                    *)
LEMMA GroupOfCourse ==
  ASSUME AccountsInv, NEW c \in CourseNames, courses[c] # NoCourse,
         NEW g \in GroupIDs, groups[g].groupName = c
  PROVE  g = courses[c].groupID /\ g \notin SystemGroups
<1>1. courses[c].groupID \in GroupIDs /\ c # ""
  BY Elements
<1>2. groups[courses[c].groupID].groupName = c
  BY DEF AccountsInv, CoursesConsistent, Exists
<1>3. groups[g] # NoGroup
  BY <1>1, FreeValues
<1>4. g = courses[c].groupID
  BY <1>1, <1>2, <1>3 DEF AccountsInv, NamesUnique
<1>5. courses[c].groupID \notin SystemGroups
  BY DEF AccountsInv, CourseGroups, Exists
<1> QED
  BY <1>4, <1>5

(***************************************************************************)
(* What the steps that only change members have in common: every group     *)
(* keeps its name, and only the group of an existing course changes.       *)
(***************************************************************************)
LEMMA MembersChange ==
  ASSUME AccountsInv, NEW c \in CourseNames, courses[c] # NoCourse,
         users' = users, passwords' = passwords, courses' = courses,
         groups' \in [GroupIDs -> GroupValues],
         \A g \in GroupIDs : /\ Small(groups'[g])
                             /\ groups'[g].groupName = groups[g].groupName
                             /\ groups[g].groupName # c => groups'[g] = groups[g]
  PROVE  AccountsInv'
<1>1. TypeOK'
  BY TypeFacts, TypeFactsNext DEF AccountsInv
<1>2. SystemGroupsKept'
  BY Numbers DEF AccountsInv, SystemGroupsKept, SystemGroups
<1>3. UnnamedFree'
  BY Elements DEF AccountsInv, UnnamedFree
<1>4. CourseGroups'
  BY DEF AccountsInv, CourseGroups, Exists
<1>5. MainGroups'
  <2>1. \A g \in SystemGroups : g \in GroupIDs /\ groups[g].groupName # c
    BY Numbers, GroupOfCourse
  <2> QED
    BY <2>1 DEF AccountsInv, MainGroups
<1>6. NamesUnique'
  <2>1. c # "" /\ NoGroup.groupName = ""
    BY Elements, FreeValues
  <2>2. \A g \in GroupIDs : groups'[g] # NoGroup => groups[g] # NoGroup
    BY <2>1
  <2> QED
    BY <2>2 DEF AccountsInv, NamesUnique, Live
<1>7. CoursesConsistent'
  BY Elements DEF AccountsInv, CoursesConsistent, Exists
<1> QED
  BY <1>1, <1>2, <1>3, <1>4, <1>5, <1>6, <1>7 DEF AccountsInv

LEMMA AddToCourseStep ==
  ASSUME AccountsInv, NEW exec, NEW u \in UserIDs, NEW c \in CourseNames,
         AddToCourse(exec, u, c)
  PROVE  AccountsInv'
<1>1. /\ courses[c] # NoCourse
      /\ groups' = [g \in GroupIDs |-> IF groups[g].groupName = c
                                       THEN WithMember(groups[g], u) ELSE groups[g]]
      /\ users' = users /\ passwords' = passwords /\ courses' = courses
  BY DEF AddToCourse, Exists
<1>2. \A g \in GroupIDs : /\ groups[g] \in GroupValues /\ Small(groups[g])
                          /\ WithMember(groups[g], u) \in GroupValues
                          /\ Small(WithMember(groups[g], u))
                          /\ WithMember(groups[g], u).groupName = groups[g].groupName
  BY Elements, WithMemberFacts
<1> QED
  BY <1>1, <1>2, MembersChange

LEMMA DeleteFromCourseStep ==
  ASSUME AccountsInv, NEW exec, NEW u \in UserIDs, NEW c \in CourseNames,
         DeleteFromCourse(exec, u, c)
  PROVE  AccountsInv'
<1>1. /\ courses[c] # NoCourse
      /\ groups' = [g \in GroupIDs |-> IF groups[g].groupName = c
                                       THEN WithoutMember(groups[g], u) ELSE groups[g]]
      /\ users' = users /\ passwords' = passwords /\ courses' = courses
  BY DEF DeleteFromCourse, Exists
<1>2. \A g \in GroupIDs : /\ groups[g] \in GroupValues /\ Small(groups[g])
                          /\ WithoutMember(groups[g], u) \in GroupValues
                          /\ Small(WithoutMember(groups[g], u))
                          /\ WithoutMember(groups[g], u).groupName = groups[g].groupName
  BY Elements, WithoutMemberFacts
<1> QED
  BY <1>1, <1>2, MembersChange

LEMMA ModifyPasswordStep ==
  ASSUME AccountsInv, NEW u \in UserIDs, NEW new \in Passwords, ModifyPassword(u, new)
  PROVE  AccountsInv'
<1>1. /\ passwords' = [passwords EXCEPT ![u] = new]
      /\ users' = users /\ groups' = groups /\ courses' = courses
  BY DEF ModifyPassword
<1>2. TypeOK'
  <2>1. passwords' \in [UserIDs -> Passwords \cup {"", Noise}]
    BY <1>1, TypeFacts DEF AccountsInv
  <2> QED
    BY <1>1, <2>1, TypeFacts, TypeFactsNext DEF AccountsInv
<1> QED
  BY <1>1, <1>2 DEF AccountsInv, SystemGroupsKept, UnnamedFree, CourseGroups, MainGroups,
     NamesUnique, CoursesConsistent, Live, Exists

(***************************************************************************)
(* The courses of a set vanish together with the groups that have their    *)
(* names; the other groups keep their names.  This is what DeleteUser and  *)
(* DeleteCourse have in common as far as groups and courses go.            *)
(***************************************************************************)
LEMMA CoursesVanish ==
  ASSUME AccountsInv, NEW D \in SUBSET CourseNames,
         \A c \in D : courses[c] # NoCourse,
         courses' = [c \in CourseNames |-> IF c \in D THEN NoCourse ELSE courses[c]],
         \A g \in GroupIDs :
           /\ groups[g].groupName \in D => groups'[g] = NoGroup
           /\ groups[g].groupName \notin D =>
                /\ groups'[g].groupName = groups[g].groupName
                /\ groups[g] = NoGroup => groups'[g] = NoGroup
  PROVE  /\ courses' \in [CourseNames -> CourseValues]
         /\ SystemGroupsKept' /\ UnnamedFree' /\ CourseGroups'
         /\ \A g \in SystemGroups : g \in GroupIDs /\ groups[g].groupName \notin D
         /\ \A g, h \in GroupIDs :
              groups'[g] # NoGroup /\ groups'[g].groupName = groups'[h].groupName => g = h
         /\ \A c \in CourseNames : courses'[c] # NoCourse =>
              /\ c \notin D /\ courses'[c] = courses[c]
              /\ groups'[courses[c].groupID].groupName = c
<1>1. courses' \in [CourseNames -> CourseValues]
  <2>1. \A c \in CourseNames : courses[c] \in CourseValues
    BY TypeFacts DEF AccountsInv
  <2>2. NoCourse \in CourseValues
    BY DEF CourseValues
  <2> QED
    BY <2>1, <2>2
<1>2. \A g \in SystemGroups : g \in GroupIDs /\ groups[g].groupName \notin D
  BY Numbers, GroupOfCourse
<1>3. SystemGroupsKept'
  BY <1>2 DEF AccountsInv, SystemGroupsKept, SystemGroups
<1>4. UnnamedFree'
  BY FreeValues DEF AccountsInv, UnnamedFree
<1>5. CourseGroups'
  BY DEF AccountsInv, CourseGroups, Exists
<1>6. ASSUME NEW g \in GroupIDs, NEW h \in GroupIDs,
             groups'[g] # NoGroup, groups'[g].groupName = groups'[h].groupName
      PROVE  g = h
  <2>1. groups[g].groupName \notin D /\ groups[g] # NoGroup
        /\ groups'[g].groupName = groups[g].groupName
    BY <1>6
  <2>2. groups[g].groupName # ""
    BY <2>1 DEF AccountsInv, UnnamedFree
  <2>3. groups[h].groupName \notin D
    BY <1>6, <2>1, <2>2, FreeValues
  <2> QED
    BY <1>6, <2>1, <2>3 DEF AccountsInv, NamesUnique
<1>7. ASSUME NEW c \in CourseNames, courses'[c] # NoCourse
      PROVE  /\ c \notin D /\ courses'[c] = courses[c]
             /\ groups'[courses[c].groupID].groupName = c
  <2>1. c \notin D /\ courses'[c] = courses[c]
    BY <1>7
  <2>2. courses[c].groupID \in GroupIDs /\ groups[courses[c].groupID].groupName = c
    BY <1>7, <2>1, Elements DEF AccountsInv, CoursesConsistent, Exists
  <2> QED
    BY <2>1, <2>2
<1> QED
  BY <1>1, <1>2, <1>3, <1>4, <1>5, <1>6, <1>7

LEMMA DeleteCourseStep ==
  ASSUME AccountsInv, NEW exec, NEW c \in CourseNames, DeleteCourse(exec, c)
  PROVE  AccountsInv'
<1>1. /\ courses[c] # NoCourse
      /\ courses' = [courses EXCEPT ![c] = NoCourse]
      /\ groups' = [g \in GroupIDs |-> IF groups[g].groupName = c THEN NoGroup ELSE groups[g]]
      /\ users' = users /\ passwords' = passwords
  BY DEF DeleteCourse, CanRead, Exists
<1>2. /\ courses \in [CourseNames -> CourseValues]
      /\ groups \in [GroupIDs -> GroupValues]
      /\ \A g \in GroupIDs : Small(groups[g])
  BY TypeFacts DEF AccountsInv
<1>3. courses' = [d \in CourseNames |-> IF d \in {c} THEN NoCourse ELSE courses[d]]
  BY <1>1, <1>2
<1>4. \A g \in GroupIDs :
        /\ groups[g].groupName \in {c} => groups'[g] = NoGroup
        /\ groups[g].groupName \notin {c} => groups'[g] = groups[g]
  BY <1>1
<1>5. /\ courses' \in [CourseNames -> CourseValues]
      /\ SystemGroupsKept' /\ UnnamedFree' /\ CourseGroups'
      /\ \A g \in SystemGroups : g \in GroupIDs /\ groups[g].groupName \notin {c}
      /\ \A g, h \in GroupIDs :
           groups'[g] # NoGroup /\ groups'[g].groupName = groups'[h].groupName => g = h
      /\ \A d \in CourseNames : courses'[d] # NoCourse =>
           /\ d \notin {c} /\ courses'[d] = courses[d]
           /\ groups'[courses[d].groupID].groupName = d
  <2>1. {c} \in SUBSET CourseNames /\ \A d \in {c} : courses[d] # NoCourse
    BY <1>1
  <2>2. \A g \in GroupIDs :
          /\ groups[g].groupName \in {c} => groups'[g] = NoGroup
          /\ groups[g].groupName \notin {c} =>
               /\ groups'[g].groupName = groups[g].groupName
               /\ groups[g] = NoGroup => groups'[g] = NoGroup
    BY <1>4
  <2> QED
    BY <1>3, <2>1, <2>2, CoursesVanish
<1>6. TypeOK'
  <2>1. groups' \in [GroupIDs -> GroupValues] /\ \A g \in GroupIDs : Small(groups'[g])
    BY <1>1, <1>2, NoGroupFacts
  <2> QED
    BY <1>1, <1>5, <2>1, TypeFacts, TypeFactsNext DEF AccountsInv
<1>7. MainGroups'
  BY <1>1, <1>4, <1>5 DEF AccountsInv, MainGroups
<1>8. NamesUnique'
  BY <1>1, <1>5 DEF AccountsInv, NamesUnique, Live
<1>9. CoursesConsistent'
  BY <1>1, <1>5 DEF AccountsInv, CoursesConsistent, Exists
<1> QED
  BY <1>5, <1>6, <1>7, <1>8, <1>9 DEF AccountsInv

(* What becomes of a group when a user is deleted.                         *)
LEMMA DeletedMember ==
  ASSUME AccountsInv, NEW exec, NEW u \in UserIDs, DeleteUser(exec, u), NEW g \in GroupIDs
  PROVE  /\ groups'[g] \in GroupValues /\ Small(groups'[g])
         /\ groups'[g].userID \subseteq groups[g].userID
         /\ groups[g].groupName \in OwnedCourses(u) => groups'[g] = NoGroup
         /\ groups[g].groupName \notin OwnedCourses(u) =>
              /\ groups'[g].groupName = groups[g].groupName
              /\ groups[g] = NoGroup => groups'[g] = NoGroup
         /\ g = users[u].groupID \/ groups[g].groupName \in TakenCourses(u)
              => u \notin groups'[g].userID
<1>1. groups'[g] = IF groups[g].groupName \in OwnedCourses(u) THEN NoGroup
                   ELSE IF g = users[u].groupID \/ groups[g].groupName \in TakenCourses(u)
                   THEN WithoutMember(groups[g], u) ELSE groups[g]
  BY DEF DeleteUser
<1>2. /\ groups[g] \in GroupValues /\ Small(groups[g])
      /\ WithoutMember(groups[g], u) \in GroupValues
      /\ Small(WithoutMember(groups[g], u))
      /\ WithoutMember(groups[g], u).groupName = groups[g].groupName
      /\ WithoutMember(groups[g], u).userID = groups[g].userID \ {u}
  BY Elements, WithoutMemberFacts
<1>3. WithoutMember(NoGroup, u) = NoGroup
  <2>1. NoGroup = [groupName |-> "", userID |-> {}] /\ {} \ {u} = {}
    BY DEF NoGroup
  <2>2. [NoGroup EXCEPT !.userID = NoGroup.userID \ {u}]
          = [groupName |-> "", userID |-> {}]
    BY <2>1, FreeValues
  <2> QED
    BY <2>1, <2>2 DEF WithoutMember
<1> QED
  BY <1>1, <1>2, <1>3, NoGroupFacts, FreeValues

(* A teacher takes his courses along, everybody leaves his main group.     *)
LEMMA DeleteUserStep ==
  ASSUME AccountsInv, NEW exec, NEW u \in UserIDs, DeleteUser(exec, u)
  PROVE  AccountsInv'
<1> DEFINE D == OwnedCourses(u)
<1>1. /\ users[u] # NoUser
      /\ users' = [users EXCEPT ![u] = NoUser]
      /\ passwords' = [passwords EXCEPT ![u] = ""]
      /\ courses' = [c \in CourseNames |-> IF c \in D THEN NoCourse ELSE courses[c]]
      /\ groups' = [g \in GroupIDs |-> groups'[g]]
  <2>1. groups' = [g \in GroupIDs |-> groups'[g]]
    BY DEF DeleteUser
  <2>2. /\ users[u] # NoUser
        /\ users' = [users EXCEPT ![u] = NoUser]
        /\ passwords' = [passwords EXCEPT ![u] = ""]
    BY DEF DeleteUser, Live
  <2>3. courses' = [c \in CourseNames |-> IF c \in D THEN NoCourse ELSE courses[c]]
    BY DEF DeleteUser
  <2> QED
    BY <2>1, <2>2, <2>3
<1>2. /\ D \in SUBSET CourseNames
      /\ \A c \in D : courses[c].owner = u /\ users[u].groupID = Teacher
      /\ \A c \in CourseNames : courses[c].owner = u /\ users[u].groupID = Teacher => c \in D
  BY DEF OwnedCourses
<1>3. \A c \in D : courses[c] # NoCourse
  <2>1. NoCourse.owner \notin UserIDs
    BY Numbers DEF NoCourse
  <2> QED
    BY <1>2, <2>1
<1>4. \A g \in GroupIDs :
        /\ groups'[g] \in GroupValues /\ Small(groups'[g])
        /\ groups'[g].userID \subseteq groups[g].userID
        /\ groups[g].groupName \in D => groups'[g] = NoGroup
        /\ groups[g].groupName \notin D =>
             /\ groups'[g].groupName = groups[g].groupName
             /\ groups[g] = NoGroup => groups'[g] = NoGroup
        /\ g = users[u].groupID => u \notin groups'[g].userID
  BY DeletedMember
<1> HIDE DEF D
<1>5. /\ courses' \in [CourseNames -> CourseValues]
      /\ SystemGroupsKept' /\ UnnamedFree' /\ CourseGroups'
      /\ \A g \in SystemGroups : g \in GroupIDs /\ groups[g].groupName \notin D
      /\ \A g, h \in GroupIDs :
           groups'[g] # NoGroup /\ groups'[g].groupName = groups'[h].groupName => g = h
      /\ \A c \in CourseNames : courses'[c] # NoCourse =>
           /\ c \notin D /\ courses'[c] = courses[c]
           /\ groups'[courses[c].groupID].groupName = c
  BY <1>1, <1>2, <1>3, <1>4, CoursesVanish
<1>6. /\ users \in [UserIDs -> UserValues]
      /\ passwords \in [UserIDs -> Passwords \cup {"", Noise}]
      /\ users'[u] = NoUser
      /\ \A v \in UserIDs : v # u => users'[v] = users[v]
  BY <1>1, TypeFacts DEF AccountsInv
<1>7. TypeOK'
  <2>1. groups' \in [GroupIDs -> GroupValues] /\ \A g \in GroupIDs : Small(groups'[g])
    BY <1>1, <1>4
  <2>2. NoUser \in UserValues
    BY DEF UserValues
  <2>3. users' \in [UserIDs -> UserValues]
    BY <1>1, <1>6, <2>2
  <2>4. passwords' \in [UserIDs -> Passwords \cup {"", Noise}]
    BY <1>1, <1>6
  <2> QED
    BY <1>5, <2>1, <2>3, <2>4, TypeFactsNext
<1>8. MainGroups'
  <2> SUFFICES ASSUME NEW g \in SystemGroups, NEW v \in groups'[g].userID
               PROVE  users'[v].groupID = g
    BY DEF MainGroups
  <2>1. g \in GroupIDs /\ v \in groups[g].userID
    BY <1>4, <1>5
  <2>2. v \in UserIDs /\ users[v].groupID = g
    BY <2>1, Elements DEF AccountsInv, MainGroups, GroupValues
  <2>3. v # u
    BY <1>4, <2>1, <2>2
  <2> QED
    BY <1>6, <2>2, <2>3
<1>9. NamesUnique'
  <2>1. ASSUME NEW v \in UserIDs, NEW w \in UserIDs,
               users'[v] # NoUser, users'[v].userName = users'[w].userName
        PROVE  v = w
    <3>1. v # u /\ users[v] # NoUser /\ users'[v] = users[v] /\ users[v].userName # ""
      BY <1>6, <2>1, Elements
    <3>2. w # u
      BY <1>6, <2>1, <3>1, FreeValues
    <3> QED
      BY <1>6, <2>1, <3>1, <3>2 DEF AccountsInv, NamesUnique, Live
  <2> QED
    BY <1>5, <2>1 DEF NamesUnique, Live
<1>10. CoursesConsistent'
  <2> SUFFICES ASSUME NEW c \in CourseNames, courses'[c] # NoCourse
               PROVE  /\ groups'[courses'[c].groupID].groupName = c
                      /\ users'[courses'[c].owner].groupID = Teacher
    BY DEF CoursesConsistent, Exists
  <2>1. c \notin D /\ courses'[c] = courses[c] /\ groups'[courses[c].groupID].groupName = c
    BY <1>5
  <2>2. users[courses[c].owner].groupID = Teacher /\ courses[c].owner \in UserIDs
    BY <2>1, Elements DEF AccountsInv, CoursesConsistent, Exists
  <2>3. courses[c].owner # u
    BY <1>2, <2>1, <2>2
  <2> QED
    BY <1>6, <2>1, <2>2, <2>3
<1> QED
  BY <1>5, <1>7, <1>8, <1>9, <1>10 DEF AccountsInv

(* A new course gets a group that was free, under a name nobody has.       *)
LEMMA CreateCourseStep ==
  ASSUME AccountsInv, NEW exec, NEW c \in CourseNames, NEW t \in UserIDs,
         NEW fits \in BOOLEAN, CreateCourse(exec, c, t, fits)
  PROVE  AccountsInv'
<1> DEFINE g == Min(FreeGroups)
           G == [groups[g] EXCEPT !.groupName = c]
<1>1. g \in GroupIDs /\ groups[g] = NoGroup
  <2>1. FreeGroups \in SUBSET Nat /\ FreeGroups # {}
    BY Numbers DEF FreeGroups, CreateCourse
  <2>2. g \in FreeGroups
    BY <2>1, MinOfNumbers
  <2> QED
    BY <2>2 DEF FreeGroups
<1>2. /\ groups' = [groups EXCEPT ![g] = WithMember([@ EXCEPT !.groupName = c], t)]
      /\ courses' = IF fits THEN [courses EXCEPT ![c] = [owner |-> t, groupID |-> g]]
                            ELSE courses
      /\ passwords' = IF g = MAX_GROUP_NUMBER - 1
                      THEN [passwords EXCEPT ![0] = Noise] ELSE passwords
      /\ users' = users
      /\ users[t].groupID = Teacher /\ courses[c] = NoCourse
      /\ \A h \in GroupIDs : groups[h].groupName # c
  BY DEF CreateCourse, Exists, GroupsNamed
<1> HIDE DEF g
<1>3. /\ users \in [UserIDs -> UserValues]
      /\ passwords \in [UserIDs -> Passwords \cup {"", Noise}]
      /\ groups \in [GroupIDs -> GroupValues]
      /\ \A h \in GroupIDs : Small(groups[h])
      /\ courses \in [CourseNames -> CourseValues]
  BY TypeFacts DEF AccountsInv
<1>4. G \in GroupValues /\ Small(G) /\ G.groupName = c /\ G.userID = groups[g].userID
  <2>1. groups[g] \in GroupValues /\ Small(groups[g])
    BY <1>1, <1>3
  <2>2. G = [groupName |-> c, userID |-> groups[g].userID]
    BY <2>1 DEF GroupValues
  <2> QED
    BY <2>1, <2>2 DEF GroupValues, GroupNames, Small
<1>5. groups'[g] = WithMember(G, t) /\ \A h \in GroupIDs : h # g => groups'[h] = groups[h]
  BY <1>1, <1>2, <1>3
<1> HIDE DEF G
<1>6. groups'[g] \in GroupValues /\ Small(groups'[g]) /\ groups'[g].groupName = c
  BY <1>4, <1>5, WithMemberFacts
<1>7. c # "" /\ groups[g].groupName = ""
  BY <1>1, Elements, FreeValues
<1>8. \A h \in SystemGroups : h \in GroupIDs /\ h # g
  <2>1. \A h \in SystemGroups : groups[h].groupName # ""
    BY FreeValues DEF AccountsInv, SystemGroupsKept
  <2> QED
    BY <1>7, <2>1, Numbers
<1>9. \A d \in CourseNames : courses'[d] # NoCourse =>
        \/ d # c /\ courses'[d] = courses[d]
        \/ d = c /\ courses'[d].owner = t /\ courses'[d].groupID = g
  BY <1>2, <1>3
<1>10. TypeOK'
  <2>1. groups' \in [GroupIDs -> GroupValues] /\ \A h \in GroupIDs : Small(groups'[h])
    BY <1>1, <1>2, <1>3, <1>5, <1>6
  <2>2. [owner |-> t, groupID |-> g] \in CourseValues
    BY <1>1 DEF CourseValues
  <2>3. courses' \in [CourseNames -> CourseValues]
    BY <1>2, <1>3, <2>2
  <2>4. passwords' \in [UserIDs -> Passwords \cup {"", Noise}]
    BY <1>2, <1>3
  <2> QED
    BY <1>2, <1>3, <2>1, <2>3, <2>4, TypeFactsNext
<1>11. SystemGroupsKept'
  BY <1>5, <1>8 DEF AccountsInv, SystemGroupsKept, SystemGroups
<1>12. UnnamedFree'
  BY <1>5, <1>6, <1>7 DEF AccountsInv, UnnamedFree
<1>13. CourseGroups'
  BY <1>8, <1>9 DEF AccountsInv, CourseGroups, Exists
<1>14. MainGroups'
  BY <1>2, <1>5, <1>8 DEF AccountsInv, MainGroups
<1>15. NamesUnique'
  <2>1. ASSUME NEW h \in GroupIDs, NEW k \in GroupIDs,
               groups'[h] # NoGroup, groups'[h].groupName = groups'[k].groupName
        PROVE  h = k
    BY <1>2, <1>5, <1>6, <2>1 DEF AccountsInv, NamesUnique
  <2>2. \A u, v \in UserIDs :
          users'[u] # NoUser /\ users'[u].userName = users'[v].userName => u = v
    BY <1>2 DEF AccountsInv, NamesUnique, Live
  <2> QED
    BY <2>1, <2>2 DEF NamesUnique, Live
<1>16. CoursesConsistent'
  <2> SUFFICES ASSUME NEW d \in CourseNames, courses'[d] # NoCourse
               PROVE  /\ groups'[courses'[d].groupID].groupName = d
                      /\ users'[courses'[d].owner].groupID = Teacher
    BY DEF CoursesConsistent, Exists
  <2>1. CASE d # c /\ courses'[d] = courses[d]
    <3>1. courses[d].groupID \in GroupIDs
      BY <2>1, Elements
    <3>2. /\ groups[courses[d].groupID].groupName = d
          /\ users[courses[d].owner].groupID = Teacher
      BY <2>1 DEF AccountsInv, CoursesConsistent, Exists
    <3>3. courses[d].groupID # g
      BY <1>7, <3>2, Elements
    <3> QED
      BY <1>2, <1>5, <2>1, <3>1, <3>2, <3>3
  <2>2. CASE d = c /\ courses'[d].owner = t /\ courses'[d].groupID = g
    BY <1>2, <1>6, <2>2
  <2> QED
    BY <1>9, <2>1, <2>2
<1> QED
  BY <1>10, <1>11, <1>12, <1>13, <1>14, <1>15, <1>16 DEF AccountsInv

LEMMA RequestStep ==
  ASSUME AccountsInv, NEW exec, Request(exec)
  PROVE  AccountsInv'
<1>1. CASE \E name \in UserNames, password \in Passwords, group \in SystemGroups :
             CreateUser(exec, name, password, group)
  BY <1>1, CreateUserStep
<1>2. CASE \E u \in UserIDs : DeleteUser(exec, u)
  BY <1>2, DeleteUserStep
<1>3. CASE \E c \in CourseNames, t \in UserIDs, fits \in BOOLEAN :
             CreateCourse(exec, c, t, fits)
  BY <1>3, CreateCourseStep
<1>4. CASE \E c \in CourseNames : DeleteCourse(exec, c)
  BY <1>4, DeleteCourseStep
<1>5. CASE \E c \in CourseNames, u \in UserIDs : AddToCourse(exec, u, c)
  BY <1>5, AddToCourseStep
<1>6. CASE \E c \in CourseNames, u \in UserIDs : DeleteFromCourse(exec, u, c)
  BY <1>6, DeleteFromCourseStep
<1> QED
  BY <1>1, <1>2, <1>3, <1>4, <1>5, <1>6 DEF Request

LEMMA UnchangedStep ==
  ASSUME AccountsInv, UNCHANGED vars
  PROVE  AccountsInv'
<1>1. users' = users /\ passwords' = passwords /\ groups' = groups /\ courses' = courses
  BY DEF vars
<1>2. TypeOK'
  BY <1>1, TypeFacts, TypeFactsNext DEF AccountsInv
<1> QED
  BY <1>1, <1>2 DEF AccountsInv, SystemGroupsKept, UnnamedFree, CourseGroups, MainGroups,
     NamesUnique, CoursesConsistent, Live, Exists

-----------------------------------------------------------------------------
(***************************************************************************)
(* Whatever users do in their sessions, and whoever they have become since *)
(* they logged in, the tables stay consistent.                             *)
(***************************************************************************)
THEOREM AccountsInvariant == SessionSpec => []AccountsInv
<1>1. SessionInit => AccountsInv
  BY InitInv DEF SessionInit
<1>2. ASSUME AccountsInv, SessionNext PROVE AccountsInv'
  <2>1. PICK s \in Clients :
          \/ \E u \in UserIDs, password \in Passwords : LogIn(s, users[u].userName, password)
          \/ LogOut(s)
          \/ Act(s)
    BY <1>2 DEF SessionNext
  <2>2. CASE UNCHANGED vars
    BY <1>2, <2>2, UnchangedStep
  <2>3. CASE Request(session[s].userID)
    BY <1>2, <2>3, RequestStep
  <2>4. CASE \E u \in UserIDs, new \in Passwords : ModifyPassword(u, new)
    BY <1>2, <2>4, ModifyPasswordStep
  <2> QED
    BY <2>1, <2>2, <2>3, <2>4 DEF LogIn, LogOut, Act
<1>3. AccountsInv /\ UNCHANGED sessionVars => AccountsInv'
  BY UnchangedStep DEF sessionVars
<1> QED
  BY <1>1, <1>2, <1>3, PTL DEF SessionSpec

(* Every table keeps its type; in particular no group ever holds more      *)
(* members than it has room for.                                           *)
THEOREM TypeCorrect == SessionSpec => []TypeOK
<1>1. AccountsInv => TypeOK
  BY DEF AccountsInv
<1> QED
  BY <1>1, AccountsInvariant, PTL

(* A name stands for one user and one group at a time.                     *)
THEOREM UniqueNames == SessionSpec => []NamesUnique
<1>1. AccountsInv => NamesUnique
  BY DEF AccountsInv
<1> QED
  BY <1>1, AccountsInvariant, PTL

(* A course belongs to a teacher and to the group with its name.           *)
THEOREM ConsistentCourses == SessionSpec => []CoursesConsistent
<1>1. AccountsInv => CoursesConsistent
  BY DEF AccountsInv
<1> QED
  BY <1>1, AccountsInvariant, PTL

(* A session whose user was deleted can do nothing while the number is     *)
(* free: the owner of a course is a teacher, and a free number is not.     *)
THEOREM PowerlessSessions == SessionSpec => []DeletedUsersPowerless
<1>1. AccountsInv => DeletedUsersPowerless
  <2> SUFFICES ASSUME AccountsInv, NEW s \in LoggedIn, users[session[s].userID] = NoUser
               PROVE  /\ ~ IsAdministrator(session[s].userID)
                      /\ \A c \in CourseNames : ~ CanRead(session[s].userID, c)
    BY DEF DeletedUsersPowerless, Live
  <2>1. ~ IsAdministrator(session[s].userID)
    BY FreeValues DEF IsAdministrator
  <2>2. ASSUME NEW c \in CourseNames, CanRead(session[s].userID, c)
        PROVE  FALSE
    <3>1. courses[c] # NoCourse /\ session[s].userID = courses[c].owner
      BY <2>1, <2>2 DEF CanRead, Live, Exists
    <3>2. users[courses[c].owner].groupID = Teacher
      BY <3>1 DEF AccountsInv, CoursesConsistent, Exists
    <3> QED
      BY <3>1, <3>2, FreeValues
  <2> QED
    BY <2>1, <2>2
<1> QED
  BY <1>1, AccountsInvariant, PTL

(* Only his deletion makes a student's number free.                        *)
LEMMA OnlyDeletionFrees ==
  ASSUME AccountsInv, NEW exec, Request(exec), NEW u \in UserIDs,
         users[u].groupID = Student, users'[u] = NoUser
  PROVE  DeleteUser(exec, u)
<1>1. users[u] # NoUser /\ users'[u] # users[u]
  BY FreeValues
<1>2. users \in [UserIDs -> UserValues]
  BY TypeFacts DEF AccountsInv
<1>3. ASSUME NEW name \in UserNames, NEW password \in Passwords, NEW group \in SystemGroups,
             CreateUser(exec, name, password, group)
      PROVE  FALSE
  <2>1. users' = [users EXCEPT ![Min(FreeUsers)] = [userName |-> name, groupID |-> group]]
    BY <1>3 DEF CreateUser
  <2>2. users'[u].groupID = group
    BY <1>1, <1>2, <2>1
  <2> QED
    BY <2>2, FreeValues
<1>4. ASSUME NEW v \in UserIDs, DeleteUser(exec, v)
      PROVE  v = u
  BY <1>1, <1>2, <1>4 DEF DeleteUser
<1>5. CASE users' = users
  BY <1>1, <1>5
<1> QED
  BY <1>3, <1>4, <1>5 DEF Request, CreateCourse, DeleteCourse, AddToCourse, DeleteFromCourse

(* Whoever gets the number of a deleted student inherits no membership in  *)
(* the group of a course or of the system: the deletion takes the number   *)
(* out of the main group and of the groups of the courses, and no other    *)
(* group of the system holds it.                                           *)
THEOREM StudentsLeave == SessionSpec => StudentLeaves
<1> DEFINE Leaves(u) ==
             (users[u].groupID = Student /\ users'[u] = NoUser) =>
               \A g \in GroupIDs :
                 (g \in SystemGroups \/ \E c \in CourseNames : courses[c].groupID = g)
                   => u \notin groups'[g].userID
<1>1. ASSUME AccountsInv, NEW exec, NEW u \in UserIDs, DeleteUser(exec, u),
             users[u].groupID = Student, NEW g \in GroupIDs,
             g \in SystemGroups \/ \E c \in CourseNames : courses[c].groupID = g
      PROVE  u \notin groups'[g].userID
  <2>1. /\ groups'[g].userID \subseteq groups[g].userID
        /\ g = users[u].groupID \/ groups[g].groupName \in TakenCourses(u)
             => u \notin groups'[g].userID
    BY <1>1, DeletedMember
  <2>2. CASE g \in SystemGroups
    BY <1>1, <2>1, <2>2 DEF AccountsInv, MainGroups
  <2>3. ASSUME NEW c \in CourseNames, courses[c].groupID = g, u \in groups[g].userID
        PROVE  groups[g].groupName \in TakenCourses(u)
    <3>1. courses[c] # NoCourse
      <4>1. NoCourse.groupID \notin GroupIDs
        BY Numbers DEF NoCourse
      <4> QED
        BY <2>3, <4>1
    <3>2. groups[g].groupName = c
      BY <1>1, <2>3, <3>1 DEF AccountsInv, CoursesConsistent, Exists
    <3>3. IsMember(u, c)
      BY <1>1, <2>3, <3>2 DEF IsMember, GroupsNamed, DeleteUser
    <3> QED
      BY <1>1, <3>1, <3>2, <3>3 DEF TakenCourses, Exists
  <2> QED
    BY <1>1, <2>1, <2>2, <2>3
<1>2. ASSUME AccountsInv, [SessionNext]_sessionVars, NEW u \in UserIDs
      PROVE  Leaves(u)
  <2>1. CASE users' = users
    BY <2>1, FreeValues
  <2>2. ASSUME NEW exec, Request(exec) PROVE Leaves(u)
    BY <1>1, <1>2, <2>2, OnlyDeletionFrees
  <2> QED
    BY <1>2, <2>1, <2>2
    DEF SessionNext, sessionVars, vars, LogIn, LogOut, Act, ModifyPassword
<1>3. AccountsInv /\ [SessionNext]_sessionVars
        => [\A u \in UserIDs : Leaves(u)]_vars
  BY <1>2
<1> QED
  BY <1>3, AccountsInvariant, PTL DEF SessionSpec, StudentLeaves
=============================================================================
