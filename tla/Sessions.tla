------------------------------ MODULE Sessions ------------------------------
(***************************************************************************)
(* The sessions of the clients (src/Server/server.cpp, login and working)  *)
(* over the accounts they change.  A session gets the number of a user at  *)
(* login, under the reader lock, and keeps it: the accounts may change as  *)
(* soon as the lock is released, and the numbers of deleted users go to    *)
(* new users.  Dialogue has the messages of a session.                     *)
(***************************************************************************)
EXTENDS Accounts

CONSTANT Clients

VARIABLE session  \* the number each client got, and the name it gave for it

sessionVars == <<vars, session>>

NoSession == [userName |-> "", userID |-> -1]
LoggedIn == {s \in Clients : session[s] # NoSession}

SessionInit == Init /\ session = [s \in Clients |-> NoSession]

(* loginSystems and getUserID take the first user with the name.           *)
LogIn(s, name, password) ==
  /\ s \notin LoggedIn
  /\ UsersNamed(name) # {}
  /\ LET u == Min(UsersNamed(name))
     IN  /\ passwords[u] = password
         /\ session' = [session EXCEPT ![s] = [userName |-> name, userID |-> u]]
  /\ UNCHANGED vars

LogOut(s) ==
  /\ s \in LoggedIn
  /\ session' = [session EXCEPT ![s] = NoSession]
  /\ UNCHANGED vars

(* systemWorking: a request is executed for the number of its session;     *)
(* modifypassword asks for the old password instead.                       *)
Act(s) ==
  /\ s \in LoggedIn
  /\ \/ Request(session[s].userID)
     \/ \E u \in UserIDs, new \in Passwords : ModifyPassword(u, new)
  /\ UNCHANGED session

SessionNext ==
  \E s \in Clients :
    \/ \E u \in UserIDs, password \in Passwords :
         Live(u) /\ LogIn(s, users[u].userName, password)
    \/ LogOut(s)
    \/ Act(s)

SessionSpec == SessionInit /\ [][SessionNext]_sessionVars

-----------------------------------------------------------------------------
(***************************************************************************)
(* The session of a user who has been deleted can do nothing as long as    *)
(* nobody has the number: it belongs to no administrator and opens no      *)
(* course, whatever its user had created or joined.                        *)
(***************************************************************************)
DeletedUsersPowerless ==
  \A s \in LoggedIn :
    LET u == session[s].userID
    IN  ~ Live(u) => /\ ~ IsAdministrator(u)
                     /\ \A c \in CourseNames : ~ CanRead(u, c)

(***************************************************************************)
(* Requests are executed for the user who logged in.                       *)
(***************************************************************************)
SessionsOwn ==
  \A s \in LoggedIn :
    Live(session[s].userID) => users[session[s].userID].userName = session[s].userName
=============================================================================
