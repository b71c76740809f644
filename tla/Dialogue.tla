------------------------------ MODULE Dialogue ------------------------------
(***************************************************************************)
(* One client (src/Client/client.cpp), the thread of the server that       *)
(* serves it (src/Server/server.cpp, working) and the connection between   *)
(* them (src/TcpSocket).  Neither side checks what the other sends: the    *)
(* messages of a request have no names and no number, so both programs     *)
(* must send and receive the same ones in the same order.                  *)
(*                                                                         *)
(* TcpSocket delivers messages whole and in order.  A word that is typed   *)
(* is modelled by the role it is typed for.  Commands the client refuses   *)
(* and its help send nothing and are left out.  What a request does is in  *)
(* the other modules: here it is a reply, which bears the request's name.  *)
(***************************************************************************)
EXTENDS Naturals, Sequences, SequencesExt

CONSTANTS
  Files,   \* the files a client may send, as sequences of chunks
  MayQuit  \* whether a client may be killed

(* A chunk is "text", or "binary" when its first byte is NUL.              *)
ASSUME FilesAssumption ==
  /\ Files \subseteq Seq({"text", "binary"})
  /\ MayQuit \in BOOLEAN

-----------------------------------------------------------------------------
(* The words each function of the client sends after the name of the       *)
(* request; a last word "0" or "1" says how the content follows.           *)
TeachingSends ==
  [publishhomework |-> <<"course", "homework", "option">>,
   checkhomework |-> <<"course", "homework", "student">>,
   mark |-> <<"course", "homework", "student", "score">>,
   writecomment |-> <<"course", "homework", "student", "option">>]
HomeworkSends ==
  [checkscoreandcomment |-> <<"course", "homework", "student">>,
   checkassignment |-> <<"course", "homework">>,
   submithomework |-> <<"course", "homework", "student", "option">>,
   deletehomework |-> <<"course", "homework">>,
   listcourse |-> <<"user">>,
   listhomework |-> <<"course", "user">>]
CourseSends ==
  [createcourse |-> <<"course", "teacher">>,
   deletecourse |-> <<"course">>,
   addtocourse |-> <<"course", "student">>,
   deletefromcourse |-> <<"course", "student">>,
   listcourseuser |-> <<"course">>,
   listgroupuser |-> <<"group">>]
UserSends ==
  [createuser |-> <<"group", "user", "password">>,
   deleteuser |-> <<"user">>,
   modifypassword |-> <<"user", "old", "new", "confirm">>,
   backup |-> <<"version">>,
   recover |-> <<"version">>,
   revoke |-> <<>>, clearsnapshot |-> <<>>, checklog |-> <<>>]

Requests == DOMAIN TeachingSends \cup DOMAIN HomeworkSends
              \cup DOMAIN CourseSends \cup DOMAIN UserSends
ClientSends ==
  [request \in Requests |->
     CASE request \in DOMAIN TeachingSends -> TeachingSends[request]
       [] request \in DOMAIN HomeworkSends -> HomeworkSends[request]
       [] request \in DOMAIN CourseSends -> CourseSends[request]
       [] request \in DOMAIN UserSends -> UserSends[request]]

(* The words each function of the server takes, after a slip: a name and   *)
(* a group taken in the wrong order.                                       *)
TakesInOtherOrder ==
  [ClientSends EXCEPT !["createuser"] = <<"user", "group", "password">>]

TeachingTakes ==
  [publishhomework |-> <<"course", "homework", "option">>,
   checkhomework |-> <<"course", "homework", "student">>,
   mark |-> <<"course", "homework", "student", "score">>,
   writecomment |-> <<"course", "homework", "student", "option">>]
HomeworkTakes ==
  [checkscoreandcomment |-> <<"course", "homework", "student">>,
   checkassignment |-> <<"course", "homework">>,
   submithomework |-> <<"course", "homework", "student", "option">>,
   deletehomework |-> <<"course", "homework">>,
   listcourse |-> <<"user">>, listhomework |-> <<"course", "user">>]
CourseTakes ==
  [createcourse |-> <<"course", "teacher">>, deletecourse |-> <<"course">>,
   addtocourse |-> <<"course", "student">>,
   deletefromcourse |-> <<"course", "student">>,
   listcourseuser |-> <<"course">>, listgroupuser |-> <<"group">>]
UserTakes ==
  [createuser |-> <<"group", "user", "password">>,
   deleteuser |-> <<"user">>,
   modifypassword |-> <<"user", "old", "new", "confirm">>,
   backup |-> <<"version">>, recover |-> <<"version">>,
   revoke |-> <<>>, checklog |-> <<>>, clearsnapshot |-> <<>>]
Handled == DOMAIN TeachingTakes \cup DOMAIN HomeworkTakes
             \cup DOMAIN CourseTakes \cup DOMAIN UserTakes
ServerTakes ==
  [request \in Handled |->
     CASE request \in DOMAIN TeachingTakes -> TeachingTakes[request]
       [] request \in DOMAIN HomeworkTakes -> HomeworkTakes[request]
       [] request \in DOMAIN CourseTakes -> CourseTakes[request]
       [] request \in DOMAIN UserTakes -> UserTakes[request]]

(* The menus of administratorSystem, teacherSystem and studentSystem.      *)
AdminMenu == Requests
TeacherMenu ==
  {"publishhomework", "checkhomework", "mark", "writecomment",
   "checkscoreandcomment", "checkassignment", "deletehomework", "listcourse",
   "listhomework", "listcourseuser", "modifypassword"}
StudentMenu ==
  {"checkhomework", "checkscoreandcomment", "checkassignment",
   "submithomework", "listcourse", "listhomework", "modifypassword"}
Menu == [admin |-> AdminMenu, teacher |-> TeacherMenu, student |-> StudentMenu]
Identities == DOMAIN Menu

-----------------------------------------------------------------------------
VARIABLES
  client,    \* where the client is
  identity,  \* the group the server has told it
  asked,     \* the messages of its last request
  toSend,    \* those of them it has not sent yet
  server,    \* where the thread of the server is
  taken,     \* what the thread has received of a request
  toServer, toClient,  \* the messages on their way
  link       \* the connection, as the server finds it

clientVars == <<client, identity, asked, toSend>>
serverVars == <<server, taken>>
vars == <<clientVars, serverVars, toServer, toClient, link>>

Init ==
  /\ client = "greeting" /\ identity = "" /\ asked = <<>> /\ toSend = <<>>
  /\ server = "welcome" /\ taken = <<>>
  /\ toServer = <<>> /\ toClient = <<>>
  /\ link = "open"

-----------------------------------------------------------------------------
(***************************************************************************)
(* The connection at the server's end.  When the client has gone, it is    *)
(* "finished" if the client had read everything: read returns 0, and readn *)
(* tries again for ever; what is written is lost, and once the refusal has *)
(* come back the connection is "broken" and the next write kills the       *)
(* server, which does not handle SIGPIPE.  A client that had not read      *)
(* everything leaves it "reset": one read or write fails, and the          *)
(* connection is "broken".  The read that fails makes an empty message.    *)
(***************************************************************************)
(* recvMsg cuts a message at its first NUL.                                *)
ReadAs(word) == IF word = "binary" THEN "" ELSE word

CanReceive == toServer # <<>> \/ link = "reset"
Received == IF toServer # <<>> THEN ReadAs(Head(toServer)) ELSE ""
Receive ==
  /\ CanReceive
  /\ IF toServer # <<>>
     THEN toServer' = Tail(toServer) /\ UNCHANGED link
     ELSE link' = "broken" /\ UNCHANGED toServer
  /\ UNCHANGED <<clientVars, toClient>>

Lost == [finished |-> {"finished", "broken"}, reset |-> {"reset", "broken"}]

Send(word, next) ==
  /\ IF link = "broken" THEN server' = "killed" ELSE server' = next
  /\ IF link = "open"
     THEN toClient' = Append(toClient, word) /\ UNCHANGED link
     ELSE /\ link' \in IF link = "broken" THEN {link} ELSE Lost[link]
          /\ UNCHANGED toClient
  /\ UNCHANGED <<clientVars, toServer>>

-----------------------------------------------------------------------------
(* The thread of the server.  login sends, receives twice and sends; the   *)
(* answer to a rejection is read as an option, and login starts again.     *)
Welcome == server = "welcome" /\ Send("welcome", "prompt") /\ UNCHANGED taken
Prompt == server = "prompt" /\ Send("prompt", "username") /\ UNCHANGED taken
TakeUsername ==
  /\ server = "username" /\ Receive
  /\ server' = "password" /\ UNCHANGED taken
TakePassword ==
  /\ server = "password" /\ Receive
  /\ server' = "verdict" /\ UNCHANGED taken
Verdict ==
  /\ server = "verdict"
  /\ Send("Accepted", "identity") \/ Send("Rejected", "rejected")
  /\ UNCHANGED taken
AfterRejection ==
  /\ server = "rejected" /\ Receive
  /\ server' = IF Received = "exit" THEN "ended" ELSE "prompt"
  /\ UNCHANGED taken

(* systemWorking.  The user may have been deleted since login: his group   *)
(* has no name then.                                                       *)
SendIdentity ==
  /\ server = "identity"
  /\ \E group \in Identities \cup {""} : Send(group, "option")
  /\ UNCHANGED taken

(* Two slips: "exit" is not known, what is not known is answered.          *)
TakeOptionWithoutExit ==
  /\ server = "option" /\ Receive
  /\ server' = IF Received \in Handled THEN "request" ELSE "option"
  /\ taken' = IF Received \in Handled THEN <<Received>> ELSE <<>>
TakeOptionAndAnswer ==
  /\ server = "option" /\ Receive
  /\ server' = IF Received = "exit" THEN "ended" ELSE "request"
  /\ taken' = <<Received>>

(* What is not a request is skipped without a reply.                       *)
TakeOption ==
  /\ server = "option" /\ Receive
  /\ server' = CASE Received \in Handled -> "request"
                 [] Received = "exit" -> "ended"
                 [] OTHER -> "option"
  /\ taken' = IF Received \in Handled THEN <<Received>> ELSE <<>>

(* A handler receives the words of its request, and the content as one     *)
(* message or, with recvFile, as chunks up to an empty message.            *)
Takes(request) == IF request \in Handled THEN ServerTakes[request] ELSE <<>>
HasContent(words) == words # <<>> /\ Last(words) = "option"
Complete ==
  LET words == Takes(taken[1])
      more == Len(taken) - 1 - Len(words)
  IN  CASE ~ HasContent(words) -> more = 0
        [] HasContent(words) /\ more <= 0 -> FALSE
        [] OTHER -> taken[Len(words) + 1] # "1" \/ Last(taken) = ""

TakeWord ==
  /\ server = "request" /\ ~ Complete
  /\ Receive
  /\ taken' = Append(taken, Received)
  /\ UNCHANGED server

(* The handler takes the lock, works, and its result is sent.              *)
Reply ==
  /\ server = "request" /\ Complete
  /\ Send(taken[1], "option")
  /\ taken' = <<>>

(* The steps before which the thread takes the lock, to look a user up or  *)
(* to serve the request, and those that need the connection alone.         *)
Handle == Verdict \/ SendIdentity \/ Reply
Converse ==
  \/ Welcome \/ Prompt \/ TakeUsername \/ TakePassword
  \/ AfterRejection \/ TakeOption \/ TakeWord
ServerStep == Converse \/ Handle

-----------------------------------------------------------------------------
(* The client.                                                             *)
Hear(word, next) ==
  /\ toClient # <<>> /\ Head(toClient) = word
  /\ toClient' = Tail(toClient)
  /\ client' = next
  /\ UNCHANGED <<serverVars, toServer, link>>

HearWelcome ==
  /\ client = "greeting" /\ Hear("welcome", "prompt")
  /\ UNCHANGED <<identity, asked, toSend>>
HearPrompt ==
  /\ client = "prompt" /\ Hear("prompt", "login")
  /\ toSend' = <<"username", "password">>
  /\ UNCHANGED <<identity, asked>>
HearAccepted ==
  /\ client = "login" /\ toSend = <<>> /\ Hear("Accepted", "working")
  /\ UNCHANGED <<identity, asked, toSend>>
HearRejected ==
  /\ client = "login" /\ toSend = <<>> /\ Hear("Rejected", "prompt")
  /\ toSend' = <<"retry">>
  /\ UNCHANGED <<identity, asked>>

(* A client that knows no menu for its group leaves without a word.        *)
Leave == client' = "gone" /\ link' = "finished"
HearIdentity ==
  /\ client = "working"
  /\ \E group \in Identities : Hear(group, "menu") /\ identity' = group
  /\ UNCHANGED <<asked, toSend>>
HearNoIdentity ==
  /\ client = "working"
  /\ toClient # <<>> /\ Head(toClient) = ""
  /\ toClient' = Tail(toClient)
  /\ Leave
  /\ UNCHANGED <<identity, asked, toSend, serverVars, toServer>>

(* sendFile: the chunks and an empty message, which is all there is of a   *)
(* file that cannot be opened.                                             *)
SendFileWithoutEnd(file) == file  \* a slip
SendFile(file) == Append(file, "")

Contents == {<<"0", "content">>} \cup {<<"1">> \o SendFile(file) : file \in Files}
Messages(request) ==
  LET words == ClientSends[request]
  IN  IF HasContent(words)
      THEN {<<request>> \o Front(words) \o content : content \in Contents}
      ELSE {<<request>> \o words}

Ask(request) ==
  /\ client = "menu" /\ request \in Menu[identity]
  /\ asked' \in Messages(request)
  /\ toSend' = asked'
  /\ client' = "asking"
  /\ UNCHANGED <<identity, serverVars, toServer, toClient, link>>

(* The prompt is received only after the answer to a rejection is sent.    *)
Say ==
  /\ client # "gone" /\ toSend # <<>>
  /\ toServer' = Append(toServer, Head(toSend))
  /\ toSend' = Tail(toSend)
  /\ UNCHANGED <<client, identity, asked, serverVars, toClient, link>>

HearReply ==
  /\ client = "asking" /\ toSend = <<>>
  /\ toClient # <<>>
  /\ toClient' = Tail(toClient)
  /\ client' = "menu"
  /\ UNCHANGED <<identity, asked, toSend, serverVars, toServer, link>>

Exit ==
  /\ client = "menu"
  /\ toServer' = Append(toServer, "exit")
  /\ Leave
  /\ asked' = <<"exit">>
  /\ UNCHANGED <<identity, toSend, serverVars, toClient>>

(* The client is killed and its end of the connection closed.              *)
Quit ==
  /\ MayQuit /\ client # "gone"
  /\ client' = "gone"
  /\ link' \in IF toClient = <<>> THEN {"finished"}
                                  ELSE {"reset", "finished", "broken"}
  /\ UNCHANGED <<identity, asked, toSend, serverVars, toServer, toClient>>

ClientHears ==
  \/ HearWelcome \/ HearPrompt \/ HearAccepted \/ HearRejected
  \/ HearIdentity \/ HearNoIdentity \/ HearReply

Next ==
  \/ ServerStep \/ ClientHears
  \/ \E request \in Requests : Ask(request)
  \/ Say \/ Exit \/ Quit

(* The thread of the server runs, and so does a client that has something  *)
(* to read.  Nobody has to ask, to exit or to finish typing.  A thread may *)
(* wait for the lock for ever, and its handler may never return.           *)
Fairness == WF_vars(Converse) /\ WF_vars(ClientHears)

Spec == Init /\ [][Next]_vars /\ Fairness

-----------------------------------------------------------------------------
Arguments == UNION {Range(ClientSends[r]) : r \in Requests}
Words == Requests \cup Arguments \cup Identities
           \cup {"", "0", "1", "content", "text", "binary", "exit", "retry",
                 "username", "password", "welcome", "prompt", "Accepted",
                 "Rejected"}

TypeOK ==
  /\ client \in {"greeting", "prompt", "login", "working", "menu", "asking", "gone"}
  /\ server \in {"welcome", "prompt", "username", "password", "verdict", "rejected",
                 "identity", "option", "request", "ended", "killed"}
  /\ identity \in Identities \cup {""}
  /\ UNION {Range(m) : m \in {asked, toSend, taken, toServer, toClient}} \subseteq Words
  /\ Len(toClient) <= 2
  /\ link \in {"open", "finished", "reset", "broken"}

(***************************************************************************)
(* When a handler begins to work, what it took for each argument is what   *)
(* the client sent for it, and it has taken all of the content: a file up  *)
(* to the first chunk that starts with a NUL, which ends the transfer.     *)
(***************************************************************************)
Fits(word, role) == IF role = "option" THEN word \in {"0", "1"} ELSE word = role
UpToNul(words) ==
  LET nuls == {k \in DOMAIN words : words[k] = "binary"}
  IN  IF nuls = {} THEN words
      ELSE SubSeq(words, 1, (CHOOSE k \in nuls : \A j \in nuls : k <= j) - 1) \o <<"">>

ArgumentsMatch ==
  (client # "gone" /\ server = "request" /\ Complete) =>
    /\ taken = UpToNul(asked)
    /\ \A k \in DOMAIN ServerTakes[taken[1]] :
         Fits(taken[k + 1], ServerTakes[taken[1]][k])

(***************************************************************************)
(* The reply a client reads is to the request it has made, and none is     *)
(* left behind, also after a transfer that ended early: what follows of    *)
(* the file is skipped as unknown requests.                                *)
(***************************************************************************)
RepliesMatch ==
  /\ client = "asking" => \A k \in DOMAIN toClient : toClient[k] = asked[1]
  /\ client = "menu" => toClient = <<>>

(***************************************************************************)
(* Client and server never both wait for the other.                        *)
(***************************************************************************)
ClientWaits ==
  /\ client \in {"greeting", "prompt", "login", "working", "asking"}
  /\ toSend = <<>> /\ toClient = <<>>
ServerWaits ==
  /\ ~ CanReceive
  /\ \/ server \in {"username", "password", "rejected", "option", "ended"}
     \/ server = "request" /\ ~ Complete
NoStall == ~ (ClientWaits /\ ServerWaits)

(***************************************************************************)
(* A client killed during login can kill the server, which then sends a    *)
(* second time before it waits to read.  Once logged in it cannot: after   *)
(* every reply the server reads, and that never returns once the client    *)
(* has gone.                                                               *)
(***************************************************************************)
RequestsDoNotKill ==
  [][ server' = "killed" =>
        server \in {"prompt", "verdict", "identity"} ]_serverVars

(***************************************************************************)
(* Who has sent a request gets its reply, unless the handler, which has    *)
(* received all of that request, waits for the lock or works for ever: the *)
(* messages themselves never keep a client waiting.                        *)
(***************************************************************************)
Handling == server = "request" /\ Complete /\ taken = UpToNul(asked)
Answered ==
  \/ (client = "asking" /\ toSend = <<>>) ~> (client # "asking")
  \/ <>[]Handling

(***************************************************************************)
(* The thread of a client that left with "exit" ends.                      *)
(***************************************************************************)
SessionEnds == (asked = <<"exit">>) ~> (server = "ended")
=============================================================================
