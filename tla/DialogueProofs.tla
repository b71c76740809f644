--------------------------- MODULE DialogueProofs ---------------------------
(***************************************************************************)
(* Theorems about Dialogue, for any set of files.                          *)
(*                                                                         *)
(* The invariant says, for each place where the client can be, where the   *)
(* thread of the server can be, which messages are on their way to the     *)
(* client and which ones the thread is still to receive: those on their    *)
(* way to it followed by those that the client is about to send.           *)
(***************************************************************************)
EXTENDS Dialogue, SequenceTheorems, TLAPS

-----------------------------------------------------------------------------
(***************************************************************************)
(* The inductive invariant.                                                *)
(***************************************************************************)
Rest == toServer \o toSend

(* What a transfer that ended early leaves behind.                         *)
Junk == {"text", "binary", ""}
AllJunk(s) == \A k \in 1 .. Len(s) : s[k] \in Junk

(* Of sequence s, the first j messages are left over and what follows is   *)
(* message m from its word n + 1 on, perhaps not to its end.               *)
Ahead(m, s, j, n) ==
  \A k \in 1 .. Len(s) :
    /\ k <= j => s[k] \in Junk
    /\ k > j => k - j + n <= Len(m) /\ s[k] = m[k - j + n]

(* The words of request m: its name, one for each that the handler takes,  *)
(* and the content, if there is any, as the option announces it.           *)
Bare(m, w) == ~ HasContent(w) /\ Len(m) = Len(w) + 1
Short(m, w) ==
  /\ HasContent(w) /\ Len(m) = Len(w) + 2
  /\ m[Len(w) + 1] \in {"0"} /\ m[Len(w) + 2] \notin {"binary", ""}
Long(m, w) ==
  /\ HasContent(w) /\ Len(m) >= Len(w) + 2
  /\ m[Len(w) + 1] \in {"1"} /\ m[Len(m)] \in {""}
  /\ \A k \in Len(w) + 2 .. Len(m) - 1 : m[k] \in {"text", "binary"}
IsRequest(m, w) ==
  /\ m \in Seq(Words) /\ m[1] \in Requests /\ w = ServerTakes[m[1]]
  /\ \A k \in 1 .. Len(w) : Fits(m[k + 1], w[k]) /\ m[k + 1] \notin {"binary", ""}
  /\ Bare(m, w) \/ Short(m, w) \/ Long(m, w)
IsMessage(m) == IsRequest(m, ServerTakes[m[1]])

(* The thread has received t of request m and s is ahead of it.            *)
Taking(m, t, s) ==
  /\ IsMessage(m)
  /\ Len(t) \in 1 .. Len(m)
  /\ \A k \in 1 .. Len(t) : t[k] = ReadAs(m[k])
  /\ \A k \in 1 .. Len(t) - 1 : t[k] \notin {""}
  /\ Ahead(m, s, 0, Len(t))

(* The thread has received all that it takes.                              *)
DoneWith(t, w) ==
  IF HasContent(w)
  THEN /\ Len(t) > Len(w) + 1
       /\ t[Len(w) + 1] \notin {"1"} \/ t[Len(t)] \in {""}
  ELSE Len(t) = Len(w) + 1
Done(t) == DoneWith(t, ServerTakes[t[1]])

AtGreeting ==
  /\ client = "greeting" /\ Rest = <<>>
  /\ \/ server = "welcome" /\ toClient = <<>>
     \/ server = "prompt" /\ toClient = <<"welcome">>
     \/ server = "username" /\ toClient = <<"welcome", "prompt">>

AtPrompt ==
  /\ client = "prompt"
  /\ \/ server = "prompt" /\ Rest = <<>> /\ toClient = <<>>
     \/ server = "username" /\ Rest = <<>> /\ toClient = <<"prompt">>
     \/ server = "rejected" /\ Rest = <<"retry">> /\ toClient = <<>>

AtLogin ==
  /\ client = "login"
  /\ \/ server = "username" /\ Rest = <<"username", "password">> /\ toClient = <<>>
     \/ server = "password" /\ Rest = <<"password">> /\ toClient = <<>>
     \/ server = "verdict" /\ Rest = <<>> /\ toClient = <<>>
     \/ server = "rejected" /\ Rest = <<>> /\ toClient = <<"Rejected">>
     \/ server = "identity" /\ Rest = <<>> /\ toClient = <<"Accepted">>
     \/ /\ server = "option" /\ Rest = <<>>
        /\ \E group \in Identities \cup {""} : toClient = <<"Accepted", group>>

AtWork ==
  /\ client = "working" /\ Rest = <<>>
  /\ \/ server = "identity" /\ toClient = <<>>
     \/ /\ server = "option"
        /\ \E group \in Identities \cup {""} : toClient = <<group>>

AtMenu ==
  /\ client = "menu" /\ server = "option"
  /\ toSend = <<>> /\ toClient = <<>>
  /\ AllJunk(Rest)

Unheard ==
  /\ server = "option" /\ toClient = <<>> /\ IsMessage(asked)
  /\ \E j \in Nat : Ahead(asked, Rest, j, 0) /\ Len(Rest) = j + Len(asked)
InHand ==
  /\ server = "request" /\ toClient = <<>>
  /\ Taking(asked, taken, Rest)
  /\ Len(Rest) = Len(asked) - Len(taken)
Served ==
  /\ server = "option" /\ toClient = <<asked[1]>> /\ asked[1] \in Requests
  /\ AllJunk(Rest)
Asking == client = "asking" /\ (Unheard \/ InHand \/ Served)

(* After the client has gone its messages are those it has sent.           *)
Gone ==
  /\ client = "gone" /\ link # "open" /\ Len(toClient) <= 2
  /\ server = "welcome" => link = "finished"
  /\ server \in {"welcome", "prompt", "verdict", "identity"} => toServer = <<>>
  /\ server \in {"password", "rejected"} => Len(toServer) <= 1
  /\ server = "username" => Len(toServer) <= 2
  /\ server = "option" =>
       \/ AllJunk(toServer)
       \/ /\ link = "finished"
          /\ IsMessage(asked) \/ asked = <<"exit">>
          /\ \E j \in Nat : Ahead(asked, toServer, j, 0)
  /\ server = "request" => link = "finished" /\ Taking(asked, taken, toServer)

Typed ==
  /\ client \in {"greeting", "prompt", "login", "working", "menu", "asking", "gone"}
  /\ server \in {"welcome", "prompt", "username", "password", "verdict", "rejected",
                 "identity", "option", "request", "ended", "killed"}
  /\ identity \in Identities \cup {""}
  /\ asked \in Seq(Words) /\ toSend \in Seq(Words) /\ taken \in Seq(Words)
  /\ toServer \in Seq(Words) /\ toClient \in Seq(Words)
  /\ link \in {"open", "finished", "reset", "broken"}

Present ==
  /\ link = "open"
  /\ AtGreeting \/ AtPrompt \/ AtLogin \/ AtWork \/ AtMenu \/ Asking

IInv == Typed /\ (Present \/ Gone)

-----------------------------------------------------------------------------
(***************************************************************************)
(* The tables.  Both programs have the same words for each request, none   *)
(* of which could be taken for an end, and only the last of which can      *)
(* announce a content.                                                     *)
(***************************************************************************)
(* The rows of the tables, and the words that stand for no argument.       *)
Tuples ==
  {<<"course", "homework", "option">>, <<"course", "homework", "student">>,
   <<"course", "homework", "student", "score">>,
   <<"course", "homework", "student", "option">>, <<"course", "homework">>,
   <<"user">>, <<"course", "user">>, <<"course", "teacher">>, <<"course">>,
   <<"course", "student">>, <<"group">>, <<"group", "user", "password">>,
   <<"user", "old", "new", "confirm">>, <<"version">>, <<>>}

Reserved == {"text", "binary", "", "exit", "0", "1"}

LEMMA Domains ==
  /\ DOMAIN TeachingSends = {"publishhomework", "checkhomework", "mark", "writecomment"}
  /\ DOMAIN HomeworkSends = {"checkscoreandcomment", "checkassignment", "submithomework",
                             "deletehomework", "listcourse", "listhomework"}
  /\ DOMAIN CourseSends = {"createcourse", "deletecourse", "addtocourse",
                           "deletefromcourse", "listcourseuser", "listgroupuser"}
  /\ DOMAIN UserSends = {"createuser", "deleteuser", "modifypassword", "backup",
                         "recover", "revoke", "clearsnapshot", "checklog"}
  /\ DOMAIN UserTakes = DOMAIN UserSends
BY DEF TeachingSends, HomeworkSends, CourseSends, UserSends, UserTakes

LEMMA UserTables == \A r \in DOMAIN UserSends : UserTakes[r] = UserSends[r]
<1>1. /\ UserTakes["createuser"] = UserSends["createuser"]
      /\ UserTakes["deleteuser"] = UserSends["deleteuser"]
      /\ UserTakes["modifypassword"] = UserSends["modifypassword"]
      /\ UserTakes["backup"] = UserSends["backup"]
      /\ UserTakes["recover"] = UserSends["recover"]
      /\ UserTakes["revoke"] = UserSends["revoke"]
      /\ UserTakes["clearsnapshot"] = UserSends["clearsnapshot"]
      /\ UserTakes["checklog"] = UserSends["checklog"]
  BY DEF UserTakes, UserSends
<1>2. QED
  BY <1>1, Domains

(* The server takes for each request the words that the client sends.      *)
LEMMA SameTables == Handled = Requests /\ ServerTakes = ClientSends
<1>1. /\ TeachingTakes = TeachingSends /\ HomeworkTakes = HomeworkSends
      /\ CourseTakes = CourseSends
  BY DEF TeachingTakes, TeachingSends, HomeworkTakes, HomeworkSends, CourseTakes, CourseSends
<1>2. DOMAIN UserTakes = DOMAIN UserSends
  BY Domains
<1>3. Handled = Requests
  BY <1>1, <1>2 DEF Handled, Requests
<1>4. QED
  BY <1>1, <1>2, <1>3, UserTables DEF ServerTakes, ClientSends

LEMMA TablesKnown ==
  /\ \A r \in DOMAIN TeachingSends : TeachingSends[r] \in Tuples
  /\ \A r \in DOMAIN HomeworkSends : HomeworkSends[r] \in Tuples
  /\ \A r \in DOMAIN CourseSends : CourseSends[r] \in Tuples
  /\ \A r \in DOMAIN UserSends : UserSends[r] \in Tuples
<1>1. \A r \in DOMAIN TeachingSends : TeachingSends[r] \in Tuples
  <2>1. /\ TeachingSends["publishhomework"] = <<"course", "homework", "option">>
        /\ TeachingSends["checkhomework"] = <<"course", "homework", "student">>
        /\ TeachingSends["mark"] = <<"course", "homework", "student", "score">>
        /\ TeachingSends["writecomment"] = <<"course", "homework", "student", "option">>
    BY DEF TeachingSends
  <2>2. QED
    BY <2>1, Domains DEF Tuples
<1>2. \A r \in DOMAIN HomeworkSends : HomeworkSends[r] \in Tuples
  <2>1. /\ HomeworkSends["checkscoreandcomment"] = <<"course", "homework", "student">>
        /\ HomeworkSends["checkassignment"] = <<"course", "homework">>
        /\ HomeworkSends["submithomework"] = <<"course", "homework", "student", "option">>
        /\ HomeworkSends["deletehomework"] = <<"course", "homework">>
        /\ HomeworkSends["listcourse"] = <<"user">>
        /\ HomeworkSends["listhomework"] = <<"course", "user">>
    BY DEF HomeworkSends
  <2>2. QED
    BY <2>1, Domains DEF Tuples
<1>3. \A r \in DOMAIN CourseSends : CourseSends[r] \in Tuples
  <2>1. /\ CourseSends["createcourse"] = <<"course", "teacher">>
        /\ CourseSends["deletecourse"] = <<"course">>
        /\ CourseSends["addtocourse"] = <<"course", "student">>
        /\ CourseSends["deletefromcourse"] = <<"course", "student">>
        /\ CourseSends["listcourseuser"] = <<"course">>
        /\ CourseSends["listgroupuser"] = <<"group">>
    BY DEF CourseSends
  <2>2. QED
    BY <2>1, Domains DEF Tuples
<1>4. \A r \in DOMAIN UserSends : UserSends[r] \in Tuples
  <2>1. /\ UserSends["createuser"] = <<"group", "user", "password">>
        /\ UserSends["deleteuser"] = <<"user">>
        /\ UserSends["modifypassword"] = <<"user", "old", "new", "confirm">>
        /\ UserSends["backup"] = <<"version">>
        /\ UserSends["recover"] = <<"version">>
        /\ UserSends["revoke"] = <<>> /\ UserSends["clearsnapshot"] = <<>>
        /\ UserSends["checklog"] = <<>>
    BY DEF UserSends
  <2>2. QED
    BY <2>1, Domains DEF Tuples
<1>5. QED
  BY <1>1, <1>2, <1>3, <1>4

LEMMA RequestsFacts ==
  /\ Requests \cap Reserved = {}
  /\ \A r \in Requests : ClientSends[r] \in Tuples
  /\ DOMAIN ClientSends = Requests
<1>1. Requests \cap Reserved = {}
  BY Domains DEF Requests, Reserved
<1>2. ASSUME NEW r \in Requests PROVE ClientSends[r] \in Tuples
  BY TablesKnown DEF Requests, ClientSends
<1>3. QED
  BY <1>1, <1>2 DEF ClientSends

(* What an argument may be typed for, but for the option.                  *)
Roles == {"course", "homework", "student", "score", "user", "teacher", "group",
          "password", "old", "new", "confirm", "version"}

LEMMA TupleShapes ==
  ASSUME NEW t \in Tuples
  PROVE  \/ t = <<>>
         \/ \E a \in Roles : t = <<a>>
         \/ \E a \in Roles : \E b \in Roles : t = <<a, b>>
         \/ \E a \in Roles : \E b \in Roles : \E c \in Roles \cup {"option"} :
              t = <<a, b, c>>
         \/ \E a \in Roles : \E b \in Roles : \E c \in Roles :
              \E d \in Roles \cup {"option"} : t = <<a, b, c, d>>
<1>1. /\ "course" \in Roles /\ "homework" \in Roles /\ "student" \in Roles
      /\ "score" \in Roles /\ "user" \in Roles /\ "teacher" \in Roles
      /\ "group" \in Roles /\ "password" \in Roles /\ "old" \in Roles
      /\ "new" \in Roles /\ "confirm" \in Roles /\ "version" \in Roles
      /\ "option" \in Roles \cup {"option"}
  BY DEF Roles
<1>2. CASE t \in {<<"course", "homework", "option">>, <<"course", "homework", "student">>,
                 <<"group", "user", "password">>}
  BY <1>1, <1>2
<1>3. CASE t \in {<<"course", "homework", "student", "score">>,
                 <<"course", "homework", "student", "option">>,
                 <<"user", "old", "new", "confirm">>}
  BY <1>1, <1>3
<1>4. CASE t \in {<<"course", "homework">>, <<"course", "user">>, <<"course", "teacher">>,
                 <<"course", "student">>}
  BY <1>1, <1>4
<1>5. CASE t \in {<<"user">>, <<"course">>, <<"group">>, <<"version">>, <<>>}
  BY <1>1, <1>5
<1>6. QED
  BY <1>2, <1>3, <1>4, <1>5 DEF Tuples

LEMMA TupleFacts ==
  ASSUME NEW t \in Tuples
  PROVE  /\ t \in Seq(Roles \cup {"option"}) /\ Len(t) \in Nat
         /\ \A k \in 1 .. Len(t) : t[k] \notin Reserved
         /\ \A k \in 1 .. Len(t) : t[k] = "option" => k = Len(t)
         /\ HasContent(t) <=> (Len(t) > 0 /\ t[Len(t)] = "option")
<1>1. /\ \A a \in Roles : a \notin Reserved /\ a # "option"
      /\ "option" \notin Reserved
  BY DEF Roles, Reserved
<1> DEFINE P == /\ t \in Seq(Roles \cup {"option"}) /\ Len(t) \in Nat
                /\ \A k \in 1 .. Len(t) : t[k] \notin Reserved
                /\ \A k \in 1 .. Len(t) : t[k] = "option" => k = Len(t)
<1>2. P
  <2>1. CASE t = <<>>
    BY <2>1
  <2>2. CASE \E a \in Roles : t = <<a>>
    BY <1>1, <2>2
  <2>3. CASE \E a \in Roles : \E b \in Roles : t = <<a, b>>
    BY <1>1, <2>3
  <2>4. CASE \E a \in Roles : \E b \in Roles : \E c \in Roles \cup {"option"} : t = <<a, b, c>>
    <3>1. PICK a \in Roles, b \in Roles, c \in Roles \cup {"option"} : t = <<a, b, c>>
      BY <2>4
    <3>3. t \in Seq(Roles \cup {"option"}) /\ Len(t) = 3 /\ t[1] = a /\ t[2] = b /\ t[3] = c
      BY <3>1
    <3>4. \A k \in 1 .. 3 : k = 1 \/ k = 2 \/ k = 3
      OBVIOUS
    <3>5. QED
      BY <1>1, <3>3, <3>4
  <2>5. CASE \E a \in Roles : \E b \in Roles : \E c \in Roles :
               \E d \in Roles \cup {"option"} : t = <<a, b, c, d>>
    <3>1. PICK a \in Roles, b \in Roles, c \in Roles, d \in Roles \cup {"option"} :
               t = <<a, b, c, d>>
      BY <2>5
    <3>3. t \in Seq(Roles \cup {"option"}) /\ Len(t) = 4 /\ t[1] = a /\ t[2] = b /\ t[3] = c /\ t[4] = d
      BY <3>1
    <3>4. \A k \in 1 .. 4 : k = 1 \/ k = 2 \/ k = 3 \/ k = 4
      OBVIOUS
    <3>5. QED
      BY <1>1, <3>3, <3>4
  <2>6. QED
    BY <2>1, <2>2, <2>3, <2>4, <2>5, TupleShapes
<1>3. HasContent(t) <=> (Len(t) > 0 /\ t[Len(t)] = "option")
  <2>1. t # <<>> <=> Len(t) > 0
    BY <1>2, EmptySeq
  <2>2. QED
    BY <2>1 DEF HasContent, Last
<1>4. QED
  BY <1>2, <1>3

-----------------------------------------------------------------------------
(* Messages.                                                               *)
LEMMA WordsFacts ==
  /\ "" \in Words /\ "0" \in Words /\ "1" \in Words /\ "content" \in Words
  /\ "text" \in Words /\ "binary" \in Words /\ "exit" \in Words /\ "retry" \in Words
  /\ "username" \in Words /\ "password" \in Words /\ "welcome" \in Words
  /\ "prompt" \in Words /\ "Accepted" \in Words /\ "Rejected" \in Words
  /\ Identities \subseteq Words /\ Requests \subseteq Words
  /\ \A r \in Requests : \A k \in 1 .. Len(ClientSends[r]) : ClientSends[r][k] \in Words
<1> DEFINE Fixed == {"", "0", "1", "content", "text", "binary", "exit", "retry",
                     "username", "password", "welcome", "prompt", "Accepted", "Rejected"}
<1>1. Words = Requests \cup Arguments \cup Identities \cup Fixed
  BY DEF Words
<1>2. Fixed \subseteq Words /\ Identities \subseteq Words /\ Requests \subseteq Words
  <2> HIDE DEF Fixed
  <2>1. QED
    BY <1>1
<1>3. ASSUME NEW r \in Requests, NEW k \in 1 .. Len(ClientSends[r])
      PROVE  ClientSends[r][k] \in Words
  <2> HIDE DEF Fixed
  <2>1. ClientSends[r] \in Seq(Roles \cup {"option"})
    BY RequestsFacts, TupleFacts
  <2>2. DOMAIN ClientSends[r] = 1 .. Len(ClientSends[r])
    BY <2>1, LenProperties
  <2>3. ClientSends[r][k] \in Range(ClientSends[r])
    BY <2>2 DEF Range
  <2>4. QED
    BY <1>1, <2>3 DEF Arguments
<1>4. QED
  BY <1>2, <1>3

LEMMA Joined ==
  ASSUME NEW S, NEW s \in Seq(S), NEW t \in Seq(S)
  PROVE  /\ s \o t \in Seq(S)
         /\ Len(s) \in Nat /\ Len(t) \in Nat /\ Len(s \o t) = Len(s) + Len(t)
         /\ \A k \in 1 .. Len(s) : (s \o t)[k] = s[k]
         /\ \A k \in 1 .. Len(t) : (s \o t)[Len(s) + k] = t[k]
<1>1. /\ s \o t \in Seq(S)
      /\ Len(s) \in Nat /\ Len(t) \in Nat /\ Len(s \o t) = Len(s) + Len(t)
  BY ConcatProperties, LenProperties
<1>2. \A i \in 1 .. Len(s) + Len(t) : (s \o t)[i] =
                     IF i <= Len(s) THEN s[i] ELSE t[i - Len(s)]
  BY ConcatProperties
<1>3. \A k \in 1 .. Len(s) : (s \o t)[k] = s[k]
  BY <1>1, <1>2
<1>4. \A k \in 1 .. Len(t) : (s \o t)[Len(s) + k] = t[k]
  <2>1. ASSUME NEW k \in 1 .. Len(t)
        PROVE  /\ Len(s) + k \in 1 .. Len(s) + Len(t)
               /\ ~ (Len(s) + k <= Len(s)) /\ (Len(s) + k) - Len(s) = k
    BY <1>1
  <2>2. QED
    BY <1>1, <1>2, <2>1
<1>5. QED
  BY <1>1, <1>3, <1>4

(* A sequence put behind one element.                                      *)
LEMMA Behind ==
  ASSUME NEW S, NEW x \in S, NEW s \in Seq(S)
  PROVE  /\ <<x>> \o s \in Seq(S) /\ Len(s) \in Nat /\ Len(<<x>> \o s) = Len(s) + 1
         /\ (<<x>> \o s)[1] = x
         /\ \A k \in 1 .. Len(s) : (<<x>> \o s)[k + 1] = s[k]
<1>1. /\ <<x>> \in Seq(S) /\ Len(<<x>>) = 1 /\ <<x>>[1] = x
  OBVIOUS
<1>2. PICK one : one = <<x>>
  OBVIOUS
<1>3. one \in Seq(S)
  BY <1>1, <1>2
<1>4. /\ one \o s \in Seq(S) /\ Len(s) \in Nat /\ Len(one \o s) = Len(one) + Len(s)
      /\ \A k \in 1 .. Len(one) : (one \o s)[k] = one[k]
      /\ \A k \in 1 .. Len(s) : (one \o s)[Len(one) + k] = s[k]
  BY <1>3, Joined
<1>5. 1 \in 1 .. 1 /\ \A k \in Nat : 1 + k = k + 1
  OBVIOUS
<1>6. /\ one \o s \in Seq(S) /\ Len(s) \in Nat /\ Len(one \o s) = Len(s) + 1
      /\ (one \o s)[1] = one[1]
      /\ \A k \in 1 .. Len(s) : (one \o s)[k + 1] = s[k]
  <2>1. Len(one) = 1
    BY <1>1, <1>2
  <2>2. QED
    BY <2>1, <1>4, <1>5
<1>7. QED
  BY <1>1, <1>2, <1>6

LEMMA FileFacts ==
  ASSUME NEW file \in Files, NEW content, content = <<"1">> \o SendFile(file)
  PROVE  /\ content \in Seq(Words) /\ Len(content) \in Nat /\ Len(content) >= 2
         /\ content[1] = "1" /\ content[Len(content)] = ""
         /\ \A k \in 2 .. Len(content) - 1 : content[k] \in {"text", "binary"}
<1>1. file \in Seq({"text", "binary"})
  BY FilesAssumption
<1>2. Len(file) \in Nat /\ \A k \in 1 .. Len(file) : file[k] \in {"text", "binary"}
  BY <1>1, LenProperties, ElementOfSeq
<1>3. {"text", "binary"} \subseteq Words /\ "" \in Words /\ "1" \in Words
  BY WordsFacts
<1>4. file \in Seq(Words)
  BY <1>1, <1>3, SeqMonotonic
<1>5. PICK body : body = SendFile(file)
  OBVIOUS
<1>6. /\ body \in Seq(Words) /\ Len(body) = Len(file) + 1 /\ body[Len(file) + 1] = ""
      /\ \A k \in 1 .. Len(file) : body[k] = file[k]
  BY <1>3, <1>4, <1>5, AppendProperties DEF SendFile
<1>7. /\ content \in Seq(Words) /\ Len(content) = Len(body) + 1 /\ content[1] = "1"
      /\ \A k \in 1 .. Len(body) : content[k + 1] = body[k]
  <2>1. PICK one : one = "1"
    OBVIOUS
  <2>2. content = <<one>> \o body
    BY <1>5, <2>1
  <2>3. one \in Words
    BY <1>3, <2>1
  <2>4. body \in Seq(Words)
    BY <1>6
  <2>5. /\ <<one>> \o body \in Seq(Words) /\ Len(<<one>> \o body) = Len(body) + 1
        /\ (<<one>> \o body)[1] = one
        /\ \A k \in 1 .. Len(body) : (<<one>> \o body)[k + 1] = body[k]
    BY <2>3, <2>4, Behind
  <2>6. QED
    BY <2>1, <2>2, <2>5
<1>8. PICK n \in Nat : n = Len(file)
  BY <1>2
<1>9. Len(content) = n + 2 /\ content[(n + 1) + 1] = ""
  <2>1. Len(body) = n + 1 /\ n + 1 \in 1 .. n + 1 /\ Len(content) = n + 2
    <3>1. Len(body) = n + 1 /\ Len(content) = Len(body) + 1
      BY <1>6, <1>7, <1>8
    <3>2. QED
      BY <1>8, <3>1
  <2>2. body[n + 1] = ""
    BY <1>6, <1>8
  <2>3. content[(n + 1) + 1] = body[n + 1]
    BY <1>7, <2>1
  <2>4. QED
    BY <2>1, <2>2, <2>3
<1>10. ASSUME NEW k \in 2 .. n + 1 PROVE content[k] \in {"text", "binary"}
  <2>1. k - 1 \in 1 .. n /\ k - 1 \in 1 .. n + 1 /\ (k - 1) + 1 = k
    BY <1>8
  <2>2. content[k] = file[k - 1]
    BY <1>6, <1>7, <1>8, <2>1
  <2>3. QED
    BY <1>2, <1>8, <2>1, <2>2
<1>11. Len(content) - 1 = n + 1 /\ (n + 1) + 1 = Len(content) /\ Len(content) >= 2
  <2>1. Len(content) = n + 2
    BY <1>9
  <2>2. QED
    BY <1>8, <2>1
<1>12. content[Len(content)] = "" /\ Len(content) \in Nat
  BY <1>7, <1>9, <1>11, LenProperties
<1>13. \A k \in 2 .. Len(content) - 1 : content[k] \in {"text", "binary"}
  BY <1>10, <1>11
<1>14. QED
  BY <1>7, <1>11, <1>12, <1>13

LEMMA ContentsFacts ==
  ASSUME NEW content \in Contents
  PROVE  /\ content \in Seq(Words) /\ Len(content) \in Nat /\ Len(content) >= 2
         /\ \/ content[1] = "0" /\ Len(content) = 2 /\ content[2] = "content"
            \/ /\ content[1] = "1" /\ content[Len(content)] = ""
               /\ \A k \in 2 .. Len(content) - 1 : content[k] \in {"text", "binary"}
<1>1. CASE content = <<"0", "content">>
  <2>1. Len(content) = 2 /\ content[1] = "0" /\ content[2] = "content"
    BY <1>1
  <2>2. "0" \in Words /\ "content" \in Words
    BY WordsFacts
  <2>3. content \in Seq(Words)
    BY <1>1, <2>2
  <2>4. QED
    BY <2>1, <2>3
<1>2. CASE \E file \in Files : content = <<"1">> \o SendFile(file)
  BY <1>2, FileFacts
<1>3. QED
  BY <1>1, <1>2 DEF Contents

LEMMA Front1 ==
  ASSUME NEW S, NEW w \in Seq(S), w # <<>>
  PROVE  /\ Front(w) \in Seq(S) /\ Len(w) \in Nat \ {0} /\ Len(Front(w)) = Len(w) - 1
         /\ \A k \in 1 .. Len(w) - 1 : Front(w)[k] = w[k]
<1>1. Len(w) \in Nat \ {0}
  BY EmptySeq
<1>2. \A k \in 1 .. Len(w) - 1 : w[k] \in S
  BY <1>1, ElementOfSeq
<1>3. Front(w) = SubSeq(w, 1, Len(w) - 1)
  BY DEF Front
<1>4. PICK n \in Nat : n + 1 = Len(w)
  BY <1>1
<1>5. Len(w) - 1 = n /\ 1 \in Int /\ n \in Int
  BY <1>4
<1>6. /\ SubSeq(w, 1, n) \in Seq(S) /\ Len(SubSeq(w, 1, n)) = IF 1 <= n THEN n - 1 + 1 ELSE 0
      /\ \A i \in 1 .. n - 1 + 1 : SubSeq(w, 1, n)[i] = w[1 + i - 1]
  BY <1>2, <1>5, SubSeqProperties
<1>7. n - 1 + 1 = n /\ (IF 1 <= n THEN n - 1 + 1 ELSE 0) = n /\ \A i \in 1 .. n : 1 + i - 1 = i
  BY <1>4
<1>8. QED
  BY <1>1, <1>3, <1>5, <1>6, <1>7


LEMMA BareIsMessage ==
  ASSUME NEW r \in Requests, ~ HasContent(ClientSends[r])
  PROVE  LET m == <<r>> \o ClientSends[r] IN IsMessage(m) /\ m[1] = r
<1>1. PICK w : w = ClientSends[r]
  OBVIOUS
<1>2. PICK m : m = <<r>> \o w
  OBVIOUS
<1>3. w \in Tuples
  BY <1>1, RequestsFacts
<1>4. w \in Seq(Roles \cup {"option"})
  BY <1>3, TupleFacts
<1>5. w \in Seq(Words)
  <2>1. Len(w) \in Nat /\ w \in [1 .. Len(w) -> Roles \cup {"option"}]
    BY <1>4, LenProperties
  <2>2. \A k \in 1 .. Len(w) : w[k] \in Words
    BY <1>1, WordsFacts
  <2>3. w \in [1 .. Len(w) -> Words]
    BY <2>1, <2>2
  <2>4. QED
    BY <2>1, <2>3
<1>6. r \in Words
  BY WordsFacts
<1>7. /\ m \in Seq(Words) /\ Len(m) = Len(w) + 1 /\ m[1] = r
      /\ \A k \in 1 .. Len(w) : m[k + 1] = w[k]
  BY <1>2, <1>5, <1>6, Behind
<1>8. ServerTakes[m[1]] = w /\ m[1] \in Requests
  BY <1>1, <1>7, SameTables
<1>9. \A k \in 1 .. Len(w) : w[k] \notin Reserved /\ w[k] # "option"
  <2>1. Len(w) \in Nat
    BY <1>5, LenProperties
  <2>2. ~ (Len(w) > 0 /\ w[Len(w)] = "option")
    BY <1>1, <1>3, TupleFacts
  <2>3. \A k \in 1 .. Len(w) : w[k] \notin Reserved
    BY <1>3, TupleFacts
  <2>4. \A k \in 1 .. Len(w) : w[k] = "option" => k = Len(w)
    BY <1>3, TupleFacts
  <2>5. ASSUME NEW k \in 1 .. Len(w), k = Len(w) PROVE Len(w) > 0
    BY <2>1, <2>5
  <2>6. QED
    BY <2>2, <2>3, <2>4, <2>5
<1>10. \A k \in 1 .. Len(w) : Fits(m[k + 1], w[k]) /\ m[k + 1] \notin {"binary", ""}
  BY <1>7, <1>9 DEF Fits, Reserved
<1>11. Bare(m, w)
  BY <1>1, <1>7 DEF Bare
<1>12. IsMessage(m) /\ m[1] = r
  BY <1>7, <1>8, <1>10, <1>11 DEF IsMessage, IsRequest
<1>13. QED
  BY <1>1, <1>2, <1>12

LEMMA Framed ==
  ASSUME NEW S, NEW x \in S, NEW s \in Seq(S), NEW t \in Seq(S)
  PROVE  /\ (<<x>> \o s) \o t \in Seq(S) /\ Len(s) \in Nat /\ Len(t) \in Nat
         /\ Len((<<x>> \o s) \o t) = Len(s) + 1 + Len(t)
         /\ ((<<x>> \o s) \o t)[1] = x
         /\ \A k \in 1 .. Len(s) : ((<<x>> \o s) \o t)[k + 1] = s[k]
         /\ \A k \in 1 .. Len(t) : ((<<x>> \o s) \o t)[Len(s) + 1 + k] = t[k]
<1>1. PICK u : u = <<x>> \o s
  OBVIOUS
<1>2. /\ u \in Seq(S) /\ Len(s) \in Nat /\ Len(u) = Len(s) + 1 /\ u[1] = x
      /\ \A k \in 1 .. Len(s) : u[k + 1] = s[k]
  BY <1>1, Behind
<1>3. u \in Seq(S)
  BY <1>2
<1>4. /\ u \o t \in Seq(S) /\ Len(t) \in Nat /\ Len(u \o t) = Len(u) + Len(t)
      /\ \A k \in 1 .. Len(u) : (u \o t)[k] = u[k]
      /\ \A k \in 1 .. Len(t) : (u \o t)[Len(u) + k] = t[k]
  BY <1>3, Joined
<1>5. PICK n \in Nat : n = Len(s)
  BY <1>2
<1>6. Len(u) = n + 1 /\ 1 \in 1 .. n + 1 /\ \A k \in 1 .. n : k + 1 \in 1 .. n + 1
  BY <1>2, <1>5
<1>7. (u \o t)[1] = x /\ \A k \in 1 .. n : (u \o t)[k + 1] = s[k]
  BY <1>2, <1>4, <1>5, <1>6
<1>8. QED
  BY <1>1, <1>2, <1>4, <1>5, <1>6, <1>7

LEMMA ContentIsMessage ==
  ASSUME NEW r \in Requests, HasContent(ClientSends[r]), NEW content \in Contents
  PROVE  LET m == <<r>> \o Front(ClientSends[r]) \o content IN IsMessage(m) /\ m[1] = r
<1>1. PICK w : w = ClientSends[r]
  OBVIOUS
<1>2. PICK m : m = <<r>> \o Front(w) \o content
  OBVIOUS
<1>3. w \in Tuples
  BY <1>1, RequestsFacts
<1>4. /\ w \in Seq(Roles \cup {"option"}) /\ Len(w) > 0 /\ w[Len(w)] = "option"
      /\ \A k \in 1 .. Len(w) : w[k] \notin Reserved
      /\ \A k \in 1 .. Len(w) : w[k] = "option" => k = Len(w)
  BY <1>1, <1>3, TupleFacts
<1>5. w \in Seq(Words)
  <2>1. Len(w) \in Nat /\ w \in [1 .. Len(w) -> Roles \cup {"option"}]
    <3>1. w \in Seq(Roles \cup {"option"})
      BY <1>4
    <3>2. QED
      BY <3>1, LenProperties
  <2>2. \A k \in 1 .. Len(w) : w[k] \in Words
    BY <1>1, WordsFacts
  <2>3. w \in [1 .. Len(w) -> Words]
    BY <2>1, <2>2
  <2>4. QED
    BY <2>1, <2>3
<1>6. r \in Words
  BY WordsFacts
<1>7. w # <<>>
  <2>1. Len(w) > 0
    BY <1>4
  <2>2. QED
    BY <2>1
<1>8. PICK n \in Nat : n + 1 = Len(w)
  <2>1. Len(w) \in Nat \ {0}
    BY <1>5, <1>7, EmptySeq
  <2>2. Len(w) - 1 \in Nat /\ (Len(w) - 1) + 1 = Len(w)
    BY <2>1
  <2>3. QED
    BY <2>2
<1>9. PICK f : f = Front(w)
  OBVIOUS
<1>10. f \in Seq(Words) /\ Len(f) = n /\ \A k \in 1 .. n : f[k] = w[k]
  <2>1. Front(w) \in Seq(Words) /\ Len(Front(w)) = Len(w) - 1
        /\ \A k \in 1 .. Len(w) - 1 : Front(w)[k] = w[k]
    BY <1>5, <1>7, Front1
  <2>2. Len(w) - 1 = n
    BY <1>8
  <2>3. QED
    BY <1>9, <2>1, <2>2
<1>11. content \in Seq(Words) /\ Len(content) \in Nat /\ Len(content) >= 2
  BY ContentsFacts
<1>12. /\ m \in Seq(Words) /\ Len(m) = n + 1 + Len(content) /\ m[1] = r
       /\ \A k \in 1 .. n : m[k + 1] = f[k]
       /\ \A k \in 1 .. Len(content) : m[n + 1 + k] = content[k]
  <2>1. f \in Seq(Words) /\ content \in Seq(Words)
    BY <1>10, <1>11
  <2>2. /\ (<<r>> \o f) \o content \in Seq(Words)
        /\ Len((<<r>> \o f) \o content) = Len(f) + 1 + Len(content)
        /\ ((<<r>> \o f) \o content)[1] = r
        /\ \A k \in 1 .. Len(f) : ((<<r>> \o f) \o content)[k + 1] = f[k]
        /\ \A k \in 1 .. Len(content) : ((<<r>> \o f) \o content)[Len(f) + 1 + k] = content[k]
    BY <1>6, <2>1, Framed
  <2>3. m = (<<r>> \o f) \o content /\ Len(f) = n
    BY <1>2, <1>9, <1>10
  <2>4. QED
    BY <2>2, <2>3
<1>13. ServerTakes[m[1]] = w /\ m[1] \in Requests
  BY <1>1, <1>12, SameTables
<1>14. /\ 1 \in 1 .. Len(content) /\ 2 \in 1 .. Len(content) /\ Len(content) \in 1 .. Len(content)
       /\ n + 1 + 1 = Len(w) + 1 /\ n + 1 + 2 = Len(w) + 2
       /\ n + 1 + Len(content) >= Len(w) + 2
  BY <1>8, <1>11
<1>15. content[1] \in {"0", "1"}
  BY ContentsFacts
<1>16. m[Len(w) + 1] = content[1] /\ m[Len(w) + 2] = content[2] /\ m[Len(m)] = content[Len(content)]
  BY <1>12, <1>14
<1>17. ASSUME NEW k \in 1 .. Len(w)
       PROVE  Fits(m[k + 1], w[k]) /\ m[k + 1] \notin {"binary", ""}
  <2>1. CASE k = Len(w)
    <3>1. m[k + 1] \in {"0", "1"}
      BY <1>15, <1>16, <2>1
    <3>2. w[k] = "option"
      BY <1>4, <2>1
    <3>3. QED
      BY <3>1, <3>2 DEF Fits
  <2>2. CASE k # Len(w)
    <3>1. k \in 1 .. n
      BY <1>8, <2>2
    <3>2. m[k + 1] = w[k]
      BY <1>10, <1>12, <3>1
    <3>3. w[k] # "option" /\ w[k] \notin Reserved
      BY <1>4, <2>2
    <3>4. QED
      BY <3>2, <3>3 DEF Fits, Reserved
  <2>3. QED
    BY <2>1, <2>2
<1>18. HasContent(w)
  BY <1>1
<1>19. CASE content[1] = "0" /\ Len(content) = 2 /\ content[2] = "content"
  <2>1. m[Len(w) + 1] \in {"0"}
    BY <1>16, <1>19
  <2>2. m[Len(w) + 2] \notin {"binary", ""}
    BY <1>16, <1>19
  <2>3. Len(m) = Len(w) + 2
    <3>1. Len(content) = 2
      BY <1>19
    <3>2. QED
      BY <1>12, <1>14, <3>1
  <2>4. Short(m, w)
    BY <1>18, <2>1, <2>2, <2>3 DEF Short
  <2>5. QED
    BY <1>12, <1>13, <1>17, <2>4, <1>1, <1>2 DEF IsMessage, IsRequest
<1>20. CASE /\ content[1] = "1" /\ content[Len(content)] = ""
            /\ \A k \in 2 .. Len(content) - 1 : content[k] \in {"text", "binary"}
  <2>1. m[Len(w) + 1] \in {"1"}
    BY <1>16, <1>20
  <2>2. m[Len(m)] \in {""}
    BY <1>16, <1>20
  <2>3. Len(m) >= Len(w) + 2
    BY <1>12, <1>14
  <2>4. ASSUME NEW k \in Len(w) + 2 .. Len(m) - 1 PROVE m[k] \in {"text", "binary"}
    <3>1. PICK c \in Nat : c = Len(content)
      BY <1>11
    <3>2. k \in n + 3 .. n + c
      <4>1. Len(w) = n + 1 /\ Len(m) = n + 1 + c
        BY <1>8, <1>12, <3>1
      <4>2. QED
        BY <1>8, <3>1, <4>1
    <3>3. /\ k - (n + 1) \in 2 .. c - 1 /\ k - (n + 1) \in 1 .. c
          /\ n + 1 + (k - (n + 1)) = k
      BY <1>8, <3>1, <3>2
    <3>4. m[k] = content[k - (n + 1)]
      BY <1>12, <3>1, <3>3
    <3>5. content[k - (n + 1)] \in {"text", "binary"}
      BY <1>20, <3>1, <3>3
    <3>6. QED
      BY <3>4, <3>5
  <2>5. Long(m, w)
    BY <1>18, <2>1, <2>2, <2>3, <2>4 DEF Long
  <2>6. QED
    BY <1>12, <1>13, <1>17, <2>5, <1>1, <1>2 DEF IsMessage, IsRequest
<1>21. QED
  BY <1>19, <1>20, ContentsFacts

(* What the client sends is a request, whatever its content.               *)
LEMMA MessageFacts ==
  ASSUME NEW r \in Requests, NEW m \in Messages(r)
  PROVE  IsMessage(m) /\ m[1] = r
<1>1. CASE HasContent(ClientSends[r])
  BY <1>1, ContentIsMessage DEF Messages
<1>2. CASE ~ HasContent(ClientSends[r])
  BY <1>2, BareIsMessage DEF Messages
<1>3. QED
  BY <1>1, <1>2

-----------------------------------------------------------------------------
(***************************************************************************)
(* What is ahead of the thread.                                            *)
(***************************************************************************)
LEMMA TailFacts ==
  ASSUME NEW S, NEW s \in Seq(S), s # <<>>
  PROVE  /\ Tail(s) \in Seq(S) /\ Len(s) \in Nat \ {0} /\ Len(Tail(s)) = Len(s) - 1
         /\ Head(s) = s[1] /\ s[1] \in S /\ 1 \in 1 .. Len(s)
         /\ \A k \in 1 .. Len(s) - 1 : Tail(s)[k] = s[k + 1]
<1>1. Len(s) \in Nat \ {0}
  BY EmptySeq
<1>2. Tail(s) \in Seq(S) /\ Len(Tail(s)) = Len(s) - 1 /\ Head(s) \in S
  BY HeadTailProperties
<1>3. \A k \in 1 .. Len(Tail(s)) : Tail(s)[k] = s[k + 1]
  BY HeadTailProperties
<1>4. Head(s) = s[1]
  OBVIOUS
<1>5. QED
  BY <1>1, <1>2, <1>3, <1>4

LEMMA JunkTail ==
  ASSUME NEW S, NEW s \in Seq(S), s # <<>>, AllJunk(s)
  PROVE  AllJunk(Tail(s)) /\ Head(s) \in Junk
<1>1. PICK n \in Nat : Len(s) = n + 1
  <2>1. Len(s) \in Nat \ {0}
    BY TailFacts
  <2>2. Len(s) - 1 \in Nat /\ (Len(s) - 1) + 1 = Len(s)
    BY <2>1
  <2>3. QED
    BY <2>2
<1>2. Len(Tail(s)) = n /\ 1 \in 1 .. n + 1 /\ \A k \in 1 .. n : k + 1 \in 1 .. n + 1
  BY <1>1, TailFacts
<1>3. \A k \in 1 .. n : Tail(s)[k] = s[k + 1]
  <2>1. Len(s) - 1 = n
    BY <1>1
  <2>2. QED
    BY <2>1, TailFacts
<1>4. Head(s) = s[1]
  BY TailFacts
<1>5. QED
  BY <1>1, <1>2, <1>3, <1>4 DEF AllJunk

LEMMA AheadTail ==
  ASSUME NEW S, NEW m, NEW s \in Seq(S), s # <<>>, NEW n \in Nat, NEW j \in Nat,
         Len(m) \in Nat, Ahead(m, s, j, n)
  PROVE  /\ j = 0 => /\ n + 1 <= Len(m) /\ Head(s) = m[n + 1]
                     /\ Ahead(m, Tail(s), 0, n + 1)
         /\ j > 0 => Head(s) \in Junk /\ Ahead(m, Tail(s), j - 1, n)
<1>1. PICK l \in Nat : Len(s) = l + 1
  <2>1. Len(s) \in Nat \ {0}
    BY TailFacts
  <2>2. Len(s) - 1 \in Nat /\ (Len(s) - 1) + 1 = Len(s)
    BY <2>1
  <2>3. QED
    BY <2>2
<1>2. Len(Tail(s)) = l /\ 1 \in 1 .. l + 1 /\ \A k \in 1 .. l : k + 1 \in 1 .. l + 1
  BY <1>1, TailFacts
<1>3. \A k \in 1 .. l : Tail(s)[k] = s[k + 1]
  <2>1. Len(s) - 1 = l
    BY <1>1
  <2>2. QED
    BY <2>1, TailFacts
<1>4. Head(s) = s[1]
  BY TailFacts
<1>5. \A k \in 1 .. l + 1 : /\ k <= j => s[k] \in Junk
                            /\ k > j => k - j + n <= Len(m) /\ s[k] = m[k - j + n]
  BY <1>1 DEF Ahead
<1>6. ASSUME j = 0 PROVE n + 1 <= Len(m) /\ Head(s) = m[n + 1] /\ Ahead(m, Tail(s), 0, n + 1)
  <2>1. n + 1 <= Len(m) /\ s[1] = m[n + 1]
    <3>1. 1 > j /\ 1 - j + n = n + 1
      BY <1>6
    <3>2. QED
      BY <1>2, <1>5, <3>1
  <2>2. ASSUME NEW k \in 1 .. l
        PROVE  ~ (k <= 0) /\ k - 0 + (n + 1) <= Len(m) /\ Tail(s)[k] = m[k - 0 + (n + 1)]
    <3>1. k + 1 > j /\ (k + 1) - j + n = k - 0 + (n + 1) /\ ~ (k <= 0)
      BY <1>1, <1>6
    <3>2. QED
      BY <1>2, <1>3, <1>5, <3>1
  <2>3. Ahead(m, Tail(s), 0, n + 1)
    BY <1>2, <2>2 DEF Ahead
  <2>4. QED
    BY <1>4, <2>1, <2>3
<1>7. ASSUME j > 0 PROVE Head(s) \in Junk /\ Ahead(m, Tail(s), j - 1, n)
  <2>1. s[1] \in Junk
    <3>1. 1 <= j
      BY <1>7
    <3>2. QED
      BY <1>2, <1>5, <3>1
  <2>2. ASSUME NEW k \in 1 .. l
        PROVE  /\ k <= j - 1 => Tail(s)[k] \in Junk
               /\ k > j - 1 => /\ k - (j - 1) + n <= Len(m)
                               /\ Tail(s)[k] = m[k - (j - 1) + n]
    <3>1. /\ k <= j - 1 <=> k + 1 <= j
          /\ k > j - 1 <=> k + 1 > j
          /\ k - (j - 1) + n = (k + 1) - j + n
      BY <1>1
    <3>2. QED
      BY <1>2, <1>3, <1>5, <3>1
  <2>3. Ahead(m, Tail(s), j - 1, n)
    BY <1>2, <2>2 DEF Ahead
  <2>4. QED
    BY <1>4, <2>1, <2>3
<1>8. QED
  BY <1>6, <1>7

(* What holds of what is ahead holds of the part that has been sent.       *)
LEMMA PrefixJunk ==
  ASSUME NEW S, NEW s \in Seq(S), NEW t \in Seq(S), AllJunk(s \o t)
  PROVE  AllJunk(s)
<1>1. /\ Len(s) \in Nat /\ Len(t) \in Nat /\ Len(s \o t) = Len(s) + Len(t)
      /\ \A k \in 1 .. Len(s) : (s \o t)[k] = s[k]
  BY Joined
<1>2. \A k \in 1 .. Len(s) : k \in 1 .. Len(s \o t)
  BY <1>1
<1>3. QED
  BY <1>1, <1>2 DEF AllJunk

LEMMA PrefixAhead ==
  ASSUME NEW S, NEW s \in Seq(S), NEW t \in Seq(S), NEW m, NEW j, NEW n,
         Ahead(m, s \o t, j, n)
  PROVE  Ahead(m, s, j, n)
<1>1. /\ Len(s) \in Nat /\ Len(t) \in Nat /\ Len(s \o t) = Len(s) + Len(t)
      /\ \A k \in 1 .. Len(s) : (s \o t)[k] = s[k]
  BY Joined
<1>2. \A k \in 1 .. Len(s) : k \in 1 .. Len(s \o t)
  BY <1>1
<1>3. QED
  BY <1>1, <1>2 DEF Ahead

LEMMA PrefixTaking ==
  ASSUME NEW S, NEW s \in Seq(S), NEW t \in Seq(S), NEW m, NEW x, Taking(m, x, s \o t)
  PROVE  Taking(m, x, s)
BY PrefixAhead DEF Taking

LEMMA EmptyJunk == AllJunk(<<>>)
BY DEF AllJunk

(* A message sent behind what is left over.                                *)
LEMMA AheadWhole ==
  ASSUME NEW S, NEW s \in Seq(S), NEW m \in Seq(S), AllJunk(s)
  PROVE  /\ Len(s) \in Nat /\ Len(m) \in Nat /\ Len(s \o m) = Len(s) + Len(m)
         /\ Ahead(m, s \o m, Len(s), 0)
<1>1. /\ Len(s) \in Nat /\ Len(m) \in Nat /\ Len(s \o m) = Len(s) + Len(m)
      /\ \A k \in 1 .. Len(s) : (s \o m)[k] = s[k]
      /\ \A k \in 1 .. Len(m) : (s \o m)[Len(s) + k] = m[k]
  BY Joined
<1>2. ASSUME NEW k \in 1 .. Len(s \o m), k <= Len(s) PROVE (s \o m)[k] \in Junk
  <2>1. k \in 1 .. Len(s)
    BY <1>1, <1>2
  <2>2. QED
    BY <1>1, <2>1 DEF AllJunk
<1>3. ASSUME NEW k \in 1 .. Len(s \o m), k > Len(s)
      PROVE  k - Len(s) + 0 <= Len(m) /\ (s \o m)[k] = m[k - Len(s) + 0]
  <2>1. k \in 1 .. Len(s) + Len(m)
    BY <1>1
  <2>2. PICK i \in 1 .. Len(m) : k = Len(s) + i
    <3>1. k - Len(s) \in 1 .. Len(m) /\ k = Len(s) + (k - Len(s))
      BY <1>1, <1>3, <2>1
    <3>2. QED
      BY <3>1
  <2>3. k - Len(s) + 0 = i
    BY <1>1, <2>2
  <2>4. QED
    BY <1>1, <2>2, <2>3
<1>4. QED
  BY <1>1, <1>2, <1>3 DEF Ahead

-----------------------------------------------------------------------------
(***************************************************************************)
(* What the thread has of a request, and whether it is all of it.          *)
(***************************************************************************)
LEMMA RequestFacts ==
  ASSUME NEW m, NEW w, IsRequest(m, w)
  PROVE  /\ m \in Seq(Words) /\ Len(m) \in Nat /\ Len(w) \in Nat
         /\ m[1] \in Requests /\ m[1] \notin Reserved
         /\ Len(m) >= Len(w) + 1 /\ Len(m) > 0
         /\ w = ServerTakes[m[1]] /\ w \in Tuples
<1>1. m \in Seq(Words) /\ m[1] \in Requests /\ w = ServerTakes[m[1]]
  BY DEF IsRequest
<1>2. w \in Tuples
  BY <1>1, SameTables, RequestsFacts
<1>3. Len(w) \in Nat
  BY <1>2, TupleFacts
<1>4. Len(m) \in Nat
  BY <1>1, LenProperties
<1>5. m[1] \notin Reserved
  BY <1>1, RequestsFacts
<1>6. Len(m) = Len(w) + 1 \/ Len(m) = Len(w) + 2 \/ Len(m) >= Len(w) + 2
  BY DEF IsRequest, Bare, Short, Long
<1>7. Len(m) >= Len(w) + 1 /\ Len(m) > 0
  BY <1>3, <1>4, <1>6
<1>8. QED
  BY <1>1, <1>2, <1>3, <1>4, <1>5, <1>7

(* No word of a request before its content reads as empty.                 *)
LEMMA EarlyWords ==
  ASSUME NEW m, NEW w, IsRequest(m, w), NEW k \in 1 .. Len(w) + 1
  PROVE  ReadAs(m[k]) = m[k] /\ m[k] \notin {"binary", ""}
<1>1. Len(w) \in Nat /\ m[1] \notin Reserved
  BY RequestFacts
<1>2. CASE k = 1
  BY <1>1, <1>2 DEF Reserved, ReadAs
<1>3. CASE k # 1
  <2>1. k - 1 \in 1 .. Len(w) /\ (k - 1) + 1 = k
    BY <1>1, <1>3
  <2>2. \A i \in 1 .. Len(w) : m[i + 1] \notin {"binary", ""}
    BY DEF IsRequest
  <2>3. m[(k - 1) + 1] \notin {"binary", ""}
    BY <2>1, <2>2
  <2>4. m[k] \notin {"binary", ""}
    BY <2>1, <2>3
  <2>5. QED
    BY <2>4 DEF ReadAs
<1>4. QED
  BY <1>2, <1>3

(* What is received as an empty message.                                   *)
Empty(word) == ReadAs(word) \in {""}

LEMMA NulIsLate ==
  ASSUME NEW m, NEW w, IsRequest(m, w), NEW k \in 1 .. Len(m), Empty(m[k])
  PROVE  Long(m, w) /\ k >= Len(w) + 2
<1>1. Len(w) \in Nat /\ Len(m) \in Nat
  BY RequestFacts
<1>2. k >= Len(w) + 2
  <2>1. SUFFICES ASSUME k \in 1 .. Len(w) + 1 PROVE FALSE
    BY <1>1
  <2>2. ~ Empty(m[k])
    BY <2>1, EarlyWords DEF Empty
  <2>3. QED
    BY <2>2
<1>3. ASSUME Bare(m, w) PROVE FALSE
  <2>1. Len(m) = Len(w) + 1
    BY <1>3 DEF Bare
  <2>2. QED
    BY <1>1, <1>2, <2>1
<1>4. ASSUME Short(m, w) PROVE FALSE
  <2>1. Len(m) = Len(w) + 2
    BY <1>4 DEF Short
  <2>2. k = Len(w) + 2
    BY <1>1, <1>2, <2>1
  <2>3. ~ Empty(m[Len(w) + 2])
    <3>1. m[Len(w) + 2] \notin {"binary", ""}
      BY <1>4 DEF Short
    <3>2. QED
      BY <3>1 DEF Empty, ReadAs
  <2>4. QED
    BY <2>2, <2>3
<1>5. QED
  BY <1>2, <1>3, <1>4 DEF IsRequest

LEMMA TakingFacts ==
  ASSUME NEW m, NEW t, NEW s, Taking(m, t, s)
  PROVE  \E w : /\ w = ServerTakes[m[1]] /\ IsRequest(m, w)
                /\ t[1] = m[1] /\ m[1] \in Requests
                /\ Len(t) \in 1 .. Len(m) /\ Len(m) \in Nat /\ Len(w) \in Nat
                /\ Done(t) <=> DoneWith(t, w)
<1>1. PICK w : w = ServerTakes[m[1]]
  OBVIOUS
<1>2. IsRequest(m, w)
  BY <1>1 DEF Taking, IsMessage
<1>3. m[1] \in Requests /\ Len(m) \in Nat /\ Len(w) \in Nat
  BY <1>2, RequestFacts
<1>4. Len(t) \in 1 .. Len(m)
  BY DEF Taking
<1>5. 1 \in 1 .. Len(t) /\ 1 \in 1 .. Len(w) + 1
  BY <1>3, <1>4
<1>6. t[1] = ReadAs(m[1])
  BY <1>5 DEF Taking
<1>7. ReadAs(m[1]) = m[1]
  BY <1>2, <1>5, EarlyWords
<1>8. t[1] = m[1]
  BY <1>6, <1>7
<1>9. Done(t) <=> DoneWith(t, w)
  BY <1>1, <1>8 DEF Done
<1>10. QED
  BY <1>1, <1>2, <1>3, <1>4, <1>8, <1>9

(* Once all has been received only the end of a file can be ahead.         *)
LEMMA DoneLeavesJunk ==
  ASSUME NEW m, NEW t, NEW s, s \in Seq(Words), Taking(m, t, s), Done(t)
  PROVE  AllJunk(s)
<1>1. PICK w : /\ w = ServerTakes[m[1]] /\ IsRequest(m, w)
               /\ t[1] = m[1] /\ m[1] \in Requests
               /\ Len(t) \in 1 .. Len(m) /\ Len(m) \in Nat /\ Len(w) \in Nat
               /\ Done(t) <=> DoneWith(t, w)
  BY TakingFacts
<1>2. DoneWith(t, w)
  BY <1>1
<1>3. PICK n \in Nat : n = Len(t)
  BY <1>1
<1>4. Len(s) \in Nat
  BY LenProperties
<1>5. ASSUME NEW k \in 1 .. Len(s) PROVE s[k] \in Junk
  <2>1. k - 0 + n <= Len(m) /\ s[k] = m[k - 0 + n]
    <3>1. k > 0
      BY <1>4
    <3>2. QED
      BY <1>3, <3>1 DEF Taking, Ahead
  <2>2. PICK i \in Nat : i = k - 0 + n
    BY <1>3, <1>4
  <2>3. i <= Len(m) /\ i > n /\ s[k] = m[i]
    BY <1>3, <1>4, <2>1, <2>2
  <2>4. ASSUME Bare(m, w) PROVE FALSE
    <3>1. Len(m) = Len(w) + 1
      BY <2>4 DEF Bare
    <3>2. Len(t) = Len(w) + 1
      BY <1>2, <2>4 DEF Bare, DoneWith
    <3>3. QED
      BY <1>1, <1>3, <2>2, <2>3, <3>1, <3>2
  <2>5. ASSUME HasContent(w) PROVE Len(t) > Len(w) + 1
    BY <1>2, <2>5 DEF DoneWith
  <2>6. ASSUME Short(m, w) PROVE FALSE
    <3>1. Len(m) = Len(w) + 2 /\ HasContent(w)
      BY <2>6 DEF Short
    <3>2. QED
      BY <1>1, <1>3, <2>2, <2>3, <2>5, <3>1
  <2>7. ASSUME Long(m, w) PROVE s[k] \in Junk
    <3>1. HasContent(w)
      BY <2>7 DEF Long
    <3>2. i \in Len(w) + 2 .. Len(m)
      BY <1>1, <1>3, <2>2, <2>3, <2>5, <3>1
    <3>3. CASE i = Len(m)
      <4>1. m[Len(m)] \in Junk
        BY <2>7 DEF Long, Junk
      <4>2. QED
        BY <2>3, <3>3, <4>1
    <3>4. CASE i # Len(m)
      <4>1. i \in Len(w) + 2 .. Len(m) - 1
        BY <1>1, <3>2, <3>4
      <4>2. m[i] \in Junk
        BY <2>7, <4>1 DEF Long, Junk
      <4>3. QED
        BY <2>3, <4>2
    <3>5. QED
      BY <3>3, <3>4
  <2>8. QED
    BY <1>1, <2>4, <2>6, <2>7 DEF IsRequest
<1>6. QED
  BY <1>5 DEF AllJunk

(* A whole request is all that the thread receives.                        *)
LEMMA WholeIsDone ==
  ASSUME NEW m, NEW t, NEW s, Taking(m, t, s), Len(t) = Len(m)
  PROVE  Done(t)
<1>1. PICK w : /\ w = ServerTakes[m[1]] /\ IsRequest(m, w)
               /\ t[1] = m[1] /\ m[1] \in Requests
               /\ Len(t) \in 1 .. Len(m) /\ Len(m) \in Nat /\ Len(w) \in Nat
               /\ Done(t) <=> DoneWith(t, w)
  BY TakingFacts
<1>2. ASSUME NEW k \in 1 .. Len(t) PROVE t[k] = ReadAs(m[k])
  BY DEF Taking
<1>3. CASE Bare(m, w)
  <2>1. Len(t) = Len(w) + 1
    BY <1>3 DEF Bare
  <2>2. ~ HasContent(w)
    BY <1>3 DEF Bare
  <2>3. QED
    BY <1>1, <2>1, <2>2 DEF DoneWith
<1>4. CASE Short(m, w)
  <2>1. HasContent(w) /\ Len(t) = Len(w) + 2
    BY <1>4 DEF Short
  <2>2. Len(t) > Len(w) + 1 /\ Len(w) + 1 \in 1 .. Len(t)
    BY <1>1, <2>1
  <2>3. t[Len(w) + 1] = ReadAs(m[Len(w) + 1])
    BY <1>2, <2>2
  <2>4. m[Len(w) + 1] \in {"0"}
    BY <1>4 DEF Short
  <2>5. t[Len(w) + 1] \notin {"1"}
    BY <2>3, <2>4 DEF ReadAs
  <2>6. QED
    BY <1>1, <2>1, <2>2, <2>5 DEF DoneWith
<1>5. CASE Long(m, w)
  <2>1. HasContent(w) /\ Len(t) >= Len(w) + 2
    BY <1>5 DEF Long
  <2>2. Len(t) > Len(w) + 1 /\ Len(t) \in 1 .. Len(t)
    BY <1>1, <2>1
  <2>3. t[Len(t)] = ReadAs(m[Len(m)])
    BY <1>2, <2>2
  <2>4. m[Len(m)] \in {""}
    BY <1>5 DEF Long
  <2>5. t[Len(t)] \in {""}
    BY <2>3, <2>4 DEF ReadAs
  <2>6. QED
    BY <1>1, <2>1, <2>2, <2>5 DEF DoneWith
<1>6. QED
  BY <1>1, <1>3, <1>4, <1>5 DEF IsRequest

(* The first word of a request begins it.                                  *)
LEMMA Starts ==
  ASSUME NEW m, NEW s, s \in Seq(Words), s # <<>>, IsMessage(m), Ahead(m, s, 0, 0)
  PROVE  /\ Head(s) = m[1] /\ ReadAs(Head(s)) = Head(s)
         /\ Head(s) \in Requests
         /\ Taking(m, <<Head(s)>>, Tail(s))
<1>1. PICK w : w = ServerTakes[m[1]]
  OBVIOUS
<1>2. IsRequest(m, w)
  BY <1>1 DEF IsMessage
<1>3. m[1] \in Requests /\ Len(m) \in Nat /\ Len(w) \in Nat /\ Len(m) > 0
  BY <1>2, RequestFacts
<1>4. 0 + 1 <= Len(m) /\ Head(s) = m[0 + 1] /\ Ahead(m, Tail(s), 0, 0 + 1)
  BY <1>3, AheadTail
<1>5. Head(s) = m[1] /\ Ahead(m, Tail(s), 0, 1)
  BY <1>4
<1>6. ReadAs(m[1]) = m[1] /\ m[1] \notin {"binary", ""}
  <2>1. 1 \in 1 .. Len(w) + 1
    BY <1>3
  <2>2. QED
    BY <1>2, <2>1, EarlyWords
<1>7. PICK t : t = <<Head(s)>>
  OBVIOUS
<1>8. Len(t) = 1 /\ t[1] = m[1]
  BY <1>5, <1>7
<1>9. \A k \in 1 .. 1 : t[k] = ReadAs(m[k])
  <2>1. \A k \in 1 .. 1 : k = 1
    OBVIOUS
  <2>2. QED
    BY <1>6, <1>8, <2>1
<1>10. Len(t) \in 1 .. Len(m) /\ (Len(t) - 1) = 0
  <2>1. Len(t) = 1
    BY <1>8
  <2>2. QED
    BY <1>3, <2>1
<1>11. \A k \in 1 .. 0 : t[k] \notin {""}
  <2>1. \A k \in 1 .. 0 : FALSE
    OBVIOUS
  <2>2. QED
    BY <2>1
<1>12. Taking(m, t, Tail(s))
  BY <1>5, <1>8, <1>9, <1>10, <1>11 DEF Taking
<1>13. QED
  BY <1>3, <1>5, <1>6, <1>7, <1>12

(* As long as not all has been received the next word of the request is    *)
(* received.                                                               *)
LEMMA Continues ==
  ASSUME NEW m, NEW t, NEW s, t \in Seq(Words), s \in Seq(Words), s # <<>>,
         Taking(m, t, s), ~ Done(t)
  PROVE  Taking(m, Append(t, ReadAs(Head(s))), Tail(s))
<1>1. PICK w : /\ w = ServerTakes[m[1]] /\ IsRequest(m, w)
               /\ t[1] = m[1] /\ m[1] \in Requests
               /\ Len(t) \in 1 .. Len(m) /\ Len(m) \in Nat /\ Len(w) \in Nat
               /\ Done(t) <=> DoneWith(t, w)
  BY TakingFacts
<1>2. PICK n \in Nat : n = Len(t)
  BY <1>1
<1>3. n + 1 <= Len(m) /\ Head(s) = m[n + 1] /\ Ahead(m, Tail(s), 0, n + 1)
  <2>1. Ahead(m, s, 0, n)
    BY <1>2 DEF Taking
  <2>2. QED
    BY <1>1, <1>2, <2>1, AheadTail
<1>4. \A k \in 1 .. n : t[k] = ReadAs(m[k])
  BY <1>2 DEF Taking
<1>5. \A k \in 1 .. n - 1 : t[k] \notin {""}
  BY <1>2 DEF Taking
<1>6. ASSUME t[n] \in {""} PROVE FALSE
  <2>1. n \in 1 .. n /\ n \in 1 .. Len(m)
    BY <1>1, <1>2
  <2>2. Empty(m[n])
    BY <1>4, <1>6, <2>1 DEF Empty
  <2>3. Long(m, w) /\ n >= Len(w) + 2
    BY <1>1, <2>1, <2>2, NulIsLate
  <2>4. HasContent(w)
    BY <2>3 DEF Long
  <2>5. Len(t) > Len(w) + 1
    BY <1>1, <1>2, <2>3
  <2>6. t[Len(t)] \in {""}
    BY <1>2, <1>6
  <2>7. DoneWith(t, w)
    BY <2>4, <2>5, <2>6 DEF DoneWith
  <2>8. QED
    BY <1>1, <2>7
<1>7. ReadAs(Head(s)) \in Words
  BY TailFacts, WordsFacts DEF ReadAs
<1>8. PICK u : u = Append(t, ReadAs(Head(s)))
  OBVIOUS
<1>9. /\ Len(u) = Len(t) + 1
      /\ \A k \in 1 .. Len(t) : u[k] = t[k]
      /\ u[Len(t) + 1] = ReadAs(Head(s))
  BY <1>7, <1>8, AppendProperties
<1>10. Len(u) = n + 1 /\ Len(u) \in 1 .. Len(m) /\ Len(u) - 1 = n
  <2>1. Len(u) = n + 1 /\ n + 1 <= Len(m)
    BY <1>2, <1>3, <1>9
  <2>2. QED
    BY <1>1, <1>2, <2>1
<1>11. ASSUME NEW k \in 1 .. n + 1 PROVE u[k] = ReadAs(m[k])
  <2>1. CASE k = n + 1
    BY <1>2, <1>3, <1>9, <2>1
  <2>2. CASE k # n + 1
    <3>1. k \in 1 .. n
      BY <1>2, <2>2
    <3>2. QED
      BY <1>2, <1>4, <1>9, <3>1
  <2>3. QED
    BY <2>1, <2>2
<1>12. ASSUME NEW k \in 1 .. n PROVE u[k] \notin {""}
  <2>1. u[k] = t[k]
    BY <1>2, <1>9
  <2>2. CASE k = n
    BY <1>6, <2>1, <2>2
  <2>3. CASE k # n
    <3>1. k \in 1 .. n - 1
      BY <1>2, <2>3
    <3>2. QED
      BY <1>5, <2>1, <3>1
  <2>4. QED
    BY <2>2, <2>3
<1>13. IsMessage(m)
  BY DEF Taking
<1>14. Taking(m, u, Tail(s))
  BY <1>3, <1>10, <1>11, <1>12, <1>13 DEF Taking
<1>15. QED
  BY <1>8, <1>14

(* What has been received of a content ends with its first NUL.            *)
LEMMA DoneLong ==
  ASSUME NEW m, NEW w, NEW t, NEW s, Taking(m, t, s), IsRequest(m, w), Long(m, w),
         DoneWith(t, w)
  PROVE  Empty(m[Len(t)]) /\ t[Len(t)] \in {""}
<1>1. Len(t) \in 1 .. Len(m) /\ Len(m) \in Nat /\ Len(w) \in Nat
  BY RequestFacts DEF Taking
<1>2. HasContent(w)
  BY DEF Long
<1>3. Len(t) > Len(w) + 1
  BY <1>2 DEF DoneWith
<1>4. Len(w) + 1 \in 1 .. Len(t) /\ Len(t) \in 1 .. Len(t)
  BY <1>1, <1>3
<1>5. t[Len(w) + 1] = ReadAs(m[Len(w) + 1])
  BY <1>4 DEF Taking
<1>6. m[Len(w) + 1] \in {"1"}
  BY DEF Long
<1>7. t[Len(w) + 1] \in {"1"}
  BY <1>5, <1>6 DEF ReadAs
<1>8. t[Len(t)] \in {""}
  BY <1>2, <1>7 DEF DoneWith
<1>9. t[Len(t)] = ReadAs(m[Len(t)])
  BY <1>4 DEF Taking
<1>10. QED
  BY <1>8, <1>9 DEF Empty

(* A chunk that ends a transfer early.                                     *)
IsNul(word) == word \in {"binary"}

LEMMA DoneWithoutNul ==
  ASSUME NEW m, NEW t, NEW s, t \in Seq(Words), Taking(m, t, s), Done(t),
         \A k \in 1 .. Len(m) : ~ IsNul(m[k])
  PROVE  t = m
<1>1. PICK w : /\ w = ServerTakes[m[1]] /\ IsRequest(m, w)
               /\ t[1] = m[1] /\ m[1] \in Requests
               /\ Len(t) \in 1 .. Len(m) /\ Len(m) \in Nat /\ Len(w) \in Nat
               /\ Done(t) <=> DoneWith(t, w)
  BY TakingFacts
<1>2. DoneWith(t, w)
  BY <1>1
<1>3. PICK n \in Nat : n = Len(t)
  BY <1>1
<1>4. ASSUME NEW k \in 1 .. n PROVE t[k] = m[k]
  <2>1. t[k] = ReadAs(m[k])
    BY <1>3 DEF Taking
  <2>2. k \in 1 .. Len(m)
    BY <1>1, <1>3
  <2>3. ~ IsNul(m[k])
    BY <2>2
  <2>4. QED
    BY <2>1, <2>3 DEF ReadAs, IsNul
<1>5. CASE Bare(m, w)
  <2>1. Len(m) = Len(w) + 1
    BY <1>5 DEF Bare
  <2>2. Len(t) = Len(w) + 1
    BY <1>2, <1>5 DEF Bare, DoneWith
  <2>3. QED
    <3>1. Len(t) = Len(m)
      BY <2>1, <2>2
    <3>2. m \in Seq(Words)
      BY <1>1, RequestFacts
    <3>3. QED
      BY <1>3, <1>4, <3>1, <3>2, SeqEqual
<1>6. CASE Short(m, w)
  <2>1. Len(m) = Len(w) + 2 /\ HasContent(w)
    BY <1>6 DEF Short
  <2>2. Len(t) > Len(w) + 1
    BY <1>2, <2>1 DEF DoneWith
  <2>3. Len(t) = Len(m)
    BY <1>1, <2>1, <2>2
  <2>4. m \in Seq(Words)
    BY <1>1, RequestFacts
  <2>5. QED
    BY <1>3, <1>4, <2>3, <2>4, SeqEqual
<1>7. CASE Long(m, w)
  <2>1. Empty(m[Len(t)])
    BY <1>1, <1>2, <1>7, DoneLong
  <2>2. m[n] \in {""}
    <3>1. n \in 1 .. Len(m)
      BY <1>1, <1>3
    <3>2. ~ IsNul(m[n])
      BY <3>1
    <3>3. QED
      BY <1>3, <2>1, <3>2 DEF Empty, ReadAs, IsNul
  <2>3. n >= Len(w) + 2
    <3>1. n \in 1 .. Len(m)
      BY <1>1, <1>3
    <3>2. Empty(m[n])
      BY <1>3, <2>1
    <3>3. QED
      BY <1>1, <3>1, <3>2, NulIsLate
  <2>4. ~ (n \in Len(w) + 2 .. Len(m) - 1)
    BY <1>7, <2>2 DEF Long
  <2>5. Len(t) = Len(m)
    BY <1>1, <1>3, <2>3, <2>4
  <2>6. m \in Seq(Words)
    BY <1>1, RequestFacts
  <2>7. QED
    BY <1>3, <1>4, <2>5, <2>6, SeqEqual
<1>8. QED
  BY <1>1, <1>5, <1>6, <1>7 DEF IsRequest

LEMMA DoneAtNul ==
  ASSUME NEW m, NEW t, NEW s, t \in Seq(Words), Taking(m, t, s), Done(t),
         NEW p \in 1 .. Len(m), IsNul(m[p])
  PROVE  /\ IsNul(m[Len(t)]) /\ \A k \in 1 .. Len(t) - 1 : ~ IsNul(m[k])
         /\ t = SubSeq(m, 1, Len(t) - 1) \o <<"">>
<1>1. PICK w : /\ w = ServerTakes[m[1]] /\ IsRequest(m, w)
               /\ t[1] = m[1] /\ m[1] \in Requests
               /\ Len(t) \in 1 .. Len(m) /\ Len(m) \in Nat /\ Len(w) \in Nat
               /\ Done(t) <=> DoneWith(t, w)
  BY TakingFacts
<1>2. DoneWith(t, w)
  BY <1>1
<1>3. PICK n \in Nat : n = Len(t)
  BY <1>1
<1>4. n \in 1 .. Len(m) /\ n - 1 \in Nat /\ n \in 1 .. n
  BY <1>1, <1>3
<1>5. ASSUME NEW k \in 1 .. n - 1 PROVE ~ IsNul(m[k]) /\ t[k] = m[k]
  <2>1. t[k] = ReadAs(m[k])
    <3>1. k \in 1 .. n
      BY <1>4
    <3>2. QED
      BY <1>3, <3>1 DEF Taking
  <2>2. t[k] \notin {""}
    BY <1>3 DEF Taking
  <2>3. QED
    BY <2>1, <2>2 DEF ReadAs, IsNul
<1>6. Long(m, w)
  <2>1. Empty(m[p])
    BY DEF Empty, IsNul, ReadAs
  <2>2. QED
    BY <1>1, <2>1, NulIsLate
<1>7. Empty(m[n]) /\ t[n] \in {""}
  BY <1>1, <1>2, <1>3, <1>6, DoneLong
<1>8. IsNul(m[n])
  <2>1. SUFFICES ASSUME ~ IsNul(m[n]) PROVE FALSE
    OBVIOUS
  <2>2. m[n] \in {""}
    BY <1>7, <2>1 DEF Empty, ReadAs, IsNul
  <2>3. n >= Len(w) + 2
    <3>1. Empty(m[n])
      BY <1>7
    <3>2. QED
      BY <1>1, <1>4, <3>1, NulIsLate
  <2>4. ~ (n \in Len(w) + 2 .. Len(m) - 1)
    BY <1>6, <2>2 DEF Long
  <2>5. n = Len(m)
    BY <1>1, <1>4, <2>3, <2>4
  <2>6. p # n
    BY <2>1
  <2>7. p \in 1 .. n - 1
    BY <1>3, <2>5, <2>6
  <2>8. QED
    BY <1>5, <2>7
<1>9. PICK f : f = SubSeq(m, 1, n - 1)
  OBVIOUS
<1>10. m \in Seq(Words)
  BY <1>1, RequestFacts
<1>11. f \in Seq(Words) /\ Len(f) = n - 1 /\ \A k \in 1 .. n - 1 : f[k] = m[k]
  <2>1. PICK l \in Nat : l = n - 1
    BY <1>4
  <2>2. \A k \in 1 .. l : m[k] \in Words
    <3>1. \A k \in 1 .. l : k \in 1 .. Len(m)
      BY <1>1, <1>4, <2>1
    <3>2. QED
      BY <1>10, <3>1, ElementOfSeq
  <2>3. 1 \in Int /\ l \in Int
    BY <2>1
  <2>4. /\ SubSeq(m, 1, l) \in Seq(Words)
        /\ Len(SubSeq(m, 1, l)) = IF 1 <= l THEN l - 1 + 1 ELSE 0
        /\ \A i \in 1 .. l - 1 + 1 : SubSeq(m, 1, l)[i] = m[1 + i - 1]
    BY <2>2, <2>3, SubSeqProperties
  <2>5. l - 1 + 1 = l /\ (IF 1 <= l THEN l - 1 + 1 ELSE 0) = l /\ \A i \in 1 .. l : 1 + i - 1 = i
    BY <2>1
  <2>6. QED
    BY <1>9, <2>1, <2>4, <2>5
<1>12. PICK e : e = ""
  OBVIOUS
<1>13. e \in Words
  BY <1>12, WordsFacts
<1>14. PICK u : u = Append(f, e)
  OBVIOUS
<1>15. /\ u \in Seq(Words) /\ Len(u) = Len(f) + 1
       /\ \A k \in 1 .. Len(f) : u[k] = f[k]
       /\ u[Len(f) + 1] = e
  BY <1>11, <1>13, <1>14, AppendProperties
<1>16. u = f \o <<e>>
  BY <1>11, <1>13, <1>14, AppendIsConcat
<1>17. Len(f) + 1 = n
  BY <1>4, <1>11
<1>18. Len(u) = Len(t)
  BY <1>3, <1>15, <1>17
<1>19. ASSUME NEW k \in 1 .. Len(t) PROVE t[k] = u[k]
  <2>1. k \in 1 .. n
    BY <1>3
  <2>2. CASE k = n
    <3>1. t[n] = e
      BY <1>7, <1>12
    <3>2. QED
      BY <1>15, <1>17, <2>2, <3>1
  <2>3. CASE k # n
    <3>1. k \in 1 .. n - 1
      BY <1>3, <2>1, <2>3
    <3>2. QED
      BY <1>5, <1>11, <1>15, <3>1
  <2>4. QED
    BY <2>2, <2>3
<1>20. t = u
  <2>1. u \in Seq(Words)
    BY <1>15
  <2>2. QED
    BY <1>18, <1>19, <2>1, SeqEqual
<1>21. QED
  BY <1>3, <1>5, <1>8, <1>9, <1>12, <1>16, <1>20

(* What has been received is the request as far as it can be.              *)
LEMMA DoneExact ==
  ASSUME NEW m, NEW t, NEW s, t \in Seq(Words), Taking(m, t, s), Done(t)
  PROVE  t = UpToNul(m)
<1>1. m \in Seq(Words) /\ DOMAIN m = 1 .. Len(m)
  <2>1. m \in Seq(Words)
    BY DEF Taking, IsMessage, IsRequest
  <2>2. QED
    BY <2>1, LenProperties
<1>2. PICK nuls : nuls = {k \in DOMAIN m : m[k] = "binary"}
  OBVIOUS
<1>3. \A k : k \in nuls <=> k \in 1 .. Len(m) /\ IsNul(m[k])
  BY <1>1, <1>2 DEF IsNul
<1>4. UpToNul(m) = IF nuls = {} THEN m
                   ELSE SubSeq(m, 1, (CHOOSE k \in nuls : \A j \in nuls : k <= j) - 1) \o <<"">>
  BY <1>2 DEF UpToNul
<1>5. CASE nuls = {}
  <2>1. \A k \in 1 .. Len(m) : ~ IsNul(m[k])
    BY <1>3, <1>5
  <2>2. t = m
    BY <2>1, DoneWithoutNul
  <2>3. QED
    BY <1>4, <1>5, <2>2
<1>6. CASE nuls # {}
  <2>1. PICK p \in 1 .. Len(m) : IsNul(m[p])
    BY <1>3, <1>6
  <2>2. /\ IsNul(m[Len(t)]) /\ \A k \in 1 .. Len(t) - 1 : ~ IsNul(m[k])
        /\ t = SubSeq(m, 1, Len(t) - 1) \o <<"">>
    BY <2>1, DoneAtNul
  <2>3. PICK n \in Nat : n = Len(t) /\ n \in 1 .. Len(m)
    BY TakingFacts
  <2>4. n \in nuls
    BY <1>3, <2>2, <2>3
  <2>5. ASSUME NEW j \in nuls PROVE n <= j /\ j \in Nat
    <3>1. j \in 1 .. Len(m) /\ IsNul(m[j])
      BY <1>3
    <3>2. ~ (j \in 1 .. n - 1)
      BY <2>2, <2>3, <3>1
    <3>3. QED
      BY <2>3, <3>1, <3>2
  <2>6. PICK c : c = CHOOSE k \in nuls : \A j \in nuls : k <= j
    OBVIOUS
  <2>7. c \in nuls /\ \A j \in nuls : c <= j
    BY <2>4, <2>5, <2>6
  <2>8. c = n
    BY <2>3, <2>4, <2>5, <2>7
  <2>9. UpToNul(m) = SubSeq(m, 1, n - 1) \o <<"">>
    BY <1>4, <1>6, <2>6, <2>8
  <2>10. QED
    BY <2>2, <2>3, <2>9
<1>7. QED
  BY <1>5, <1>6

LEMMA DoneFits ==
  ASSUME NEW m, NEW t, NEW s, Taking(m, t, s), Done(t)
  PROVE  \A k \in DOMAIN ServerTakes[t[1]] : Fits(t[k + 1], ServerTakes[t[1]][k])
<1>1. PICK w : /\ w = ServerTakes[m[1]] /\ IsRequest(m, w)
               /\ t[1] = m[1] /\ m[1] \in Requests
               /\ Len(t) \in 1 .. Len(m) /\ Len(m) \in Nat /\ Len(w) \in Nat
               /\ Done(t) <=> DoneWith(t, w)
  BY TakingFacts
<1>2. DOMAIN w = 1 .. Len(w)
  <2>1. w \in Seq(Roles \cup {"option"})
    BY <1>1, RequestFacts, TupleFacts
  <2>2. QED
    BY <2>1, LenProperties
<1>3. Len(t) >= Len(w) + 1
  <2>1. Len(t) > Len(w) + 1 \/ Len(t) = Len(w) + 1
    BY <1>1 DEF DoneWith
  <2>2. QED
    BY <1>1, <2>1
<1>4. ASSUME NEW k \in 1 .. Len(w) PROVE Fits(t[k + 1], w[k])
  <2>1. k + 1 \in 1 .. Len(t) /\ k + 1 \in 1 .. Len(w) + 1
    BY <1>1, <1>3
  <2>2. t[k + 1] = ReadAs(m[k + 1])
    BY <2>1 DEF Taking
  <2>3. ReadAs(m[k + 1]) = m[k + 1]
    BY <1>1, <2>1, EarlyWords
  <2>4. Fits(m[k + 1], w[k])
    BY <1>1 DEF IsRequest
  <2>5. QED
    BY <2>2, <2>3, <2>4
<1>5. QED
  BY <1>1, <1>2, <1>4

-----------------------------------------------------------------------------
(***************************************************************************)
(* The operators of the model.                                             *)
(***************************************************************************)
LEMMA CompleteIsDone ==
  ASSUME taken[1] \in Requests, Len(taken) \in Nat
  PROVE  Complete <=> Done(taken)
<1>1. PICK w : w = ServerTakes[taken[1]]
  OBVIOUS
<1>2. Takes(taken[1]) = w
  BY <1>1, SameTables DEF Takes
<1>3. Len(w) \in Nat
  BY <1>1, SameTables, RequestsFacts, TupleFacts
<1>4. PICK b \in BOOLEAN : b <=> (taken[Len(w) + 1] # "1" \/ taken[Len(taken)] = "")
  OBVIOUS
<1>5. PICK d : d = Len(taken) - 1 - Len(w)
  OBVIOUS
<1>6. Complete <=> CASE ~ HasContent(w) -> d = 0
                     [] HasContent(w) /\ d <= 0 -> FALSE
                     [] OTHER -> b
  BY <1>2, <1>4, <1>5 DEF Complete, Last
<1>7. (d = 0 <=> Len(taken) = Len(w) + 1) /\ (d <= 0 <=> ~ (Len(taken) > Len(w) + 1))
  BY <1>3, <1>5
<1>8. Done(taken) <=> IF HasContent(w) THEN Len(taken) > Len(w) + 1 /\ b
                                       ELSE Len(taken) = Len(w) + 1
  BY <1>1, <1>4 DEF Done, DoneWith
<1>9. QED
  BY <1>6, <1>7, <1>8

LEMMA SendOpen ==
  ASSUME link = "open", NEW word, NEW next, Send(word, next)
  PROVE  /\ server' = next /\ toClient' = Append(toClient, word)
         /\ link' = link /\ toServer' = toServer /\ Rest' = Rest
         /\ client' = client /\ identity' = identity /\ asked' = asked /\ toSend' = toSend
BY DEF Send, Rest, clientVars

LEMMA SendLost ==
  ASSUME link \in {"finished", "reset", "broken"}, NEW word, NEW next, Send(word, next)
  PROVE  /\ toClient' = toClient /\ toServer' = toServer
         /\ client' = client /\ identity' = identity /\ asked' = asked /\ toSend' = toSend
         /\ link' \in {"finished", "reset", "broken"}
         /\ link = "finished" => link' \in {"finished", "broken"}
         /\ IF link = "broken" THEN server' = "killed" ELSE server' = next
<1>1. Lost["finished"] = {"finished", "broken"} /\ Lost["reset"] = {"reset", "broken"}
  BY DEF Lost
<1>2. QED
  BY <1>1 DEF Send, clientVars

LEMMA TailOfConcat ==
  ASSUME NEW S, NEW s \in Seq(S), NEW t \in Seq(S), s # <<>>
  PROVE  s \o t # <<>> /\ Head(s \o t) = Head(s) /\ Tail(s \o t) = Tail(s) \o t
         /\ s \o t \in Seq(S)
<1>1. /\ s \o t \in Seq(S)
      /\ Len(s) \in Nat /\ Len(t) \in Nat /\ Len(s \o t) = Len(s) + Len(t)
      /\ \A k \in 1 .. Len(s) : (s \o t)[k] = s[k]
      /\ \A k \in 1 .. Len(t) : (s \o t)[Len(s) + k] = t[k]
  BY Joined
<1>2. Len(s) \in Nat \ {0} /\ Head(s) = s[1] /\ 1 \in 1 .. Len(s)
  BY TailFacts
<1>3. s \o t # <<>>
  BY ConcatEqualIffEmpty
<1>4. Head(s \o t) = (s \o t)[1]
  BY <1>1, <1>3, TailFacts
<1>5. PICK n \in Nat : Len(s) = n + 1
  <2>1. Len(s) - 1 \in Nat /\ (Len(s) - 1) + 1 = Len(s)
    BY <1>2
  <2>2. QED
    BY <2>1
<1>6. /\ Tail(s) \in Seq(S) /\ Len(Tail(s)) = n
      /\ \A k \in 1 .. n : Tail(s)[k] = s[k + 1]
  <2>1. Len(s) - 1 = n
    BY <1>5
  <2>2. QED
    BY <2>1, TailFacts
<1>7. PICK u : u = Tail(s)
  OBVIOUS
<1>8. /\ u \o t \in Seq(S) /\ Len(u \o t) = n + Len(t)
      /\ \A k \in 1 .. n : (u \o t)[k] = u[k]
      /\ \A k \in 1 .. Len(t) : (u \o t)[n + k] = t[k]
  <2>1. u \in Seq(S)
    BY <1>6, <1>7
  <2>2. /\ u \o t \in Seq(S) /\ Len(u \o t) = Len(u) + Len(t)
        /\ \A k \in 1 .. Len(u) : (u \o t)[k] = u[k]
        /\ \A k \in 1 .. Len(t) : (u \o t)[Len(u) + k] = t[k]
    BY <2>1, Joined
  <2>3. Len(u) = n
    BY <1>6, <1>7
  <2>4. QED
    BY <2>2, <2>3
<1>9. PICK v : v = Tail(s \o t)
  OBVIOUS
<1>10. /\ v \in Seq(S) /\ Len(v) = n + Len(t)
       /\ \A k \in 1 .. n + Len(t) : v[k] = (s \o t)[k + 1]
  <2>1. /\ Tail(s \o t) \in Seq(S) /\ Len(Tail(s \o t)) = Len(s \o t) - 1
        /\ \A k \in 1 .. Len(s \o t) - 1 : Tail(s \o t)[k] = (s \o t)[k + 1]
    <3>1. s \o t \in Seq(S) /\ s \o t # <<>>
      BY <1>1, <1>3
    <3>2. QED
      BY <3>1, TailFacts
  <2>2. Len(s \o t) - 1 = n + Len(t)
    BY <1>1, <1>5
  <2>3. QED
    BY <1>9, <2>1, <2>2
<1>11. ASSUME NEW k \in 1 .. n + Len(t) PROVE v[k] = (u \o t)[k]
  <2>1. CASE k <= n
    <3>1. k \in 1 .. n /\ k + 1 \in 1 .. Len(s)
      BY <1>1, <1>5, <2>1
    <3>2. (u \o t)[k] = s[k + 1]
      BY <1>6, <1>7, <1>8, <3>1
    <3>3. v[k] = s[k + 1]
      BY <1>1, <1>10, <3>1
    <3>4. QED
      BY <3>2, <3>3
  <2>2. CASE k > n
    <3>1. PICK i \in 1 .. Len(t) : k = n + i
      <4>1. k - n \in 1 .. Len(t) /\ k = n + (k - n)
        BY <1>1, <1>5, <2>2
      <4>2. QED
        BY <4>1
    <3>2. k + 1 = Len(s) + i
      BY <1>5, <3>1
    <3>3. v[k] = t[i]
      BY <1>1, <1>10, <3>1, <3>2
    <3>4. (u \o t)[k] = t[i]
      BY <1>8, <3>1
    <3>5. QED
      BY <3>3, <3>4
  <2>3. k <= n \/ k > n
    BY <1>1, <1>5
  <2>4. QED
    BY <2>1, <2>2, <2>3
<1>12. v = u \o t
  <2>1. v \in Seq(S) /\ u \o t \in Seq(S) /\ Len(v) = Len(u \o t)
    BY <1>8, <1>10
  <2>2. \A k \in 1 .. Len(v) : v[k] = (u \o t)[k]
    BY <1>10, <1>11
  <2>3. QED
    BY <2>1, <2>2, SeqEqual
<1>13. QED
  BY <1>1, <1>2, <1>3, <1>4, <1>7, <1>9, <1>12

LEMMA SayConcat ==
  ASSUME NEW S, NEW s \in Seq(S), NEW t \in Seq(S), t # <<>>
  PROVE  /\ Append(s, Head(t)) \o Tail(t) = s \o t
         /\ Append(s, Head(t)) \in Seq(S) /\ Tail(t) \in Seq(S)
<1>1. Head(t) \in S /\ Tail(t) \in Seq(S)
  BY HeadTailProperties
<1>2. PICK x : x = Head(t)
  OBVIOUS
<1>3. Append(s, x) = s \o <<x>> /\ Append(s, x) \in Seq(S) /\ <<x>> \in Seq(S)
  <2>1. x \in S
    BY <1>1, <1>2
  <2>2. Append(s, x) = s \o <<x>>
    BY <2>1, AppendIsConcat
  <2>3. Append(s, x) \in Seq(S)
    BY <2>1, AppendProperties
  <2>4. QED
    BY <2>1, <2>2, <2>3
<1>4. t = <<x>> \o Tail(t)
  <2>1. Len(t) \in Nat \ {0}
    BY TailFacts
  <2>2. 1 \in 1 .. Len(t) /\ Len(t) \in 1 .. Len(t)
    BY <2>1
  <2>3. SubSeq(t, 1, Len(t)) = <<t[1]>> \o SubSeq(t, 1 + 1, Len(t))
    BY <2>2, SubSeqRecursiveFirst
  <2>4. SubSeq(t, 1, Len(t)) = t
    BY SubSeqFull
  <2>5. Tail(t) = SubSeq(t, 2, Len(t))
    BY TailIsSubSeq
  <2>6. 1 + 1 = 2 /\ t[1] = x
    BY <1>2, TailFacts
  <2>7. QED
    BY <2>3, <2>4, <2>5, <2>6
<1>5. (s \o <<x>>) \o Tail(t) = s \o (<<x>> \o Tail(t))
  BY <1>1, <1>3, ConcatAssociative
<1>6. QED
  BY <1>1, <1>2, <1>3, <1>4, <1>5

LEMMA ShortSequences ==
  ASSUME NEW a, NEW b
  PROVE  /\ Append(<<>>, a) = <<a>> /\ Append(<<a>>, b) = <<a, b>>
         /\ Head(<<a>>) = a /\ Tail(<<a>>) = <<>>
         /\ Head(<<a, b>>) = a /\ Tail(<<a, b>>) = <<b>>
         /\ <<a>> # <<>> /\ <<a, b>> # <<>>
         /\ Len(<<>>) = 0 /\ Len(<<a>>) = 1 /\ Len(<<a, b>>) = 2
<1>1. Append(<<>>, a) = <<a>>
  OBVIOUS
<1>2. Append(<<a>>, b) = <<a, b>>
  <2>1. PICK S : S = {a, b}
    OBVIOUS
  <2>2. PICK s : s = <<a>>
    OBVIOUS
  <2>3. PICK t : t = <<a, b>>
    OBVIOUS
  <2>4. s \in Seq(S) /\ Len(s) = 1 /\ s[1] = a
    BY <2>1, <2>2
  <2>5. t \in Seq(S) /\ Len(t) = 2 /\ t[1] = a /\ t[2] = b
    BY <2>1, <2>3
  <2>6. b \in S
    BY <2>1
  <2>7. /\ Append(s, b) \in Seq(S) /\ Len(Append(s, b)) = Len(s) + 1
        /\ \A i \in 1 .. Len(s) : Append(s, b)[i] = s[i]
        /\ Append(s, b)[Len(s) + 1] = b
    <3>1. s \in Seq(S)
      BY <2>4
    <3>2. QED
      BY <2>6, <3>1, AppendProperties
  <2>8. Len(Append(s, b)) = 2 /\ Append(s, b)[1] = a /\ Append(s, b)[2] = b
    <3>1. Len(s) = 1 /\ s[1] = a /\ 1 \in 1 .. 1 /\ 1 + 1 = 2
      BY <2>4
    <3>2. QED
      BY <2>7, <3>1
  <2>9. \A i \in 1 .. 2 : Append(s, b)[i] = t[i]
    <3>1. \A i \in 1 .. 2 : i = 1 \/ i = 2
      OBVIOUS
    <3>2. QED
      BY <2>5, <2>8, <3>1
  <2>10. Append(s, b) = t
    <3>1. t \in Seq(S) /\ Append(s, b) \in Seq(S) /\ Len(t) = Len(Append(s, b))
      BY <2>5, <2>7, <2>8
    <3>2. \A i \in 1 .. Len(Append(s, b)) : Append(s, b)[i] = t[i]
      BY <2>8, <2>9
    <3>3. QED
      BY <3>1, <3>2, SeqEqual
  <2>11. QED
    BY <2>2, <2>3, <2>10
<1>3. Head(<<a>>) = a /\ Tail(<<a>>) = <<>>
  OBVIOUS
<1>4. Head(<<a, b>>) = a
  OBVIOUS
<1>5. Tail(<<a, b>>) = <<b>>
  OBVIOUS
<1>6. <<a>> # <<>> /\ <<a, b>> # <<>>
  OBVIOUS
<1>7. Len(<<>>) = 0 /\ Len(<<a>>) = 1 /\ Len(<<a, b>>) = 2
  OBVIOUS
<1>8. QED
  BY <1>1, <1>2, <1>3, <1>4, <1>5, <1>6, <1>7

-----------------------------------------------------------------------------
(***************************************************************************)
(* Where the client can be for each place of the thread.                   *)
(***************************************************************************)
LEMMA WhereClient ==
  ASSUME Present
  PROVE  /\ server = "welcome" => client = "greeting" /\ Rest = <<>> /\ toClient = <<>>
         /\ server = "prompt" =>
              \/ client = "greeting" /\ Rest = <<>> /\ toClient = <<"welcome">>
              \/ client = "prompt" /\ Rest = <<>> /\ toClient = <<>>
         /\ server = "username" =>
              \/ client = "greeting" /\ Rest = <<>> /\ toClient = <<"welcome", "prompt">>
              \/ client = "prompt" /\ Rest = <<>> /\ toClient = <<"prompt">>
              \/ client = "login" /\ Rest = <<"username", "password">> /\ toClient = <<>>
         /\ server = "password" => client = "login" /\ Rest = <<"password">> /\ toClient = <<>>
         /\ server = "verdict" => client = "login" /\ Rest = <<>> /\ toClient = <<>>
         /\ server = "rejected" =>
              \/ client = "prompt" /\ Rest = <<"retry">> /\ toClient = <<>>
              \/ client = "login" /\ Rest = <<>> /\ toClient = <<"Rejected">>
         /\ server = "identity" =>
              \/ client = "login" /\ Rest = <<>> /\ toClient = <<"Accepted">>
              \/ client = "working" /\ Rest = <<>> /\ toClient = <<>>
<1>1. server = "welcome" => client = "greeting" /\ Rest = <<>> /\ toClient = <<>>
  BY DEF Present, AtGreeting, AtPrompt, AtLogin, AtWork, AtMenu, Asking, Unheard, InHand, Served
<1>2. server = "prompt" =>
        \/ client = "greeting" /\ Rest = <<>> /\ toClient = <<"welcome">>
        \/ client = "prompt" /\ Rest = <<>> /\ toClient = <<>>
  BY DEF Present, AtGreeting, AtPrompt, AtLogin, AtWork, AtMenu, Asking, Unheard, InHand, Served
<1>3. server = "username" =>
        \/ client = "greeting" /\ Rest = <<>> /\ toClient = <<"welcome", "prompt">>
        \/ client = "prompt" /\ Rest = <<>> /\ toClient = <<"prompt">>
        \/ client = "login" /\ Rest = <<"username", "password">> /\ toClient = <<>>
  BY DEF Present, AtGreeting, AtPrompt, AtLogin, AtWork, AtMenu, Asking, Unheard, InHand, Served
<1>4. server = "password" => client = "login" /\ Rest = <<"password">> /\ toClient = <<>>
  BY DEF Present, AtGreeting, AtPrompt, AtLogin, AtWork, AtMenu, Asking, Unheard, InHand, Served
<1>5. server = "verdict" => client = "login" /\ Rest = <<>> /\ toClient = <<>>
  BY DEF Present, AtGreeting, AtPrompt, AtLogin, AtWork, AtMenu, Asking, Unheard, InHand, Served
<1>6. server = "rejected" =>
        \/ client = "prompt" /\ Rest = <<"retry">> /\ toClient = <<>>
        \/ client = "login" /\ Rest = <<>> /\ toClient = <<"Rejected">>
  BY DEF Present, AtGreeting, AtPrompt, AtLogin, AtWork, AtMenu, Asking, Unheard, InHand, Served
<1>7. server = "identity" =>
        \/ client = "login" /\ Rest = <<>> /\ toClient = <<"Accepted">>
        \/ client = "working" /\ Rest = <<>> /\ toClient = <<>>
  BY DEF Present, AtGreeting, AtPrompt, AtLogin, AtWork, AtMenu, Asking, Unheard, InHand, Served
<1>8. QED
  BY <1>1, <1>2, <1>3, <1>4, <1>5, <1>6, <1>7

LEMMA WhereOption ==
  ASSUME Present, server = "option"
  PROVE  \/ client = "login" /\ Rest = <<>> /\ \E group \in Identities \cup {""} : toClient = <<"Accepted", group>>
         \/ client = "working" /\ Rest = <<>> /\ \E group \in Identities \cup {""} : toClient = <<group>>
         \/ AtMenu
         \/ client = "asking" /\ Unheard
         \/ client = "asking" /\ Served
BY DEF Present, AtGreeting, AtPrompt, AtLogin, AtWork, Asking, InHand

LEMMA WhereRequest ==
  ASSUME Present, server = "request"
  PROVE  client = "asking" /\ InHand
BY DEF Present, AtGreeting, AtPrompt, AtLogin, AtWork, AtMenu, Asking, Unheard, Served

LEMMA NeverEnded ==
  ASSUME Present
  PROVE  server \notin {"ended", "killed"}
BY DEF Present, AtGreeting, AtPrompt, AtLogin, AtWork, AtMenu, Asking, Unheard, InHand, Served

(* What the thread receives from a client that is there.                   *)
LEMMA ReceiveOpen ==
  ASSUME Typed, link = "open", Receive
  PROVE  /\ Rest # <<>> /\ Received = ReadAs(Head(Rest)) /\ Rest' = Tail(Rest)
         /\ Rest \in Seq(Words)
         /\ client' = client /\ identity' = identity /\ asked' = asked /\ toSend' = toSend
         /\ toClient' = toClient /\ link' = link
<1>1. toServer # <<>> /\ toServer' = Tail(toServer) /\ link' = link
  BY DEF Receive, CanReceive
<1>2. Received = ReadAs(Head(toServer))
  BY <1>1 DEF Received
<1>3. /\ client' = client /\ identity' = identity /\ asked' = asked /\ toSend' = toSend
      /\ toClient' = toClient
  BY DEF Receive, clientVars
<1>4. toServer \in Seq(Words) /\ toSend \in Seq(Words)
  BY DEF Typed
<1>5. /\ Rest # <<>> /\ Head(Rest) = Head(toServer) /\ Tail(Rest) = Tail(toServer) \o toSend
      /\ Rest \in Seq(Words)
  BY <1>1, <1>4, TailOfConcat DEF Rest
<1>6. Rest' = Tail(toServer) \o toSend
  BY <1>1, <1>3 DEF Rest
<1>7. QED
  BY <1>1, <1>2, <1>3, <1>5, <1>6

LEMMA ReceiveLost ==
  ASSUME Typed, link \in {"finished", "reset", "broken"}, Receive
  PROVE  /\ client' = client /\ identity' = identity /\ asked' = asked /\ toSend' = toSend
         /\ toClient' = toClient
         /\ \/ /\ toServer # <<>> /\ Received = ReadAs(Head(toServer))
               /\ toServer' = Tail(toServer) /\ link' = link
            \/ /\ toServer = <<>> /\ Received = "" /\ toServer' = toServer
               /\ link = "reset" /\ link' = "broken"
BY DEF Receive, CanReceive, Received, clientVars

-----------------------------------------------------------------------------
(***************************************************************************)
(* Types.                                                                  *)
(***************************************************************************)
LEMMA SendTyped ==
  ASSUME Typed, NEW word \in Words, NEW next, Send(word, next)
  PROVE  /\ toClient' \in Seq(Words) /\ toServer' = toServer
         /\ link' \in {"open", "finished", "reset", "broken"}
         /\ server' \in {next, "killed"}
         /\ client' = client /\ identity' = identity /\ asked' = asked /\ toSend' = toSend
<1>1. CASE link = "open"
  <2>1. /\ server' = next /\ toClient' = Append(toClient, word)
        /\ link' = link /\ toServer' = toServer
        /\ client' = client /\ identity' = identity /\ asked' = asked /\ toSend' = toSend
    BY <1>1, SendOpen
  <2>2. toClient \in Seq(Words)
    BY DEF Typed
  <2>3. toClient' \in Seq(Words)
    BY <2>1, <2>2, AppendProperties
  <2>4. QED
    BY <1>1, <2>1, <2>3
<1>2. CASE link \in {"finished", "reset", "broken"}
  <2>1. toClient \in Seq(Words)
    BY DEF Typed
  <2>2. QED
    BY <1>2, <2>1, SendLost
<1>3. QED
  BY <1>1, <1>2 DEF Typed

LEMMA ReceiveTyped ==
  ASSUME Typed, Receive
  PROVE  /\ Received \in Words /\ toServer' \in Seq(Words) /\ toClient' = toClient
         /\ link' \in {"open", "finished", "reset", "broken"}
         /\ client' = client /\ identity' = identity /\ asked' = asked /\ toSend' = toSend
<1>1. toServer \in Seq(Words)
  BY DEF Typed
<1>2. toServer # <<>> => Head(toServer) \in Words /\ Tail(toServer) \in Seq(Words)
  BY <1>1, HeadTailProperties
<1>3. Received \in Words
  BY <1>2, WordsFacts DEF Received, ReadAs
<1>4. toServer' \in Seq(Words)
  BY <1>1, <1>2 DEF Receive
<1>5. link' \in {"open", "finished", "reset", "broken"}
  BY DEF Receive, Typed
<1>6. QED
  BY <1>3, <1>4, <1>5 DEF Receive, clientVars

LEMMA HearTyped ==
  ASSUME Typed, toClient # <<>>, toClient' = Tail(toClient)
  PROVE  toClient' \in Seq(Words)
<1>1. toClient \in Seq(Words)
  BY DEF Typed
<1>2. QED
  BY <1>1, HeadTailProperties

LEMMA RequestInHand ==
  ASSUME IInv, server = "request"
  PROVE  /\ taken[1] \in Requests /\ taken[1] = asked[1] /\ taken \in Seq(Words)
         /\ Complete <=> Done(taken)
<1>1. Typed
  BY DEF IInv
<1>2. CASE Present
  <2>1. Taking(asked, taken, Rest)
    BY <1>2, WhereRequest DEF InHand
  <2>2. taken[1] \in Requests /\ taken[1] = asked[1]
    BY <2>1, TakingFacts
  <2>3. taken \in Seq(Words)
    BY <1>1 DEF Typed
  <2>4. Len(taken) \in Nat
    BY <2>3, LenProperties
  <2>5. QED
    BY <2>2, <2>3, <2>4, CompleteIsDone
<1>3. CASE Gone
  <2>1. Taking(asked, taken, toServer)
    BY <1>3 DEF Gone
  <2>2. taken[1] \in Requests /\ taken[1] = asked[1]
    BY <2>1, TakingFacts
  <2>3. taken \in Seq(Words)
    BY <1>1 DEF Typed
  <2>4. Len(taken) \in Nat
    BY <2>3, LenProperties
  <2>5. QED
    BY <2>2, <2>3, <2>4, CompleteIsDone
<1>4. QED
  BY <1>2, <1>3 DEF IInv

(* The places of both programs.                                            *)
ClientPlaces == {"greeting", "prompt", "login", "working", "menu", "asking", "gone"}
ServerPlaces == {"welcome", "prompt", "username", "password", "verdict", "rejected",
                 "identity", "option", "request", "ended", "killed"}

LEMMA TypedServer ==
  ASSUME IInv, ServerStep
  PROVE  Typed'
<1>1. Typed
  BY DEF IInv
<1>2. /\ client \in ClientPlaces /\ server \in ServerPlaces
      /\ identity \in Identities \cup {""}
      /\ asked \in Seq(Words) /\ toSend \in Seq(Words) /\ taken \in Seq(Words)
      /\ toServer \in Seq(Words) /\ toClient \in Seq(Words)
  BY <1>1 DEF Typed, ClientPlaces, ServerPlaces
<1>3. /\ "" \in Words /\ "welcome" \in Words /\ "username" \in Words
      /\ "Accepted" \in Words /\ "Rejected" \in Words /\ "prompt" \in Words
      /\ Identities \subseteq Words /\ Requests \subseteq Words
  BY WordsFacts
<1>4. <<>> \in Seq(Words)
  BY EmptySeq
<1>5. SUFFICES /\ client' = client /\ identity' = identity /\ asked' = asked /\ toSend' = toSend
               /\ server' \in ServerPlaces /\ taken' \in Seq(Words)
               /\ toServer' \in Seq(Words) /\ toClient' \in Seq(Words)
               /\ link' \in {"open", "finished", "reset", "broken"}
  BY <1>2 DEF Typed, ClientPlaces, ServerPlaces
<1>6. CASE Welcome
  <2>1. Send("welcome", "prompt") /\ taken' = taken
    BY <1>6 DEF Welcome
  <2>2. QED
    BY <1>1, <1>2, <1>3, <2>1, SendTyped DEF ServerPlaces
<1>7. CASE Prompt
  <2>1. Send("prompt", "username") /\ taken' = taken
    BY <1>7 DEF Prompt
  <2>2. QED
    BY <1>1, <1>2, <1>3, <2>1, SendTyped DEF ServerPlaces
<1>8. CASE TakeUsername
  <2>1. Receive /\ server' = "password" /\ taken' = taken
    BY <1>8 DEF TakeUsername
  <2>2. QED
    BY <1>1, <1>2, <2>1, ReceiveTyped DEF ServerPlaces
<1>9. CASE TakePassword
  <2>1. Receive /\ server' = "verdict" /\ taken' = taken
    BY <1>9 DEF TakePassword
  <2>2. QED
    BY <1>1, <1>2, <2>1, ReceiveTyped DEF ServerPlaces
<1>10. CASE Verdict
  <2>1. (Send("Accepted", "identity") \/ Send("Rejected", "rejected")) /\ taken' = taken
    BY <1>10 DEF Verdict
  <2>2. QED
    BY <1>1, <1>2, <1>3, <2>1, SendTyped DEF ServerPlaces
<1>11. CASE AfterRejection
  <2>1. Receive /\ server' \in {"ended", "prompt"} /\ taken' = taken
    BY <1>11 DEF AfterRejection
  <2>2. QED
    BY <1>1, <1>2, <2>1, ReceiveTyped DEF ServerPlaces
<1>12. CASE SendIdentity
  <2>1. PICK group \in Identities \cup {""} : Send(group, "option") /\ taken' = taken
    BY <1>12 DEF SendIdentity
  <2>2. group \in Words
    BY <1>3
  <2>3. QED
    BY <1>1, <1>2, <2>1, <2>2, SendTyped DEF ServerPlaces
<1>13. CASE TakeOption
  <2>1. Receive
    BY <1>13 DEF TakeOption
  <2>2. server' \in {"request", "ended", "option"}
    BY <1>13 DEF TakeOption
  <2>3. taken' = <<Received>> \/ taken' = <<>>
    BY <1>13 DEF TakeOption
  <2>4. Received \in Words
    BY <1>1, <2>1, ReceiveTyped
  <2>5. taken' \in Seq(Words)
    <3>1. PICK r : r = Received
      OBVIOUS
    <3>2. <<r>> \in Seq(Words)
      BY <2>4, <3>1
    <3>3. QED
      BY <1>4, <2>3, <3>1, <3>2
  <2>6. QED
    BY <1>1, <1>2, <2>1, <2>2, <2>5, ReceiveTyped DEF ServerPlaces
<1>14. CASE TakeWord
  <2>1. Receive /\ server' = server /\ taken' = Append(taken, Received)
    BY <1>14 DEF TakeWord
  <2>2. taken' \in Seq(Words)
    BY <1>1, <1>2, <2>1, ReceiveTyped, AppendProperties
  <2>3. QED
    BY <1>1, <1>2, <2>1, <2>2, ReceiveTyped DEF ServerPlaces
<1>15. CASE Reply
  <2>1. server = "request" /\ Send(taken[1], "option") /\ taken' = <<>>
    BY <1>15 DEF Reply
  <2>2. taken[1] \in Words
    BY <1>3, <2>1, RequestInHand
  <2>3. QED
    BY <1>1, <1>2, <1>4, <2>1, <2>2, SendTyped DEF ServerPlaces
<1>16. QED
  BY <1>6, <1>7, <1>8, <1>9, <1>10, <1>11, <1>12, <1>13, <1>14, <1>15 DEF ServerStep, Handle, Converse

LEMMA TypedClient ==
  ASSUME IInv, ClientHears \/ (\E request \in Requests : Ask(request)) \/ Say \/ Exit \/ Quit
  PROVE  Typed'
<1>1. Typed
  BY DEF IInv
<1>2. /\ client \in ClientPlaces /\ server \in ServerPlaces
      /\ identity \in Identities \cup {""}
      /\ asked \in Seq(Words) /\ toSend \in Seq(Words) /\ taken \in Seq(Words)
      /\ toServer \in Seq(Words) /\ toClient \in Seq(Words)
      /\ link \in {"open", "finished", "reset", "broken"}
  BY <1>1 DEF Typed, ClientPlaces, ServerPlaces
<1>3. /\ "retry" \in Words /\ "username" \in Words /\ "password" \in Words /\ "exit" \in Words
  BY WordsFacts
<1>4. <<"retry">> \in Seq(Words) /\ <<"username", "password">> \in Seq(Words)
      /\ <<"exit">> \in Seq(Words)
  BY <1>3
<1>5. SUFFICES /\ client' \in ClientPlaces /\ server' = server /\ taken' = taken
               /\ identity' \in Identities \cup {""}
               /\ asked' \in Seq(Words) /\ toSend' \in Seq(Words)
               /\ toServer' \in Seq(Words) /\ toClient' \in Seq(Words)
               /\ link' \in {"open", "finished", "reset", "broken"}
  BY <1>2 DEF Typed, ClientPlaces, ServerPlaces
<1>6. ASSUME NEW word, NEW next, Hear(word, next)
      PROVE  /\ toClient' \in Seq(Words) /\ client' = next
             /\ server' = server /\ taken' = taken /\ toServer' = toServer /\ link' = link
  BY <1>1, <1>6, HearTyped DEF Hear, serverVars
<1>7. CASE HearWelcome
  BY <1>2, <1>6, <1>7 DEF HearWelcome, ClientPlaces
<1>8. CASE HearPrompt
  BY <1>2, <1>4, <1>6, <1>8 DEF HearPrompt, ClientPlaces
<1>9. CASE HearAccepted
  BY <1>2, <1>6, <1>9 DEF HearAccepted, ClientPlaces
<1>10. CASE HearRejected
  BY <1>2, <1>4, <1>6, <1>10 DEF HearRejected, ClientPlaces
<1>11. CASE HearIdentity
  <2>1. PICK group \in Identities : Hear(group, "menu") /\ identity' = group
    BY <1>11 DEF HearIdentity
  <2>2. asked' = asked /\ toSend' = toSend
    BY <1>11 DEF HearIdentity
  <2>3. QED
    BY <1>2, <1>6, <2>1, <2>2 DEF ClientPlaces
<1>12. CASE HearNoIdentity
  <2>1. /\ toClient' \in Seq(Words) /\ client' = "gone" /\ link' = "finished"
        /\ identity' = identity /\ asked' = asked /\ toSend' = toSend
        /\ server' = server /\ taken' = taken /\ toServer' = toServer
    BY <1>1, <1>12, HearTyped DEF HearNoIdentity, Leave, serverVars
  <2>2. QED
    BY <1>2, <2>1 DEF ClientPlaces
<1>13. CASE HearReply
  <2>1. /\ toClient' \in Seq(Words) /\ client' = "menu" /\ link' = link
        /\ identity' = identity /\ asked' = asked /\ toSend' = toSend
        /\ server' = server /\ taken' = taken /\ toServer' = toServer
    BY <1>1, <1>13, HearTyped DEF HearReply, serverVars
  <2>2. QED
    BY <1>2, <2>1 DEF ClientPlaces
<1>14. CASE \E request \in Requests : Ask(request)
  <2>1. PICK request \in Requests : Ask(request)
    BY <1>14
  <2>2. /\ asked' \in Messages(request) /\ toSend' = asked' /\ client' = "asking"
        /\ identity' = identity /\ link' = link
        /\ server' = server /\ taken' = taken /\ toServer' = toServer /\ toClient' = toClient
    BY <2>1 DEF Ask, serverVars
  <2>3. IsMessage(asked')
    BY <2>2, MessageFacts
  <2>4. asked' \in Seq(Words)
    BY <2>3 DEF IsMessage, IsRequest
  <2>5. QED
    BY <1>2, <2>2, <2>4 DEF ClientPlaces
<1>15. CASE Say
  <2>1. /\ toSend # <<>> /\ toServer' = Append(toServer, Head(toSend)) /\ toSend' = Tail(toSend)
        /\ client' = client /\ identity' = identity /\ asked' = asked /\ link' = link
        /\ server' = server /\ taken' = taken /\ toClient' = toClient
    BY <1>15 DEF Say, serverVars
  <2>2. toServer' \in Seq(Words) /\ toSend' \in Seq(Words)
    BY <1>2, <2>1, SayConcat
  <2>3. QED
    BY <1>2, <2>1, <2>2
<1>16. CASE Exit
  <2>1. /\ toServer' = Append(toServer, "exit") /\ client' = "gone" /\ link' = "finished"
        /\ identity' = identity /\ asked' = <<"exit">> /\ toSend' = toSend
        /\ server' = server /\ taken' = taken /\ toClient' = toClient
    BY <1>16 DEF Exit, Leave, serverVars
  <2>2. toServer' \in Seq(Words)
    BY <1>2, <1>3, <2>1, AppendProperties
  <2>3. QED
    BY <1>2, <1>4, <2>1, <2>2 DEF ClientPlaces
<1>17. CASE Quit
  <2>1. /\ toServer' = toServer /\ client' = "gone" /\ link' \in {"reset", "finished", "broken"}
        /\ identity' = identity /\ asked' = asked /\ toSend' = toSend
        /\ server' = server /\ taken' = taken /\ toClient' = toClient
    BY <1>17 DEF Quit, serverVars
  <2>2. QED
    BY <1>2, <2>1 DEF ClientPlaces
<1>18. QED
  BY <1>7, <1>8, <1>9, <1>10, <1>11, <1>12, <1>13, <1>14, <1>15, <1>16, <1>17 DEF ClientHears

-----------------------------------------------------------------------------
(***************************************************************************)
(* The steps of the thread while the client is there.                      *)
(***************************************************************************)
LEMMA PresentWelcome ==
  ASSUME Typed, Present, Welcome PROVE Present'
<1>1. server = "welcome" /\ Send("welcome", "prompt") /\ link = "open"
  BY DEF Welcome, Present
<1>2. client = "greeting" /\ Rest = <<>> /\ toClient = <<>>
  BY <1>1, WhereClient
<1>3. /\ server' = "prompt" /\ toClient' = Append(toClient, "welcome")
      /\ link' = link /\ Rest' = Rest /\ client' = client
  BY <1>1, SendOpen
<1>4. toClient' = <<"welcome">>
  BY <1>2, <1>3, ShortSequences
<1>5. AtGreeting'
  BY <1>2, <1>3, <1>4 DEF AtGreeting
<1>6. QED
  BY <1>1, <1>3, <1>5 DEF Present

LEMMA PresentPrompt ==
  ASSUME Typed, Present, Prompt PROVE Present'
<1>1. server = "prompt" /\ Send("prompt", "username") /\ link = "open"
  BY DEF Prompt, Present
<1>2. /\ server' = "username" /\ toClient' = Append(toClient, "prompt")
      /\ link' = link /\ Rest' = Rest /\ client' = client
  BY <1>1, SendOpen
<1>3. CASE client = "greeting" /\ Rest = <<>> /\ toClient = <<"welcome">>
  <2>1. toClient' = <<"welcome", "prompt">>
    BY <1>2, <1>3, ShortSequences
  <2>2. AtGreeting'
    BY <1>2, <1>3, <2>1 DEF AtGreeting
  <2>3. QED
    BY <1>1, <1>2, <2>2 DEF Present
<1>4. CASE client = "prompt" /\ Rest = <<>> /\ toClient = <<>>
  <2>1. toClient' = <<"prompt">>
    BY <1>2, <1>4, ShortSequences
  <2>2. AtPrompt'
    BY <1>2, <1>4, <2>1 DEF AtPrompt
  <2>3. QED
    BY <1>1, <1>2, <2>2 DEF Present
<1>5. QED
  BY <1>1, <1>3, <1>4, WhereClient

LEMMA PresentTakeUsername ==
  ASSUME Typed, Present, TakeUsername PROVE Present'
<1>1. server = "username" /\ Receive /\ server' = "password" /\ link = "open"
  BY DEF TakeUsername, Present
<1>2. /\ Rest # <<>> /\ Rest' = Tail(Rest)
      /\ client' = client /\ toClient' = toClient /\ link' = link
  BY <1>1, ReceiveOpen
<1>3. client = "login" /\ Rest = <<"username", "password">> /\ toClient = <<>>
  BY <1>1, <1>2, WhereClient
<1>4. Rest' = <<"password">>
  BY <1>2, <1>3, ShortSequences
<1>5. AtLogin'
  BY <1>1, <1>2, <1>3, <1>4 DEF AtLogin
<1>6. QED
  BY <1>1, <1>2, <1>5 DEF Present

LEMMA PresentTakePassword ==
  ASSUME Typed, Present, TakePassword PROVE Present'
<1>1. server = "password" /\ Receive /\ server' = "verdict" /\ link = "open"
  BY DEF TakePassword, Present
<1>2. /\ Rest # <<>> /\ Rest' = Tail(Rest)
      /\ client' = client /\ toClient' = toClient /\ link' = link
  BY <1>1, ReceiveOpen
<1>3. client = "login" /\ Rest = <<"password">> /\ toClient = <<>>
  BY <1>1, WhereClient
<1>4. Rest' = <<>>
  BY <1>2, <1>3, ShortSequences
<1>5. AtLogin'
  BY <1>1, <1>2, <1>3, <1>4 DEF AtLogin
<1>6. QED
  BY <1>1, <1>2, <1>5 DEF Present

LEMMA PresentVerdict ==
  ASSUME Typed, Present, Verdict PROVE Present'
<1>1. server = "verdict" /\ link = "open"
  BY DEF Verdict, Present
<1>2. client = "login" /\ Rest = <<>> /\ toClient = <<>>
  BY <1>1, WhereClient
<1>3. CASE Send("Accepted", "identity")
  <2>1. /\ server' = "identity" /\ toClient' = Append(toClient, "Accepted")
        /\ link' = link /\ Rest' = Rest /\ client' = client
    BY <1>1, <1>3, SendOpen
  <2>2. toClient' = <<"Accepted">>
    BY <1>2, <2>1, ShortSequences
  <2>3. AtLogin'
    BY <1>2, <2>1, <2>2 DEF AtLogin
  <2>4. QED
    BY <1>1, <2>1, <2>3 DEF Present
<1>4. CASE Send("Rejected", "rejected")
  <2>1. /\ server' = "rejected" /\ toClient' = Append(toClient, "Rejected")
        /\ link' = link /\ Rest' = Rest /\ client' = client
    BY <1>1, <1>4, SendOpen
  <2>2. toClient' = <<"Rejected">>
    BY <1>2, <2>1, ShortSequences
  <2>3. AtLogin'
    BY <1>2, <2>1, <2>2 DEF AtLogin
  <2>4. QED
    BY <1>1, <2>1, <2>3 DEF Present
<1>5. QED
  BY <1>3, <1>4 DEF Verdict

LEMMA PresentAfterRejection ==
  ASSUME Typed, Present, AfterRejection PROVE Present'
<1>1. server = "rejected" /\ Receive /\ link = "open"
  BY DEF AfterRejection, Present
<1>2. /\ Rest # <<>> /\ Rest' = Tail(Rest) /\ Received = ReadAs(Head(Rest))
      /\ client' = client /\ toClient' = toClient /\ link' = link
  BY <1>1, ReceiveOpen
<1>3. client = "prompt" /\ Rest = <<"retry">> /\ toClient = <<>>
  BY <1>1, <1>2, WhereClient
<1>4. Rest' = <<>> /\ Head(Rest) = "retry"
  BY <1>2, <1>3, ShortSequences
<1>5. Received = "retry"
  BY <1>2, <1>4 DEF ReadAs
<1>6. server' = "prompt"
  BY <1>5 DEF AfterRejection
<1>7. AtPrompt'
  BY <1>2, <1>3, <1>4, <1>6 DEF AtPrompt
<1>8. QED
  BY <1>1, <1>2, <1>7 DEF Present

LEMMA PresentSendIdentity ==
  ASSUME Typed, Present, SendIdentity PROVE Present'
<1>1. server = "identity" /\ link = "open"
  BY DEF SendIdentity, Present
<1>2. PICK group \in Identities \cup {""} : Send(group, "option")
  BY DEF SendIdentity
<1>3. /\ server' = "option" /\ toClient' = Append(toClient, group)
      /\ link' = link /\ Rest' = Rest /\ client' = client
  BY <1>1, <1>2, SendOpen
<1>4. CASE client = "login" /\ Rest = <<>> /\ toClient = <<"Accepted">>
  <2>1. toClient' = <<"Accepted", group>>
    BY <1>3, <1>4, ShortSequences
  <2>2. AtLogin'
    BY <1>2, <1>3, <1>4, <2>1 DEF AtLogin
  <2>3. QED
    BY <1>1, <1>3, <2>2 DEF Present
<1>5. CASE client = "working" /\ Rest = <<>> /\ toClient = <<>>
  <2>1. toClient' = <<group>>
    BY <1>3, <1>5, ShortSequences
  <2>2. AtWork'
    BY <1>2, <1>3, <1>5, <2>1 DEF AtWork
  <2>3. QED
    BY <1>1, <1>3, <2>2 DEF Present
<1>6. QED
  BY <1>1, <1>4, <1>5, WhereClient

(* What is left over is skipped: it is neither a request nor "exit".       *)
JunkIsNoRequest ==
  \A word \in Junk : ReadAs(word) \notin Requests /\ ReadAs(word) # "exit"

LEMMA JunkSkipped == JunkIsNoRequest
BY RequestsFacts DEF JunkIsNoRequest, Junk, ReadAs, Reserved

LEMMA PresentTakeOption ==
  ASSUME Typed, Present, TakeOption PROVE Present'
<1>1. server = "option" /\ Receive /\ link = "open"
  BY DEF TakeOption, Present
<1>2. /\ Rest # <<>> /\ Rest' = Tail(Rest) /\ Received = ReadAs(Head(Rest))
      /\ Rest \in Seq(Words) /\ asked' = asked /\ toSend' = toSend
      /\ client' = client /\ toClient' = toClient /\ link' = link
  BY <1>1, ReceiveOpen
<1>3. ASSUME Head(Rest) \in Junk PROVE server' = "option"
  <2>1. Received \notin Requests /\ Received # "exit"
    BY <1>2, <1>3, JunkSkipped DEF JunkIsNoRequest
  <2>2. QED
    BY <2>1, SameTables DEF TakeOption
<1>4. CASE AtMenu
  <2>1. AllJunk(Tail(Rest)) /\ Head(Rest) \in Junk
    BY <1>2, <1>4, JunkTail DEF AtMenu
  <2>2. AtMenu'
    BY <1>2, <1>3, <1>4, <2>1 DEF AtMenu
  <2>3. QED
    BY <1>1, <1>2, <2>2 DEF Present
<1>5. CASE client = "asking" /\ Served
  <2>1. AllJunk(Tail(Rest)) /\ Head(Rest) \in Junk
    BY <1>2, <1>5, JunkTail DEF Served
  <2>2. AllJunk(Rest')
    BY <1>2, <2>1
  <2>3. Served'
    BY <1>2, <1>3, <1>5, <2>1, <2>2 DEF Served
  <2>4. QED
    BY <1>1, <1>2, <1>5, <2>3 DEF Present, Asking
<1>6. CASE client = "asking" /\ Unheard
  <2>1. toClient = <<>> /\ IsMessage(asked)
    BY <1>6 DEF Unheard
  <2>2. PICK j \in Nat : Ahead(asked, Rest, j, 0) /\ Len(Rest) = j + Len(asked)
    BY <1>6 DEF Unheard
  <2>3. Len(asked) \in Nat
    BY <2>1, RequestFacts DEF IsMessage
  <2>4. /\ j = 0 => Ahead(asked, Rest, 0, 0)
        /\ j > 0 => Head(Rest) \in Junk /\ Ahead(asked, Tail(Rest), j - 1, 0)
    BY <1>2, <2>2, <2>3, AheadTail
  <2>5. Len(Tail(Rest)) = Len(Rest) - 1
    BY <1>2, TailFacts
  <2>6. CASE j > 0
    <3>1. j - 1 \in Nat /\ Len(Tail(Rest)) = (j - 1) + Len(asked)
      BY <2>2, <2>3, <2>5, <2>6
    <3>2. Ahead(asked', Rest', j - 1, 0) /\ Len(Rest') = (j - 1) + Len(asked')
      BY <1>2, <2>4, <2>6, <3>1
    <3>3. server' = "option" /\ toClient' = <<>> /\ IsMessage(asked')
      BY <1>2, <1>3, <2>1, <2>4, <2>6
    <3>4. Unheard'
      BY <3>1, <3>2, <3>3 DEF Unheard
    <3>5. QED
      BY <1>1, <1>2, <1>6, <3>4 DEF Present, Asking
  <2>7. CASE j = 0
    <3>1. /\ ReadAs(Head(Rest)) = Head(Rest) /\ Head(Rest) \in Requests
          /\ Taking(asked, <<Head(Rest)>>, Tail(Rest))
      BY <1>2, <2>1, <2>4, <2>7, Starts
    <3>2. server' = "request" /\ taken' = <<Received>> /\ Received = Head(Rest)
      <4>1. Received = Head(Rest) /\ Received \in Requests
        BY <1>2, <3>1
      <4>2. Received # "exit"
        BY <4>1, RequestsFacts DEF Reserved
      <4>3. server' = "request"
        BY <4>1, <4>2, SameTables DEF TakeOption
      <4>4. taken' = <<Received>>
        BY <4>1, SameTables DEF TakeOption
      <4>5. QED
        BY <4>1, <4>3, <4>4
    <3>3. Taking(asked', taken', Rest')
      BY <1>2, <3>1, <3>2
    <3>4. Len(taken') = 1
      BY <3>2, ShortSequences
    <3>5. Len(Rest') = Len(asked') - Len(taken')
      BY <1>2, <2>2, <2>3, <2>5, <2>7, <3>4
    <3>6. InHand'
      BY <1>2, <2>1, <3>2, <3>3, <3>5 DEF InHand
    <3>7. QED
      BY <1>1, <1>2, <1>6, <3>6 DEF Present, Asking
  <2>8. QED
    BY <2>6, <2>7
<1>7. QED
  BY <1>1, <1>2, <1>4, <1>5, <1>6, WhereOption

LEMMA PresentTakeWord ==
  ASSUME IInv, Typed, Present, TakeWord PROVE Present'
<1>1. /\ server = "request" /\ Receive /\ link = "open" /\ ~ Complete
      /\ server' = server /\ taken' = Append(taken, Received)
  BY DEF TakeWord, Present
<1>2. /\ Rest # <<>> /\ Rest' = Tail(Rest) /\ Received = ReadAs(Head(Rest))
      /\ Rest \in Seq(Words) /\ asked' = asked /\ toSend' = toSend
      /\ client' = client /\ toClient' = toClient /\ link' = link
  BY <1>1, ReceiveOpen
<1>3. client = "asking" /\ InHand
  BY <1>1, WhereRequest
<1>4. ~ Done(taken) /\ taken \in Seq(Words)
  BY <1>1, RequestInHand
<1>5. Taking(asked, Append(taken, ReadAs(Head(Rest))), Tail(Rest))
  BY <1>2, <1>3, <1>4, Continues DEF InHand
<1>6. Taking(asked', taken', Rest')
  BY <1>1, <1>2, <1>5
<1>7. Len(Rest') = Len(asked') - Len(taken')
  <2>1. Len(Tail(Rest)) = Len(Rest) - 1
    BY <1>2, TailFacts
  <2>2. Received \in Words
    BY <1>1, ReceiveTyped
  <2>3. Len(taken') = Len(taken) + 1
    BY <1>1, <1>4, <2>2, AppendProperties
  <2>4. Len(Rest) = Len(asked) - Len(taken)
    BY <1>3 DEF InHand
  <2>5. Len(asked) \in Nat /\ Len(taken) \in Nat
    <3>1. asked \in Seq(Words) /\ taken \in Seq(Words)
      BY DEF Typed
    <3>2. QED
      BY <3>1, LenProperties
  <2>6. QED
    BY <1>2, <2>1, <2>3, <2>4, <2>5
<1>8. InHand'
  BY <1>1, <1>2, <1>3, <1>6, <1>7 DEF InHand
<1>9. QED
  BY <1>1, <1>2, <1>3, <1>8 DEF Present, Asking

LEMMA PresentReply ==
  ASSUME IInv, Typed, Present, Reply PROVE Present'
<1>1. /\ server = "request" /\ Complete /\ link = "open"
      /\ Send(taken[1], "option")
  BY DEF Reply, Present
<1>2. client = "asking" /\ InHand
  BY <1>1, WhereRequest
<1>3. /\ server' = "option" /\ toClient' = Append(toClient, taken[1])
      /\ link' = link /\ Rest' = Rest /\ client' = client /\ asked' = asked
  BY <1>1, SendOpen
<1>4. Done(taken) /\ taken[1] \in Requests /\ taken[1] = asked[1]
  BY <1>1, RequestInHand
<1>5. Rest \in Seq(Words)
  BY ConcatProperties DEF Rest, Typed
<1>6. AllJunk(Rest)
  BY <1>2, <1>4, <1>5, DoneLeavesJunk DEF InHand
<1>7. toClient' = <<asked'[1]>>
  <2>1. toClient = <<>>
    BY <1>2 DEF InHand
  <2>2. PICK r : r = asked[1]
    OBVIOUS
  <2>3. toClient' = Append(<<>>, r)
    BY <1>3, <1>4, <2>1, <2>2
  <2>4. QED
    BY <1>3, <2>2, <2>3, ShortSequences
<1>8. AllJunk(Rest')
  BY <1>3, <1>6
<1>9. Served'
  BY <1>3, <1>4, <1>7, <1>8 DEF Served
<1>10. QED
  BY <1>1, <1>2, <1>3, <1>9 DEF Present, Asking

LEMMA PresentServer ==
  ASSUME IInv, Present, ServerStep PROVE Present'
<1>1. Typed
  BY DEF IInv
<1>2. QED
  BY <1>1, PresentWelcome, PresentPrompt, PresentTakeUsername, PresentTakePassword,
     PresentVerdict, PresentAfterRejection, PresentSendIdentity, PresentTakeOption,
     PresentTakeWord, PresentReply DEF ServerStep, Handle, Converse

-----------------------------------------------------------------------------
(***************************************************************************)
(* The steps of the client.                                                *)
(***************************************************************************)
LEMMA RestEmpty ==
  ASSUME Typed, Rest = <<>> PROVE toServer = <<>> /\ toSend = <<>>
<1>1. toServer \in Seq(Words) /\ toSend \in Seq(Words)
  BY DEF Typed
<1>2. QED
  BY <1>1, ConcatEqualIffEmpty DEF Rest

LEMMA HearFacts ==
  ASSUME NEW word, NEW next, Hear(word, next)
  PROVE  /\ toClient # <<>> /\ Head(toClient) = word /\ toClient' = Tail(toClient)
         /\ client' = next /\ server' = server /\ toServer' = toServer /\ link' = link
         /\ taken' = taken
BY DEF Hear, serverVars

LEMMA PresentHearWelcome ==
  ASSUME Typed, Present, HearWelcome PROVE Present'
<1>1. client = "greeting" /\ Hear("welcome", "prompt") /\ toSend' = toSend /\ link = "open"
  BY DEF HearWelcome, Present
<1>2. /\ toClient # <<>> /\ toClient' = Tail(toClient) /\ client' = "prompt"
      /\ server' = server /\ link' = link /\ Rest' = Rest
  BY <1>1, HearFacts DEF Rest
<1>3. AtGreeting
  BY <1>1 DEF Present, AtGreeting, AtPrompt, AtLogin, AtWork, AtMenu, Asking
<1>4. CASE server = "prompt" /\ toClient = <<"welcome">>
  <2>1. toClient' = <<>>
    BY <1>2, <1>4, ShortSequences
  <2>2. AtPrompt'
    BY <1>2, <1>3, <1>4, <2>1 DEF AtGreeting, AtPrompt
  <2>3. QED
    BY <1>1, <1>2, <2>2 DEF Present
<1>5. CASE server = "username" /\ toClient = <<"welcome", "prompt">>
  <2>1. toClient' = <<"prompt">>
    BY <1>2, <1>5, ShortSequences
  <2>2. AtPrompt'
    BY <1>2, <1>3, <1>5, <2>1 DEF AtGreeting, AtPrompt
  <2>3. QED
    BY <1>1, <1>2, <2>2 DEF Present
<1>6. QED
  BY <1>2, <1>3, <1>4, <1>5 DEF AtGreeting

LEMMA PresentHearPrompt ==
  ASSUME Typed, Present, HearPrompt PROVE Present'
<1>1. /\ client = "prompt" /\ Hear("prompt", "login") /\ link = "open"
      /\ toSend' = <<"username", "password">>
  BY DEF HearPrompt, Present
<1>2. /\ toClient # <<>> /\ toClient' = Tail(toClient) /\ client' = "login"
      /\ server' = server /\ link' = link /\ toServer' = toServer
  BY <1>1, HearFacts
<1>3. AtPrompt
  BY <1>1 DEF Present, AtGreeting, AtPrompt, AtLogin, AtWork, AtMenu, Asking
<1>4. server = "username" /\ Rest = <<>> /\ toClient = <<"prompt">>
  BY <1>2, <1>3 DEF AtPrompt
<1>5. toServer = <<>>
  BY <1>4, RestEmpty
<1>6. Rest' = <<"username", "password">>
  <2>1. PICK t : t = <<"username", "password">>
    OBVIOUS
  <2>2. "username" \in Words /\ "password" \in Words
    BY WordsFacts
  <2>3. t \in Seq(Words)
    BY <2>1, <2>2
  <2>4. <<>> \o t = t
    BY <2>3, ConcatEmptySeq
  <2>5. QED
    BY <1>1, <1>2, <1>5, <2>1, <2>4 DEF Rest
<1>7. toClient' = <<>>
  BY <1>2, <1>4, ShortSequences
<1>8. AtLogin'
  BY <1>2, <1>4, <1>6, <1>7 DEF AtLogin
<1>9. QED
  BY <1>1, <1>2, <1>8 DEF Present

LEMMA PresentHearAccepted ==
  ASSUME Typed, Present, HearAccepted PROVE Present'
<1>1. client = "login" /\ Hear("Accepted", "working") /\ toSend' = toSend /\ link = "open"
  BY DEF HearAccepted, Present
<1>2. /\ toClient # <<>> /\ toClient' = Tail(toClient) /\ client' = "working"
      /\ server' = server /\ link' = link /\ Rest' = Rest /\ Head(toClient) = "Accepted"
  BY <1>1, HearFacts DEF Rest
<1>3. AtLogin
  BY <1>1 DEF Present, AtGreeting, AtPrompt, AtLogin, AtWork, AtMenu, Asking
<1>4. Head(<<"Rejected">>) # "Accepted"
  BY ShortSequences
<1>5. \/ server = "identity" /\ Rest = <<>> /\ toClient = <<"Accepted">>
      \/ /\ server = "option" /\ Rest = <<>>
         /\ \E group \in Identities \cup {""} : toClient = <<"Accepted", group>>
  BY <1>2, <1>3, <1>4 DEF AtLogin
<1>6. CASE server = "identity" /\ Rest = <<>> /\ toClient = <<"Accepted">>
  <2>1. toClient' = <<>>
    BY <1>2, <1>6, ShortSequences
  <2>2. AtWork'
    BY <1>2, <1>6, <2>1 DEF AtWork
  <2>3. QED
    BY <1>1, <1>2, <2>2 DEF Present
<1>7. CASE /\ server = "option" /\ Rest = <<>>
           /\ \E group \in Identities \cup {""} : toClient = <<"Accepted", group>>
  <2>1. PICK group \in Identities \cup {""} : toClient = <<"Accepted", group>>
    BY <1>7
  <2>2. toClient' = <<group>>
    BY <1>2, <2>1, ShortSequences
  <2>3. AtWork'
    BY <1>2, <1>7, <2>2 DEF AtWork
  <2>4. QED
    BY <1>1, <1>2, <2>3 DEF Present
<1>8. QED
  BY <1>5, <1>6, <1>7

LEMMA PresentHearRejected ==
  ASSUME Typed, Present, HearRejected PROVE Present'
<1>1. /\ client = "login" /\ Hear("Rejected", "prompt") /\ link = "open"
      /\ toSend' = <<"retry">>
  BY DEF HearRejected, Present
<1>2. /\ toClient # <<>> /\ toClient' = Tail(toClient) /\ client' = "prompt"
      /\ server' = server /\ link' = link /\ toServer' = toServer
      /\ Head(toClient) = "Rejected"
  BY <1>1, HearFacts
<1>3. AtLogin
  BY <1>1 DEF Present, AtGreeting, AtPrompt, AtLogin, AtWork, AtMenu, Asking
<1>4. Head(<<"Accepted">>) # "Rejected" /\ \A group : Head(<<"Accepted", group>>) # "Rejected"
  BY ShortSequences
<1>5. server = "rejected" /\ Rest = <<>> /\ toClient = <<"Rejected">>
  BY <1>2, <1>3, <1>4 DEF AtLogin
<1>6. toServer = <<>>
  BY <1>5, RestEmpty
<1>7. Rest' = <<"retry">>
  <2>1. PICK t : t = <<"retry">>
    OBVIOUS
  <2>2. "retry" \in Words
    BY WordsFacts
  <2>3. t \in Seq(Words)
    BY <2>1, <2>2
  <2>4. <<>> \o t = t
    BY <2>3, ConcatEmptySeq
  <2>5. QED
    BY <1>1, <1>2, <1>6, <2>1, <2>4 DEF Rest
<1>8. toClient' = <<>>
  BY <1>2, <1>5, ShortSequences
<1>9. AtPrompt'
  BY <1>2, <1>5, <1>7, <1>8 DEF AtPrompt
<1>10. QED
  BY <1>1, <1>2, <1>9 DEF Present

LEMMA PresentHearIdentity ==
  ASSUME Typed, Present, HearIdentity PROVE Present'
<1>1. client = "working" /\ toSend' = toSend /\ link = "open"
  BY DEF HearIdentity, Present
<1>2. PICK group \in Identities : Hear(group, "menu")
  BY DEF HearIdentity
<1>3. /\ toClient # <<>> /\ toClient' = Tail(toClient) /\ client' = "menu"
      /\ server' = server /\ link' = link /\ Rest' = Rest
  BY <1>1, <1>2, HearFacts DEF Rest
<1>4. AtWork
  BY <1>1 DEF Present, AtGreeting, AtPrompt, AtLogin, AtWork, AtMenu, Asking
<1>5. server = "option" /\ Rest = <<>>
  BY <1>3, <1>4 DEF AtWork
<1>6. toClient' = <<>>
  <2>1. PICK g : toClient = <<g>>
    BY <1>3, <1>4 DEF AtWork
  <2>2. QED
    BY <1>3, <2>1, ShortSequences
<1>7. toSend' = <<>> /\ AllJunk(Rest')
  BY <1>1, <1>3, <1>5, RestEmpty, EmptyJunk
<1>8. AtMenu'
  BY <1>3, <1>5, <1>6, <1>7 DEF AtMenu
<1>9. QED
  BY <1>1, <1>3, <1>8 DEF Present

LEMMA PresentHearReply ==
  ASSUME Typed, Present, HearReply PROVE Present'
<1>1. /\ client = "asking" /\ toSend = <<>> /\ toClient # <<>> /\ toClient' = Tail(toClient)
      /\ client' = "menu" /\ link = "open" /\ link' = link
      /\ server' = server /\ toSend' = toSend /\ Rest' = Rest
  BY DEF HearReply, Present, serverVars, Rest
<1>2. Asking
  BY <1>1 DEF Present, AtGreeting, AtPrompt, AtLogin, AtWork, AtMenu
<1>3. Served
  BY <1>1, <1>2 DEF Asking, Unheard, InHand
<1>4. toClient' = <<>>
  <2>1. PICK r : r = asked[1]
    OBVIOUS
  <2>2. toClient = <<r>>
    BY <1>3, <2>1 DEF Served
  <2>3. QED
    BY <1>1, <2>2, ShortSequences
<1>5. AllJunk(Rest')
  BY <1>1, <1>3 DEF Served
<1>6. AtMenu'
  BY <1>1, <1>3, <1>4, <1>5 DEF AtMenu, Served
<1>7. QED
  BY <1>1, <1>6 DEF Present

LEMMA PresentAsk ==
  ASSUME Typed, Present, NEW request \in Requests, Ask(request) PROVE Present'
<1>1. /\ client = "menu" /\ asked' \in Messages(request) /\ toSend' = asked'
      /\ client' = "asking" /\ link = "open" /\ link' = link
      /\ server' = server /\ toServer' = toServer /\ toClient' = toClient
  BY DEF Ask, Present, serverVars
<1>2. AtMenu
  BY <1>1 DEF Present, AtGreeting, AtPrompt, AtLogin, AtWork, Asking
<1>3. IsMessage(asked')
  BY <1>1, MessageFacts
<1>4. asked' \in Seq(Words)
  BY <1>3 DEF IsMessage, IsRequest
<1>5. toServer \in Seq(Words) /\ toSend \in Seq(Words)
  BY DEF Typed
<1>6. AllJunk(toServer)
  <2>1. AllJunk(toServer \o toSend)
    BY <1>2 DEF AtMenu, Rest
  <2>2. QED
    BY <1>5, <2>1, PrefixJunk
<1>7. /\ Len(toServer) \in Nat /\ Len(toServer \o asked') = Len(toServer) + Len(asked')
      /\ Ahead(asked', toServer \o asked', Len(toServer), 0)
  BY <1>4, <1>5, <1>6, AheadWhole
<1>8. Rest' = toServer \o asked'
  BY <1>1 DEF Rest
<1>9. Unheard'
  <2>1. /\ Len(toServer) \in Nat /\ Ahead(asked', Rest', Len(toServer), 0)
        /\ Len(Rest') = Len(toServer) + Len(asked')
    BY <1>7, <1>8
  <2>2. server' = "option" /\ toClient' = <<>>
    BY <1>1, <1>2 DEF AtMenu
  <2>3. \E j \in Nat : Ahead(asked', Rest', j, 0) /\ Len(Rest') = j + Len(asked')
    BY <2>1
  <2>4. QED
    BY <1>3, <2>2, <2>3 DEF Unheard
<1>10. QED
  BY <1>1, <1>9 DEF Present, Asking

LEMMA PresentSay ==
  ASSUME Typed, Present, Say PROVE Present'
<1>1. /\ toSend # <<>> /\ toServer' = Append(toServer, Head(toSend)) /\ toSend' = Tail(toSend)
      /\ client' = client /\ asked' = asked /\ link' = link
      /\ server' = server /\ taken' = taken /\ toClient' = toClient
  BY DEF Say, serverVars
<1>2. toServer \in Seq(Words) /\ toSend \in Seq(Words)
  BY DEF Typed
<1>3. Rest' = Rest
  BY <1>1, <1>2, SayConcat DEF Rest
<1>4. ~ AtMenu
  BY <1>1 DEF AtMenu
<1>5. CASE AtGreeting
  BY <1>1, <1>3, <1>5 DEF Present, AtGreeting
<1>6. CASE AtPrompt
  BY <1>1, <1>3, <1>6 DEF Present, AtPrompt
<1>7. CASE AtLogin
  BY <1>1, <1>3, <1>7 DEF Present, AtLogin
<1>8. CASE AtWork
  BY <1>1, <1>3, <1>8 DEF Present, AtWork
<1>9. CASE Asking
  <2>1. Asking'
    BY <1>1, <1>3, <1>9 DEF Asking, Unheard, InHand, Served
  <2>2. QED
    BY <1>1, <2>1 DEF Present
<1>10. QED
  BY <1>4, <1>5, <1>6, <1>7, <1>8, <1>9 DEF Present

-----------------------------------------------------------------------------
(***************************************************************************)
(* The client leaves.                                                      *)
(***************************************************************************)
LEMMA ToClientShort ==
  ASSUME Present PROVE Len(toClient) <= 2
<1>1. CASE toClient = <<>>
  BY <1>1
<1>2. CASE \E a : toClient = <<a>>
  <2>1. PICK a : toClient = <<a>>
    BY <1>2
  <2>2. Len(toClient) = 1
    BY <2>1, ShortSequences
  <2>3. QED
    BY <2>2
<1>3. CASE \E a, b : toClient = <<a, b>>
  <2>1. PICK a, b : toClient = <<a, b>>
    BY <1>3
  <2>2. Len(toClient) = 2
    BY <2>1, ShortSequences
  <2>3. QED
    BY <2>2
<1>4. AtGreeting \/ AtPrompt \/ AtLogin \/ AtWork \/ AtMenu \/ Asking
  BY DEF Present
<1>5. CASE AtGreeting
  BY <1>1, <1>2, <1>3, <1>5 DEF AtGreeting
<1>6. CASE AtPrompt
  BY <1>1, <1>2, <1>3, <1>6 DEF AtPrompt
<1>7. CASE AtLogin
  BY <1>1, <1>2, <1>3, <1>7 DEF AtLogin
<1>8. CASE AtWork
  BY <1>1, <1>2, <1>3, <1>8 DEF AtWork
<1>9. CASE AtMenu
  BY <1>1, <1>9 DEF AtMenu
<1>10. CASE Asking
  BY <1>1, <1>2, <1>10 DEF Asking, Unheard, InHand, Served
<1>11. QED
  BY <1>4, <1>5, <1>6, <1>7, <1>8, <1>9, <1>10

LEMMA ShorterThanRest ==
  ASSUME Typed PROVE Len(toServer) \in Nat /\ Len(toServer) <= Len(Rest)
<1>1. toServer \in Seq(Words) /\ toSend \in Seq(Words)
  BY DEF Typed
<1>2. Len(toServer) \in Nat /\ Len(toSend) \in Nat /\ Len(Rest) = Len(toServer) + Len(toSend)
  BY <1>1, Joined DEF Rest
<1>3. QED
  BY <1>2

LEMMA PresentQuit ==
  ASSUME Typed, Present, Quit PROVE Gone'
<1>1. /\ client' = "gone" /\ link' \in {"reset", "finished", "broken"}
      /\ toClient = <<>> => link' = "finished"
      /\ asked' = asked /\ server' = server /\ taken' = taken
      /\ toServer' = toServer /\ toClient' = toClient
  BY DEF Quit, serverVars
<1>2. Len(toClient') <= 2 /\ link' # "open"
  BY <1>1, ToClientShort
<1>3. toServer \in Seq(Words) /\ toSend \in Seq(Words)
  BY DEF Typed
<1>4. server = "welcome" => link' = "finished"
  BY <1>1, WhereClient
<1>5. server \in {"welcome", "prompt", "verdict", "identity"} => toServer = <<>>
  <2>1. server \in {"welcome", "prompt", "verdict", "identity"} => Rest = <<>>
    BY WhereClient
  <2>2. QED
    BY <2>1, RestEmpty
<1>6. ASSUME server \in {"password", "rejected"} PROVE Len(toServer) <= 1
  <2>1. Len(<<"password">>) = 1 /\ Len(<<"retry">>) = 1 /\ Len(<<>>) = 0
    BY ShortSequences
  <2>2. Rest = <<"password">> \/ Rest = <<"retry">> \/ Rest = <<>>
    BY <1>6, WhereClient
  <2>3. Len(Rest) = 1 \/ Len(Rest) = 0
    BY <2>1, <2>2
  <2>4. PICK n, l : n = Len(Rest) /\ l = Len(toServer) /\ l \in Nat /\ l <= n
    BY ShorterThanRest
  <2>5. l <= 1
    BY <2>3, <2>4
  <2>6. QED
    BY <2>4, <2>5
<1>7. ASSUME server = "username" PROVE Len(toServer) <= 2
  <2>1. Len(<<"username", "password">>) = 2 /\ Len(<<>>) = 0
    BY ShortSequences
  <2>2. Rest = <<"username", "password">> \/ Rest = <<>>
    BY <1>7, WhereClient
  <2>3. Len(Rest) = 2 \/ Len(Rest) = 0
    BY <2>1, <2>2
  <2>4. PICK n, l : n = Len(Rest) /\ l = Len(toServer) /\ l \in Nat /\ l <= n
    BY ShorterThanRest
  <2>5. l <= 2
    BY <2>3, <2>4
  <2>6. QED
    BY <2>4, <2>5
<1>8. ASSUME server = "option"
      PROVE  \/ AllJunk(toServer)
             \/ /\ link' = "finished" /\ IsMessage(asked)
                /\ \E j \in Nat : Ahead(asked, toServer, j, 0)
  <2>1. AllJunk(Rest) => AllJunk(toServer)
    BY <1>3, PrefixJunk DEF Rest
  <2>2. CASE Unheard
    <3>1. toClient = <<>> /\ IsMessage(asked)
      BY <2>2 DEF Unheard
    <3>2. PICK j \in Nat : Ahead(asked, Rest, j, 0)
      BY <2>2 DEF Unheard
    <3>3. Ahead(asked, toServer, j, 0)
      BY <1>3, <3>2, PrefixAhead DEF Rest
    <3>4. QED
      BY <1>1, <3>1, <3>3
  <2>3. CASE Rest = <<>>
    BY <2>1, <2>3, EmptyJunk
  <2>4. CASE AtMenu \/ Served
    BY <2>1, <2>4 DEF AtMenu, Served
  <2>5. QED
    BY <1>8, <2>2, <2>3, <2>4, WhereOption
<1>9. ASSUME server = "request"
      PROVE  link' = "finished" /\ Taking(asked, taken, toServer)
  <2>1. InHand
    BY <1>9, WhereRequest
  <2>2. toClient = <<>> /\ Taking(asked, taken, toServer \o toSend)
    BY <2>1 DEF InHand, Rest
  <2>3. Taking(asked, taken, toServer)
    BY <1>3, <2>2, PrefixTaking
  <2>4. QED
    BY <1>1, <2>2, <2>3
<1>10. QED
  BY <1>1, <1>2, <1>4, <1>5, <1>6, <1>7, <1>8, <1>9 DEF Gone

LEMMA PresentExit ==
  ASSUME Typed, Present, Exit PROVE Gone'
<1>1. /\ client = "menu" /\ toServer' = Append(toServer, "exit")
      /\ client' = "gone" /\ link' = "finished" /\ asked' = <<"exit">>
      /\ server' = server /\ taken' = taken /\ toClient' = toClient
  BY DEF Exit, Leave, serverVars
<1>2. AtMenu
  BY <1>1 DEF Present, AtGreeting, AtPrompt, AtLogin, AtWork, Asking
<1>3. toServer \in Seq(Words) /\ toSend \in Seq(Words)
  BY DEF Typed
<1>4. AllJunk(toServer)
  BY <1>2, <1>3, PrefixJunk DEF AtMenu, Rest
<1>5. PICK m : m = <<"exit">>
  OBVIOUS
<1>6. m \in Seq(Words)
  <2>1. "exit" \in Words
    BY WordsFacts
  <2>2. QED
    BY <1>5, <2>1
<1>7. Len(toServer) \in Nat /\ Ahead(m, toServer \o m, Len(toServer), 0)
  BY <1>3, <1>4, <1>6, AheadWhole
<1>8. toServer' = toServer \o m
  <2>1. PICK e : e = "exit"
    OBVIOUS
  <2>2. e \in Words
    BY <2>1, WordsFacts
  <2>3. Append(toServer, e) = toServer \o <<e>>
    BY <1>3, <2>2, AppendIsConcat
  <2>4. QED
    BY <1>1, <1>5, <2>1, <2>3
<1>9. \E j \in Nat : Ahead(asked', toServer', j, 0)
  BY <1>1, <1>5, <1>7, <1>8
<1>10. server' = "option" /\ Len(toClient') <= 2
  BY <1>1, <1>2, ToClientShort DEF AtMenu
<1>11. QED
  BY <1>1, <1>9, <1>10 DEF Gone

LEMMA PresentHearNoIdentity ==
  ASSUME Typed, Present, HearNoIdentity PROVE Gone'
<1>1. /\ client = "working" /\ toClient # <<>> /\ toClient' = Tail(toClient)
      /\ client' = "gone" /\ link' = "finished"
      /\ server' = server /\ toServer' = toServer
  BY DEF HearNoIdentity, Leave, serverVars
<1>2. AtWork
  BY <1>1 DEF Present, AtGreeting, AtPrompt, AtLogin, AtMenu, Asking
<1>3. server = "option" /\ Rest = <<>>
  BY <1>1, <1>2 DEF AtWork
<1>4. Len(toClient') <= 2
  <2>1. PICK g : toClient = <<g>>
    BY <1>1, <1>2 DEF AtWork
  <2>2. toClient' = <<>>
    BY <1>1, <2>1, ShortSequences
  <2>3. QED
    BY <2>2
<1>5. AllJunk(toServer')
  BY <1>1, <1>3, RestEmpty, EmptyJunk
<1>6. QED
  BY <1>1, <1>3, <1>4, <1>5 DEF Gone

-----------------------------------------------------------------------------
(***************************************************************************)
(* The steps of the thread after the client has left.                      *)
(***************************************************************************)
LEMMA GoneWelcome ==
  ASSUME Typed, Gone, Welcome PROVE Gone'
<1>1. server = "welcome" /\ Send("welcome", "prompt") /\ link = "finished" /\ toServer = <<>>
  BY DEF Welcome, Gone
<1>2. /\ toClient' = toClient /\ toServer' = toServer /\ client' = client
      /\ link' \in {"finished", "broken"} /\ server' = "prompt"
  BY <1>1, SendLost
<1>3. QED
  BY <1>1, <1>2 DEF Gone

LEMMA GonePrompt ==
  ASSUME Typed, Gone, Prompt PROVE Gone'
<1>1. /\ server = "prompt" /\ Send("prompt", "username") /\ toServer = <<>>
      /\ link \in {"finished", "reset", "broken"}
  BY DEF Prompt, Gone, Typed
<1>2. /\ toClient' = toClient /\ toServer' = toServer /\ client' = client
      /\ link' \in {"finished", "reset", "broken"} /\ server' \in {"username", "killed"}
  BY <1>1, SendLost
<1>3. Len(toServer') <= 2
  BY <1>1, <1>2, ShortSequences
<1>4. QED
  BY <1>2, <1>3 DEF Gone

LEMMA GoneReceive ==
  ASSUME Typed, Gone, Receive
  PROVE  /\ client' = client /\ asked' = asked /\ toClient' = toClient
         /\ link' \in {"finished", "reset", "broken"}
         /\ toServer = <<>> => toServer' = <<>>
         /\ toServer # <<>> => /\ toServer' = Tail(toServer) /\ link' = link
                               /\ Len(toServer) \in Nat /\ Len(toServer') \in Nat
                               /\ Len(toServer') = Len(toServer) - 1
<1>1. link \in {"finished", "reset", "broken"} /\ toServer \in Seq(Words)
  BY DEF Gone, Typed
<1>2. toServer # <<>> => /\ Len(Tail(toServer)) = Len(toServer) - 1
                         /\ Len(toServer) \in Nat \ {0}
  BY <1>1, TailFacts
<1>3. toServer # <<>> => Len(Tail(toServer)) \in Nat /\ Len(toServer) \in Nat
  BY <1>2
<1>4. QED
  BY <1>1, <1>2, <1>3, ReceiveLost

LEMMA GoneTakeUsername ==
  ASSUME Typed, Gone, TakeUsername PROVE Gone'
<1>1. server = "username" /\ Receive /\ server' = "password" /\ Len(toServer) <= 2
  BY DEF TakeUsername, Gone
<1>2. /\ client' = client /\ toClient' = toClient
      /\ link' \in {"finished", "reset", "broken"}
  BY <1>1, GoneReceive
<1>3. Len(toServer') <= 1
  <2>1. CASE toServer = <<>>
    BY <1>1, <2>1, GoneReceive, ShortSequences
  <2>2. CASE toServer # <<>>
    BY <1>1, <2>2, GoneReceive
  <2>3. QED
    BY <2>1, <2>2
<1>4. QED
  BY <1>1, <1>2, <1>3 DEF Gone

LEMMA ShortTail ==
  ASSUME Typed, Gone, Receive, Len(toServer) <= 1 PROVE toServer' = <<>>
<1>1. CASE toServer = <<>>
  BY <1>1, GoneReceive
<1>2. CASE toServer # <<>>
  <2>1. toServer' = Tail(toServer) /\ toServer \in Seq(Words)
    BY <1>2, GoneReceive DEF Typed
  <2>2. toServer' \in Seq(Words)
    BY <1>2, <2>1, HeadTailProperties
  <2>3. Len(toServer') = 0
    <3>1. /\ Len(toServer) \in Nat /\ Len(toServer') \in Nat
          /\ Len(toServer') = Len(toServer) - 1
      BY <1>2, GoneReceive
    <3>2. QED
      BY <3>1
  <2>4. QED
    BY <2>2, <2>3, EmptySeq
<1>3. QED
  BY <1>1, <1>2

LEMMA GoneTakePassword ==
  ASSUME Typed, Gone, TakePassword PROVE Gone'
<1>1. server = "password" /\ Receive /\ server' = "verdict" /\ Len(toServer) <= 1
  BY DEF TakePassword, Gone
<1>2. /\ client' = client /\ toClient' = toClient
      /\ link' \in {"finished", "reset", "broken"}
  BY <1>1, GoneReceive
<1>3. toServer' = <<>>
  BY <1>1, ShortTail
<1>4. QED
  BY <1>1, <1>2, <1>3 DEF Gone

LEMMA GoneVerdict ==
  ASSUME Typed, Gone, Verdict PROVE Gone'
<1>1. /\ server = "verdict" /\ toServer = <<>>
      /\ link \in {"finished", "reset", "broken"}
  BY DEF Verdict, Gone, Typed
<1>2. Send("Accepted", "identity") \/ Send("Rejected", "rejected")
  BY DEF Verdict
<1>3. /\ toClient' = toClient /\ toServer' = toServer /\ client' = client
      /\ link' \in {"finished", "reset", "broken"}
      /\ server' \in {"identity", "rejected", "killed"}
  BY <1>1, <1>2, SendLost
<1>4. Len(toServer') <= 1
  BY <1>1, <1>3, ShortSequences
<1>5. QED
  BY <1>1, <1>3, <1>4 DEF Gone

LEMMA GoneAfterRejection ==
  ASSUME Typed, Gone, AfterRejection PROVE Gone'
<1>1. /\ server = "rejected" /\ Receive /\ server' \in {"ended", "prompt"}
      /\ Len(toServer) <= 1
  BY DEF AfterRejection, Gone
<1>2. /\ client' = client /\ toClient' = toClient
      /\ link' \in {"finished", "reset", "broken"}
  BY <1>1, GoneReceive
<1>3. toServer' = <<>>
  BY <1>1, ShortTail
<1>4. QED
  BY <1>1, <1>2, <1>3 DEF Gone

LEMMA GoneSendIdentity ==
  ASSUME Typed, Gone, SendIdentity PROVE Gone'
<1>1. /\ server = "identity" /\ toServer = <<>>
      /\ link \in {"finished", "reset", "broken"}
  BY DEF SendIdentity, Gone, Typed
<1>2. PICK group \in Identities \cup {""} : Send(group, "option")
  BY DEF SendIdentity
<1>3. /\ toClient' = toClient /\ toServer' = toServer /\ client' = client
      /\ link' \in {"finished", "reset", "broken"}
      /\ server' \in {"option", "killed"}
  BY <1>1, <1>2, SendLost
<1>4. AllJunk(toServer')
  BY <1>1, <1>3, EmptyJunk
<1>5. QED
  BY <1>3, <1>4 DEF Gone

LEMMA GoneTakeOption ==
  ASSUME Typed, Gone, TakeOption PROVE Gone'
<1>1. server = "option" /\ Receive
  BY DEF TakeOption
<1>2. /\ client' = client /\ toClient' = toClient /\ asked' = asked
      /\ link' \in {"finished", "reset", "broken"}
  BY <1>1, GoneReceive
<1>3. toServer \in Seq(Words) /\ link \in {"finished", "reset", "broken"}
  BY DEF Typed, Gone
<1>4. ASSUME NEW word \in Junk, Received = ReadAs(word) PROVE server' = "option"
  <2>1. Received \notin Requests /\ Received # "exit"
    BY <1>4, JunkSkipped DEF JunkIsNoRequest
  <2>2. QED
    BY <2>1, SameTables DEF TakeOption
<1>5. CASE toServer = <<>>
  <2>1. Received = ReadAs("")
    BY <1>1, <1>3, <1>5, ReceiveLost DEF ReadAs
  <2>2. "" \in Junk
    BY DEF Junk
  <2>3. server' = "option"
    BY <1>4, <2>1, <2>2
  <2>4. AllJunk(toServer')
    BY <1>1, <1>5, GoneReceive, EmptyJunk
  <2>5. QED
    BY <1>2, <2>3, <2>4 DEF Gone
<1>6. CASE toServer # <<>>
  <2>1. toServer' = Tail(toServer) /\ link' = link /\ Received = ReadAs(Head(toServer))
    BY <1>1, <1>3, <1>6, ReceiveLost
  <2>2. CASE AllJunk(toServer)
    <3>1. AllJunk(toServer') /\ Head(toServer) \in Junk
      BY <1>3, <1>6, <2>1, <2>2, JunkTail
    <3>2. server' = "option"
      BY <1>4, <2>1, <3>1
    <3>3. QED
      BY <1>2, <3>1, <3>2 DEF Gone
  <2>3. CASE ~ AllJunk(toServer)
    <3>1. link = "finished" /\ (IsMessage(asked) \/ asked = <<"exit">>)
      BY <1>1, <2>3 DEF Gone
    <3>2. PICK j \in Nat : Ahead(asked, toServer, j, 0)
      BY <1>1, <2>3 DEF Gone
    <3>3. Len(asked) \in Nat
      <4>1. asked \in Seq(Words)
        BY DEF Typed
      <4>2. QED
        BY <4>1, LenProperties
    <3>4. /\ j = 0 => /\ 0 + 1 <= Len(asked) /\ Head(toServer) = asked[0 + 1]
                      /\ Ahead(asked, toServer, 0, 0)
          /\ j > 0 => Head(toServer) \in Junk /\ Ahead(asked, Tail(toServer), j - 1, 0)
      BY <1>3, <1>6, <3>2, <3>3, AheadTail
    <3>5. CASE j > 0
      <4>1. j - 1 \in Nat
        BY <3>5
      <4>2. server' = "option"
        BY <1>4, <2>1, <3>4, <3>5
      <4>3. Ahead(asked', toServer', j - 1, 0)
        BY <1>2, <2>1, <3>4, <3>5
      <4>4. (IsMessage(asked') \/ asked' = <<"exit">>) /\ link' = "finished"
        BY <1>2, <2>1, <3>1
      <4>5. \E i \in Nat : Ahead(asked', toServer', i, 0)
        BY <4>1, <4>3
      <4>6. QED
        BY <1>2, <4>2, <4>4, <4>5 DEF Gone
    <3>6. CASE j = 0 /\ IsMessage(asked)
      <4>1. /\ ReadAs(Head(toServer)) = Head(toServer) /\ Head(toServer) \in Requests
            /\ Taking(asked, <<Head(toServer)>>, Tail(toServer))
        BY <1>3, <1>6, <3>4, <3>6, Starts
      <4>2. Received = Head(toServer) /\ Received \in Requests
        BY <2>1, <4>1
      <4>3. Received # "exit"
        BY <4>2, RequestsFacts DEF Reserved
      <4>4. server' = "request"
        BY <4>2, <4>3, SameTables DEF TakeOption
      <4>5. taken' = <<Received>>
        BY <4>2, SameTables DEF TakeOption
      <4>6. Taking(asked', taken', toServer')
        BY <1>2, <2>1, <4>1, <4>2, <4>5
      <4>7. link' = "finished"
        BY <2>1, <3>1
      <4>8. QED
        BY <1>2, <4>4, <4>6, <4>7 DEF Gone
    <3>7. CASE j = 0 /\ asked = <<"exit">>
      <4>1. Head(toServer) = "exit"
        <5>1. PICK e : e = "exit"
          OBVIOUS
        <5>2. asked = <<e>>
          BY <3>7, <5>1
        <5>3. asked[0 + 1] = e
          BY <5>2
        <5>4. QED
          BY <3>4, <3>7, <5>1, <5>3
      <4>2. Received = "exit"
        BY <2>1, <4>1 DEF ReadAs
      <4>3. "exit" \notin Requests
        BY RequestsFacts DEF Reserved
      <4>4. server' = "ended"
        BY <4>2, <4>3, SameTables DEF TakeOption
      <4>5. QED
        BY <1>2, <4>4 DEF Gone
    <3>8. QED
      BY <3>1, <3>5, <3>6, <3>7
  <2>4. QED
    BY <2>2, <2>3
<1>7. QED
  BY <1>5, <1>6

LEMMA GoneTakeWord ==
  ASSUME IInv, Typed, Gone, TakeWord PROVE Gone'
<1>1. /\ server = "request" /\ Receive /\ ~ Complete
      /\ server' = server /\ taken' = Append(taken, Received)
  BY DEF TakeWord
<1>2. link = "finished" /\ Taking(asked, taken, toServer) /\ toServer \in Seq(Words)
  BY <1>1 DEF Gone, Typed
<1>3. /\ toServer # <<>> /\ Received = ReadAs(Head(toServer)) /\ toServer' = Tail(toServer)
      /\ client' = client /\ toClient' = toClient /\ asked' = asked /\ link' = link
  BY <1>1, <1>2, ReceiveLost
<1>4. ~ Done(taken) /\ taken \in Seq(Words)
  BY <1>1, RequestInHand
<1>5. Taking(asked, Append(taken, ReadAs(Head(toServer))), Tail(toServer))
  BY <1>2, <1>3, <1>4, Continues
<1>6. Taking(asked', taken', toServer')
  BY <1>1, <1>3, <1>5
<1>7. QED
  BY <1>1, <1>2, <1>3, <1>6 DEF Gone

LEMMA GoneReply ==
  ASSUME IInv, Typed, Gone, Reply PROVE Gone'
<1>1. server = "request" /\ Complete /\ Send(taken[1], "option")
  BY DEF Reply
<1>2. link = "finished" /\ Taking(asked, taken, toServer) /\ toServer \in Seq(Words)
  BY <1>1 DEF Gone, Typed
<1>3. /\ toClient' = toClient /\ toServer' = toServer /\ client' = client
      /\ link' \in {"finished", "broken"} /\ server' = "option"
  BY <1>1, <1>2, SendLost
<1>4. Done(taken)
  BY <1>1, RequestInHand
<1>5. AllJunk(toServer')
  BY <1>2, <1>3, <1>4, DoneLeavesJunk
<1>6. QED
  BY <1>3, <1>5 DEF Gone

LEMMA GoneServer ==
  ASSUME IInv, Gone, ServerStep PROVE Gone'
<1>1. Typed
  BY DEF IInv
<1>2. QED
  BY <1>1, GoneWelcome, GonePrompt, GoneTakeUsername, GoneTakePassword, GoneVerdict,
     GoneAfterRejection, GoneSendIdentity, GoneTakeOption, GoneTakeWord, GoneReply
     DEF ServerStep, Handle, Converse

-----------------------------------------------------------------------------
(***************************************************************************)
(* The invariant is inductive.                                             *)
(***************************************************************************)
LEMMA InvInit ==
  ASSUME Init PROVE IInv
<1>1. /\ client = "greeting" /\ identity = "" /\ asked = <<>> /\ toSend = <<>>
      /\ server = "welcome" /\ taken = <<>> /\ toServer = <<>> /\ toClient = <<>>
      /\ link = "open"
  BY DEF Init
<1>2. <<>> \in Seq(Words)
  BY EmptySeq
<1>3. Typed
  BY <1>1, <1>2 DEF Typed
<1>4. Rest = <<>>
  BY <1>1, <1>2, ConcatEmptySeq DEF Rest
<1>5. AtGreeting
  BY <1>1, <1>4 DEF AtGreeting
<1>6. QED
  BY <1>1, <1>3, <1>5 DEF IInv, Present

LEMMA PresentClient ==
  ASSUME Typed, Present, ClientHears \/ (\E request \in Requests : Ask(request)) \/ Say \/ Exit \/ Quit
  PROVE  (Present \/ Gone)'
BY PresentHearWelcome, PresentHearPrompt, PresentHearAccepted, PresentHearRejected,
   PresentHearIdentity, PresentHearNoIdentity, PresentHearReply, PresentAsk,
   PresentSay, PresentExit, PresentQuit DEF ClientHears

LEMMA GoneClient ==
  ASSUME Gone
  PROVE  ~ (ClientHears \/ (\E request \in Requests : Ask(request)) \/ Say \/ Exit \/ Quit)
BY DEF Gone, ClientHears, HearWelcome, HearPrompt, HearAccepted, HearRejected,
   HearIdentity, HearNoIdentity, HearReply, Ask, Say, Exit, Quit

LEMMA InvNext ==
  ASSUME IInv, [Next]_vars PROVE IInv'
<1>1. CASE ServerStep
  BY <1>1, TypedServer, PresentServer, GoneServer DEF IInv
<1>2. CASE ClientHears \/ (\E request \in Requests : Ask(request)) \/ Say \/ Exit \/ Quit
  BY <1>2, TypedClient, PresentClient, GoneClient DEF IInv
<1>3. CASE UNCHANGED vars
  <2>1. /\ client' = client /\ identity' = identity /\ asked' = asked /\ toSend' = toSend
        /\ server' = server /\ taken' = taken /\ toServer' = toServer
        /\ toClient' = toClient /\ link' = link
    BY <1>3 DEF vars, clientVars, serverVars
  <2>2. Rest' = Rest
    BY <2>1 DEF Rest
  <2>3. Typed' <=> Typed
    BY <2>1 DEF Typed
  <2>4. Gone' <=> Gone
    BY <2>1 DEF Gone
  <2>5. Present' <=> Present
    BY <2>1, <2>2 DEF Present, AtGreeting, AtPrompt, AtLogin, AtWork, AtMenu, Asking,
                      Unheard, InHand, Served
  <2>6. QED
    BY <2>3, <2>4, <2>5 DEF IInv
<1>4. QED
  BY <1>1, <1>2, <1>3 DEF Next

(* In every reachable state client, thread and messages are where the      *)
(* invariant says, whatever was asked and whenever the client was killed.  *)
THEOREM Invariance == Spec => []IInv
<1>1. QED
  BY InvInit, InvNext, PTL DEF Spec

-----------------------------------------------------------------------------
(***************************************************************************)
(* What follows from it.                                                   *)
(***************************************************************************)
LEMMA InvTypeOK ==
  ASSUME IInv PROVE TypeOK
<1>1. Typed
  BY DEF IInv
<1>2. ASSUME NEW m \in {asked, toSend, taken, toServer, toClient}
      PROVE  Range(m) \subseteq Words
  <2>1. m \in Seq(Words)
    BY <1>1 DEF Typed
  <2>2. QED
    BY <2>1, RangeOfSeq
<1>3. UNION {Range(m) : m \in {asked, toSend, taken, toServer, toClient}} \subseteq Words
  BY <1>2
<1>4. Len(toClient) <= 2
  BY ToClientShort DEF IInv, Gone
<1>5. QED
  BY <1>1, <1>3, <1>4 DEF Typed, TypeOK

(* Every word on its way is one of those the programs know, and no more    *)
(* than two messages are ever on their way to the client.                  *)
THEOREM TypeCorrect == Spec => []TypeOK
<1>1. QED
  BY Invariance, InvTypeOK, PTL

LEMMA InvArguments ==
  ASSUME IInv PROVE ArgumentsMatch
<1>1. SUFFICES ASSUME client # "gone", server = "request", Complete
               PROVE  /\ taken = UpToNul(asked)
                      /\ \A k \in DOMAIN ServerTakes[taken[1]] :
                           Fits(taken[k + 1], ServerTakes[taken[1]][k])
  BY DEF ArgumentsMatch
<1>2. Present
  BY <1>1 DEF IInv, Gone
<1>3. Taking(asked, taken, Rest)
  BY <1>1, <1>2, WhereRequest DEF InHand
<1>4. Done(taken) /\ taken \in Seq(Words)
  BY <1>1, RequestInHand
<1>5. QED
  BY <1>3, <1>4, DoneExact, DoneFits

(* A handler begins its work with the arguments that were sent for it and  *)
(* with the whole content, up to a chunk that starts with a NUL.           *)
THEOREM ArgumentsCorrect == Spec => []ArgumentsMatch
<1>1. QED
  BY Invariance, InvArguments, PTL

LEMMA InvReplies ==
  ASSUME IInv PROVE RepliesMatch
<1>1. ASSUME client = "asking" PROVE \A k \in DOMAIN toClient : toClient[k] = asked[1]
  <2>1. Present
    BY <1>1 DEF IInv, Gone
  <2>2. Asking
    BY <1>1, <2>1 DEF Present, AtGreeting, AtPrompt, AtLogin, AtWork, AtMenu
  <2>3. PICK r : r = asked[1]
    OBVIOUS
  <2>4. toClient = <<>> \/ toClient = <<r>>
    BY <2>2, <2>3 DEF Asking, Unheard, InHand, Served
  <2>5. CASE toClient = <<>>
    BY <2>5
  <2>6. CASE toClient = <<r>>
    <3>1. DOMAIN toClient = 1 .. 1 /\ toClient[1] = r
      BY <2>6
    <3>2. \A k \in 1 .. 1 : k = 1
      OBVIOUS
    <3>3. QED
      BY <2>3, <3>1, <3>2
  <2>7. QED
    BY <2>4, <2>5, <2>6
<1>2. ASSUME client = "menu" PROVE toClient = <<>>
  BY <1>2 DEF IInv, Gone, Present, AtGreeting, AtPrompt, AtLogin, AtWork, AtMenu, Asking
<1>3. QED
  BY <1>1, <1>2 DEF RepliesMatch

(* A reply is read by the client that made the request, and none is left   *)
(* when it makes the next one.                                             *)
THEOREM RepliesCorrect == Spec => []RepliesMatch
<1>1. QED
  BY Invariance, InvReplies, PTL

LEMMA InvNoStall ==
  ASSUME IInv PROVE NoStall
<1>1. SUFFICES ASSUME ClientWaits, ServerWaits PROVE FALSE
  BY DEF NoStall
<1>2. /\ client \in {"greeting", "prompt", "login", "working", "asking"}
      /\ toSend = <<>> /\ toClient = <<>> /\ toServer = <<>>
  BY <1>1 DEF ClientWaits, ServerWaits, CanReceive
<1>3. Present
  BY <1>2 DEF IInv, Gone
<1>4. Rest = <<>> /\ Len(Rest) = 0
  <2>1. <<>> \in Seq(Words)
    BY EmptySeq
  <2>2. Rest = <<>>
    BY <1>2, <2>1, ConcatEmptySeq DEF Rest
  <2>3. QED
    BY <2>2, ShortSequences
<1>5. \/ server \in {"username", "password", "rejected", "option", "ended"}
      \/ server = "request" /\ ~ Complete
  BY <1>1 DEF ServerWaits
<1>6. \A a, b : <<>> # <<a>> /\ <<>> # <<a, b>>
  BY ShortSequences
<1>7. server \notin {"username", "password", "rejected"}
  BY <1>2, <1>3, <1>4, <1>6, WhereClient
<1>8. server # "option"
  <2>1. SUFFICES ASSUME server = "option" PROVE FALSE
    OBVIOUS
  <2>2. ~ AtMenu
    BY <1>2 DEF AtMenu
  <2>3. Unheard \/ Served
    BY <1>2, <1>3, <1>6, <2>1, <2>2, WhereOption
  <2>4. ~ Served
    BY <1>2, <1>6 DEF Served
  <2>5. IsMessage(asked) /\ \E j \in Nat : Len(Rest) = j + Len(asked)
    BY <2>3, <2>4 DEF Unheard
  <2>6. Len(asked) \in Nat /\ Len(asked) > 0
    BY <2>5, RequestFacts DEF IsMessage
  <2>7. QED
    BY <1>4, <2>5, <2>6
<1>9. CASE server = "request" /\ ~ Complete
  <2>1. InHand
    BY <1>3, <1>9, WhereRequest
  <2>2. Taking(asked, taken, Rest) /\ Len(Rest) = Len(asked) - Len(taken)
    BY <2>1 DEF InHand
  <2>3. Len(taken) = Len(asked)
    <3>1. Len(asked) \in Nat /\ Len(taken) \in Nat
      <4>1. asked \in Seq(Words) /\ taken \in Seq(Words)
        BY DEF IInv, Typed
      <4>2. QED
        BY <4>1, LenProperties
    <3>2. QED
      BY <1>4, <2>2, <3>1
  <2>4. Done(taken)
    BY <2>2, <2>3, WholeIsDone
  <2>5. QED
    BY <1>9, <2>4, RequestInHand
<1>10. QED
  BY <1>3, <1>5, <1>7, <1>8, <1>9, NeverEnded

(* The client and the thread never both wait for a message of the other.   *)
THEOREM NoStallCorrect == Spec => []NoStall
<1>1. QED
  BY Invariance, InvNoStall, PTL

LEMMA StepKills ==
  ASSUME IInv, [Next]_vars
  PROVE  [server' = "killed" => server \in {"prompt", "verdict", "identity"}]_serverVars
<1>1. SUFFICES ASSUME server' = "killed", serverVars' # serverVars
               PROVE  server \in {"prompt", "verdict", "identity"}
  OBVIOUS
<1>2. ~ (ClientHears \/ (\E request \in Requests : Ask(request)) \/ Say \/ Exit \/ Quit)
  BY <1>1 DEF ClientHears, HearWelcome, HearPrompt, HearAccepted, HearRejected,
     HearIdentity, HearNoIdentity, HearReply, Ask, Say, Exit, Quit, Hear
<1>3. serverVars' = serverVars \/ ServerStep
  BY <1>2 DEF Next, vars
<1>4. ServerStep
  BY <1>1, <1>3
<1>5. ~ (TakeUsername \/ TakePassword \/ AfterRejection)
  BY <1>1 DEF TakeUsername, TakePassword, AfterRejection
<1>6. ~ TakeOption
  <2>1. TakeOption => server' \in {"request", "ended", "option"}
    BY DEF TakeOption
  <2>2. QED
    BY <1>1, <2>1
<1>7. ~ TakeWord
  BY <1>1 DEF TakeWord
<1>8. Present => link = "open"
  BY DEF Present
<1>9. ~ Welcome
  <2>1. SUFFICES ASSUME Welcome PROVE FALSE
    OBVIOUS
  <2>2. server = "welcome" /\ Send("welcome", "prompt")
    BY <2>1 DEF Welcome
  <2>3. link \in {"open", "finished"}
    BY <1>8, <2>2 DEF IInv, Gone
  <2>4. server' = "prompt"
    BY <2>2, <2>3 DEF Send
  <2>5. QED
    BY <1>1, <2>4
<1>10. ~ Reply
  <2>1. SUFFICES ASSUME Reply PROVE FALSE
    OBVIOUS
  <2>2. server = "request" /\ Send(taken[1], "option")
    BY <2>1 DEF Reply
  <2>3. link \in {"open", "finished"}
    BY <1>8, <2>2 DEF IInv, Gone
  <2>4. server' = "option"
    BY <2>2, <2>3 DEF Send
  <2>5. QED
    BY <1>1, <2>4
<1>11. Prompt \/ Verdict \/ SendIdentity
  BY <1>4, <1>5, <1>6, <1>7, <1>9, <1>10 DEF ServerStep, Handle, Converse
<1>12. QED
  BY <1>11 DEF Prompt, Verdict, SendIdentity

(* A client that is killed kills the server at most during login: what the *)
(* thread sends after that is sent to a client that has gone only once     *)
(* before it reads.                                                        *)
THEOREM RequestsDoNotKillCorrect == Spec => RequestsDoNotKill
<1>1. Spec => [][Next]_vars
  BY DEF Spec
<1>2. IInv /\ [Next]_vars
        => [server' = "killed" => server \in {"prompt", "verdict", "identity"}]_serverVars
  BY StepKills
<1>3. QED
  BY <1>1, <1>2, Invariance, PTL DEF RequestsDoNotKill
=============================================================================
