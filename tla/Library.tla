------------------------------ MODULE Library ------------------------------
(****************************************************************************)
(* The library client of Tema-3: the session main keeps (client.cpp), the   *)
(* commands (commands.cpp), what they make of a response                    *)
(* (response_handlers.cpp), and the server as the client uses it.  The      *)
(* requests are those of HttpExchange.                                      *)
(****************************************************************************)
EXTENDS HttpExchange, Sequences, FiniteSets

CONSTANTS
  Users,      \* who may log in, by name and password
  BodyLength, \* length of a body that is not empty
  MaxLogins   \* bound: logins the server accepts

ASSUME LibraryAssumption ==
  /\ BodyLength \in 1 .. MaxNumber
  /\ MaxLogins \in Nat

None == "none"
ASSUME NoneAssumption == None \notin Users

VARIABLES
  is_connected,  \* main's locals;
  login_cookie,  \* a cookie is the number of the login that made it, 0 is none
  jwt_token,     \* a token is the user it was made for
  cin,           \* "good" or "failed"
  request,       \* the command that runs and what its request carries
  report,        \* what main has printed of it, or of the last one
  logins,        \* the server: whose logins it has accepted,
  sessions,      \* and which of those are not logged out
  accounts,      \* and who has registered
  lost,          \* an answer did not come in full (used by properties)
  entered        \* enter_library succeeded since the last login (the same)

clientVars == <<is_connected, login_cookie, jwt_token, cin, request, report, entered>>
serverVars == <<logins, sessions, accounts>>
libraryVars == <<exchangeVars, clientVars, serverVars, lost>>

LibraryCommands == {"get_books", "get_book", "add_book", "delete_book"}
Commands == {"register", "login", "enter_library", "logout"} \cup LibraryCommands

NoRequest == [command |-> "none", user |-> None, cookie |-> 0, token |-> None]

Init ==
  /\ InitExchange
  /\ is_connected = FALSE /\ login_cookie = 0 /\ jwt_token = None
  /\ cin = "good" /\ request = NoRequest /\ report = None
  /\ logins = << >> /\ sessions = {} /\ accounts = {}
  /\ lost = FALSE /\ entered = FALSE

-----------------------------------------------------------------------------
(* What a command does before its request.                                  *)

(* mutant: auth_post does not look at is_connected *)
AnyLogin(c) ==
  CASE c \in {"enter_library", "logout"} -> is_connected
    [] c \in LibraryCommands -> jwt_token # None
    [] OTHER -> TRUE

Allowed(c) ==
  CASE c = "login" -> ~is_connected
    [] c \in {"enter_library", "logout"} -> is_connected
    [] c \in LibraryCommands -> jwt_token # None
    [] OTHER -> TRUE

Prompt == phase = "idle" /\ cin = "good"

TurnedAway(c) ==
  /\ Prompt /\ ~Allowed(c)
  /\ report' = "unsuccessful"
  /\ UNCHANGED <<exchangeVars, serverVars, lost,
                 is_connected, login_cookie, jwt_token, cin, request, entered>>

(* The request is made: a POST with the form that was read, a GET or a      *)
(* DELETE, with the cookie or the token as a field of its header.           *)
Asks(c, form, cookie, token) ==
  /\ Prompt /\ Allowed(c)
  /\ phase' = "connecting"
  /\ request' = [command |-> c, user |-> form, cookie |-> cookie, token |-> token]
  /\ report' = None
  /\ UNCHANGED <<sockfd, stdout, leaked, wire, answerVars, failed,
                 is_connected, login_cookie, jwt_token, entered, serverVars, lost>>

AuthPost(c, u) == Asks(c, u, 0, None) /\ UNCHANGED cin
EnterLibrary == Asks("enter_library", None, login_cookie, None) /\ UNCHANGED cin
GetSummaryInfo == Asks("get_books", None, 0, jwt_token) /\ UNCHANGED cin
GetDetails == Asks("get_book", None, 0, jwt_token) /\ UNCHANGED cin
DeleteBook == Asks("delete_book", None, 0, jwt_token) /\ UNCHANGED cin
Logout == Asks("logout", None, login_cookie, None) /\ UNCHANGED cin

(* A page count that is not a number fails cin, for good; the book is sent. *)
AddBook == Asks("add_book", None, 0, jwt_token) /\ cin' \in {cin, "failed"}

(* The end of the input: main asks for ever for commands it does not get.   *)
EndOfInput ==
  /\ Prompt
  /\ cin' = "failed" /\ report' = "unsuccessful"
  /\ UNCHANGED <<exchangeVars, serverVars, lost,
                 is_connected, login_cookie, jwt_token, request, entered>>

Exit ==
  /\ Prompt
  /\ phase' = "exited"
  /\ UNCHANGED <<sockfd, stdout, leaked, wire, answerVars, failed,
                 clientVars, serverVars, lost>>

-----------------------------------------------------------------------------
(* The server, which is not in the repository: it refuses with a JSON       *)
(* "error", answers enter_library with a token and the two gets with JSON,  *)
(* and the rest with a text or nothing (README.md of Tema-3).               *)

Body(c) ==
  CASE c = "enter_library" -> "token"
    [] c = "get_books" -> "array"
    [] c = "get_book" -> "object"
    [] OTHER -> "text"

Accepted ==
  [ok |-> TRUE,
   body |-> Body(request.command),
   length |-> IF request.command \in {"add_book", "delete_book"} THEN 0 ELSE BodyLength,
   cookie |-> IF request.command = "login" THEN Len(logins) + 1 ELSE 0,
   token |-> IF request.command = "enter_library" THEN logins[request.cookie] ELSE None]

Refused == [ok |-> FALSE, body |-> "error", length |-> BodyLength, cookie |-> 0, token |-> None]

Acceptable ==
  CASE request.command = "register" -> request.user \notin accounts
    [] request.command = "login" -> request.user \in accounts /\ Len(logins) < MaxLogins
    [] request.command \in {"enter_library", "logout"} -> request.cookie \in sessions
    [] OTHER -> request.token # None

Serve ==
  /\ wire = "up" /\ reply = NoReply
  /\ \/ /\ Acceptable
        /\ reply' = Accepted
        /\ accounts' = IF request.command = "register" THEN accounts \cup {request.user} ELSE accounts
        /\ logins' = IF request.command = "login" THEN Append(logins, request.user) ELSE logins
        /\ sessions' = CASE request.command = "login" -> sessions \cup {Len(logins) + 1}
                         [] request.command = "logout" -> sessions \ {request.cookie}
                         [] OTHER -> sessions
     \/ /\ Acceptable => request.command \in {"login"} \cup LibraryCommands
        /\ reply' = Refused
        /\ UNCHANGED serverVars
  /\ UNCHANGED <<phase, sockfd, stdout, leaked, wire, first, taken, total, failed,
                 clientVars, lost>>

-----------------------------------------------------------------------------
(* What a command makes of its response.  A body that was cut does not      *)
(* parse.                                                                   *)

Parsed == Whole /\ reply.body # "text"
Json(body) == Parsed /\ reply.body = body

(* A login's cookie is in the header, and there only when it was accepted.  *)
login_cookie_handler == reply.cookie # 0

(* A body that parses and is no error is a success, of a login too, which   *)
(* then leaves the client as it is (the server's body is a text).           *)
auth_response_handler(c) ==
  HasHeader /\ ~Json("error") /\ (c = "login" => Parsed \/ login_cookie_handler)

LoggedIn == request.command = "login" /\ ~Parsed

entrance_response_handler == Json("token")
summary_handler == Json("array")
details_handler == Parsed /\ ~Json("error")

(* mutant: a body that does not parse is taken for an error *)
JsonOnly == Parsed /\ ~Json("error")

basic_json_handler == HasHeader /\ ~Json("error")

(* That the command c ends with EXIT_SUCCESS.                               *)
Succeeds(c) ==
  CASE c \in {"register", "login"} -> auth_response_handler(c)
    [] c = "enter_library" -> entrance_response_handler
    [] c = "get_books" -> summary_handler
    [] c = "get_book" -> details_handler
    [] OTHER -> basic_json_handler

ConnectedAfter(c) == c # "logout" /\ (is_connected \/ LoggedIn)

(* mutant: a token once stored is kept *)
FirstToken == IF jwt_token = None THEN reply.token ELSE jwt_token

NewToken == reply.token

(* mutant: logout never closes its socket *)
KeptByLogout == request.command = "logout"

(* logout returns without a close when there is no answer.                  *)
SocketKept == request.command = "logout" /\ Empty

Return ==
  /\ phase = "handling"
  /\ phase' = "idle"
  /\ IF SocketKept THEN NotClosed ELSE Closed
  /\ sockfd' = NoFd /\ wire' = "none" /\ reply' = NoReply
  /\ first' = 0 /\ taken' = 0 /\ total' = 0
  /\ request' = NoRequest
  /\ lost' = (lost \/ (reply # NoReply /\ ~Undisturbed))
  /\ UNCHANGED <<failed, cin, serverVars>>

(* A command that ends with EXIT_SUCCESS, and main's message.               *)
ReturnSuccess ==
  /\ Return /\ Succeeds(request.command)
  /\ report' = "successful"
  /\ is_connected' = ConnectedAfter(request.command)
  /\ login_cookie' = IF LoggedIn THEN reply.cookie ELSE login_cookie
  /\ jwt_token' = IF request.command = "enter_library" THEN NewToken ELSE jwt_token
  /\ entered' = CASE LoggedIn -> FALSE
                  [] request.command = "enter_library" -> TRUE
                  [] OTHER -> entered

ReturnFailure ==
  /\ Return /\ ~Succeeds(request.command)
  /\ report' = "unsuccessful"
  /\ UNCHANGED <<is_connected, login_cookie, jwt_token, entered>>

Unseen == UNCHANGED <<clientVars, serverVars, lost>>
Exchange == (Connect \/ Receive) /\ Unseen
Interrupt == Break /\ Unseen

Command ==
  \/ \E c \in Commands : TurnedAway(c)
  \/ \E u \in Users : AuthPost("register", u) \/ AuthPost("login", u)
  \/ EnterLibrary \/ GetSummaryInfo \/ GetDetails \/ AddBook \/ DeleteBook \/ Logout

Next ==
  \/ Command \/ EndOfInput \/ Exit
  \/ Exchange \/ Interrupt \/ (ReadStdout /\ Unseen)
  \/ Serve
  \/ ReturnSuccess \/ ReturnFailure

Spec == Init /\ [][Next]_libraryVars

(* The client goes on, and the server answers a request or its connection   *)
(* breaks before.                                                           *)
FairSpec ==
  /\ Spec
  /\ WF_libraryVars(Exchange) /\ WF_libraryVars(ReturnSuccess \/ ReturnFailure)
  /\ WF_libraryVars(Serve \/ (reply = NoReply /\ Interrupt))

-----------------------------------------------------------------------------
Requests == [command : Commands, user : Users \cup {None}, cookie : Nat, token : Users \cup {None}]

Replies ==
  [ok : BOOLEAN, body : {"none", "text", "error", "token", "array", "object"},
   length : 0 .. BodyLength, cookie : Nat, token : Users \cup {None}]

ExchangeTypeOK ==
  /\ phase \in {"idle", "connecting", "header", "body", "handling", "exited", "crashed"}
  /\ sockfd \in {NoFd, EXIT_FAILURE, HigherFd}
  /\ stdout \in {"terminal", "closed", "socket"} /\ leaked \in 0 .. MaxLeaked
  /\ wire \in {"none", "up", "closed", "reset"}
  /\ reply \in Replies
  /\ failed \in BOOLEAN
  /\ first \in Nat /\ taken \in Nat /\ total \in Nat

TypeOK ==
  /\ ExchangeTypeOK
  /\ is_connected \in BOOLEAN /\ login_cookie \in Nat /\ jwt_token \in Users \cup {None}
  /\ cin \in {"good", "failed"}
  /\ request \in Requests \cup {NoRequest}
  /\ report \in {None, "successful", "unsuccessful"}
  /\ logins \in Seq(Users) /\ sessions \subseteq DOMAIN logins /\ accounts \subseteq Users
  /\ lost \in BOOLEAN /\ entered \in BOOLEAN

(* While every answer has come in full, the client is connected exactly     *)
(* when the server has a session of it, which is the one of its cookie: no  *)
(* login leaves a session behind, and no logout keeps one (commands.cpp:6,  *)
(* 177).                                                                    *)
SessionsAgree ==
  phase = "idle" /\ ~lost => sessions = IF is_connected THEN {login_cookie} ELSE {}

(* What main prints of a command is what the server did, unless the answer  *)
(* was disturbed (commands.h:29, 55, 75, 84, 95).                           *)
ReportTrue ==
  [][phase = "handling" /\ phase' = "idle" /\ (reply = NoReply \/ Undisturbed)
       => (report' = "successful" <=> reply.ok)]_libraryVars

(* A token outlives the session it came from, as logout keeps it: that of   *)
(* another user than the one who is logged in is there only until the next  *)
(* enter_library (commands.cpp:178).                                        *)
TokenOfLogin ==
  entered => login_cookie \in DOMAIN logins /\ jwt_token = logins[login_cookie]

(* As long as every connection is made and holds, descriptor 1 is the       *)
(* terminal, no socket is left open, and the client neither crashes nor     *)
(* reads what is not its connection (server_ops.cpp:57, requests.cpp:120).  *)
DescriptorsSafe ==
  ~failed =>
    /\ stdout = "terminal" /\ leaked = 0
    /\ phase # "crashed"
    /\ phase \in {"header", "body"} => OwnConnection

(* Liveness, under FairSpec: a command ends, or its process, unless the     *)
(* number was cut in the response or there is no connection to read from    *)
(* (recv_from_server has no timeout: it ends when it has all it counts on). *)
CommandReturns ==
  phase \in {"connecting", "header", "body", "handling"} ~>
    \/ phase \in {"idle", "crashed"}
    \/ phase = "header" /\ ~OwnConnection
    \/ first > 0 /\ Outside(first)
-----------------------------------------------------------------------------
(* What is so between the steps of a command.                               *)

Busy == {"connecting", "header", "body", "handling"}

RequestPlace ==
  /\ phase \in {"idle", "exited"} => request = NoRequest
  /\ phase \in Busy =>
       /\ request.command \in Commands /\ Allowed(request.command)
       /\ request.command \in {"register", "login"} => request.user \in Users
       /\ request.command \in {"enter_library", "logout"} => request.cookie = login_cookie
  /\ is_connected => login_cookie \in DOMAIN logins

ReplyPlace ==
  /\ phase \in {"idle", "connecting", "exited"} =>
       wire = "none" /\ reply = NoReply /\ first = 0 /\ taken = 0 /\ total = 0
  /\ wire = "up" /\ phase # "header" => reply # NoReply
  /\ reply # NoReply =>
       /\ wire # "none" /\ request.command \in Commands
       /\ reply.ok \/ reply = Refused
       /\ reply.ok =>
            /\ reply.body = Body(request.command)
            /\ request.command = "login" => reply.cookie = Len(logins) /\ reply.cookie # 0
            /\ request.command = "enter_library" =>
                 request.cookie \in DOMAIN logins /\ reply.token = logins[request.cookie]

ReadPlace ==
  /\ phase = "header" => first = 0 /\ taken = 0
  /\ reply = NoReply => taken <= 1
  /\ phase = "body" => reply # NoReply
  /\ phase \in {"body", "handling"} /\ wire = "up" => first > 0
  /\ first <= taken
  /\ phase \in {"body", "handling"} /\ first >= HeaderSize => total = Size
  /\ phase = "handling" /\ Undisturbed => taken >= total

SessionPlace ==
  ~lost => sessions = IF reply.ok /\ request.command = "login" THEN {reply.cookie}
                      ELSE IF reply.ok /\ request.command = "logout" THEN {}
                      ELSE IF is_connected THEN {login_cookie} ELSE {}

DescriptorPlace ==
  /\ sockfd = HigherFd => leaked < MaxLeaked
  /\ phase \in {"header", "body", "handling"} => sockfd # NoFd
  /\ ~failed =>
       /\ phase \in {"header", "body", "handling"} => wire = "up" /\ sockfd = HigherFd
       /\ wire # "reset"

(* The inductive invariant (proved in LibraryProofs).                       *)
LibraryInv ==
  /\ TypeOK
  /\ RequestPlace /\ ReplyPlace /\ ReadPlace /\ SessionPlace /\ DescriptorPlace
  /\ SessionsAgree /\ TokenOfLogin /\ DescriptorsSafe
=============================================================================
