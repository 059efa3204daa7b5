---------------------------- MODULE LibraryProofs ----------------------------
(****************************************************************************)
(* Proofs about Library, for every set of users, every layout of a header   *)
(* and every limit: LibraryInv is inductive, and with it the client and the *)
(* server agree on the session, and what main prints is what was done, as   *)
(* long as the answers are not disturbed.                                   *)
(****************************************************************************)
EXTENDS Library, TLAPS

LEMMA Layout ==
  /\ HeaderSize \in Nat /\ HeaderSize > 1 /\ HeaderSize > NumberEnd /\ NumberEnd \in Nat
  /\ StatusEnd \in Nat /\ LabelEnd \in Nat /\ StatusEnd < LabelEnd /\ LabelEnd < NumberEnd
  /\ TermSize \in Nat /\ Word \in Nat /\ HeaderSize < Word /\ NotFound \in Nat
  /\ BodyLength \in Nat \ {0} /\ MaxLeaked \in Nat
BY ExchangeAssumption, LibraryAssumption DEF HeaderSize, NotFound

LEMMA ReplyTyped ==
  ASSUME TypeOK
  PROVE  /\ reply.ok \in BOOLEAN /\ reply.length \in Nat /\ Size \in Nat /\ Size >= HeaderSize
         /\ NoReply.ok = FALSE /\ NoReply.body = "none" /\ NoReply.length = 0
         /\ NoReply \in Replies /\ Refused \in Replies /\ Refused # NoReply
         /\ reply.cookie \in Nat /\ reply.token \in Users \cup {None}
BY Layout DEF TypeOK, ExchangeTypeOK, Replies, NoReply, Refused, Size, None

THEOREM InitLibrary == Init => LibraryInv
<1> SUFFICES ASSUME Init PROVE LibraryInv
  OBVIOUS
<1>1. DOMAIN logins = {} /\ logins \in Seq(Users) /\ NoReply \in Replies /\ NoReply.ok = FALSE
  BY Layout DEF Init, NoReply, Replies, None
<1>2. TypeOK
  <2>1. ExchangeTypeOK
    <3>1. reply \in Replies /\ 0 \in 0 .. MaxLeaked /\ 0 \in Nat
      BY <1>1, Layout DEF Init, InitExchange
    <3> QED BY <3>1 DEF Init, InitExchange, ExchangeTypeOK
  <2>2. request \in Requests \cup {NoRequest} /\ report \in {None, "successful", "unsuccessful"}
        /\ jwt_token \in Users \cup {None} /\ cin \in {"good", "failed"}
    BY DEF Init
  <2>3. sessions \subseteq DOMAIN logins /\ accounts \subseteq Users /\ login_cookie \in Nat
    BY <1>1 DEF Init
  <2> QED BY <1>1, <2>1, <2>2, <2>3 DEF Init, TypeOK
<1>3. RequestPlace /\ ReplyPlace /\ ReadPlace
  BY <1>1, Layout DEF Init, InitExchange, RequestPlace, ReplyPlace, ReadPlace, Busy
<1>4. SessionPlace /\ DescriptorPlace /\ SessionsAgree /\ TokenOfLogin /\ DescriptorsSafe
  BY <1>1 DEF Init, InitExchange, SessionPlace, DescriptorPlace, SessionsAgree, TokenOfLogin,
     DescriptorsSafe, NoRequest, NoFd, HigherFd
<1> QED BY <1>2, <1>3, <1>4 DEF LibraryInv

-----------------------------------------------------------------------------
(* What a command does before its request.                                  *)

LEMMA PromptKeeps ==
  ASSUME LibraryInv,
         \/ \E c \in Commands : TurnedAway(c)
         \/ EndOfInput
         \/ Exit
  PROVE  LibraryInv'
<1>1. /\ phase = "idle" /\ phase' \in {"idle", "exited"}
      /\ UNCHANGED <<sockfd, stdout, leaked, wire, reply, first, taken, total, failed>>
      /\ UNCHANGED <<logins, sessions, accounts, lost>>
      /\ UNCHANGED <<is_connected, login_cookie, jwt_token, request, entered>>
      /\ cin' \in {cin, "failed"} /\ report' \in {report, "unsuccessful"}
  BY DEF TurnedAway, EndOfInput, Exit, Prompt, exchangeVars, answerVars, serverVars, clientVars
<1>2. TypeOK'
  BY <1>1 DEF LibraryInv, TypeOK, ExchangeTypeOK
<1>3. RequestPlace' /\ ReplyPlace' /\ ReadPlace'
  BY <1>1 DEF LibraryInv, RequestPlace, ReplyPlace, ReadPlace, Busy
<1>4. SessionPlace' /\ DescriptorPlace' /\ SessionsAgree' /\ TokenOfLogin' /\ DescriptorsSafe'
  BY <1>1 DEF LibraryInv, SessionPlace, DescriptorPlace, SessionsAgree, TokenOfLogin, DescriptorsSafe
<1> QED BY <1>2, <1>3, <1>4 DEF LibraryInv

LEMMA AsksKeeps ==
  ASSUME LibraryInv, NEW c \in Commands, NEW form \in Users \cup {None}, NEW cookie \in Nat,
         NEW token \in Users \cup {None}, Asks(c, form, cookie, token), cin' \in {cin, "failed"},
         c \in {"register", "login"} => form \in Users,
         c \in {"enter_library", "logout"} => cookie = login_cookie
  PROVE  LibraryInv'
<1>1. /\ phase = "idle" /\ phase' = "connecting" /\ Allowed(c) /\ report' = None
      /\ request' = [command |-> c, user |-> form, cookie |-> cookie, token |-> token]
      /\ UNCHANGED <<sockfd, stdout, leaked, wire, reply, first, taken, total, failed>>
      /\ UNCHANGED <<logins, sessions, accounts, lost>>
      /\ UNCHANGED <<is_connected, login_cookie, jwt_token, entered>>
  BY DEF Asks, Prompt, answerVars, serverVars
<1>2. request' \in Requests /\ request'.command = c /\ request'.cookie = cookie
      /\ request'.user = form
  BY <1>1 DEF Requests
<1>3. TypeOK'
  BY <1>1, <1>2 DEF LibraryInv, TypeOK, ExchangeTypeOK
<1>4. Allowed(c)'
  BY <1>1 DEF Allowed
<1>5. RequestPlace'
  BY <1>1, <1>2, <1>4 DEF LibraryInv, RequestPlace, Busy
<1>6. reply = NoReply /\ reply.ok = FALSE
  BY <1>1 DEF LibraryInv, ReplyPlace, NoReply
<1>7. ReplyPlace' /\ ReadPlace'
  BY <1>1 DEF LibraryInv, ReplyPlace, ReadPlace
<1>8. SessionPlace' /\ DescriptorPlace' /\ SessionsAgree' /\ TokenOfLogin' /\ DescriptorsSafe'
  BY <1>1, <1>6 DEF LibraryInv, SessionPlace, DescriptorPlace, SessionsAgree, TokenOfLogin,
     DescriptorsSafe
<1> QED BY <1>3, <1>5, <1>7, <1>8 DEF LibraryInv

LEMMA CommandKeeps ==
  ASSUME LibraryInv, Command
  PROVE  LibraryInv'
<1>1. CASE \E c \in Commands : TurnedAway(c)
  BY <1>1, PromptKeeps
<1>2. None \in Users \cup {None} /\ 0 \in Nat /\ login_cookie \in Nat /\ jwt_token \in Users \cup {None}
  BY DEF LibraryInv, TypeOK
<1>3. Commands = {"register", "login", "enter_library", "logout",
                  "get_books", "get_book", "add_book", "delete_book"}
  BY DEF Commands, LibraryCommands
<1>4. CASE \E u \in Users : AuthPost("register", u) \/ AuthPost("login", u)
  BY <1>2, <1>3, <1>4, AsksKeeps DEF AuthPost
<1>5. CASE EnterLibrary \/ Logout
  BY <1>2, <1>3, <1>5, AsksKeeps DEF EnterLibrary, Logout
<1>6. CASE GetSummaryInfo \/ GetDetails \/ AddBook \/ DeleteBook
  BY <1>2, <1>3, <1>6, AsksKeeps DEF GetSummaryInfo, GetDetails, AddBook, DeleteBook
<1> QED BY <1>1, <1>4, <1>5, <1>6 DEF Command

-----------------------------------------------------------------------------
(* The exchange.  All of it but the answer to a request leaves the session  *)
(* alone.                                                                   *)

LEMMA SessionUnseen ==
  ASSUME LibraryInv, Unseen, phase \in Busy, phase' \in Busy \cup {"crashed"},
         UNCHANGED reply
  PROVE  RequestPlace' /\ SessionPlace' /\ SessionsAgree' /\ TokenOfLogin'
<1>1. /\ UNCHANGED <<logins, sessions, accounts, lost>>
      /\ UNCHANGED <<is_connected, login_cookie, jwt_token, request, entered>>
  BY DEF Unseen, clientVars, serverVars
<1>2. Allowed(request.command) => Allowed(request.command)'
  BY <1>1 DEF Allowed
<1> QED BY <1>1, <1>2 DEF LibraryInv, RequestPlace, SessionPlace, SessionsAgree, TokenOfLogin, Busy

LEMMA TypeUnseen ==
  ASSUME LibraryInv, Unseen, ExchangeTypeOK'
  PROVE  TypeOK'
BY DEF LibraryInv, TypeOK, Unseen, clientVars, serverVars

LEMMA ConnectKeeps ==
  ASSUME LibraryInv, Connect, Unseen
  PROVE  LibraryInv'
<1>1. /\ phase = "connecting" /\ phase' = "header" /\ UNCHANGED <<reply, first, taken, total>>
      /\ wire = "none" /\ reply = NoReply /\ first = 0 /\ taken = 0
  BY DEF Connect, Connected, NotConnected, answerVars, LibraryInv, ReplyPlace
<1>2. ExchangeTypeOK'
  <2>1. CASE Connected
    BY <1>1, <2>1 DEF Connected, NewFd, HigherFd, EXIT_FAILURE, LibraryInv, TypeOK, ExchangeTypeOK
  <2>2. CASE NotConnected
    BY <1>1, <2>2, Layout
       DEF NotConnected, NewFd, Kept, Free, HigherFd, EXIT_FAILURE, LibraryInv, TypeOK, ExchangeTypeOK
  <2> QED BY <2>1, <2>2 DEF Connect
<1>3. RequestPlace' /\ SessionPlace' /\ SessionsAgree' /\ TokenOfLogin'
  BY <1>1, SessionUnseen DEF Busy
<1>4. ReplyPlace' /\ ReadPlace'
  BY <1>1 DEF LibraryInv, ReplyPlace, ReadPlace
<1>5. DescriptorPlace' /\ DescriptorsSafe'
  <2>1. CASE Connected
    BY <1>1, <2>1 DEF Connected, Free, NewFd, NoFd, HigherFd, LibraryInv, DescriptorPlace,
       DescriptorsSafe, OwnConnection
  <2>2. CASE NotConnected
    BY <2>2 DEF NotConnected, DescriptorPlace, DescriptorsSafe, EXIT_FAILURE, NoFd, HigherFd
  <2> QED BY <2>1, <2>2 DEF Connect
<1> QED BY <1>2, <1>3, <1>4, <1>5, TypeUnseen DEF LibraryInv

LEMMA ReadHeaderKeeps ==
  ASSUME LibraryInv, ReadHeader, Unseen
  PROVE  LibraryInv'
<1>1. PICK n \in 1 .. Size :
        /\ first' = n /\ taken' = n
        /\ \E c \in ContentLength(n) : total' = HeaderEnd(n) + c
        /\ phase' = IF n < total' THEN "body" ELSE "handling"
  BY DEF ReadHeader
<1>2. PICK c \in ContentLength(n) : total' = HeaderEnd(n) + c
  BY <1>1
<1>3. /\ phase = "header" /\ wire # "none" /\ wire # "reset" /\ reply # NoReply
      /\ UNCHANGED <<sockfd, stdout, leaked, wire, reply, failed>>
  BY DEF ReadHeader, OwnConnection
<1>4. n \in Nat \ {0} /\ Size \in Nat
  BY ReplyTyped DEF LibraryInv
<1>5. HeaderEnd(n) \in Nat /\ c \in Nat
  BY <1>4, Layout, ExchangeAssumption, ReplyTyped DEF HeaderEnd, ContentLength, LibraryInv
<1>6. n >= HeaderSize => total' = Size
  <2>1. n >= HeaderSize => HeaderEnd(n) = HeaderSize
    BY <1>4, Layout DEF HeaderEnd, HeaderSize
  <2>2. n >= HeaderSize => c = reply.length
    BY <1>4, Layout DEF ContentLength, Outside
  <2> QED BY <1>2, <2>1, <2>2 DEF Size
<1>7. total' \in Nat
  BY <1>2, <1>5
<1>8. ExchangeTypeOK'
  BY <1>1, <1>3, <1>4, <1>7 DEF LibraryInv, TypeOK, ExchangeTypeOK
<1>9. RequestPlace' /\ SessionPlace' /\ SessionsAgree' /\ TokenOfLogin'
  BY <1>1, <1>3, SessionUnseen DEF Busy
<1>10. UNCHANGED <<logins, request>>
  BY DEF Unseen, clientVars, serverVars
<1>11. ReplyPlace'
  BY <1>1, <1>3, <1>10 DEF LibraryInv, ReplyPlace
<1>12. ReadPlace'
  BY <1>1, <1>3, <1>4, <1>6, <1>7 DEF LibraryInv, ReadPlace, Size, Undisturbed
<1>13. DescriptorPlace' /\ DescriptorsSafe'
  BY <1>1, <1>3 DEF LibraryInv, DescriptorPlace, DescriptorsSafe, OwnConnection
<1> QED BY <1>8, <1>9, <1>11, <1>12, <1>13, TypeUnseen DEF LibraryInv

LEMMA ReadBodyKeeps ==
  ASSUME LibraryInv, ReadBody, Unseen
  PROVE  LibraryInv'
<1>1. PICK n \in 1 .. Size - taken :
        taken' = taken + n /\ phase' = IF taken + n < total THEN "body" ELSE "handling"
  BY DEF ReadBody
<1>2. /\ phase = "body" /\ wire # "reset"
      /\ UNCHANGED <<sockfd, stdout, leaked, wire, reply, first, total, failed>>
  BY DEF ReadBody
<1>3. n \in Nat \ {0} /\ Size \in Nat /\ taken \in Nat /\ first \in Nat /\ total \in Nat
  <2>1. Size \in Nat /\ taken \in Nat /\ first \in Nat /\ total \in Nat
    BY ReplyTyped DEF LibraryInv, TypeOK, ExchangeTypeOK
  <2> QED BY <2>1
<1>4. ExchangeTypeOK'
  BY <1>1, <1>2, <1>3 DEF LibraryInv, TypeOK, ExchangeTypeOK
<1>5. RequestPlace' /\ SessionPlace' /\ SessionsAgree' /\ TokenOfLogin'
  BY <1>1, <1>2, SessionUnseen DEF Busy
<1>6. UNCHANGED <<logins, request>>
  BY DEF Unseen, clientVars, serverVars
<1>7. ReplyPlace'
  BY <1>1, <1>2, <1>6 DEF LibraryInv, ReplyPlace
<1>8. ReadPlace'
  BY <1>1, <1>2, <1>3 DEF LibraryInv, ReadPlace, Size, Undisturbed
<1>9. DescriptorPlace' /\ DescriptorsSafe'
  BY <1>1, <1>2 DEF LibraryInv, DescriptorPlace, DescriptorsSafe, OwnConnection
<1> QED BY <1>4, <1>5, <1>7, <1>8, <1>9, TypeUnseen DEF LibraryInv

LEMMA StopKeeps ==
  ASSUME LibraryInv, ReadEnd \/ ReadFails \/ ReadStdout \/ Break, Unseen
  PROVE  LibraryInv'
<1>1. /\ phase \in {"header", "body"} /\ UNCHANGED <<sockfd, stdout, leaked, reply, first, total>>
      /\ wire' \in {"none", "up", "closed", "reset"} /\ failed' \in BOOLEAN
      /\ phase' \in {"header", "body", "handling", "crashed"}
      /\ taken' \in {taken, 0, 1}
  BY DEF ReadEnd, ReadFails, ReadStdout, Break, answerVars, LibraryInv, TypeOK, ExchangeTypeOK
<1>2. ExchangeTypeOK'
  BY <1>1 DEF LibraryInv, TypeOK, ExchangeTypeOK
<1>3. RequestPlace' /\ SessionPlace' /\ SessionsAgree' /\ TokenOfLogin'
  BY <1>1, SessionUnseen DEF Busy
<1>4. UNCHANGED <<logins, request>>
  BY DEF Unseen, clientVars, serverVars
<1>5. ReplyPlace' /\ ReadPlace'
  BY <1>1, <1>4, Layout
     DEF ReadEnd, ReadFails, ReadStdout, Break, answerVars, LibraryInv, ReplyPlace, ReadPlace,
         OwnConnection, Undisturbed, Size
<1>6. DescriptorPlace' /\ DescriptorsSafe'
  BY <1>1 DEF ReadEnd, ReadFails, ReadStdout, Break, LibraryInv, DescriptorPlace, DescriptorsSafe,
     OwnConnection
<1> QED BY <1>2, <1>3, <1>5, <1>6, TypeUnseen DEF LibraryInv

-----------------------------------------------------------------------------
(* The server's answer.                                                     *)

LEMMA ServeKeeps ==
  ASSUME LibraryInv, Serve
  PROVE  LibraryInv'
<1> DEFINE c == request.command
<1>1. /\ wire = "up" /\ reply = NoReply /\ reply.ok = FALSE
      /\ UNCHANGED <<phase, sockfd, stdout, leaked, wire, first, taken, total, failed>>
      /\ UNCHANGED <<is_connected, login_cookie, jwt_token, cin, request, report, entered, lost>>
  BY DEF Serve, clientVars, NoReply
<1>2. phase = "header" /\ first = 0 /\ taken = 0
  BY <1>1 DEF LibraryInv, ReplyPlace, ReadPlace
<1>3. /\ c \in Commands /\ Allowed(c)
      /\ c \in {"enter_library", "logout"} => request.cookie = login_cookie
      /\ c \in {"register", "login"} => request.user \in Users
      /\ logins \in Seq(Users) /\ Len(logins) \in Nat /\ DOMAIN logins = 1 .. Len(logins)
      /\ sessions \subseteq DOMAIN logins
  BY <1>2 DEF LibraryInv, RequestPlace, Busy, TypeOK
<1>4. CASE reply' = Refused /\ UNCHANGED serverVars
  <2>1. Refused \in Replies /\ Refused # NoReply /\ Refused.ok = FALSE
    BY ReplyTyped DEF LibraryInv, Refused
  <2>2. UNCHANGED <<logins, sessions, accounts>>
    BY <1>4 DEF serverVars
  <2>3. TypeOK'
    BY <1>1, <1>4, <2>1, <2>2 DEF LibraryInv, TypeOK, ExchangeTypeOK
  <2>4. RequestPlace'
    BY <1>1, <1>3, <2>2 DEF LibraryInv, RequestPlace, Allowed
  <2>5. ReplyPlace' /\ ReadPlace'
    <3>1. /\ wire' = "up" /\ phase' = "header" /\ reply' # NoReply
          /\ reply'.ok = FALSE /\ request'.command \in Commands
          /\ taken' = 0 /\ first' = 0 /\ reply' = Refused /\ Refused' = Refused
      <4>1. reply' = Refused /\ Refused' = Refused
        BY <1>4 DEF Refused
      <4>2. reply' # NoReply /\ reply'.ok = FALSE
        BY <2>1, <4>1
      <4> QED BY <1>1, <1>2, <1>3, <4>1, <4>2
    <3> QED BY <3>1, Layout DEF ReplyPlace, ReadPlace
  <2>6. SessionPlace' /\ SessionsAgree' /\ TokenOfLogin'
    BY <1>1, <1>2, <1>4, <2>1, <2>2 DEF LibraryInv, SessionPlace, SessionsAgree, TokenOfLogin
  <2>7. DescriptorPlace' /\ DescriptorsSafe'
    BY <1>1 DEF LibraryInv, DescriptorPlace, DescriptorsSafe, OwnConnection
  <2> QED BY <2>3, <2>4, <2>5, <2>6, <2>7 DEF LibraryInv
<1>5. CASE /\ Acceptable
           /\ reply' = Accepted
           /\ accounts' = IF c = "register" THEN accounts \cup {request.user} ELSE accounts
           /\ logins' = IF c = "login" THEN Append(logins, request.user) ELSE logins
           /\ sessions' = CASE c = "login" -> sessions \cup {Len(logins) + 1}
                            [] c = "logout" -> sessions \ {request.cookie}
                            [] OTHER -> sessions
  <2>1. Len(logins') >= Len(logins) /\ logins' \in Seq(Users) /\ DOMAIN logins' = 1 .. Len(logins')
    BY <1>3, <1>5
  <2>2. /\ c = "login" => Len(logins') = Len(logins) + 1
        /\ c # "login" => logins' = logins
        /\ \A k \in DOMAIN logins : k \in DOMAIN logins' /\ logins'[k] = logins[k]
    <3>1. CASE c = "login"
      BY <1>3, <1>5, <2>1, <3>1
    <3>2. CASE c # "login"
      BY <1>5, <3>2
    <3> QED BY <3>1, <3>2
  <2>3. request.cookie \in sessions \/ c \notin {"enter_library", "logout"}
    BY <1>5 DEF Acceptable
  <2>4. c = "enter_library" => request.cookie \in DOMAIN logins /\ logins[request.cookie] \in Users
    BY <1>3, <2>3
  <2>5. /\ reply'.ok = TRUE /\ reply'.body = Body(c)
        /\ reply'.length \in 0 .. BodyLength
        /\ reply'.cookie = IF c = "login" THEN Len(logins) + 1 ELSE 0
        /\ reply'.token = IF c = "enter_library" THEN logins[request.cookie] ELSE None
    BY <1>5, Layout DEF Accepted
  <2>6. reply' \in Replies /\ reply' # NoReply
    <3>1. Body(c) \in {"text", "token", "array", "object"}
      BY DEF Body
    <3> QED BY <1>3, <1>5, <2>4, <2>5, <3>1, Layout DEF Accepted, Replies, NoReply
  <2>7. sessions' \subseteq DOMAIN logins' /\ accounts' \subseteq Users
    <3>1. accounts' \subseteq Users
      BY <1>3, <1>5 DEF LibraryInv, TypeOK
    <3>2. c = "login" => Len(logins) + 1 \in DOMAIN logins'
      BY <1>3, <2>1, <2>2
    <3>3. sessions' \subseteq sessions \cup (IF c = "login" THEN {Len(logins) + 1} ELSE {})
      <4>1. CASE c = "login"
        BY <1>5, <4>1
      <4>2. CASE c = "logout"
        BY <1>5, <4>2
      <4>3. CASE c \notin {"login", "logout"}
        BY <1>5, <4>3
      <4> QED BY <4>1, <4>2, <4>3
    <3> QED BY <1>3, <2>2, <3>1, <3>2, <3>3
  <2>8. TypeOK'
    BY <1>1, <2>1, <2>6, <2>7 DEF LibraryInv, TypeOK, ExchangeTypeOK
  <2>9. RequestPlace'
    BY <1>1, <1>3, <2>2 DEF LibraryInv, RequestPlace, Allowed
  <2>10. ReplyPlace'
    <3>1. /\ wire' = "up" /\ phase' = "header" /\ reply' # NoReply /\ request' = request
          /\ Body(c)' = Body(c)
      BY <1>1, <1>2, <2>6 DEF Body
    <3>2. c = "login" => reply'.cookie = Len(logins') /\ reply'.cookie # 0
      BY <1>3, <2>2, <2>5
    <3>3. c = "enter_library" =>
            request.cookie \in DOMAIN logins' /\ reply'.token = logins'[request.cookie]
      BY <2>2, <2>4, <2>5
    <3> QED BY <1>3, <2>5, <3>1, <3>2, <3>3 DEF ReplyPlace
  <2>11. ReadPlace'
    BY <1>1, <1>2, <2>6 DEF ReadPlace
  <2>12. SessionPlace'
    <3>1. ~lost => sessions = IF is_connected THEN {login_cookie} ELSE {}
      BY <1>1 DEF LibraryInv, SessionPlace
    <3>2. CASE c = "login"
      <4>1. ~is_connected /\ reply'.cookie = Len(logins) + 1
        BY <1>3, <2>5, <3>2 DEF Allowed, LibraryCommands
      <4>2. sessions' = sessions \cup {Len(logins) + 1}
        BY <1>5, <3>2
      <4> QED BY <1>1, <2>5, <3>1, <3>2, <4>1, <4>2 DEF SessionPlace
    <3>3. CASE c = "logout"
      <4>1. is_connected /\ request.cookie = login_cookie
        BY <1>3, <3>3 DEF Allowed, LibraryCommands
      <4>2. sessions' = sessions \ {request.cookie}
        BY <1>5, <3>3
      <4> QED BY <1>1, <2>5, <3>1, <3>3, <4>1, <4>2 DEF SessionPlace
    <3>4. CASE c \notin {"login", "logout"}
      BY <1>1, <1>5, <2>5, <3>1, <3>4 DEF SessionPlace
    <3> QED BY <3>2, <3>3, <3>4
  <2>13. SessionsAgree' /\ TokenOfLogin'
    BY <1>1, <1>2, <2>2 DEF LibraryInv, SessionsAgree, TokenOfLogin
  <2>14. DescriptorPlace' /\ DescriptorsSafe'
    BY <1>1 DEF LibraryInv, DescriptorPlace, DescriptorsSafe, OwnConnection
  <2> QED BY <2>8, <2>9, <2>10, <2>11, <2>12, <2>13, <2>14 DEF LibraryInv
<1> QED BY <1>4, <1>5 DEF Serve

-----------------------------------------------------------------------------
(* The end of a command.  An answer that was not disturbed is whole, and so *)
(* is understood.                                                           *)

LEMMA UndisturbedIsWhole ==
  ASSUME LibraryInv, phase = "handling", Undisturbed
  PROVE  Whole /\ ~Empty /\ reply # NoReply
<1>1. first >= HeaderSize /\ taken >= total /\ total = Size /\ reply # NoReply
  BY DEF LibraryInv, ReadPlace, ReplyPlace, Undisturbed
<1>2. first \in Nat /\ taken \in Nat /\ total \in Nat /\ Size \in Nat /\ Size >= HeaderSize
  BY ReplyTyped DEF LibraryInv, TypeOK, ExchangeTypeOK
<1> QED BY <1>1, <1>2, Layout DEF Whole, HasHeader, Empty

LEMMA WhatSucceeds ==
  ASSUME LibraryInv, phase = "handling", reply = NoReply \/ Undisturbed
  PROVE  Succeeds(request.command) <=> reply.ok
<1> DEFINE c == request.command
<1>1. c \in Commands
  BY DEF LibraryInv, RequestPlace, Busy
<1>2. CASE reply = NoReply
  <2>1. reply.ok = FALSE /\ taken <= 1 /\ taken \in Nat
    BY <1>2, ReplyTyped DEF LibraryInv, ReadPlace, TypeOK, ExchangeTypeOK
  <2>2. ~HasHeader
    BY <2>1, Layout DEF HasHeader
  <2> QED BY <2>1, <2>2 DEF Succeeds, auth_response_handler, entrance_response_handler,
          summary_handler, details_handler, basic_json_handler, Json, Parsed, Whole
<1>3. CASE Undisturbed
  <2>1. Whole /\ HasHeader /\ reply # NoReply
    BY <1>3, UndisturbedIsWhole DEF Whole
  <2>2. CASE reply = Refused
    <3>1. reply.ok = FALSE /\ Json("error") /\ ~Json("token") /\ ~Json("array")
      BY <2>1, <2>2 DEF Refused, Json, Parsed
    <3> QED BY <3>1 DEF Succeeds, auth_response_handler, entrance_response_handler,
            summary_handler, details_handler, basic_json_handler
  <2>3. CASE reply.ok
    <3>2. reply.body = Body(c) /\ (c = "login" => reply.cookie # 0)
      BY <2>1, <2>3 DEF LibraryInv, ReplyPlace
    <3>3. ~Json("error")
      BY <3>2 DEF Body, Json
    <3>4. CASE c = "enter_library"
      BY <2>1, <2>3, <3>2, <3>4
         DEF Body, Json, Parsed, Succeeds, entrance_response_handler
    <3>5. CASE c = "get_books"
      BY <2>1, <2>3, <3>2, <3>5 DEF Body, Json, Parsed, Succeeds, summary_handler
    <3>6. CASE c = "get_book"
      BY <2>1, <2>3, <3>2, <3>3, <3>6 DEF Body, Parsed, Succeeds, details_handler
    <3>7. CASE c \in {"register", "login"}
      BY <2>1, <2>3, <3>2, <3>3, <3>7
         DEF Succeeds, auth_response_handler, login_cookie_handler
    <3>8. CASE c \in {"add_book", "delete_book", "logout"}
      BY <2>1, <2>3, <3>3, <3>8 DEF Succeeds, basic_json_handler
    <3> QED BY <1>1, <3>4, <3>5, <3>6, <3>7, <3>8 DEF Commands, LibraryCommands
  <2> QED BY <2>1, <2>2, <2>3 DEF LibraryInv, ReplyPlace
<1> QED BY <1>2, <1>3

LEMMA ReturnKeeps ==
  ASSUME LibraryInv, ReturnSuccess \/ ReturnFailure
  PROVE  LibraryInv'
<1> DEFINE c == request.command
<1>1. /\ phase = "handling" /\ phase' = "idle" /\ sockfd' = NoFd /\ wire' = "none"
      /\ reply' = NoReply /\ first' = 0 /\ taken' = 0 /\ total' = 0 /\ request' = NoRequest
      /\ lost' = (lost \/ (reply # NoReply /\ ~Undisturbed))
      /\ UNCHANGED <<failed, cin, logins, sessions, accounts>>
      /\ IF SocketKept THEN NotClosed ELSE Closed
  BY DEF ReturnSuccess, ReturnFailure, Return, serverVars
<1>2. /\ c \in Commands /\ Allowed(c)
      /\ c \in {"enter_library", "logout"} => request.cookie = login_cookie
  BY <1>1 DEF LibraryInv, RequestPlace, Busy
<1>3. NoReply \in Replies /\ NoReply.ok = FALSE
  BY ReplyTyped DEF LibraryInv
<1>4. stdout' \in {"terminal", "closed", "socket"} /\ leaked' \in 0 .. MaxLeaked
  <2>1. CASE SocketKept
    <3>1. leaked \in Nat /\ leaked <= MaxLeaked /\ (sockfd # 1 => leaked < MaxLeaked)
      BY <1>1, Layout
         DEF LibraryInv, DescriptorPlace, TypeOK, ExchangeTypeOK, NoFd, EXIT_FAILURE
    <3> QED BY <1>1, <2>1, <3>1, Layout DEF NotClosed, LibraryInv, TypeOK, ExchangeTypeOK
  <2>2. CASE ~SocketKept
    BY <1>1, <2>2 DEF Closed, LibraryInv, TypeOK, ExchangeTypeOK
  <2> QED BY <2>1, <2>2
<1>5. ExchangeTypeOK'
  BY <1>1, <1>3, <1>4 DEF LibraryInv, TypeOK, ExchangeTypeOK
<1>6. /\ is_connected' \in BOOLEAN /\ entered' \in BOOLEAN
      /\ login_cookie' \in Nat /\ jwt_token' \in Users \cup {None}
      /\ report' \in {"successful", "unsuccessful"}
  BY ReplyTyped DEF LibraryInv, TypeOK, ReturnSuccess, ReturnFailure, ConnectedAfter, NewToken,
     LoggedIn
<1>7. TypeOK'
  BY <1>1, <1>5, <1>6 DEF LibraryInv, TypeOK
(* A login that succeeds was accepted: only that puts a cookie in a header. *)
<1>8. Succeeds("login") /\ c = "login" =>
        LoggedIn /\ reply.ok /\ reply.cookie = Len(logins) /\ reply.cookie # 0
  <2> SUFFICES ASSUME Succeeds("login"), c = "login"
               PROVE  LoggedIn /\ reply.ok /\ reply.cookie = Len(logins) /\ reply.cookie # 0
    OBVIOUS
  <2>1. NoReply.cookie = 0 /\ Refused.cookie = 0 /\ Refused.body = "error"
    BY DEF NoReply, Refused
  <2>2. HasHeader /\ ~Json("error") /\ (Parsed \/ login_cookie_handler)
    BY DEF Succeeds, auth_response_handler
  <2>3. reply # NoReply
    <3>1. ASSUME reply = NoReply PROVE ~HasHeader
      <4>1. taken <= 1 /\ taken \in Nat
        BY <3>1 DEF LibraryInv, ReadPlace, TypeOK, ExchangeTypeOK
      <4> QED BY <4>1, Layout DEF HasHeader
    <3> QED BY <2>2, <3>1
  <2>4. ~Parsed
    <3>1. reply = Refused => ~Parsed
      BY <2>1, <2>2 DEF Json
    <3>2. reply.ok => ~Parsed
      BY <1>1, <2>3 DEF LibraryInv, ReplyPlace, Body, Parsed
    <3> QED BY <2>3, <3>1, <3>2 DEF LibraryInv, ReplyPlace
  <2> QED BY <1>1, <2>1, <2>2, <2>3, <2>4
          DEF LoggedIn, login_cookie_handler, LibraryInv, ReplyPlace
(* A token, too, is in an accepted answer only.                             *)
<1>9. Succeeds("enter_library") /\ c = "enter_library" =>
        request.cookie \in DOMAIN logins /\ reply.token = logins[request.cookie]
  <2>1. NoReply.body # "token" /\ Refused.body # "token"
    BY DEF NoReply, Refused
  <2> QED BY <1>1, <2>1 DEF Succeeds, entrance_response_handler, Json, LibraryInv, ReplyPlace
<1>10. /\ logins \in Seq(Users) /\ Len(logins) \in Nat /\ DOMAIN logins = 1 .. Len(logins)
  BY DEF LibraryInv, TypeOK
<1>11. RequestPlace'
  <2>1. is_connected' => login_cookie' \in DOMAIN logins'
    <3>1. CASE ReturnSuccess /\ c = "login"
      BY <1>1, <1>8, <1>10, <3>1 DEF ReturnSuccess
    <3>2. CASE ReturnSuccess /\ c # "login"
      BY <1>1, <3>2 DEF ReturnSuccess, ConnectedAfter, LoggedIn, LibraryInv, RequestPlace
    <3>3. CASE ReturnFailure
      BY <1>1, <3>3 DEF ReturnFailure, LibraryInv, RequestPlace
    <3> QED BY <3>1, <3>2, <3>3
  <2> QED BY <1>1, <2>1 DEF RequestPlace, Busy
<1>12. ReplyPlace' /\ ReadPlace'
  BY <1>1 DEF ReplyPlace, ReadPlace
<1>13. TokenOfLogin'
  <2>1. CASE ReturnSuccess /\ c = "enter_library"
    BY <1>1, <1>2, <1>9, <2>1 DEF ReturnSuccess, TokenOfLogin, NewToken, LoggedIn
  <2>2. CASE ReturnSuccess /\ c = "login"
    BY <1>8, <2>2 DEF ReturnSuccess, TokenOfLogin
  <2>3. CASE ReturnSuccess /\ c \notin {"login", "enter_library"}
    BY <1>1, <2>3 DEF ReturnSuccess, TokenOfLogin, LoggedIn, LibraryInv
  <2>4. CASE ReturnFailure
    BY <1>1, <2>4 DEF ReturnFailure, TokenOfLogin, LibraryInv
  <2> QED BY <2>1, <2>2, <2>3, <2>4
<1>14. ~lost' => sessions' = IF is_connected' THEN {login_cookie'} ELSE {}
  <2> SUFFICES ASSUME ~lost'
               PROVE  sessions' = IF is_connected' THEN {login_cookie'} ELSE {}
    OBVIOUS
  <2>1. ~lost /\ (reply = NoReply \/ Undisturbed) /\ (Succeeds(c) <=> reply.ok)
    BY <1>1, WhatSucceeds
  <2>2. sessions = IF reply.ok /\ c = "login" THEN {reply.cookie}
                   ELSE IF reply.ok /\ c = "logout" THEN {}
                   ELSE IF is_connected THEN {login_cookie} ELSE {}
    BY <2>1 DEF LibraryInv, SessionPlace
  <2>3. CASE ReturnSuccess
    <3>1. CASE c = "login"
      BY <1>1, <1>8, <2>1, <2>2, <2>3, <3>1 DEF ReturnSuccess, ConnectedAfter
    <3>2. CASE c # "login"
      BY <1>1, <2>1, <2>2, <2>3, <3>2 DEF ReturnSuccess, ConnectedAfter, LoggedIn
    <3> QED BY <3>1, <3>2
  <2>4. CASE ReturnFailure
    BY <1>1, <2>1, <2>2, <2>4 DEF ReturnFailure
  <2> QED BY <2>3, <2>4
<1>15. SessionPlace' /\ SessionsAgree'
  BY <1>1, <1>3, <1>14 DEF SessionPlace, SessionsAgree
<1>16. DescriptorPlace' /\ DescriptorsSafe'
  <2>1. ~failed => stdout' = "terminal" /\ leaked' = 0
    <3>1. ~failed => ~Empty /\ sockfd = HigherFd /\ stdout = "terminal" /\ leaked = 0
      <4>1. first \in Nat /\ taken \in Nat
        BY DEF LibraryInv, TypeOK, ExchangeTypeOK
      <4> QED BY <1>1, <4>1 DEF LibraryInv, DescriptorPlace, DescriptorsSafe, ReadPlace, Empty
    <3> QED BY <1>1, <3>1 DEF SocketKept, Closed, HigherFd
  <2> QED BY <1>1, <2>1 DEF DescriptorPlace, DescriptorsSafe, NoFd, HigherFd
<1> QED BY <1>7, <1>11, <1>12, <1>13, <1>15, <1>16 DEF LibraryInv

-----------------------------------------------------------------------------
LEMMA NextLibrary ==
  ASSUME LibraryInv, [Next]_libraryVars
  PROVE  LibraryInv'
<1>1. CASE UNCHANGED libraryVars
  <2>1. /\ UNCHANGED <<phase, sockfd, stdout, leaked, wire, reply, first, taken, total, failed>>
        /\ UNCHANGED <<is_connected, login_cookie, jwt_token, cin, request, report, entered>>
        /\ UNCHANGED <<logins, sessions, accounts, lost>>
    BY <1>1 DEF libraryVars, exchangeVars, answerVars, clientVars, serverVars
  <2>2. TypeOK' /\ RequestPlace' /\ ReplyPlace'
    BY <2>1 DEF LibraryInv, TypeOK, ExchangeTypeOK, RequestPlace, ReplyPlace, Allowed
  <2>3. ReadPlace' /\ SessionPlace' /\ DescriptorPlace'
    BY <2>1 DEF LibraryInv, ReadPlace, SessionPlace, DescriptorPlace, Size, Undisturbed
  <2>4. SessionsAgree' /\ TokenOfLogin' /\ DescriptorsSafe'
    BY <2>1 DEF LibraryInv, SessionsAgree, TokenOfLogin, DescriptorsSafe, OwnConnection
  <2> QED BY <2>2, <2>3, <2>4 DEF LibraryInv
<1>2. CASE Next
  <2>1. CASE Command
    BY <2>1, CommandKeeps
  <2>2. CASE EndOfInput \/ Exit
    BY <2>2, PromptKeeps
  <2>3. CASE Exchange
    BY <2>3, ConnectKeeps, ReadHeaderKeeps, ReadBodyKeeps, StopKeeps DEF Exchange, Receive
  <2>4. CASE Interrupt \/ (ReadStdout /\ Unseen)
    BY <2>4, StopKeeps DEF Interrupt
  <2>5. CASE Serve
    BY <2>5, ServeKeeps
  <2>6. CASE ReturnSuccess \/ ReturnFailure
    BY <2>6, ReturnKeeps
  <2> QED BY <1>2, <2>1, <2>2, <2>3, <2>4, <2>5, <2>6 DEF Next
<1> QED BY <1>1, <1>2

(* The invariant that relates the session, the request under way and what   *)
(* has been read of its answer.                                             *)
THEOREM LibraryInductive == Spec => []LibraryInv
<1> QED BY InitLibrary, NextLibrary, PTL DEF Spec

(* The session of the client is that of the server (commands.cpp:4-37,      *)
(* 155-182) as long as every answer comes in full.                          *)
THEOREM ClientAndServerAgree == Spec => []SessionsAgree
<1>1. LibraryInv => SessionsAgree
  BY DEF LibraryInv
<1> QED BY LibraryInductive, <1>1, PTL

(* After enter_library the token is of the user who is logged in            *)
(* (response_handlers.cpp:99).                                              *)
THEOREM TokenIsOfLogin == Spec => []TokenOfLogin
<1>1. LibraryInv => TokenOfLogin
  BY DEF LibraryInv
<1> QED BY LibraryInductive, <1>1, PTL

(* The client reads its connections only, closes all of them and does not   *)
(* crash (requests.cpp:110-132), as long as they are made and hold.         *)
THEOREM DescriptorsAreSafe == Spec => []DescriptorsSafe
<1>1. LibraryInv => DescriptorsSafe
  BY DEF LibraryInv
<1> QED BY LibraryInductive, <1>1, PTL

(* What main prints of a command is what the server did (client.cpp:68-74). *)
THEOREM ReportsTruly == Spec => ReportTrue
<1>1. LibraryInv /\ [Next]_libraryVars =>
        [phase = "handling" /\ phase' = "idle" /\ (reply = NoReply \/ Undisturbed)
           => (report' = "successful" <=> reply.ok)]_libraryVars
  <2> SUFFICES ASSUME LibraryInv, Next, phase = "handling", phase' = "idle",
                      reply = NoReply \/ Undisturbed
               PROVE  report' = "successful" <=> reply.ok
    OBVIOUS
  <2>1. ReturnSuccess \/ ReturnFailure
    BY DEF Next, Command, TurnedAway, AuthPost, EnterLibrary, GetSummaryInfo, GetDetails, AddBook,
       DeleteBook, Logout, Asks, Prompt, EndOfInput, Exit, Exchange, Connect, Connected, NotConnected,
       Receive, ReadHeader, ReadBody, ReadEnd, ReadFails, ReadStdout, Interrupt, Break, Serve
  <2>2. CASE ReturnSuccess
    BY <2>2, WhatSucceeds DEF ReturnSuccess
  <2>3. CASE ReturnFailure
    BY <2>3, WhatSucceeds DEF ReturnFailure
  <2> QED BY <2>1, <2>2, <2>3
<1> QED BY LibraryInductive, <1>1, PTL DEF Spec, ReportTrue
=============================================================================
