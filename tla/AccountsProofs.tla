----------------------------- MODULE AccountsProofs -----------------------------
(***************************************************************************)
(* What Accounts keeps for any number of users, codes and requests under   *)
(* CarefulSpec: the sessions of a banned account are over, a code works    *)
(* once, and only a restore, or a save of a row that was read before the   *)
(* ban, takes a ban back.                                                  *)
(***************************************************************************)
EXTENDS Accounts, TLAPS

(* The calls that a request of each kind may have left, and what it has in  *)
(* memory from the beginning.                                               *)
Shape(e) ==
    \/ e = Idle
    \/ /\ e.user \in Users
       /\ \/ e.op \in Logins /\ e.calls \in {{"getVersion"}, {"setVersion"}}
          \/ e.op = "ban" /\ e.calls \in {{"save"}, {"count"}} /\ e.row = "BANNED"
          \/ e.op = "restore" /\ e.calls \in {{"save"}, {"count"}} /\ e.row = "ACTIVE"
          \/ e.op = "profile" /\ e.calls \in {{"findUser"}, {"save"}}
          \/ e.op = "register" /\ e.calls \in {{"setCode"}, {"insert"}, {"mail"}}
          \/ e.op = "forgot" /\ e.calls = {"setCode"}
          \/ /\ e.op = "checkCode" /\ e.calls \in {{"getCode"}, {"delCode"}}
             /\ e.code \in Codes
          \/ /\ e.op = "newPassword" /\ e.calls \in {{"getCode"}, {"delCode"}, {"save"}}
             /\ e.code \in Codes /\ e.row = "ACTIVE"
          \/ /\ e.op = "confirm"
             /\ e.calls # {} /\ e.calls \subseteq {"getCode", "delCode", "save"}
             /\ e.code \in Codes /\ e.row = "ACTIVE"

(* What a request can rely on until it is over, because those that would    *)
(* change it are kept apart.                                                *)
Promised(e) ==
    /\ e.op \in Logins => account[e.user] = "ACTIVE"
    /\ "setVersion" \in e.calls => e.version = version[e.user]
    /\ e.op = "ban" => version[e.user] < MaxVersion /\ account[e.user] # "NONE"
    /\ e.op = "restore" =>
          account[e.user] = IF "save" \in e.calls THEN "BANNED" ELSE "ACTIVE"
    /\ e.op = "profile" =>
          /\ account[e.user] \in {"ACTIVE", "BANNED"}
          /\ "save" \in e.calls => e.row \in {"ACTIVE", "BANNED"}
          /\ "save" \in e.calls /\ e.row = "BANNED" => account[e.user] = "BANNED"
    /\ "delCode" \in e.calls => e.code \notin spent[e.user]

(* The version still has to follow the account, up or down.                 *)
Counting(op, u) ==
    \E r \in Requests : User(r) = u /\ request[r].op = op /\ "count" \in request[r].calls

(* By its version the account is banned.                                    *)
Barred(u) ==
    \/ account[u] = "BANNED" /\ ~Counting("ban", u)
    \/ Counting("restore", u)

(* No token of a login is ahead of the version, and that of a barred        *)
(* account has left all of them behind.                                     *)
VersionSound(u) ==
    /\ Barred(u) => version[u] >= 0
    /\ \A t \in tokens[u] : t.kind # "refreshed" =>
          t.version <= version[u] /\ (Barred(u) => t.version # version[u])

UserSound(u) ==
    /\ tokens[u] # {} => account[u] \in {"ACTIVE", "BANNED"}
    /\ otp[u] \notin spent[u]
    /\ VersionSound(u)

(* The request e would save a status from before the account was banned;    *)
(* the ban knows of it.                                                     *)
Behind(e) ==
    e.op \in Savers /\ e.row \notin {"NONE", "BANNED"} /\ account[e.user] = "BANNED"

BehindKnown == \A q \in Requests : Behind(request[q]) => q \in overtaken

AccountsInv ==
    /\ AccountsTypeOK
    /\ Apart
    /\ BehindKnown
    /\ \A r \in Requests : Shape(request[r]) /\ Promised(request[r])
    /\ \A u \in Users : UserSound(u)

-----------------------------------------------------------------------------
LEMMA IdleFacts == Idle \in Request /\ Shape(Idle) /\ Promised(Idle) /\ ~Behind(Idle)
BY DEF Idle, Request, Ops, Calls, AccountStatus, Shape, Promised, Logins, Behind, Savers

LEMMA AccountsInit == Init => AccountsInv
<1> SUFFICES ASSUME Init
             PROVE  AccountsInv
  OBVIOUS
<1>1. AccountsTypeOK
  BY AccountsAssumption, IdleFacts DEF Init, AccountsTypeOK, AccountStatus
<1>2. Apart
  BY DEF Init, Apart, Clash, Idle, Savers, Logins, Bans, Checkers
<1>3. \A r \in Requests : Shape(request[r]) /\ Promised(request[r])
  BY IdleFacts DEF Init
<1>4. \A u \in Users : UserSound(u)
  <2> SUFFICES ASSUME NEW u \in Users
               PROVE  UserSound(u)
    OBVIOUS
  <2>1. version[u] = 0 /\ tokens[u] = {} /\ otp[u] \notin spent[u]
    BY DEF Init
  <2> QED
    BY <2>1 DEF UserSound, VersionSound
<1>5. BehindKnown
  BY IdleFacts DEF Init, BehindKnown
<1> QED
  BY <1>1, <1>2, <1>3, <1>4, <1>5 DEF AccountsInv

(* A request that is under way has a user, and shares it only with requests *)
(* that it does not clash with.                                             *)
LEMMA RequestFacts ==
    ASSUME AccountsInv, NEW r \in Requests
    PROVE  /\ request[r] \in Request /\ Shape(request[r]) /\ Promised(request[r])
           /\ request[r].calls # {} => request[r] # Idle /\ User(r) \in Users
           /\ \A q \in Requests : q # r /\ User(q) = User(r) =>
                /\ ~Clash(request[q].op, request[r].op)
                /\ ~Clash(request[r].op, request[q].op)
BY DEF AccountsInv, AccountsTypeOK, Shape, Idle, Apart, User

(* What is left to show of a step that changes one request at most: that    *)
(* the promises and the users are sound.                                    *)
LEMMA RequestStep ==
    ASSUME AccountsInv, Apart', AccountsTypeOK', BehindKnown',
           NEW r \in Requests, NEW e \in Request,
           request' = [request EXCEPT ![r] = e], Shape(e), Promised(e)',
           \A q \in Requests \ {r} : Promised(request[q])',
           \A u \in Users : UserSound(u)'
    PROVE  AccountsInv'
<1>1. \A q \in Requests : request'[q] = IF q = r THEN e ELSE request[q]
  BY DEF AccountsInv, AccountsTypeOK
<1>2. \A q \in Requests : Shape(request'[q])
  BY <1>1 DEF AccountsInv
<1>3. ASSUME NEW q \in Requests
      PROVE  Promised(request[q])'
  <2>1. CASE q = r
    BY <1>1, <2>1 DEF Promised
  <2>2. CASE q # r
    BY <2>2
  <2> QED
    BY <2>1, <2>2
<1>4. \A q \in Requests : Shape(request[q])'
  BY <1>2 DEF Shape
<1> QED
  BY <1>3, <1>4 DEF AccountsInv

(* What a call leaves of the record e, with the calls in rest to come.      *)
AfterCall(e, rest) == IF rest = {} THEN Idle ELSE [e EXCEPT !.calls = rest]

LEMMA AfterCallFacts ==
    ASSUME NEW e \in Request, NEW rest \in SUBSET Calls, NEW d, d = AfterCall(e, rest)
    PROVE  /\ d \in Request
           /\ rest = {} => d = Idle
           /\ rest # {} => /\ d.op = e.op /\ d.user = e.user /\ d.calls = rest
                           /\ d.row = e.row /\ d.code = e.code /\ d.version = e.version
BY IdleFacts DEF AfterCall, Request

LEMMA ReturnedFacts ==
    ASSUME NEW r, NEW call, NEW e, NEW more, Returned(r, call, e, more),
           NEW rest, rest = (request[r].calls \ {call}) \cup more
    PROVE  request' = [request EXCEPT ![r] = AfterCall(e, rest)]
BY DEF Returned, AfterCall

(* Nobody's version is to be counted but that of r, before or after.        *)
LEMMA CountingStays ==
    ASSUME NEW r \in Requests, NEW d \in Request, request \in [Requests -> Request],
           request' = [request EXCEPT ![r] = d],
           "count" \notin request[r].calls, "count" \notin d.calls
    PROVE  \A op, u : Counting(op, u)' <=> Counting(op, u)
<1>1. \A q \in Requests : request'[q] = IF q = r THEN d ELSE request[q]
  OBVIOUS
<1> QED
  BY <1>1 DEF Counting, User

(* A step of r that bans nobody leaves the other requests as they are.      *)
LEMMA BehindStays ==
    ASSUME AccountsInv, NEW r \in Requests, NEW d \in Request,
           request' = [request EXCEPT ![r] = d], UNCHANGED account,
           overtaken \ {r} \subseteq overtaken', Behind(d) => r \in overtaken'
    PROVE  BehindKnown'
<1>1. \A q \in Requests : request'[q] = IF q = r THEN d ELSE request[q]
  BY DEF AccountsInv, AccountsTypeOK
<1>2. ASSUME NEW q \in Requests, Behind(request'[q])
      PROVE  q \in overtaken'
  <2>1. CASE q = r
    BY <1>1, <1>2, <2>1
  <2>2. CASE q # r
    BY <1>1, <1>2, <2>2 DEF AccountsInv, BehindKnown
  <2> QED
    BY <2>1, <2>2
<1> QED
  BY <1>2 DEF BehindKnown, Behind

(* A request moves on, and neither store changes.                           *)
LEMMA QuietKeepsInv ==
    ASSUME AccountsInv, Apart', NEW r \in Requests, NEW d \in Request,
           request' = [request EXCEPT ![r] = d],
           UNCHANGED <<role, stores, tokens, mailed, refused>>,
           overtaken \ {r} \subseteq overtaken', overtaken' \subseteq overtaken,
           Shape(d), Promised(d), Behind(d) => r \in overtaken',
           "count" \notin request[r].calls, "count" \notin d.calls
    PROVE  AccountsInv'
<1>1. UNCHANGED <<role, account, version, key, otp, spent, tokens, mailed, refused>>
  BY DEF stores
<1>2. AccountsTypeOK'
  BY <1>1 DEF AccountsInv, AccountsTypeOK
<1>3. Promised(d)'
  BY <1>1 DEF Promised
<1>4. \A q \in Requests \ {r} : Promised(request[q])'
  BY <1>1 DEF AccountsInv, AccountsTypeOK, Promised
<1>5. \A op, u : Counting(op, u)' <=> Counting(op, u)
  BY CountingStays DEF AccountsInv, AccountsTypeOK
<1>6. \A u \in Users : UserSound(u)'
  BY <1>1, <1>5 DEF AccountsInv, UserSound, VersionSound, Barred
<1>7. BehindKnown'
  BY <1>1, BehindStays
<1> QED
  BY <1>2, <1>3, <1>4, <1>6, <1>7, RequestStep

LEMMA AskFacts ==
    ASSUME NEW op \in Ops, NEW u \in Users, NEW calls \in SUBSET Calls, NEW e,
           e = Asks(op, u, calls)
    PROVE  /\ e \in Request /\ e.op = op /\ e.user = u /\ e.calls = calls
           /\ e.row = "NONE" /\ e.code = NoCode /\ e.version = 0
BY IdleFacts DEF Asks, Request, Idle

LEMMA ArrivalKeepsInv ==
    ASSUME AccountsInv, Apart', UNCHANGED role,
           NEW r \in Requests, NEW u \in Users, Arrival(r, u)
    PROVE  AccountsInv'
<1>1. ASSUME NEW d \in Request, Arrives(r, d), Shape(d), Promised(d), ~Behind(d),
             "count" \notin d.calls
      PROVE  AccountsInv'
  <2>1. "count" \notin request[r].calls
    BY <1>1 DEF Arrives, Idle
  <2> QED
    BY <1>1, <2>1, QuietKeepsInv DEF Arrives
<1>2. CASE Login(r, u) \/ AdminLogin(r, u)
  <2>1. PICK op \in Logins : Arrives(r, Asks(op, u, {"getVersion"})) /\ account[u] = "ACTIVE"
    BY <1>2 DEF Login, AdminLogin, FindByEmail, Logins
  <2>2. PICK d : d = Asks(op, u, {"getVersion"})
    OBVIOUS
  <2>3. d \in Request /\ d.op = op /\ d.user = u /\ d.calls = {"getVersion"}
    BY <2>2, AskFacts DEF Ops, Calls, Logins
  <2> QED
    BY <1>1, <2>1, <2>2, <2>3 DEF Shape, Promised, Logins, Behind, Savers
<1>3. CASE Deactivate(r, u)
  <2>1. PICK a : a = Asks("ban", u, {"save"})
    OBVIOUS
  <2>2. PICK d : d = [a EXCEPT !.row = "BANNED"]
    OBVIOUS
  <2>3. d \in Request /\ d.op = "ban" /\ d.user = u /\ d.calls = {"save"} /\ d.row = "BANNED"
    BY <2>1, <2>2, AskFacts DEF Ops, Calls, Request, AccountStatus
  <2>4. Arrives(r, d) /\ account[u] # "NONE" /\ version[u] < MaxVersion
    BY <1>3, <2>1, <2>2 DEF Deactivate
  <2> QED
    BY <1>1, <2>3, <2>4 DEF Shape, Promised, Logins, Behind, Savers
<1>4. CASE RestoreUser(r, u)
  <2>1. PICK a : a = Asks("restore", u, {"save"})
    OBVIOUS
  <2>2. PICK d : d = [a EXCEPT !.row = "ACTIVE"]
    OBVIOUS
  <2>3. /\ d \in Request /\ d.op = "restore" /\ d.user = u /\ d.calls = {"save"}
        /\ d.row = "ACTIVE"
    BY <2>1, <2>2, AskFacts DEF Ops, Calls, Request, AccountStatus
  <2>4. Arrives(r, d) /\ account[u] = "BANNED"
    BY <1>4, <2>1, <2>2 DEF RestoreUser, FindBannedUser
  <2> QED
    BY <1>1, <2>3, <2>4 DEF Shape, Promised, Logins, Behind, Savers
<1>5. CASE ChangeProfile(r, u)
  <2>1. PICK d : d = Asks("profile", u, {"findUser"})
    OBVIOUS
  <2>2. /\ d \in Request /\ d.op = "profile" /\ d.user = u /\ d.calls = {"findUser"}
        /\ d.row = "NONE"
    BY <2>1, AskFacts DEF Ops, Calls
  <2>3. Arrives(r, d) /\ account[u] \in {"ACTIVE", "BANNED"}
    BY <1>5, <2>1 DEF ChangeProfile, AccountsInv, UserSound
  <2> QED
    BY <1>1, <2>2, <2>3 DEF Shape, Promised, Logins, Behind, Savers
<1>6. CASE Register(r, u) \/ ForgotPassword(r, u)
  <2>1. PICK op \in {"register", "forgot"} : Arrives(r, Asks(op, u, {"setCode"}))
    BY <1>6 DEF Register, ForgotPassword
  <2>2. PICK d : d = Asks(op, u, {"setCode"})
    OBVIOUS
  <2>3. d \in Request /\ d.op = op /\ d.user = u /\ d.calls = {"setCode"}
    BY <2>2, AskFacts DEF Ops, Calls
  <2> QED
    BY <1>1, <2>1, <2>2, <2>3 DEF Shape, Promised, Logins, Behind, Savers
<1>7. ASSUME NEW c \in Codes, EnterCode(r, u, c)
      PROVE  AccountsInv'
  <2>1. account[u] = "ACTIVE"
    BY <1>7 DEF EnterCode, FindByEmail
  <2>2. CASE Arrives(r, [Asks("checkCode", u, {"getCode"}) EXCEPT !.code = c])
    <3>1. PICK a : a = Asks("checkCode", u, {"getCode"})
      OBVIOUS
    <3>2. PICK d : d = [a EXCEPT !.code = c]
      OBVIOUS
    <3>3. /\ d \in Request /\ d.op = "checkCode" /\ d.user = u /\ d.calls = {"getCode"}
          /\ d.code = c
      BY <3>1, <3>2, AskFacts DEF Ops, Calls, Request
    <3> QED
      BY <1>1, <2>2, <3>1, <3>2, <3>3 DEF Shape, Promised, Logins, Behind, Savers
  <2>3. CASE Arrives(r, [Asks("newPassword", u, {"getCode"}) EXCEPT !.code = c,
                                                                !.row = "ACTIVE"])
    <3>1. PICK a : a = Asks("newPassword", u, {"getCode"})
      OBVIOUS
    <3> a \in Request /\ a.op = "newPassword" /\ a.user = u /\ a.calls = {"getCode"}
      BY <3>1, AskFacts DEF Ops, Calls
    <3>2. PICK d : d = [a EXCEPT !.code = c, !.row = "ACTIVE"]
      OBVIOUS
    <3>3. /\ d \in Request /\ d.op = "newPassword" /\ d.user = u /\ d.calls = {"getCode"}
          /\ d.code = c /\ d.row = "ACTIVE"
      BY <3>2 DEF Request, AccountStatus
    <3> QED
      BY <1>1, <2>1, <2>3, <3>1, <3>2, <3>3 DEF Shape, Promised, Logins, Behind, Savers
  <2>4. CASE Arrives(r, [Asks("confirm", u, {"getCode", "save"}) EXCEPT !.code = c,
                                                                !.row = "ACTIVE"])
    <3>1. PICK a : a = Asks("confirm", u, {"getCode", "save"})
      OBVIOUS
    <3> a \in Request /\ a.op = "confirm" /\ a.user = u /\ a.calls = {"getCode", "save"}
      BY <3>1, AskFacts DEF Ops, Calls
    <3>2. PICK d : d = [a EXCEPT !.code = c, !.row = "ACTIVE"]
      OBVIOUS
    <3>3. /\ d \in Request /\ d.op = "confirm" /\ d.user = u /\ d.calls = {"getCode", "save"}
          /\ d.code = c /\ d.row = "ACTIVE"
      BY <3>2 DEF Request, AccountStatus
    <3> QED
      BY <1>1, <2>1, <2>4, <3>1, <3>2, <3>3 DEF Shape, Promised, Logins, Behind, Savers
  <2> QED
    BY <1>7, <2>2, <2>3, <2>4 DEF EnterCode
<1> QED
  BY <1>2, <1>3, <1>4, <1>5, <1>6, <1>7 DEF Arrival

-----------------------------------------------------------------------------
(* Calls that only read.                                                    *)
LEMMA ReadsKeepInv ==
    ASSUME AccountsInv, Apart', UNCHANGED role, NEW r \in Requests,
           GetVersion(r) \/ FindUser(r) \/ GetCode(r)
    PROVE  AccountsInv'
<1>1. /\ request[r] \in Request /\ Shape(request[r]) /\ Promised(request[r])
  BY RequestFacts
<1>2. CASE GetVersion(r)
  <2>1. User(r) \in Users /\ version[User(r)] \in Int
    BY <1>1, <1>2, RequestFacts DEF GetVersion, Returned, AccountsInv, AccountsTypeOK
  <2>2. PICK e : e = [request[r] EXCEPT !.version = version[User(r)]]
    OBVIOUS
  <2>3. /\ e \in Request /\ e.op = request[r].op /\ e.user = User(r)
        /\ e.calls = request[r].calls /\ e.version = version[User(r)]
    BY <1>1, <2>1, <2>2 DEF Request, User
  <2>4. Returned(r, "getVersion", e, {"setVersion"})
    BY <1>2, <2>2 DEF GetVersion
  <2>5. /\ "getVersion" \in request[r].calls
        /\ request[r].op \in Logins /\ request[r].calls = {"getVersion"}
    BY <1>1, <2>4 DEF Returned, Shape, Idle
  <2>6. /\ (request[r].calls \ {"getVersion"}) \cup {"setVersion"} = {"setVersion"}
        /\ {"setVersion"} \in SUBSET Calls
    BY <2>5 DEF Calls
  <2>7. PICK d : d = AfterCall(e, {"setVersion"})
    OBVIOUS
  <2>8. /\ d \in Request /\ request' = [request EXCEPT ![r] = d]
        /\ d.op = e.op /\ d.user = e.user /\ d.calls = {"setVersion"} /\ d.version = e.version
    BY <2>3, <2>4, <2>6, <2>7, ReturnedFacts, AfterCallFacts
  <2>9. Shape(d) /\ Promised(d)
    BY <1>1, <2>1, <2>3, <2>5, <2>8 DEF Shape, Promised, Logins, User
  <2>10. ~Behind(d)
    BY <2>3, <2>5, <2>8 DEF Behind, Savers, Logins
  <2> QED
    BY <1>2, <2>5, <2>8, <2>9, <2>10, QuietKeepsInv DEF GetVersion, history
<1>3. CASE FindUser(r)
  <2>1. User(r) \in Users /\ account[User(r)] \in AccountStatus
    BY <1>1, <1>3, RequestFacts DEF FindUser, Returned, AccountsInv, AccountsTypeOK
  <2>2. PICK e : e = [request[r] EXCEPT !.row = account[User(r)]]
    OBVIOUS
  <2>3. /\ e \in Request /\ e.op = request[r].op /\ e.user = User(r)
        /\ e.calls = request[r].calls /\ e.row = account[User(r)]
    BY <1>1, <2>1, <2>2 DEF Request, User
  <2>4. Returned(r, "findUser", e, {"save"})
    BY <1>3, <2>2 DEF FindUser
  <2>5. /\ "findUser" \in request[r].calls
        /\ request[r].op = "profile" /\ request[r].calls = {"findUser"}
    BY <1>1, <2>4 DEF Returned, Shape, Idle
  <2>6. /\ (request[r].calls \ {"findUser"}) \cup {"save"} = {"save"}
        /\ {"save"} \in SUBSET Calls
    BY <2>5 DEF Calls
  <2>7. PICK d : d = AfterCall(e, {"save"})
    OBVIOUS
  <2>8. /\ d \in Request /\ request' = [request EXCEPT ![r] = d]
        /\ d.op = e.op /\ d.user = e.user /\ d.calls = {"save"} /\ d.row = e.row
    BY <2>3, <2>4, <2>6, <2>7, ReturnedFacts, AfterCallFacts
  <2>9. Shape(d) /\ Promised(d)
    BY <1>1, <2>1, <2>3, <2>5, <2>8 DEF Shape, Promised, Logins, User
  <2>10. ~Behind(d)
    BY <2>3, <2>8 DEF Behind
  <2> QED
    BY <1>3, <2>5, <2>8, <2>9, <2>10, QuietKeepsInv DEF FindUser, history
<1>4. CASE GetCode(r)
  <2> PICK more : more = IF otp[User(r)] = request[r].code THEN {"delCode"} ELSE {}
    OBVIOUS
  <2> PICK rest : rest = (request[r].calls \ {"getCode"}) \cup more
    OBVIOUS
  <2>1. Returned(r, "getCode", request[r], more) /\ more \in SUBSET Calls
    BY <1>4 DEF GetCode, Made, Calls
  <2>2. /\ "getCode" \in request[r].calls
        /\ request[r].op \in {"checkCode", "newPassword", "confirm"}
        /\ request[r].calls \in {{"getCode"}, {"getCode", "save"}, {"getCode", "delCode"},
                                 {"getCode", "delCode", "save"}}
        /\ User(r) \in Users /\ request[r].code \in Codes
    BY <1>1, <2>1 DEF Returned, Shape, Idle, User, Logins
  <2>3. more = {"delCode"} => request[r].code \notin spent[User(r)]
    BY <2>2 DEF AccountsInv, UserSound
  <2> PICK d : d = AfterCall(request[r], rest)
    OBVIOUS
  <2>4. /\ d \in Request /\ request' = [request EXCEPT ![r] = d]
        /\ rest = {} => d = Idle
        /\ rest # {} => /\ d.op = request[r].op /\ d.user = User(r) /\ d.calls = rest
                        /\ d.row = request[r].row /\ d.code = request[r].code
    <3>1. rest \in SUBSET Calls
      BY <1>1, <2>1 DEF Request
    <3>2. request' = [request EXCEPT ![r] = d]
      BY <2>1, ReturnedFacts
    <3>3. /\ d \in Request
          /\ rest = {} => d = Idle
          /\ rest # {} => /\ d.op = request[r].op /\ d.user = request[r].user
                          /\ d.calls = rest /\ d.row = request[r].row
                          /\ d.code = request[r].code
      BY <1>1, <3>1, AfterCallFacts
    <3> QED
      BY <3>2, <3>3 DEF User
  <2>5. Shape(d)
    <3>1. CASE rest = {}
      BY <2>4, <3>1, IdleFacts
    <3>2. CASE rest # {}
      <4>1. /\ d.op = request[r].op /\ d.user \in Users /\ d.calls = rest
            /\ d.row = request[r].row /\ d.code \in Codes
        BY <2>2, <2>4, <3>2
      <4>2. /\ request[r].op # "confirm" => request[r].calls = {"getCode"}
            /\ request[r].op # "checkCode" => request[r].row = "ACTIVE"
        BY <1>1, <2>2 DEF Shape, Idle, Logins
      <4>3. request[r].op # "confirm" => rest = {"delCode"}
        BY <3>2, <4>2
      <4>4. rest \subseteq {"getCode", "delCode", "save"}
        BY <2>2
      <4> QED
        BY <2>2, <3>2, <4>1, <4>2, <4>3, <4>4 DEF Shape
    <3> QED
      BY <3>1, <3>2
  <2>6. Promised(d)
    <3>1. CASE rest = {}
      BY <2>4, <3>1, IdleFacts
    <3>2. CASE rest # {}
      <4>1. "delCode" \in rest => request[r].code \notin spent[User(r)]
        BY <1>1, <2>2, <2>3 DEF Promised, User
      <4>2. "setVersion" \notin rest
        BY <2>2
      <4> QED
        BY <1>1, <2>2, <2>4, <3>2, <4>1, <4>2 DEF Promised, User, Logins
    <3> QED
      BY <3>1, <3>2
  <2>7. "count" \notin request[r].calls /\ "count" \notin d.calls
    BY <2>2, <2>4 DEF Idle
  <2>8. Behind(d) => r \in overtaken
    BY <2>4, IdleFacts DEF AccountsInv, BehindKnown, Behind, User
  <2> QED
    BY <1>4, <2>4, <2>5, <2>6, <2>7, <2>8, QuietKeepsInv DEF GetCode, history
<1> QED
  BY <1>2, <1>3, <1>4

LEMMA CrashKeepsInv ==
    ASSUME AccountsInv, Apart', UNCHANGED role, NEW r \in Requests, ~InBan(r), Crash(r)
    PROVE  AccountsInv'
<1>1. "count" \notin request[r].calls
  BY RequestFacts DEF Shape, InBan, Bans, Logins, Idle
<1>2. "count" \notin Idle.calls
  BY DEF Idle
<1> QED
  BY <1>1, <1>2, IdleFacts, QuietKeepsInv DEF Crash, history

-----------------------------------------------------------------------------
(* Calls that write.  Beside a ban or restore there is no other, and nobody *)
(* logs in; beside a restore nobody saves the row.                          *)
LEMMA AloneInBan ==
    ASSUME AccountsInv, NEW r \in Requests, InBan(r),
           NEW q \in Requests \ {r}, User(q) = User(r)
    PROVE  /\ request[q].op \notin Bans \cup Logins
           /\ request[r].op = "restore" => request[q].op \notin Savers
           /\ "count" \notin request[q].calls /\ "setVersion" \notin request[q].calls
<1>1. /\ ~Clash(request[q].op, request[r].op) /\ ~Clash(request[r].op, request[q].op)
      /\ Shape(request[q])
  BY RequestFacts
<1>2. /\ request[q].op \notin Bans \cup Logins
      /\ request[r].op = "restore" => request[q].op \notin Savers
  BY <1>1 DEF Clash, InBan, Bans, Savers, Logins
<1> QED
  BY <1>1, <1>2 DEF Shape, Idle, Bans, Logins

(* A profile, a new password or a confirmation saves the account ACTIVE, or *)
(* BANNED as it is; a ban or restore saves what it came for.                *)
LEMMA SaveKeepsInv ==
    ASSUME AccountsInv, Apart', UNCHANGED role, NEW r \in Requests, Save(r)
    PROVE  AccountsInv'
<1> PICK x : x = request[r]
  OBVIOUS
<1> PICK u : u = x.user
  OBVIOUS
<1> PICK more : more = IF x.op \in {"ban", "restore"} THEN {"count"} ELSE {}
  OBVIOUS
<1> PICK rest : rest = (x.calls \ {"save"}) \cup more
  OBVIOUS
<1> PICK d : d = AfterCall(x, rest)
  OBVIOUS
<1>1. /\ x \in Request /\ Shape(x) /\ Promised(x) /\ "save" \in x.calls
      /\ Returned(r, "save", x, more) /\ more \in SUBSET Calls
  BY RequestFacts DEF Save, Made, Returned, Calls
<1>2. u \in Users /\ User(r) = u
  BY <1>1, RequestFacts DEF User
<1>3. /\ account' = [account EXCEPT ![u] = x.row]
      /\ overtaken' = IF x.op = "ban" THEN overtaken \cup Holding(u) ELSE overtaken
      /\ UNCHANGED <<version, key, otp, spent, tokens, mailed, refused, role>>
  BY <1>2 DEF Save
<1>4. request' = [request EXCEPT ![r] = d]
  BY <1>1, ReturnedFacts
<1>5. /\ d \in Request
      /\ rest = {} => d = Idle
      /\ rest # {} => /\ d.op = x.op /\ d.user = u /\ d.calls = rest
                      /\ d.row = x.row /\ d.code = x.code
  BY <1>1, AfterCallFacts DEF Request
<1>6. /\ account \in [Users -> AccountStatus] /\ request \in [Requests -> Request]
      /\ AccountsTypeOK
  BY DEF AccountsInv, AccountsTypeOK
<1>7. account'[u] = x.row /\ \A w \in Users \ {u} : account'[w] = account[w]
  BY <1>2, <1>3, <1>6
<1>8. \A q \in Requests : request'[q] = IF q = r THEN d ELSE request[q]
  BY <1>4, <1>6
<1>9. AccountsTypeOK'
  <2>1. account' \in [Users -> AccountStatus]
    BY <1>1, <1>3, <1>6 DEF Request
  <2>2. request' \in [Requests -> Request]
    BY <1>4, <1>5, <1>6
  <2>3. overtaken' \subseteq Requests
    BY <1>3, <1>6 DEF AccountsTypeOK, Holding
  <2> QED
    BY <1>3, <1>6, <2>1, <2>2, <2>3 DEF AccountsTypeOK
<1>10. ASSUME NEW w \in Users \ {u}
       PROVE  UserSound(w)'
  <2>1. UserSound(w)
    BY DEF AccountsInv
  <2>2. d.user = u \/ d.calls = {}
    BY <1>5 DEF Idle
  <2>3. \A op : Counting(op, w)' <=> Counting(op, w)
    BY <1>2, <1>8, <2>2 DEF Counting, User
  <2> QED
    BY <1>3, <1>7, <2>1, <2>3 DEF UserSound, VersionSound, Barred
<1>11. CASE x.op \notin Bans
  <2>1. /\ x.op \in Savers /\ more = {}
        /\ x.op # "confirm" => x.calls = {"save"}
        /\ x.op # "profile" => x.row = "ACTIVE"
    BY <1>1, <1>11 DEF Shape, Bans, Idle, Logins, Savers
  <2>2. x.row \in {"ACTIVE", "BANNED"} /\ (x.row = "BANNED" => account[u] = "BANNED")
    BY <1>1, <2>1 DEF Promised
  <2>3. overtaken' = overtaken
    BY <1>3, <2>1 DEF Savers
  <2>4. \/ d = Idle
        \/ /\ d.op = "confirm" /\ d.user = u /\ d.calls = rest /\ rest # {}
           /\ rest \subseteq {"getCode", "delCode"} /\ rest \subseteq x.calls
           /\ d.row = "ACTIVE" /\ d.code = x.code /\ x.code \in Codes
    <3>1. CASE rest = {}
      BY <1>5, <3>1
    <3>2. CASE rest # {}
      <4>1. x.op = "confirm" /\ rest \subseteq {"getCode", "delCode"} /\ rest \subseteq x.calls
        BY <1>1, <2>1, <3>2 DEF Shape, Idle, Logins
      <4>2. x.code \in Codes
        BY <1>1, <4>1 DEF Shape, Idle, Logins
      <4> QED
        BY <1>5, <2>1, <3>2, <4>1, <4>2
    <3> QED
      BY <3>1, <3>2
  <2>5. Shape(d)
    <3>1. CASE d = Idle
      BY <3>1, IdleFacts
    <3>2. CASE d # Idle
      BY <1>2, <2>4, <3>2 DEF Shape
    <3> QED
      BY <3>1, <3>2
  <2>6. Promised(d)'
    <3>1. CASE d = Idle
      BY <3>1 DEF Promised, Idle, Logins
    <3>2. CASE d # Idle
      <4>1. "delCode" \in d.calls => d.code \notin spent'[u]
        BY <1>1, <1>3, <2>4, <3>2 DEF Promised
      <4> QED
        BY <2>4, <3>2, <4>1 DEF Promised, Logins
    <3> QED
      BY <3>1, <3>2
  <2>7. "count" \notin x.calls /\ "count" \notin d.calls
    BY <1>1, <2>1, <2>4 DEF Shape, Idle, Savers, Logins
  <2>8. ASSUME NEW q \in Requests \ {r}, User(q) = u
        PROVE  request[q].op \notin Savers \cup {"restore"}
    <3>1. ~Clash(x.op, request[q].op)
      BY <1>2, <2>8, RequestFacts
    <3> QED
      BY <2>1, <3>1 DEF Clash
  <2>9. ASSUME NEW q \in Requests \ {r}
        PROVE  Promised(request[q])'
    <3> PICK y : y = request[q]
      OBVIOUS
    <3>1. y = request'[q] /\ Promised(y) /\ Shape(y)
      BY <1>8 DEF AccountsInv
    <3>2. Promised(y)'
      <4>1. CASE y.user = u
        <5>1. y.op \notin Savers \cup {"restore"}
          BY <2>8, <4>1 DEF User
        <5>2. y.op \in Logins => account'[u] = "ACTIVE"
          BY <1>7, <2>2, <3>1, <4>1 DEF Promised
        <5>3. account'[u] # "NONE"
          BY <1>7, <2>2
        <5> QED
          BY <1>3, <3>1, <4>1, <5>1, <5>2, <5>3 DEF Promised, Savers
      <4>2. CASE y.user # u
        BY <4>2, <3>1, <1>3, <1>7 DEF Promised, Shape, Idle, Logins
      <4> QED
        BY <4>1, <4>2
    <3> QED
      BY <3>1, <3>2 DEF Promised
  <2>10. UserSound(u)'
    <3>1. \A op : Counting(op, u)' <=> Counting(op, u)
      BY <1>4, <1>5, <1>6, <2>7, CountingStays
    <3>2. Barred(u)' => Barred(u)
      BY <1>7, <2>2, <3>1 DEF Barred
    <3>3. UserSound(u)
      BY <1>2 DEF AccountsInv
    <3> QED
      BY <1>3, <1>7, <2>2, <3>2, <3>3 DEF UserSound, VersionSound
  <2>11. ASSUME NEW q \in Requests, Behind(request[q])'
         PROVE  q \in overtaken'
    <3>1. q # r
      <4>1. ~Behind(d)'
        BY <1>5, <1>7, <2>4 DEF Behind, Idle, Savers
      <4> QED
        BY <1>8, <2>11, <4>1 DEF Behind
    <3>2. request'[q] = request[q] /\ request[q].user # u
      BY <1>8, <2>8, <2>11, <3>1 DEF Behind, User
    <3>3. request[q].user \in Users
      BY <2>11, <3>2 DEF AccountsInv, Shape, Idle, Behind, Savers
    <3>4. Behind(request[q])
      BY <1>7, <2>11, <3>2, <3>3 DEF Behind
    <3> QED
      BY <2>3, <3>4 DEF AccountsInv, BehindKnown
  <2>12. \A w \in Users : UserSound(w)'
    BY <1>10, <2>10
  <2>13. BehindKnown'
    BY <2>11 DEF BehindKnown
  <2> QED
    BY <1>4, <1>5, <1>9, <2>5, <2>6, <2>9, <2>12, <2>13, RequestStep
<1>12. CASE x.op \in Bans
  <2>1. /\ rest = {"count"} /\ rest # {} /\ x.row = (IF x.op = "ban" THEN "BANNED" ELSE "ACTIVE")
        /\ InBan(r)
    BY <1>1, <1>12 DEF Shape, Bans, Idle, Logins, InBan
  <2>2. d.op = x.op /\ d.user = u /\ d.calls = {"count"} /\ d.row = x.row
    BY <1>5, <2>1
  <2>3. Shape(d)
    BY <1>2, <1>12, <2>1, <2>2 DEF Shape, Bans
  <2>4. Promised(d)'
    BY <1>1, <1>3, <1>7, <1>12, <2>1, <2>2 DEF Promised, Bans, Logins
  <2>5. ASSUME NEW q \in Requests \ {r}
        PROVE  Promised(request[q])'
    <3> PICK y : y = request[q]
      OBVIOUS
    <3>1. y = request'[q] /\ Promised(y) /\ Shape(y)
      BY <1>8 DEF AccountsInv
    <3>2. Promised(y)'
      <4>1. CASE y.user = u
        <5>1. /\ y.op \notin Bans \cup Logins /\ "setVersion" \notin y.calls
              /\ x.op = "restore" => y.op # "profile"
          BY <4>1, <1>2, <2>1, AloneInBan DEF User, Savers
        <5>2. y.op = "profile" => account'[u] = "BANNED"
          BY <1>7, <1>12, <2>1, <5>1 DEF Bans
        <5> QED
          BY <3>1, <4>1, <5>1, <5>2, <1>3 DEF Promised, Bans
      <4>2. CASE y.user # u
        BY <4>2, <3>1, <1>3, <1>7 DEF Promised, Shape, Idle, Logins
      <4> QED
        BY <4>1, <4>2
    <3> QED
      BY <3>1, <3>2 DEF Promised
  <2>6. UserSound(u)'
    <3>1. \A op : Counting(op, u)' <=> op = x.op
      <4>1. \A q \in Requests \ {r} : User(q) = u => "count" \notin request[q].calls
        BY <1>2, <2>1, AloneInBan
      <4> QED
        BY <1>8, <4>1, <2>2 DEF Counting, User
    <3>2. account'[u] \in {"ACTIVE", "BANNED"}
      BY <1>7, <2>1
    <3>3. Barred(u)' => x.op = "restore"
      BY <3>1, <1>7, <2>1, <1>12 DEF Barred, Bans
    <3>4. x.op = "restore" => Barred(u)
      <4>1. x.op = "restore" => account[u] = "BANNED"
        BY <1>1 DEF Promised
      <4>2. x.op = "restore" => ~Counting("ban", u)
        BY <1>2, <2>1, AloneInBan DEF Counting
      <4> QED
        BY <4>1, <4>2 DEF Barred
    <3>5. UserSound(u)
      BY <1>2 DEF AccountsInv
    <3> QED
      BY <3>2, <3>3, <3>4, <3>5, <1>3 DEF UserSound, VersionSound
  <2>7. ASSUME NEW q \in Requests, Behind(request[q])'
        PROVE  q \in overtaken'
    <3>1. q # r
      BY <1>8, <1>12, <2>2, <2>7 DEF Behind, Savers, Bans
    <3>2. request'[q] = request[q]
      BY <1>8, <3>1
    <3>3. request[q].op \in Savers /\ request[q].row \notin {"NONE", "BANNED"}
      BY <2>7, <3>2 DEF Behind
    <3>4. CASE User(q) = u
      <4>1. x.op = "ban"
        BY <1>2, <1>12, <2>1, <3>1, <3>3, <3>4, AloneInBan DEF Bans
      <4>2. q \in Holding(u)
        BY <3>3, <3>4 DEF Holding
      <4> QED
        BY <1>3, <4>1, <4>2
    <3>5. CASE User(q) # u
      <4>1. request[q].user \in Users \ {u}
        BY <3>3, <3>5 DEF AccountsInv, Shape, Idle, Savers, User
      <4>2. Behind(request[q])
        BY <1>7, <2>7, <3>2, <4>1 DEF Behind
      <4> QED
        BY <1>3, <4>2 DEF AccountsInv, BehindKnown
    <3> QED
      BY <3>4, <3>5
  <2>8. \A w \in Users : UserSound(w)'
    BY <1>10, <2>6
  <2>9. BehindKnown'
    BY <2>7 DEF BehindKnown
  <2> QED
    BY <1>4, <1>5, <1>9, <2>3, <2>4, <2>5, <2>8, <2>9, RequestStep
<1> QED
  BY <1>11, <1>12

(* The version catches up with the account.                                 *)
LEMMA CountKeepsInv ==
    ASSUME AccountsInv, Apart', UNCHANGED role, NEW r \in Requests, Count(r)
    PROVE  AccountsInv'
<1> PICK x : x = request[r]
  OBVIOUS
<1> PICK u : u = x.user
  OBVIOUS
<1>1. /\ x \in Request /\ Shape(x) /\ Promised(x) /\ "count" \in x.calls
      /\ Returned(r, "count", x, {}) /\ u \in Users /\ User(r) = u
  BY RequestFacts DEF Count, Made, Returned, User
<1>2. x.op \in Bans /\ x.calls = {"count"} /\ InBan(r)
  BY <1>1 DEF Shape, Idle, Logins, Bans, InBan
<1>3. request' = [request EXCEPT ![r] = Idle]
  <2>1. (x.calls \ {"count"}) \cup {} = {}
    BY <1>2
  <2> QED
    BY <1>1, <2>1, ReturnedFacts DEF AfterCall
<1>4. /\ AccountsTypeOK /\ version \in [Users -> -1..MaxVersion]
      /\ key \in [Users -> {"absent", "lapsing", "kept"}]
      /\ request \in [Requests -> Request]
  BY DEF AccountsInv, AccountsTypeOK
<1>5. /\ version' = [version EXCEPT ![u] = IF x.op = "ban" THEN @ + 1 ELSE @ - 1]
      /\ key' = [key EXCEPT ![u] = IF @ = "absent" THEN "kept" ELSE @]
      /\ UNCHANGED <<account, otp, spent, tokens, history, role>>
  BY <1>1 DEF Count
<1>6. /\ version'[u] = IF x.op = "ban" THEN version[u] + 1 ELSE version[u] - 1
      /\ \A w \in Users \ {u} : version'[w] = version[w]
      /\ version[u] \in -1..MaxVersion /\ MaxVersion \in Nat
  BY <1>1, <1>4, <1>5, AccountsAssumption
<1>7. UserSound(u)
  BY <1>1 DEF AccountsInv
<1>8. x.op = "restore" => Barred(u) /\ version[u] >= 0
  BY <1>1, <1>7 DEF UserSound, VersionSound, Barred, Counting, User
<1>9. version'[u] \in -1..MaxVersion
  <2>1. CASE x.op = "ban"
    BY <1>1, <1>6, <2>1 DEF Promised
  <2>2. CASE x.op # "ban"
    BY <1>2, <1>6, <1>8, <2>2 DEF Bans
  <2> QED
    BY <2>1, <2>2
<1>10. AccountsTypeOK'
  <2>1. version' \in [Users -> -1..MaxVersion]
    BY <1>4, <1>5, <1>6, <1>9
  <2>2. request' \in [Requests -> Request]
    BY <1>3, <1>4, IdleFacts
  <2>3. key' \in [Users -> {"absent", "lapsing", "kept"}]
    BY <1>4, <1>5
  <2>4. \A w \in Users : key'[w] = "absent" => version'[w] = 0
    BY <1>4, <1>5, <1>6 DEF AccountsTypeOK
  <2> QED
    BY <1>4, <1>5, <2>1, <2>2, <2>3, <2>4 DEF AccountsTypeOK, history
<1>11. ASSUME NEW q \in Requests \ {r}
       PROVE  Promised(request[q])'
  <2> PICK y : y = request[q]
    OBVIOUS
  <2>1. y = request'[q] /\ Promised(y) /\ Shape(y)
    BY <1>3, <1>4 DEF AccountsInv
  <2>2. Promised(y)'
    <3>1. CASE y.user = u
      <4>1. y.op \notin Bans \cup Logins /\ "setVersion" \notin y.calls
        BY <3>1, <1>1, <1>2, AloneInBan DEF User
      <4> QED
        BY <2>1, <4>1, <1>5 DEF Promised, Bans
    <3>2. CASE y.user # u
      BY <3>2, <2>1, <1>5, <1>6 DEF Promised, Shape, Idle, Logins
    <3> QED
      BY <3>1, <3>2
  <2> QED
    BY <2>1, <2>2 DEF Promised
<1>12. ASSUME NEW w \in Users
       PROVE  UserSound(w)'
  <2>1. \A q \in Requests : request'[q] = IF q = r THEN Idle ELSE request[q]
    BY <1>3, <1>4
  <2>2. "count" \notin Idle.calls
    BY DEF Idle
  <2>3. CASE w # u
    <3>1. \A op : Counting(op, w)' <=> Counting(op, w)
      BY <1>1, <2>1, <2>2, <2>3 DEF Counting, User
    <3> QED
      BY <3>1, <2>3, <1>5, <1>6 DEF AccountsInv, UserSound, VersionSound, Barred
  <2>4. CASE w = u
    <3>1. \A op : ~Counting(op, u)'
      BY <1>1, <1>2, <2>1, <2>2, AloneInBan DEF Counting, User
    <3>2. Barred(u)' => x.op = "ban"
      BY <3>1, <1>1, <1>2, <1>5 DEF Barred, Promised, Bans
    <3>3. \A t \in tokens[u] : t.version \in Int
      BY <1>1 DEF AccountsInv, AccountsTypeOK, Token
    <3>4. CASE x.op = "ban"
      BY <3>3, <3>4, <1>5, <1>6, <1>7, <2>4 DEF UserSound, VersionSound
    <3>5. CASE x.op = "restore"
      BY <3>2, <3>3, <3>5, <1>5, <1>6, <1>7, <1>8, <2>4 DEF UserSound, VersionSound
    <3> QED
      BY <3>4, <3>5, <1>2 DEF Bans
  <2> QED
    BY <2>3, <2>4
<1>13. Promised(Idle)'
  BY DEF Promised, Idle, Logins
<1>14. BehindKnown'
  BY <1>3, <1>5, IdleFacts, BehindStays DEF history
<1> QED
  BY <1>3, <1>10, <1>11, <1>12, <1>13, <1>14, IdleFacts, RequestStep

(* A login writes the version that is there already.                        *)
LEMMA SetVersionKeepsInv ==
    ASSUME AccountsInv, Apart', UNCHANGED role, NEW r \in Requests, SetVersion(r)
    PROVE  AccountsInv'
<1> PICK x : x = request[r]
  OBVIOUS
<1> PICK u : u = x.user
  OBVIOUS
<1> PICK new : new = [kind |-> x.op, version |-> x.version]
  OBVIOUS
<1>1. /\ x \in Request /\ Shape(x) /\ Promised(x) /\ "setVersion" \in x.calls
      /\ Returned(r, "setVersion", x, {}) /\ u \in Users /\ User(r) = u
  BY RequestFacts DEF SetVersion, Made, Returned, User
<1>2. x.op \in Logins /\ x.calls = {"setVersion"} /\ account[u] = "ACTIVE"
      /\ x.version = version[u]
  BY <1>1 DEF Shape, Promised, Idle, Logins
<1>3. request' = [request EXCEPT ![r] = Idle]
  <2>1. (x.calls \ {"setVersion"}) \cup {} = {}
    BY <1>2
  <2> QED
    BY <1>1, <2>1, ReturnedFacts DEF AfterCall
<1>4. /\ AccountsTypeOK /\ version \in [Users -> -1..MaxVersion]
      /\ key \in [Users -> {"absent", "lapsing", "kept"}]
      /\ tokens \in [Users -> SUBSET Token] /\ request \in [Requests -> Request]
  BY DEF AccountsInv, AccountsTypeOK
<1>5. /\ version' = [version EXCEPT ![u] = x.version]
      /\ key' = [key EXCEPT ![u] = "lapsing"]
      /\ tokens' = [tokens EXCEPT ![u] = @ \cup {new}]
      /\ UNCHANGED <<account, otp, spent, history, role>>
  BY <1>1 DEF SetVersion
<1>6. version' = version
  BY <1>2, <1>4, <1>5
<1>7. /\ tokens'[u] = tokens[u] \cup {new} /\ \A w \in Users \ {u} : tokens'[w] = tokens[w]
      /\ new \in Token /\ new.version = version[u]
  BY <1>1, <1>2, <1>4, <1>5 DEF Token, Logins, Request
<1>8. AccountsTypeOK'
  <2>1. tokens' \in [Users -> SUBSET Token]
    BY <1>4, <1>5, <1>7
  <2>2. request' \in [Requests -> Request]
    BY <1>3, <1>4, IdleFacts
  <2>3. key' \in [Users -> {"absent", "lapsing", "kept"}]
    BY <1>4, <1>5
  <2>4. \A w \in Users : key'[w] = "absent" => version'[w] = 0
    BY <1>4, <1>5, <1>6 DEF AccountsTypeOK
  <2> QED
    BY <1>4, <1>5, <1>6, <2>1, <2>2, <2>3, <2>4 DEF AccountsTypeOK, history
<1>9. ASSUME NEW q \in Requests \ {r}
      PROVE  Promised(request[q])'
  BY <1>3, <1>4, <1>5, <1>6 DEF AccountsInv, Promised
<1>10. \A op, w : Counting(op, w)' <=> Counting(op, w)
  <2>1. "count" \notin request[r].calls /\ "count" \notin Idle.calls
    BY <1>2 DEF Idle
  <2> QED
    BY <2>1, <1>3, <1>4, IdleFacts, CountingStays
<1>11. ~Barred(u)
  <2>1. ~Counting("restore", u)
    <3> SUFFICES ASSUME NEW q \in Requests, User(q) = u, request[q].op = "restore"
                 PROVE  FALSE
      BY DEF Counting
    <3>1. q # r
      BY <1>2 DEF Logins
    <3>2. ~Clash(request[r].op, request[q].op)
      BY <1>1, <3>1, RequestFacts
    <3> QED
      BY <1>2, <3>2 DEF Clash, Bans
  <2> QED
    BY <1>2, <2>1 DEF Barred
<1>12. ASSUME NEW w \in Users
       PROVE  UserSound(w)'
  <2>1. UserSound(w) /\ (Barred(w)' <=> Barred(w))
    BY <1>5, <1>10 DEF AccountsInv, Barred
  <2>2. CASE w # u
    BY <2>1, <2>2, <1>5, <1>6, <1>7 DEF UserSound, VersionSound
  <2>3. CASE w = u
    BY <2>1, <2>3, <1>1, <1>2, <1>4, <1>5, <1>6, <1>7, <1>11 DEF UserSound, VersionSound
  <2> QED
    BY <2>2, <2>3
<1>13. Promised(Idle)'
  BY DEF Promised, Idle, Logins
<1>14. BehindKnown'
  BY <1>3, <1>5, IdleFacts, BehindStays DEF history
<1> QED
  BY <1>3, <1>8, <1>9, <1>12, <1>13, <1>14, IdleFacts, RequestStep

LEMMA SetCodeKeepsInv ==
    ASSUME AccountsInv, Apart', UNCHANGED role, NEW r \in Requests, NEW c \in Codes,
           SetCode(r, c)
    PROVE  AccountsInv'
<1> PICK x : x = request[r]
  OBVIOUS
<1> PICK u : u = x.user
  OBVIOUS
<1> PICK rest : rest = IF x.op = "register" THEN {"insert"} ELSE {}
  OBVIOUS
<1>0. PICK e : e = [x EXCEPT !.code = c]
  OBVIOUS
<1> PICK d : d = AfterCall(e, rest)
  OBVIOUS
<1>1. /\ x \in Request /\ Shape(x) /\ Promised(x) /\ "setCode" \in x.calls
      /\ Returned(r, "setCode", e, rest) /\ u \in Users /\ User(r) = u
  BY <1>0, RequestFacts DEF SetCode, Returned, User
<1>2. x.op \in {"register", "forgot"} /\ x.calls = {"setCode"}
  BY <1>1 DEF Shape, Idle, Logins
<1>3. request' = [request EXCEPT ![r] = d]
  <2>1. rest = (x.calls \ {"setCode"}) \cup rest
    BY <1>2
  <2> QED
    BY <1>1, <2>1, ReturnedFacts
<1>4. /\ d \in Request
      /\ rest = {} => d = Idle
      /\ rest # {} => d.op = x.op /\ d.user = u /\ d.calls = rest
  <2>1. rest \in SUBSET Calls
    BY DEF Calls
  <2>2. e \in Request /\ e.op = x.op /\ e.user = u
    BY <1>0, <1>1 DEF Request
  <2>3. /\ d \in Request
        /\ rest = {} => d = Idle
        /\ rest # {} => d.op = e.op /\ d.user = e.user /\ d.calls = rest
    BY <2>1, <2>2, AfterCallFacts
  <2> QED
    BY <2>2, <2>3
<1>5. Shape(d) /\ Promised(d)' /\ "count" \notin d.calls
  <2>1. CASE x.op = "register"
    <3>1. d.op = "register" /\ d.user = u /\ d.calls = {"insert"}
      BY <1>4, <2>1
    <3> QED
      BY <1>1, <3>1 DEF Shape, Promised, Logins
  <2>2. CASE x.op # "register"
    <3>1. d = Idle
      BY <1>4, <2>2
    <3> QED
      BY <3>1, IdleFacts DEF Promised, Idle, Logins
  <2> QED
    BY <2>1, <2>2
<1>6. /\ otp' = [otp EXCEPT ![u] = c] /\ spent' = [spent EXCEPT ![u] = @ \ {c}]
      /\ UNCHANGED <<account, version, key, tokens, history, role>>
  BY <1>1 DEF SetCode
<1>7. /\ AccountsTypeOK /\ otp \in [Users -> Codes \cup {NoCode}]
      /\ spent \in [Users -> SUBSET Codes] /\ request \in [Requests -> Request]
  BY DEF AccountsInv, AccountsTypeOK
<1>8. /\ spent'[u] = spent[u] \ {c} /\ \A w \in Users \ {u} : spent'[w] = spent[w]
      /\ otp'[u] = c /\ \A w \in Users \ {u} : otp'[w] = otp[w]
  BY <1>1, <1>6, <1>7
<1>9. AccountsTypeOK'
  <2>1. otp' \in [Users -> Codes \cup {NoCode}] /\ spent' \in [Users -> SUBSET Codes]
    BY <1>6, <1>7
  <2>2. request' \in [Requests -> Request]
    BY <1>3, <1>4, <1>7
  <2> QED
    BY <1>6, <1>7, <2>1, <2>2 DEF AccountsTypeOK, history
<1>10. ASSUME NEW q \in Requests \ {r}
       PROVE  Promised(request[q])'
  <2> PICK y : y = request[q]
    OBVIOUS
  <2>1. y = request'[q] /\ Promised(y) /\ Shape(y)
    BY <1>3, <1>7 DEF AccountsInv
  <2>2. "delCode" \in y.calls => y.code \notin spent'[y.user]
    BY <2>1, <1>8 DEF Promised, Shape, Idle, Logins
  <2> QED
    BY <2>1, <2>2, <1>6 DEF Promised
<1>11. \A op, w : Counting(op, w)' <=> Counting(op, w)
  <2>1. "count" \notin request[r].calls
    BY <1>2
  <2> QED
    BY <2>1, <1>3, <1>4, <1>5, <1>7, CountingStays
<1>12. ASSUME NEW w \in Users
       PROVE  UserSound(w)'
  <2>1. UserSound(w) /\ (Barred(w)' <=> Barred(w))
    BY <1>6, <1>11 DEF AccountsInv, Barred
  <2>2. otp'[w] \notin spent'[w]
    BY <2>1, <1>8 DEF UserSound
  <2> QED
    BY <2>1, <2>2, <1>6 DEF UserSound, VersionSound
<1>13. ~Behind(d)
  BY <1>2, <1>4, IdleFacts DEF Behind, Savers
<1>14. BehindKnown'
  BY <1>3, <1>4, <1>6, <1>13, BehindStays DEF history
<1> QED
  BY <1>3, <1>4, <1>5, <1>9, <1>10, <1>12, <1>14, RequestStep

(* Only an unknown email gets a new account, on which nobody relies.        *)
LEMMA InsertKeepsInv ==
    ASSUME AccountsInv, Apart', UNCHANGED role, NEW r \in Requests, Insert(r)
    PROVE  AccountsInv'
<1> PICK x : x = request[r]
  OBVIOUS
<1> PICK u : u = x.user
  OBVIOUS
<1> PICK rest : rest = IF account[u] = "NONE" THEN {"mail"} ELSE {}
  OBVIOUS
<1> PICK d : d = AfterCall(x, rest)
  OBVIOUS
<1>1. /\ x \in Request /\ Shape(x) /\ "insert" \in x.calls /\ u \in Users /\ User(r) = u
  BY RequestFacts DEF Insert, Made, Returned, User
<1>2. x.op = "register" /\ x.calls = {"insert"}
  BY <1>1 DEF Shape, Idle, Logins
<1>3. request' = [request EXCEPT ![r] = d]
  <2>1. Returned(r, "insert", x, rest) /\ rest = (x.calls \ {"insert"}) \cup rest
    BY <1>1, <1>2 DEF Insert, Made
  <2> QED
    BY <2>1, ReturnedFacts
<1>13. /\ d \in Request
       /\ d = Idle \/ (d.op = "register" /\ d.user = u /\ d.calls = {"mail"})
  <2>1. rest \in SUBSET Calls
    BY DEF Calls
  <2> QED
    BY <1>1, <1>2, <2>1, AfterCallFacts
<1>14. Shape(d) /\ Promised(d)' /\ ~Behind(d)' /\ "count" \notin d.calls
  <2>1. CASE d = Idle
    BY <2>1, IdleFacts DEF Promised, Idle, Logins, Behind, Savers
  <2>2. CASE d # Idle
    BY <2>2, <1>1, <1>13 DEF Shape, Promised, Logins, Behind, Savers
  <2> QED
    BY <2>1, <2>2
<1>4. /\ AccountsTypeOK /\ account \in [Users -> AccountStatus]
      /\ request \in [Requests -> Request]
  BY DEF AccountsInv, AccountsTypeOK
<1>5. /\ account' = [account EXCEPT ![u] = IF @ = "NONE" THEN "INACTIVE" ELSE @]
      /\ UNCHANGED <<version, key, otp, spent, tokens, history, role>>
  BY <1>1 DEF Insert
<1>6. /\ account'[u] = IF account[u] = "NONE" THEN "INACTIVE" ELSE account[u]
      /\ \A w \in Users \ {u} : account'[w] = account[w]
  BY <1>1, <1>4, <1>5
<1>7. AccountsTypeOK'
  <2>1. account' \in [Users -> AccountStatus]
    BY <1>4, <1>5 DEF AccountStatus
  <2>2. request' \in [Requests -> Request]
    BY <1>3, <1>4, <1>13
  <2> QED
    BY <1>4, <1>5, <2>1, <2>2 DEF AccountsTypeOK, history
<1>8. ASSUME NEW q \in Requests \ {r}
      PROVE  Promised(request[q])'
  <2> PICK y : y = request[q]
    OBVIOUS
  <2>1. y = request'[q] /\ Promised(y) /\ Shape(y)
    BY <1>3, <1>4 DEF AccountsInv
  <2>2. CASE y = Idle
    BY <2>1, <2>2 DEF Promised, Idle, Logins
  <2>3. CASE y.user \in Users /\ account'[y.user] = account[y.user]
    BY <2>1, <2>3, <1>5 DEF Promised
  <2>4. CASE y.user \in Users /\ account[y.user] = "NONE" /\ y # Idle
    <3>1. /\ y.op \notin Logins \cup {"restore", "ban", "profile"}
          /\ "setVersion" \notin y.calls
      BY <2>1, <2>4 DEF Promised, Shape, Logins
    <3> QED
      BY <2>1, <3>1, <1>5 DEF Promised
  <2>5. y = Idle \/ y.user \in Users
    BY <2>1 DEF Shape
  <2> QED
    BY <2>2, <2>3, <2>4, <2>5, <1>6
<1>9. \A op, w : Counting(op, w)' <=> Counting(op, w)
  <2>1. "count" \notin request[r].calls
    BY <1>2
  <2> QED
    BY <2>1, <1>3, <1>4, <1>13, <1>14, CountingStays
<1>10. ASSUME NEW w \in Users
       PROVE  UserSound(w)'
  <2>1. UserSound(w) /\ (Barred(w)' <=> Barred(w))
    BY <1>6, <1>9 DEF AccountsInv, Barred
  <2>2. account[w] # "NONE" => account'[w] = account[w]
    BY <1>6
  <2> QED
    BY <2>1, <2>2, <1>5 DEF UserSound, VersionSound
<1>11. BehindKnown'
  <2>1. ASSUME NEW q \in Requests, Behind(request[q])'
        PROVE  q \in overtaken'
    <3>1. \A p \in Requests : request'[p] = IF p = r THEN d ELSE request[p]
      BY <1>3, <1>4
    <3>2. q # r
      BY <1>14, <2>1, <3>1 DEF Behind
    <3>3. request'[q] = request[q] /\ request[q].user \in Users
      BY <2>1, <3>1, <3>2 DEF AccountsInv, Shape, Idle, Behind, Savers
    <3>4. Behind(request[q])
      BY <1>6, <2>1, <3>3 DEF Behind
    <3> QED
      BY <1>5, <3>4 DEF AccountsInv, BehindKnown, history
  <2> QED
    BY <2>1 DEF BehindKnown
<1> QED
  BY <1>3, <1>7, <1>8, <1>10, <1>11, <1>13, <1>14, RequestStep

(* The mail is only noted.                                                  *)
LEMMA MailKeepsInv ==
    ASSUME AccountsInv, Apart', UNCHANGED role, NEW r \in Requests, Mail(r)
    PROVE  AccountsInv'
<1> PICK x : x = request[r]
  OBVIOUS
<1>1. /\ x \in Request /\ Shape(x) /\ "mail" \in x.calls
      /\ Returned(r, "mail", x, {}) /\ User(r) \in Users
  BY RequestFacts DEF Mail, Made, Returned
<1>2. x.calls = {"mail"}
  BY <1>1 DEF Shape, Idle, Logins
<1>3. request' = [request EXCEPT ![r] = Idle]
  <2>1. (x.calls \ {"mail"}) \cup {} = {}
    BY <1>2
  <2> QED
    BY <1>1, <2>1, ReturnedFacts DEF AfterCall
<1>4. /\ AccountsTypeOK /\ mailed \in [Users -> Codes \cup {NoCode}]
      /\ request \in [Requests -> Request]
  BY DEF AccountsInv, AccountsTypeOK
<1>5. /\ UNCHANGED <<role, account, version, key, otp, spent, tokens, refused, overtaken>>
      /\ mailed' = [mailed EXCEPT ![User(r)] = x.code]
  BY DEF Mail, stores
<1>6. AccountsTypeOK'
  <2>1. mailed' \in [Users -> Codes \cup {NoCode}]
    BY <1>1, <1>4, <1>5 DEF Request
  <2>2. request' \in [Requests -> Request]
    BY <1>3, <1>4, IdleFacts
  <2> QED
    BY <1>4, <1>5, <2>1, <2>2 DEF AccountsTypeOK
<1>7. \A q \in Requests \ {r} : Promised(request[q])'
  BY <1>3, <1>4, <1>5 DEF AccountsInv, Promised
<1>8. \A op, w : Counting(op, w)' <=> Counting(op, w)
  <2>1. "count" \notin request[r].calls /\ "count" \notin Idle.calls
    BY <1>2 DEF Idle
  <2> QED
    BY <2>1, <1>3, <1>4, IdleFacts, CountingStays
<1>9. \A u \in Users : UserSound(u)'
  BY <1>5, <1>8 DEF AccountsInv, UserSound, VersionSound, Barred
<1>10. BehindKnown'
  BY <1>3, <1>5, IdleFacts, BehindStays
<1>11. Promised(Idle)'
  BY DEF Promised, Idle, Logins
<1> QED
  BY <1>3, <1>6, <1>7, <1>9, <1>10, <1>11, IdleFacts, RequestStep

(* The code of r is used, which no other request has in hand.               *)
LEMMA DelCodeKeepsInv ==
    ASSUME AccountsInv, Apart', UNCHANGED role, NEW r \in Requests, DelCode(r)
    PROVE  AccountsInv'
<1> PICK x : x = request[r]
  OBVIOUS
<1> PICK u : u = x.user
  OBVIOUS
<1> PICK more : more = IF x.op = "newPassword" THEN {"save"} ELSE {}
  OBVIOUS
<1> PICK rest : rest = (x.calls \ {"delCode"}) \cup more
  OBVIOUS
<1> PICK d : d = AfterCall(x, rest)
  OBVIOUS
<1>1. /\ x \in Request /\ Shape(x) /\ Promised(x) /\ "delCode" \in x.calls
      /\ Returned(r, "delCode", x, more) /\ more \in SUBSET Calls
      /\ u \in Users /\ User(r) = u
  BY RequestFacts DEF DelCode, Made, Returned, User, Calls
<1>2. /\ x.op \in Checkers /\ x.code \in Codes
      /\ x.op # "confirm" => x.calls = {"delCode"}
      /\ x.op # "checkCode" => x.row = "ACTIVE"
      /\ x.calls \subseteq {"getCode", "delCode", "save"}
  BY <1>1 DEF Shape, Promised, Idle, Logins, Checkers
<1>3. request' = [request EXCEPT ![r] = d]
  BY <1>1, ReturnedFacts
<1>4. /\ d \in Request
      /\ rest = {} => d = Idle
      /\ rest # {} => /\ d.op = x.op /\ d.user = u /\ d.calls = rest
                      /\ d.row = x.row /\ d.code = x.code
  <2>1. rest \in SUBSET Calls
    BY <1>1 DEF Request
  <2> QED
    BY <1>1, <2>1, AfterCallFacts
<1>5. /\ otp' = [otp EXCEPT ![u] = NoCode]
      /\ spent' = [spent EXCEPT ![u] = @ \cup {x.code}]
      /\ UNCHANGED <<account, version, key, tokens, history, role>>
  BY <1>1 DEF DelCode
<1>6. Shape(d) /\ Promised(d)' /\ "count" \notin d.calls
  <2>1. CASE rest = {}
    <3>1. d = Idle
      BY <1>4, <2>1
    <3> QED
      BY <3>1, IdleFacts DEF Promised, Idle, Logins
  <2>2. CASE rest # {}
    <3>1. /\ d.op = x.op /\ d.user = u /\ d.calls = rest /\ d.row = x.row /\ d.code = x.code
      BY <1>4, <2>2
    <3>2. \/ x.op = "newPassword" /\ rest = {"save"}
          \/ x.op = "confirm" /\ rest \subseteq {"getCode", "save"}
      BY <1>2, <2>2 DEF Checkers
    <3>3. Shape(d)
      BY <1>1, <1>2, <2>2, <3>1, <3>2 DEF Shape
    <3>4. Promised(d)'
      BY <3>1, <3>2 DEF Promised, Logins
    <3> QED
      BY <3>1, <3>2, <3>3, <3>4
  <2> QED
    BY <2>1, <2>2
<1>7. /\ AccountsTypeOK /\ otp \in [Users -> Codes \cup {NoCode}]
      /\ spent \in [Users -> SUBSET Codes] /\ request \in [Requests -> Request]
  BY DEF AccountsInv, AccountsTypeOK
<1>8. /\ spent'[u] = spent[u] \cup {x.code}
      /\ \A w \in Users \ {u} : spent'[w] = spent[w]
      /\ otp'[u] = NoCode /\ \A w \in Users \ {u} : otp'[w] = otp[w]
  BY <1>1, <1>5, <1>7
<1>9. AccountsTypeOK'
  <2>1. otp' \in [Users -> Codes \cup {NoCode}] /\ spent' \in [Users -> SUBSET Codes]
    BY <1>2, <1>5, <1>7
  <2>2. request' \in [Requests -> Request]
    BY <1>3, <1>4, <1>7
  <2> QED
    BY <1>5, <1>7, <2>1, <2>2 DEF AccountsTypeOK, history
<1>10. ASSUME NEW q \in Requests \ {r}
       PROVE  Promised(request[q])'
  <2> PICK y : y = request[q]
    OBVIOUS
  <2>1. y = request'[q] /\ Promised(y) /\ Shape(y)
    BY <1>3, <1>7 DEF AccountsInv
  <2>2. y.user = u => y.op \notin Checkers
    BY <1>1, <1>2, RequestFacts DEF Clash, User
  <2>3. "delCode" \in y.calls => y.op \in Checkers /\ y.user \in Users
    BY <2>1 DEF Shape, Idle, Logins, Checkers
  <2>4. "delCode" \in y.calls => y.code \notin spent'[y.user]
    BY <2>1, <2>2, <2>3, <1>8 DEF Promised
  <2> QED
    BY <2>1, <2>4, <1>5 DEF Promised
<1>11. \A op, w : Counting(op, w)' <=> Counting(op, w)
  <2>1. "count" \notin request[r].calls
    BY <1>2
  <2> QED
    BY <2>1, <1>3, <1>4, <1>6, <1>7, CountingStays
<1>12. ASSUME NEW w \in Users
       PROVE  UserSound(w)'
  <2>1. UserSound(w) /\ (Barred(w)' <=> Barred(w))
    BY <1>5, <1>11 DEF AccountsInv, Barred
  <2>2. otp'[w] \notin spent'[w]
    <3>1. CASE w = u
      BY <3>1, <1>1, <1>2, <1>7, <1>8, AccountsAssumption
    <3>2. CASE w # u
      BY <3>2, <2>1, <1>8 DEF UserSound
    <3> QED
      BY <3>1, <3>2
  <2> QED
    BY <2>1, <2>2, <1>5 DEF UserSound, VersionSound
<1>13. Behind(d) => r \in overtaken
  BY <1>4, IdleFacts DEF AccountsInv, BehindKnown, Behind
<1>14. BehindKnown'
  BY <1>3, <1>4, <1>5, <1>13, BehindStays DEF history
<1> QED
  BY <1>3, <1>4, <1>6, <1>9, <1>10, <1>12, <1>14, RequestStep

-----------------------------------------------------------------------------
(* Steps that no request takes.                                             *)
LEMMA NoRequestKeepsInv ==
    ASSUME AccountsInv, UNCHANGED <<account, request, overtaken>>, AccountsTypeOK',
           \A q \in Requests : Promised(request[q])', \A u \in Users : UserSound(u)'
    PROVE  AccountsInv'
<1>1. Apart'
  BY DEF AccountsInv, Apart, User
<1>2. \A q \in Requests : Shape(request[q])'
  BY DEF AccountsInv, Shape
<1>3. BehindKnown'
  BY DEF AccountsInv, BehindKnown, Behind
<1> QED
  BY <1>1, <1>2, <1>3 DEF AccountsInv

LEMMA AloneKeepsInv ==
    ASSUME AccountsInv, UNCHANGED role, NEW u \in Users, Alone(u)
    PROVE  AccountsInv'
<1>1. /\ AccountsTypeOK /\ tokens \in [Users -> SUBSET Token]
      /\ otp \in [Users -> Codes \cup {NoCode}] /\ refused \in [Users -> Codes \cup {NoCode}]
  BY DEF AccountsInv, AccountsTypeOK
<1>2. UNCHANGED <<role, account, version, key, spent, mailed, overtaken, request>>
  BY DEF Alone, Refresh, TokenExpires, CodeExpires, ConfirmRefused, stores, history
<1>3. /\ tokens' \in [Users -> SUBSET Token]
      /\ \A w \in Users : \A t \in tokens'[w] :
            tokens[w] # {} /\ (t.kind # "refreshed" => t \in tokens[w])
  <2>1. CASE tokens' = tokens
    BY <1>1, <2>1
  <2>2. ASSUME NEW t \in tokens[u], TokenExpires(u, t)
        PROVE  /\ tokens' \in [Users -> SUBSET Token]
               /\ \A w \in Users : \A t2 \in tokens'[w] :
                     tokens[w] # {} /\ (t2.kind # "refreshed" => t2 \in tokens[w])
    BY <1>1, <2>2 DEF TokenExpires
  <2>3. ASSUME NEW t \in tokens[u], Refresh(u, t)
        PROVE  /\ tokens' \in [Users -> SUBSET Token]
               /\ \A w \in Users : \A t2 \in tokens'[w] :
                     tokens[w] # {} /\ (t2.kind # "refreshed" => t2 \in tokens[w])
    <3> PICK n : n = [t EXCEPT !.kind = "refreshed"]
      OBVIOUS
    <3>1. n \in Token /\ n.kind = "refreshed"
      BY <1>1 DEF Token
    <3>2. tokens' = [tokens EXCEPT ![u] = @ \cup {n}]
      BY <2>3 DEF Refresh
    <3> QED
      BY <1>1, <3>1, <3>2
  <2> QED
    BY <2>1, <2>2, <2>3 DEF Alone, CodeExpires, ConfirmRefused, stores, history
<1>4. /\ otp' \in [Users -> Codes \cup {NoCode}]
      /\ \A w \in Users : otp'[w] \in {otp[w], NoCode}
  BY <1>1 DEF Alone, Refresh, TokenExpires, CodeExpires, ConfirmRefused, stores, history
<1>5. refused' \in [Users -> Codes \cup {NoCode}]
  BY <1>1 DEF Alone, Refresh, TokenExpires, CodeExpires, ConfirmRefused, stores, history
<1>6. AccountsTypeOK'
  BY <1>1, <1>2, <1>3, <1>4, <1>5 DEF AccountsTypeOK
<1>7. \A q \in Requests : Promised(request[q])'
  BY <1>2 DEF AccountsInv, Promised
<1>8. ASSUME NEW w \in Users
      PROVE  UserSound(w)'
  <2>1. UserSound(w) /\ (Barred(w)' <=> Barred(w))
    BY <1>2 DEF AccountsInv, Barred, Counting, User
  <2>2. otp'[w] \notin spent'[w]
    BY <1>1, <1>2, <1>4, <2>1, AccountsAssumption DEF UserSound, AccountsTypeOK
  <2>3. tokens'[w] # {} => account'[w] \in {"ACTIVE", "BANNED"}
    BY <1>2, <1>3, <2>1 DEF UserSound
  <2>4. VersionSound(w)'
    BY <1>2, <1>3, <2>1 DEF UserSound, VersionSound
  <2> QED
    BY <2>2, <2>3, <2>4 DEF UserSound
<1> QED
  BY <1>2, <1>6, <1>7, <1>8, NoRequestKeepsInv

(* The version starts anew at 0 when no token of a login is left.           *)
LEMMA ExpiryKeepsInv ==
    ASSUME AccountsInv, UNCHANGED role, NEW u \in Users, ~InLogin(u), VersionExpires(u)
    PROVE  AccountsInv'
<1>1. /\ AccountsTypeOK /\ version \in [Users -> -1..MaxVersion]
      /\ key \in [Users -> {"absent", "lapsing", "kept"}]
      /\ MaxVersion \in Nat /\ 0 < MaxVersion
  BY AccountsAssumption DEF AccountsInv, AccountsTypeOK
<1>2. /\ key' = [key EXCEPT ![u] = "absent"] /\ version' = [version EXCEPT ![u] = 0]
      /\ UNCHANGED <<role, account, otp, spent, tokens, history, request>>
      /\ \A t \in tokens[u] : t.kind = "refreshed"
  BY DEF VersionExpires
<1>3. /\ version'[u] = 0 /\ key'[u] = "absent"
      /\ \A w \in Users \ {u} : version'[w] = version[w] /\ key'[w] = key[w]
  BY <1>1, <1>2
<1>4. AccountsTypeOK'
  <2>1. version' \in [Users -> -1..MaxVersion]
    BY <1>1, <1>2
  <2>2. key' \in [Users -> {"absent", "lapsing", "kept"}]
    BY <1>1, <1>2
  <2>3. \A w \in Users : key'[w] = "absent" => version'[w] = 0
    BY <1>1, <1>3 DEF AccountsTypeOK
  <2> QED
    BY <1>1, <1>2, <2>1, <2>2, <2>3 DEF AccountsTypeOK, history
<1>5. ASSUME NEW q \in Requests
      PROVE  Promised(request[q])'
  <2> PICK y : y = request[q]
    OBVIOUS
  <2>1. y = request'[q] /\ Promised(y) /\ Shape(y)
    BY <1>2 DEF AccountsInv
  <2>2. "setVersion" \in y.calls => y.user \in Users \ {u}
    <3>1. "setVersion" \in y.calls => y.op \in Logins /\ y.user \in Users
      BY <2>1 DEF Shape, Idle
    <3> QED
      BY <3>1 DEF InLogin, User
  <2>3. y.op = "ban" => y.user \in Users /\ version'[y.user] < MaxVersion
    <3>1. y.op = "ban" => y.user \in Users /\ version[y.user] < MaxVersion
      BY <2>1 DEF Shape, Promised, Idle
    <3> QED
      BY <3>1, <1>1, <1>3
  <2>4. "setVersion" \in y.calls => y.version = version'[y.user]
    BY <2>1, <2>2, <1>3 DEF Promised
  <2> QED
    BY <2>1, <2>3, <2>4, <1>2 DEF Promised
<1>6. ASSUME NEW w \in Users
      PROVE  UserSound(w)'
  <2>1. UserSound(w) /\ (Barred(w)' <=> Barred(w))
    BY <1>2 DEF AccountsInv, Barred, Counting, User
  <2>2. VersionSound(w)'
    <3>1. CASE w = u
      BY <3>1, <1>2, <1>3 DEF VersionSound
    <3>2. CASE w # u
      BY <3>2, <1>2, <1>3, <2>1 DEF UserSound, VersionSound
    <3> QED
      BY <3>1, <3>2
  <2> QED
    BY <1>2, <2>1, <2>2 DEF UserSound
<1> QED
  BY <1>2, <1>4, <1>5, <1>6, NoRequestKeepsInv DEF history

LEMMA AccountsStep == AccountsInv /\ [CarefulNext /\ Apart']_vars => AccountsInv'
<1> SUFFICES ASSUME AccountsInv, [CarefulNext /\ Apart']_vars
             PROVE  AccountsInv'
  OBVIOUS
<1>1. CASE UNCHANGED vars
  <2>1. /\ UNCHANGED <<account, request, overtaken>>
        /\ UNCHANGED <<role, version, key, tokens, otp, spent, mailed, refused>>
    BY <1>1 DEF vars, stores, history
  <2>2. AccountsTypeOK'
    BY <2>1 DEF AccountsInv, AccountsTypeOK
  <2>3. \A q \in Requests : Promised(request[q])'
    BY <2>1 DEF AccountsInv, Promised
  <2>4. \A u \in Users : UserSound(u)'
    BY <2>1 DEF AccountsInv, UserSound, VersionSound, Barred, Counting, User
  <2> QED
    BY <2>1, <2>2, <2>3, <2>4, NoRequestKeepsInv
<1>2. CASE CarefulNext /\ Apart'
  <2>1. Apart' /\ UNCHANGED role
    BY <1>2 DEF CarefulNext
  <2>2. ASSUME NEW r \in Requests, NEW u \in Users, Arrival(r, u)
        PROVE  AccountsInv'
    BY <2>1, <2>2, ArrivalKeepsInv
  <2>3. ASSUME NEW r \in Requests, Call(r)
        PROVE  AccountsInv'
    <3>1. CASE GetVersion(r) \/ FindUser(r) \/ GetCode(r)
      BY <2>1, <3>1, ReadsKeepInv
    <3>2. CASE Save(r)
      BY <2>1, <3>2, SaveKeepsInv
    <3>3. CASE SetVersion(r)
      BY <2>1, <3>3, SetVersionKeepsInv
    <3>4. CASE Count(r)
      BY <2>1, <3>4, CountKeepsInv
    <3>5. ASSUME NEW c \in Codes, SetCode(r, c)
          PROVE  AccountsInv'
      BY <2>1, <3>5, SetCodeKeepsInv
    <3>6. CASE Insert(r)
      BY <2>1, <3>6, InsertKeepsInv
    <3>7. CASE DelCode(r)
      BY <2>1, <3>7, DelCodeKeepsInv
    <3>8. CASE Mail(r)
      BY <2>1, <3>8, MailKeepsInv
    <3> QED
      BY <2>3, <3>1, <3>2, <3>3, <3>4, <3>5, <3>6, <3>7, <3>8 DEF Call
  <2>4. ASSUME NEW r \in Requests, ~InBan(r), Crash(r)
        PROVE  AccountsInv'
    BY <2>1, <2>4, CrashKeepsInv
  <2>5. ASSUME NEW u \in Users, Alone(u)
        PROVE  AccountsInv'
    BY <2>1, <2>5, AloneKeepsInv
  <2>6. ASSUME NEW u \in Users, ~InLogin(u), VersionExpires(u)
        PROVE  AccountsInv'
    BY <2>1, <2>6, ExpiryKeepsInv
  <2> QED
    BY <1>2, <2>2, <2>3, <2>4, <2>5, <2>6 DEF CarefulNext
<1> QED
  BY <1>1, <1>2

-----------------------------------------------------------------------------
(* Accounts, keys and requests are well typed; in particular no number of   *)
(* bans and restores takes a version below -1 (admin-user.service.ts:86).  *)
THEOREM AccountsTypeCorrect == CarefulSpec => []AccountsTypeOK
<1>1. AccountsInv => AccountsTypeOK
  BY DEF AccountsInv
<1> QED
  BY AccountsInit, AccountsStep, <1>1, PTL DEF CarefulSpec

(* Once deactivateUser has answered no token of a login opens the account,  *)
(* however often it was banned and restored (admin-user.service.ts:72).     *)
THEOREM BannedStayOut == CarefulSpec => []BannedLockedOut
<1>1. AccountsInv => BannedLockedOut
  <2> SUFFICES ASSUME AccountsInv, NEW u \in Users, account[u] = "BANNED",
                      ~ \E r \in Requests : User(r) = u /\ InBan(r),
                      NEW t \in tokens[u], t.kind # "refreshed"
               PROVE  ~Accepted(u, t)
    BY DEF BannedLockedOut
  <2>1. ~Counting("ban", u)
    BY DEF Counting, InBan, Bans
  <2>2. Barred(u)
    BY <2>1 DEF Barred
  <2> QED
    BY <2>2 DEF AccountsInv, UserSound, VersionSound, Accepted
<1> QED
  BY AccountsInit, AccountsStep, <1>1, PTL DEF CarefulSpec

(* No code is taken twice, whichever of the three routes takes it           *)
(* (authentication.service.ts:316).                                         *)
THEOREM CodesWorkOnce == CarefulSpec => CodeUsedOnce
<1>1. AccountsInv => \A r \in Requests : DelCode(r) => request[r].code \notin spent[User(r)]
  BY DEF AccountsInv, Promised, DelCode, Made, Returned, User
<1> QED
  BY AccountsInit, AccountsStep, <1>1, PTL DEF CarefulSpec, CodeUsedOnce

(* A registration does not take a ban back, and no request that reads the   *)
(* account once it is banned (admin-user.service.ts:76): beside restoreUser *)
(* only the save of a row read before the ban does, which writes the whole  *)
(* row (user.service.ts:98, authentication.service.ts:304).                 *)
THEOREM BansAreKept == CarefulSpec => OnlyRestoreReturns
<1>1. AccountsInv /\ [CarefulNext /\ Apart']_vars
        => [\A u \in Users :
              account[u] = "BANNED" /\ account'[u] # "BANNED"
                => \E r \in Requests :
                      User(r) = u /\ (request[r].op = "restore" \/ r \in overtaken)]_vars
  <2> SUFFICES ASSUME AccountsInv, CarefulNext, NEW u \in Users,
                      account[u] = "BANNED", account'[u] # "BANNED"
               PROVE  \E r \in Requests :
                        User(r) = u /\ (request[r].op = "restore" \/ r \in overtaken)
    OBVIOUS
  <2>1. account \in [Users -> AccountStatus]
    BY DEF AccountsInv, AccountsTypeOK
  <2>2. ASSUME NEW r \in Requests, NEW w \in Users, Arrival(r, w)
        PROVE  FALSE
    BY <2>2 DEF Arrival, Login, AdminLogin, Deactivate, RestoreUser, ChangeProfile,
       Register, ForgotPassword, EnterCode, Arrives, stores
  <2>3. ASSUME NEW r \in Requests, Call(r), ~Save(r)
        PROVE  FALSE
    BY <2>1, <2>3 DEF Call, GetVersion, SetVersion, Count, FindUser, SetCode, Insert,
       Mail, GetCode, DelCode, stores
  <2>4. ASSUME NEW r \in Requests, Save(r)
        PROVE  User(r) = u /\ (request[r].op = "restore" \/ r \in overtaken)
    <3>1. User(r) = u /\ request[r].row # "BANNED"
      BY <2>1, <2>4 DEF Save
    <3>2. Shape(request[r]) /\ Promised(request[r]) /\ "save" \in request[r].calls
      BY <2>4 DEF AccountsInv, Save, Made, Returned
    <3>3. CASE request[r].op \in Bans
      BY <3>1, <3>2, <3>3 DEF Shape, Idle, Logins, Bans, Savers
    <3>4. CASE request[r].op \notin Bans
      <4>1. request[r].op \in Savers /\ request[r].row # "NONE"
        BY <3>1, <3>2, <3>4 DEF Shape, Promised, Idle, Logins, Bans, Savers
      <4>2. Behind(request[r])
        BY <3>1, <4>1 DEF Behind, User
      <4> QED
        BY <3>1, <4>2 DEF AccountsInv, BehindKnown
    <3> QED
      BY <3>3, <3>4
  <2>5. ASSUME NEW r \in Requests, Crash(r)
        PROVE  FALSE
    BY <2>5 DEF Crash, stores
  <2>6. ASSUME NEW w \in Users, Alone(w) \/ VersionExpires(w)
        PROVE  FALSE
    BY <2>6 DEF Alone, Refresh, TokenExpires, CodeExpires, ConfirmRefused, VersionExpires,
       stores
  <2> QED
    BY <2>2, <2>3, <2>4, <2>5, <2>6 DEF CarefulNext
<1> QED
  BY AccountsInit, AccountsStep, <1>1, PTL DEF CarefulSpec, OnlyRestoreReturns
=============================================================================
