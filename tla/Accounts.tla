-------------------------------- MODULE Accounts --------------------------------
(***************************************************************************)
(* Accounts: registration, login and its tokens, forgotten passwords, ban  *)
(* and restore.  The account is a row in PostgreSQL; one-time codes and the *)
(* version that tokens are checked against are keys in Redis.  A request   *)
(* makes its calls to the two stores one after the other, nothing joins    *)
(* them, and the calls of several requests interleave.                     *)
(*                                                                         *)
(* Passwords are left out: a request with the wrong one goes no further.   *)
(***************************************************************************)
EXTENDS Integers, FiniteSets

CONSTANTS
    Users,          \* email addresses, and the accounts under them
    NoUser,
    Codes,          \* one-time codes
    NoCode,         \* there is no key user:otp:<email>
    Requests,       \* requests in flight
    MaxVersion,     \* bound: bans that are not yet taken back
    MaxTokens       \* bound: live tokens of an account

ASSUME AccountsAssumption ==
    /\ NoUser \notin Users /\ NoCode \notin Codes
    /\ MaxVersion \in Nat \ {0} /\ MaxTokens \in Nat \ {0}

VARIABLES
    role,       \* users.role, which nothing changes
    account,    \* users.status, "NONE" while the email is unknown
    version,    \* user:tokenVersion:<id>; 0 while there is no such key
    key,        \* whether that key exists, and whether it has a TTL
    tokens,     \* signed and not yet expired
    otp,        \* user:otp:<email>
    spent,      \* history: codes that have been used since they were drawn
    mailed,     \* history: the code in the mail that welcomes a new account
    refused,    \* history: that code, once confirmRegistration has refused it
    overtaken,  \* history: requests that read the row before a ban was saved
    request     \* what each request has in memory, and its next calls

stores  == <<account, version, key, otp, spent>>
history == <<mailed, refused, overtaken>>
vars    == <<role, stores, tokens, history, request>>

AccountStatus == {"NONE", "INACTIVE", "ACTIVE", "BANNED"}

(* A "login" token is the refresh token, with the access token signed       *)
(* beside it; a "refreshed" one is the access token that a refresh returns. *)
(* That one carries no role, so RolesGuard stops it and only routes without *)
(* a role (storage) let it in.  An administrator's access token is as long  *)
(* valid as a refresh token, and cannot be refreshed.                       *)
Token == [kind : {"login", "adminLogin", "refreshed"}, version : Int]

Ops   == {"none", "login", "adminLogin", "ban", "restore", "profile", "register", "forgot",
          "checkCode", "newPassword", "confirm"}
Calls == {"getVersion", "setVersion", "findUser", "save", "count",
          "setCode", "insert", "mail", "getCode", "delCode"}

Request == [op : Ops, user : Users \cup {NoUser}, calls : SUBSET Calls,
            row : AccountStatus, code : Codes \cup {NoCode}, version : Int]

Idle == [op |-> "none", user |-> NoUser, calls |-> {}, row |-> "NONE",
         code |-> NoCode, version |-> 0]

(* Versions never fall below -1: only a restore that finds its key expired  *)
(* goes below 0.                                                            *)
AccountsTypeOK ==
    /\ role    \in [Users -> {"USER", "ADMIN"}]
    /\ account \in [Users -> AccountStatus]
    /\ version \in [Users -> -1..MaxVersion]
    /\ key     \in [Users -> {"absent", "lapsing", "kept"}]
    /\ tokens  \in [Users -> SUBSET Token]
    /\ otp     \in [Users -> Codes \cup {NoCode}]
    /\ spent   \in [Users -> SUBSET Codes]
    /\ mailed  \in [Users -> Codes \cup {NoCode}]
    /\ refused \in [Users -> Codes \cup {NoCode}]
    /\ overtaken \subseteq Requests
    /\ request \in [Requests -> Request]
    /\ \A u \in Users : key[u] = "absent" => version[u] = 0

(* Seeded accounts are ACTIVE, the administrators' among them; accounts     *)
(* from before there was a status are INACTIVE.                             *)
Init ==
    /\ role \in [Users -> {"USER", "ADMIN"}]
    /\ account \in [Users -> {"NONE", "INACTIVE", "ACTIVE"}]
    /\ \A u \in Users : role[u] = "ADMIN" => account[u] = "ACTIVE"
    /\ version = [u \in Users |-> 0]
    /\ key = [u \in Users |-> "absent"]
    /\ tokens = [u \in Users |-> {}]
    /\ otp = [u \in Users |-> NoCode]
    /\ spent = [u \in Users |-> {}]
    /\ mailed = [u \in Users |-> NoCode]
    /\ refused = [u \in Users |-> NoCode]
    /\ overtaken = {}
    /\ request = [r \in Requests |-> Idle]

-----------------------------------------------------------------------------
(* Requests and their calls                                                 *)

User(r) == request[r].user

Arrives(r, e) ==
    /\ request[r] = Idle
    /\ request' = [request EXCEPT ![r] = e]
    /\ overtaken' = overtaken \ {r}
    /\ UNCHANGED <<stores, tokens, mailed, refused>>

(* A call of the request has returned: the record is as the call left it,   *)
(* with the calls in more still to come; without any the request is over.   *)
Returned(r, call, e, more) ==
    LET rest == (request[r].calls \ {call}) \cup more
    IN  /\ call \in request[r].calls
        /\ request' = [request EXCEPT ![r] =
                         IF rest = {} THEN Idle ELSE [e EXCEPT !.calls = rest]]

Made(r, call, more) == Returned(r, call, request[r], more)

Asks(op, u, calls) == [Idle EXCEPT !.op = op, !.user = u, !.calls = calls]

(* Mutant: the query does not ask for the status.                           *)
FindByEmailAny(u) == account[u] # "NONE"

FindByEmail(u) == account[u] = "ACTIVE"

(* Requests that have the row of an account in memory, not banned.          *)
Holding(u) ==
    {q \in Requests : User(q) = u /\ request[q].row \notin {"NONE", "BANNED"}}

(* save() writes the status the row had in memory, whatever it is by now.   *)
Save(r) ==
    /\ Made(r, "save", IF request[r].op \in {"ban", "restore"} THEN {"count"} ELSE {})
    /\ account' = [account EXCEPT ![User(r)] = request[r].row]
    /\ overtaken' = IF request[r].op = "ban" THEN overtaken \cup Holding(User(r))
                                             ELSE overtaken
    /\ UNCHANGED <<version, key, otp, spent, tokens, mailed, refused>>

-----------------------------------------------------------------------------
(* Tokens: AuthenticationService.login, refeshAccessToken, JwtStrategy      *)

Login(r, u) == FindByEmail(u) /\ Arrives(r, Asks("login", u, {"getVersion"}))

AdminLogin(r, u) ==
    /\ FindByEmail(u) /\ role[u] = "ADMIN"
    /\ Arrives(r, Asks("adminLogin", u, {"getVersion"}))

GetVersion(r) ==
    /\ Returned(r, "getVersion", [request[r] EXCEPT !.version = version[User(r)]],
                {"setVersion"})
    /\ UNCHANGED <<stores, tokens, history>>

(* The key is written back as it was read, with the lifetime of a refresh   *)
(* token; then the tokens are signed.                                       *)
SetVersion(r) ==
    LET u == User(r) IN
    /\ Made(r, "setVersion", {})
    /\ Cardinality(tokens[u]) < MaxTokens
    /\ version' = [version EXCEPT ![u] = request[r].version]
    /\ key' = [key EXCEPT ![u] = "lapsing"]
    /\ tokens' = [tokens EXCEPT ![u] =
                    @ \cup {[kind |-> request[r].op, version |-> request[r].version]}]
    /\ UNCHANGED <<account, otp, spent, history>>

Accepted(u, t) == t \in tokens[u] /\ t.version = version[u]

Refresh(u, t) ==
    /\ Accepted(u, t) /\ t.kind = "login"
    /\ Cardinality(tokens[u]) < MaxTokens
    /\ tokens' = [tokens EXCEPT ![u] = @ \cup {[t EXCEPT !.kind = "refreshed"]}]
    /\ UNCHANGED <<stores, history, request>>

(* The version key was given its lifetime when the last refresh token was   *)
(* signed, so it outlives no more than refreshed access tokens.             *)
VersionExpires(u) ==
    /\ key[u] = "lapsing" /\ \A t \in tokens[u] : t.kind = "refreshed"
    /\ key' = [key EXCEPT ![u] = "absent"]
    /\ version' = [version EXCEPT ![u] = 0]
    /\ UNCHANGED <<account, otp, spent, tokens, history, request>>

TokenExpires(u, t) ==
    /\ t \in tokens[u]
    /\ tokens' = [tokens EXCEPT ![u] = @ \ {t}]
    /\ UNCHANGED <<stores, history, request>>

-----------------------------------------------------------------------------
(* AdminUserService                                                         *)

Deactivate(r, u) ==
    /\ account[u] # "NONE" /\ version[u] < MaxVersion
    /\ Arrives(r, [Asks("ban", u, {"save"}) EXCEPT !.row = "BANNED"])

(* Mutant: the account need not be banned.                                  *)
FindBannedUserAny(u) == account[u] # "NONE"

FindBannedUser(u) == account[u] = "BANNED"

RestoreUser(r, u) ==
    /\ FindBannedUser(u)
    /\ Arrives(r, [Asks("restore", u, {"save"}) EXCEPT !.row = "ACTIVE"])

(* Mutant: only a restore counts.                                           *)
CountDown(r) ==
    LET u == User(r) IN
    /\ Made(r, "count", {})
    /\ version' = [version EXCEPT ![u] = IF request[r].op = "ban" THEN @ ELSE @ - 1]
    /\ key' = [key EXCEPT ![u] = IF @ = "absent" THEN "kept" ELSE @]
    /\ UNCHANGED <<account, otp, spent, tokens, history>>

(* INCR and DECR keep the lifetime of the key; one they create has none.    *)
Count(r) ==
    LET u == User(r) IN
    /\ Made(r, "count", {})
    /\ version' = [version EXCEPT ![u] = IF request[r].op = "ban" THEN @ + 1 ELSE @ - 1]
    /\ key' = [key EXCEPT ![u] = IF @ = "absent" THEN "kept" ELSE @]
    /\ UNCHANGED <<account, otp, spent, tokens, history>>

-----------------------------------------------------------------------------
(* UserService: changePassword and changeAvatar read the row and save it.   *)

ChangeProfile(r, u) ==
    /\ role[u] = "USER" /\ \E t \in tokens[u] : Accepted(u, t) /\ t.kind = "login"
    /\ Arrives(r, Asks("profile", u, {"findUser"}))

FindUser(r) ==
    /\ Returned(r, "findUser", [request[r] EXCEPT !.row = account[User(r)]], {"save"})
    /\ UNCHANGED <<stores, tokens, history>>

-----------------------------------------------------------------------------
(* One-time codes: registration and the forgotten password                  *)

Register(r, u) == ~FindByEmail(u) /\ Arrives(r, Asks("register", u, {"setCode"}))

ForgotPassword(r, u) == FindByEmail(u) /\ Arrives(r, Asks("forgot", u, {"setCode"}))

SetCode(r, c) ==
    /\ Returned(r, "setCode", [request[r] EXCEPT !.code = c],
                IF request[r].op = "register" THEN {"insert"} ELSE {})
    /\ otp' = [otp EXCEPT ![User(r)] = c]
    /\ spent' = [spent EXCEPT ![User(r)] = @ \ {c}]
    /\ UNCHANGED <<account, version, key, tokens, history>>

(* An email that is there already breaks the unique index; a new one gets   *)
(* its code by mail.                                                        *)
Insert(r) ==
    /\ Made(r, "insert", IF account[User(r)] = "NONE" THEN {"mail"} ELSE {})
    /\ account' = [account EXCEPT ![User(r)] = IF @ = "NONE" THEN "INACTIVE" ELSE @]
    /\ UNCHANGED <<version, key, otp, spent, tokens, history>>

Mail(r) ==
    /\ Made(r, "mail", {})
    /\ mailed' = [mailed EXCEPT ![User(r)] = request[r].code]
    /\ UNCHANGED <<stores, tokens, refused, overtaken>>

(* confirmChangePasswordOtp, changeForgotPassword and confirmRegistration   *)
(* get a code c.  The last does not wait for its check: the calls of the    *)
(* check and the save run side by side.                                     *)
EnterCode(r, u, c) ==
    /\ FindByEmail(u)
    /\ \/ Arrives(r, [Asks("checkCode", u, {"getCode"}) EXCEPT !.code = c])
       \/ Arrives(r, [Asks("newPassword", u, {"getCode"}) EXCEPT !.code = c,
                                                               !.row = "ACTIVE"])
       \/ Arrives(r, [Asks("confirm", u, {"getCode", "save"}) EXCEPT !.code = c,
                                                               !.row = "ACTIVE"])

ConfirmRefused(u, c) ==
    /\ ~FindByEmail(u)
    /\ refused' = [refused EXCEPT ![u] = IF c = mailed[u] THEN c ELSE @]
    /\ UNCHANGED <<stores, tokens, mailed, overtaken, request>>

GetCode(r) ==
    /\ Made(r, "getCode",
            IF otp[User(r)] = request[r].code THEN {"delCode"} ELSE {})
    /\ UNCHANGED <<stores, tokens, history>>

(* Mutant: a code that is right is left in Redis.                           *)
DelCodeKept(r) ==
    /\ Made(r, "delCode", IF request[r].op = "newPassword" THEN {"save"} ELSE {})
    /\ spent' = [spent EXCEPT ![User(r)] = @ \cup {request[r].code}]
    /\ UNCHANGED <<account, version, key, otp, tokens, history>>

(* The code is right: it is deleted, and used.                              *)
DelCode(r) ==
    /\ Made(r, "delCode", IF request[r].op = "newPassword" THEN {"save"} ELSE {})
    /\ otp' = [otp EXCEPT ![User(r)] = NoCode]
    /\ spent' = [spent EXCEPT ![User(r)] = @ \cup {request[r].code}]
    /\ UNCHANGED <<account, version, key, tokens, history>>

CodeExpires(u) ==
    /\ otp[u] # NoCode
    /\ otp' = [otp EXCEPT ![u] = NoCode]
    /\ UNCHANGED <<account, version, key, spent, tokens, history, request>>

-----------------------------------------------------------------------------
(* The process dies, or a store does not answer: the calls left are lost.   *)
Crash(r) ==
    /\ request[r] # Idle
    /\ request' = [request EXCEPT ![r] = Idle]
    /\ UNCHANGED <<stores, tokens, history>>

Arrival(r, u) ==
    \/ Login(r, u)
    \/ AdminLogin(r, u)
    \/ Deactivate(r, u)
    \/ RestoreUser(r, u)
    \/ ChangeProfile(r, u)
    \/ Register(r, u)
    \/ ForgotPassword(r, u)
    \/ \E c \in Codes : EnterCode(r, u, c)

Call(r) ==
    \/ Save(r)
    \/ GetVersion(r)
    \/ SetVersion(r)
    \/ Count(r)
    \/ FindUser(r)
    \/ \E c \in Codes : SetCode(r, c)
    \/ Insert(r)
    \/ Mail(r)
    \/ GetCode(r)
    \/ DelCode(r)

Alone(u) ==
    \/ \E t \in tokens[u] : Refresh(u, t) \/ TokenExpires(u, t)
    \/ CodeExpires(u)
    \/ \E c \in Codes : ConfirmRefused(u, c)

Next ==
    /\ UNCHANGED role
    /\ \/ \E r \in Requests, u \in Users : Arrival(r, u)
       \/ \E r \in Requests : Call(r) \/ Crash(r)
       \/ \E u \in Users : Alone(u) \/ VersionExpires(u)

Spec == Init /\ [][Next]_vars

(* Two requests of one account get in each other's way if both save its     *)
(* row, if one logs in while the other bans or restores, or if both check   *)
(* a code; but a ban may come between the read and the save of another.     *)
Logins   == {"login", "adminLogin"}
Savers   == {"profile", "newPassword", "confirm"}
Bans     == {"ban", "restore"}
Checkers == {"checkCode", "newPassword", "confirm"}

Clash(p, q) ==
    \/ p \in Savers /\ q \in Savers \cup {"restore"}
    \/ p \in Logins \cup Bans /\ q \in Bans
    \/ p \in Checkers /\ q \in Checkers

Apart ==
    \A q, r \in Requests :
        q # r /\ User(q) = User(r) => ~Clash(request[q].op, request[r].op)

(* Left out besides: the process dies between the row and the version of a  *)
(* ban or restore; the version expires between the get and the set of a     *)
(* login, which then brings back an old one beside another login that       *)
(* starts anew at 0.                                                        *)
InBan(r)   == request[r].op \in Bans
InLogin(u) == \E r \in Requests : User(r) = u /\ request[r].op \in Logins

CarefulNext ==
    /\ UNCHANGED role
    /\ \/ \E r \in Requests, u \in Users : Arrival(r, u)
       \/ \E r \in Requests : Call(r) \/ (~InBan(r) /\ Crash(r))
       \/ \E u \in Users : Alone(u) \/ (~InLogin(u) /\ VersionExpires(u))

CarefulSpec == Init /\ [][CarefulNext /\ Apart']_vars

-----------------------------------------------------------------------------
(* What holds however the other requests interleave.                        *)

(* A banned account's sessions are over: none of its refresh tokens, and no *)
(* access token signed at a login, has the version that the guards compare  *)
(* with -- however often it was banned and restored before, and whether or  *)
(* not the key has expired in between.                                      *)
BannedLockedOut ==
    \A u \in Users :
        /\ account[u] = "BANNED"
        /\ ~ \E r \in Requests : User(r) = u /\ InBan(r)
        => \A t \in tokens[u] : t.kind # "refreshed" => ~Accepted(u, t)

(* A code works once (authentication.service.ts:316).                       *)
CodeUsedOnce ==
    [][\A r \in Requests : DelCode(r) => request[r].code \notin spent[User(r)]]_vars

(* A ban is taken back by restoreUser, or by the save of a request that had *)
(* read the row when the ban was saved and writes its old status over it    *)
(* (user.service.ts:100, authentication.service.ts:304); no registration,   *)
(* and no request that reads the account later, lets it in again.           *)
OnlyRestoreReturns ==
    [][\A u \in Users :
          account[u] = "BANNED" /\ account'[u] # "BANNED"
            => \E r \in Requests :
                  User(r) = u /\ (request[r].op = "restore" \/ r \in overtaken)]_vars

-----------------------------------------------------------------------------
(* What the project says of the program and its runs break.                 *)

(* 'Please use the verification code below to complete your registration'   *)
(* (registration-notification.hbs:36): the code that an account got in this *)
(* mail completes its registration as long as Redis has it.                 *)
CodeCompletesRegistration ==
    [][\A u \in Users :
          refused'[u] # refused[u] /\ account[u] = "INACTIVE"
            => otp[u] # refused'[u]]_vars
=============================================================================
