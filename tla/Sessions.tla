------------------------------ MODULE Sessions ------------------------------
(***************************************************************************)
(* The refresh tokens of one account (modules/auth): login, rotation by    *)
(* refresh-token, logout and the revocation that ends a change of the      *)
(* password, as concurrent requests. An action is one database statement   *)
(* and the code after it. Of the users row only the password is looked at. *)
(*                                                                         *)
(* A refresh token is a JWT of the account's id, e-mail and role and the   *)
(* second of its issue: two tokens issued in one second are the same       *)
(* string, and nothing makes the token column unique. So a token string is *)
(* modelled by its second, and a string may stand in several rows.         *)
(***************************************************************************)
EXTENDS Integers, FiniteSets

CONSTANTS
  Slots,        \* concurrent requests
  RowIds,       \* ids of rows of refresh_tokens (bounds the tokens issued)
  NoToken,      \* an id without a row
  Lifetime,     \* seconds a refresh token is valid (7 days in the code)
  MaxNow,       \* bound of the model: the last second
  MaxChanges    \* bound of the model: changes of the password

Seconds == 0 .. MaxNow

(* session and begun are history: the login a row descends from, and the
   number of password changes before that login found its user. *)
Token == [token : Seconds, expiresAt : Nat, isRevoked : BOOLEAN,
          session : RowIds, begun : Nat]

ASSUME SessionsAssumption ==
  /\ Lifetime \in Nat /\ MaxNow \in Nat /\ MaxChanges \in Nat
  /\ NoToken \notin Token
  /\ RowIds # {}

VARIABLES
  now,        \* the clock
  tokens,     \* table refresh_tokens
  req,        \* per slot: where its request is and what it holds
  epoch,      \* history: how many password changes have revoked
  raced,      \* history: sessions two refreshes of which overlapped
  carried     \* history: sessions that a request carried over the last change

vars == <<now, tokens, req, epoch, raced, carried>>

AnId == CHOOSE i \in RowIds : TRUE
Idle == [pc |-> "idle", op |-> "login", id |-> AnId, session |-> AnId, signed |-> 0,
         begun |-> 0, late |-> FALSE]

(* signed is the second in which the new token was signed; late is history: a
   password change has revoked since the request began. *)
Req == [pc : {"idle", "compare", "insert", "saveSelect", "saveUpdate", "setPassword",
              "revokeAll"},
        op : {"login", "refresh", "logout", "change"},
        id : RowIds, session : RowIds, signed : Seconds, begun : Nat, late : BOOLEAN]

TypeOK ==
  /\ now \in Seconds
  /\ tokens \in [RowIds -> Token \cup {NoToken}]
  /\ req \in [Slots -> Req]
  /\ epoch \in Nat
  /\ raced \subseteq RowIds /\ carried \subseteq RowIds

Stored == {i \in RowIds : tokens[i] # NoToken}
Live(i) == i \in Stored /\ ~tokens[i].isRevoked

Finish(s) == req' = [req EXCEPT ![s] = Idle]

-----------------------------------------------------------------------------
(* login and generateTokens *)

(* validateUser has found the user, with a hash to compare the password to. *)
Login(s) ==
  /\ req[s].pc = "idle"
  /\ req' = [req EXCEPT ![s] = [Idle EXCEPT !.pc = "compare", !.begun = epoch]]
  /\ UNCHANGED <<now, tokens, epoch, raced, carried>>

(* The password compared, and the new token is signed. *)
Sign(s) ==
  /\ req[s].pc = "compare"
  /\ req' = [req EXCEPT ![s].pc = "insert", ![s].signed = now]
  /\ UNCHANGED <<now, tokens, epoch, raced, carried>>

(* INSERT of the signed token. That of a login begins a session. *)
InsertToken(s) ==
  /\ req[s].pc = "insert"
  /\ \E i \in RowIds \ Stored :
       LET session == IF req[s].op = "login" THEN i ELSE req[s].session IN
       /\ tokens' = [tokens EXCEPT ![i] =
            [token |-> req[s].signed, expiresAt |-> req[s].signed + Lifetime,
             isRevoked |-> FALSE, begun |-> req[s].begun, session |-> session]]
       /\ carried' = IF req[s].late THEN carried \cup {session} ELSE carried
  /\ Finish(s)
  /\ UNCHANGED <<now, epoch, raced>>

-----------------------------------------------------------------------------
(* refreshToken and logout *)

Refreshing(session) == {s \in Slots : req[s].op = "refresh" /\ req[s].session = session}

(* Variants named after a plausible slip in the definition that follows them
   serve to check that a property notices it. *)

FindRevokedToo(i, t) == tokens[i].token = t /\ tokens[i].expiresAt >= now
MayRefresh(i, t) ==
  tokens[i].token = t /\ ~tokens[i].isRevoked /\ tokens[i].expiresAt >= now

(* findOne of an unrevoked row with this string, refused when it has expired;
   findOne of its user follows. *)
Refresh(s, t) ==
  /\ req[s].pc = "idle"
  /\ \E i \in Stored :
       /\ MayRefresh(i, t)
       /\ req' = [req EXCEPT ![s] = [Idle EXCEPT !.pc = "saveSelect",
               !.op = "refresh", !.id = i, !.session = tokens[i].session,
               !.begun = tokens[i].begun]]
       /\ raced' = IF Refreshing(tokens[i].session) = {} THEN raced
                   ELSE raced \cup {tokens[i].session}
  /\ UNCHANGED <<now, tokens, epoch, carried>>

(* findOne of any row with this string. One already revoked is left alone and
   the request is over. *)
Logout(s, t) ==
  /\ req[s].pc = "idle"
  /\ \E i \in Stored :
       /\ tokens[i].token = t
       /\ req' = [req EXCEPT ![s] =
            IF tokens[i].isRevoked THEN Idle
            ELSE [Idle EXCEPT !.pc = "saveSelect", !.op = "logout", !.id = i]]
  /\ UNCHANGED <<now, tokens, epoch, raced, carried>>

SignedAhead(r) ==
  IF r.op = "refresh" THEN [r EXCEPT !.pc = "insert", !.signed = now + 1] ELSE Idle
AfterRevoke(r) ==
  IF r.op = "refresh" THEN [r EXCEPT !.pc = "insert", !.signed = now] ELSE Idle

(* save(stored) with isRevoked set: the SELECT. Revoked meanwhile, no UPDATE. *)
RevokeSelect(s) ==
  /\ req[s].pc = "saveSelect"
  /\ req' = [req EXCEPT ![s] =
       IF tokens[@.id].isRevoked THEN AfterRevoke(@) ELSE [@ EXCEPT !.pc = "saveUpdate"]]
  /\ UNCHANGED <<now, tokens, epoch, raced, carried>>

Flipped(row) == [row EXCEPT !.isRevoked = ~@]
Revoked(row) == [row EXCEPT !.isRevoked = TRUE]

RevokeUpdate(s) ==
  /\ req[s].pc = "saveUpdate"
  /\ tokens' = [tokens EXCEPT ![req[s].id] = Revoked(@)]
  /\ req' = [req EXCEPT ![s] = AfterRevoke(@)]
  /\ UNCHANGED <<now, epoch, raced, carried>>

-----------------------------------------------------------------------------
(* changePassword *)

Changing == {s \in Slots : req[s].op = "change"}

(* The user is found and the old password compares. *)
ChangePassword(s) ==
  /\ req[s].pc = "idle"
  /\ epoch + Cardinality(Changing) < MaxChanges
  /\ req' = [req EXCEPT ![s] = [Idle EXCEPT !.pc = "setPassword", !.op = "change"]]
  /\ UNCHANGED <<now, tokens, epoch, raced, carried>>

(* save(user) with the new hash *)
SetPassword(s) ==
  /\ req[s].pc = "setPassword"
  /\ req' = [req EXCEPT ![s].pc = "revokeAll"]
  /\ UNCHANGED <<now, tokens, epoch, raced, carried>>

(* Who is in the middle of a request is late from now on. *)
Overtaken(r) == IF r.pc = "idle" THEN r ELSE [r EXCEPT !.late = TRUE]

RevokesExpired(i) == Live(i) /\ tokens[i].expiresAt < now
RevokesOnChange(i) == Live(i)

(* update({userId, isRevoked: false}, {isRevoked: true}): one statement. *)
RevokeAll(s) ==
  /\ req[s].pc = "revokeAll"
  /\ tokens' = [i \in RowIds |-> IF RevokesOnChange(i) THEN Revoked(tokens[i]) ELSE tokens[i]]
  /\ epoch' = epoch + 1
  /\ carried' = {}
  /\ req' = [r \in Slots |-> IF r = s THEN Idle ELSE Overtaken(req[r])]
  /\ UNCHANGED <<now, raced>>

-----------------------------------------------------------------------------
Tick ==
  /\ now < MaxNow
  /\ now' = now + 1
  /\ UNCHANGED <<tokens, req, epoch, raced, carried>>

Init ==
  /\ now = 0
  /\ tokens = [i \in RowIds |-> NoToken]
  /\ req = [s \in Slots |-> Idle]
  /\ epoch = 0
  /\ raced = {} /\ carried = {}

Request(s) ==
  \/ Login(s) \/ Sign(s) \/ InsertToken(s)
  \/ \E t \in Seconds : Refresh(s, t) \/ Logout(s, t)
  \/ RevokeSelect(s) \/ RevokeUpdate(s)
  \/ ChangePassword(s) \/ SetPassword(s) \/ RevokeAll(s)

Next == Tick \/ \E s \in Slots : Request(s)

Spec == Init /\ [][Next]_vars

-----------------------------------------------------------------------------
(* Properties *)

(* A revoked token is never valid again, although rotation, logout and the   *)
(* password change write isRevoked from entities read earlier.               *)
RevokedIsFinal ==
  [][\A i \in Stored : tokens[i].isRevoked => (i \in Stored /\ tokens[i].isRevoked)']_vars

(* "Password changed - all sessions invalidated" (auth.controller.ts), but   *)
(* for one case: a session outlives a password change, however often it is   *)
(* refreshed afterwards, by one request only. Its login, or a refresh of it, *)
(* had found the user or the token before the change's revoke statement and  *)
(* inserted its own token after it (changePassword, refreshToken, login).    *)
OnlyLateSurvive ==
  \A i \in Stored : Live(i) => tokens[i].begun = epoch \/ tokens[i].session \in carried

(* Rotation keeps one valid token per login. Only refreshes of one session   *)
(* that overlapped can leave it with more.                                   *)
OneTokenPerSession ==
  \A i, j \in Stored :
    (/\ Live(i) /\ Live(j) /\ tokens[i].session = tokens[j].session
     /\ tokens[i].session \notin raced) => i = j
=============================================================================
