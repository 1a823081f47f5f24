--------------------------- MODULE SessionsProofs ---------------------------
(***************************************************************************)
(* Proofs about Sessions, for every number of requests, tokens and         *)
(* password changes and every lifetime of a token.                         *)
(***************************************************************************)
EXTENDS Sessions, TLAPS

(* A request that is about to revoke a row holds one that is stored. *)
HeldRowStored ==
  \A s \in Slots : req[s].pc \in {"saveSelect", "saveUpdate"} => req[s].id \in Stored

(* What a login or a refresh is about to insert is allowed to be valid: no   *)
(* change has revoked since the login of its session, or one has since the   *)
(* request began, or an earlier request carried the session over.            *)
InFlight ==
  \A s \in Slots : req[s].pc # "idle" /\ req[s].op \in {"login", "refresh"} =>
    \/ req[s].begun = epoch \/ req[s].late
    \/ req[s].op = "refresh" /\ req[s].session \in carried

(* Only a login is signed before it revokes, and only a login and a refresh   *)
(* insert.                                                                   *)
InsertersOnly ==
  \A s \in Slots : /\ req[s].pc = "compare" => req[s].op = "login"
                   /\ req[s].pc = "insert" => req[s].op \in {"login", "refresh"}

IInv == TypeOK /\ HeldRowStored /\ InsertersOnly /\ InFlight /\ OnlyLateSurvive

(* The operators that build a request or a row stay in their types. *)
LEMMA RecordTypes ==
  ASSUME TypeOK
  PROVE  /\ AnId \in RowIds
         /\ Idle \in Req
         /\ \A r \in Req : AfterRevoke(r) \in Req /\ Overtaken(r) \in Req
         /\ \A row \in Token : Revoked(row) \in Token /\ Revoked(row).isRevoked
                               /\ Revoked(row).begun = row.begun
                               /\ Revoked(row).session = row.session
         /\ \A i \in Stored : tokens[i] \in Token
<1>1. AnId \in RowIds
  BY SessionsAssumption DEF AnId
<1>2. Idle \in Req
  BY <1>1, SessionsAssumption DEF Idle, Req, Seconds
<1>3. \A r \in Req : AfterRevoke(r) \in Req /\ Overtaken(r) \in Req
  BY <1>2 DEF TypeOK, AfterRevoke, Overtaken, Req
<1>4. \A row \in Token : Revoked(row) \in Token /\ Revoked(row).isRevoked
                         /\ Revoked(row).begun = row.begun
                         /\ Revoked(row).session = row.session
  BY DEF Revoked, Token
<1>5. \A i \in Stored : tokens[i] \in Token
  BY DEF TypeOK, Stored
<1> QED BY <1>1, <1>2, <1>3, <1>4, <1>5

(* A password change takes up nothing for the requests that it overtakes.    *)
LEMMA OvertakenKeeps ==
  ASSUME NEW r \in Req
  PROVE  /\ Overtaken(r).pc = r.pc /\ Overtaken(r).op = r.op
         /\ Overtaken(r).id = r.id /\ Overtaken(r).session = r.session
         /\ r.pc # "idle" => Overtaken(r).late
BY DEF Overtaken, Req

(* The INSERT stores one valid row under a fresh id. *)
LEMMA InsertedRow ==
  ASSUME TypeOK, NEW s \in Slots, InsertToken(s)
  PROVE  \E i \in RowIds \ Stored, row \in Token :
           /\ tokens' = [tokens EXCEPT ![i] = row]
           /\ row.begun = req[s].begun /\ ~row.isRevoked
           /\ row.session = IF req[s].op = "login" THEN i ELSE req[s].session
           /\ carried' = IF req[s].late THEN carried \cup {row.session} ELSE carried
<1> DEFINE sessionOf(i) == IF req[s].op = "login" THEN i ELSE req[s].session
           rowOf(i) == [token |-> req[s].signed, expiresAt |-> req[s].signed + Lifetime,
                        isRevoked |-> FALSE, begun |-> req[s].begun, session |-> sessionOf(i)]
<1>1. PICK i \in RowIds \ Stored :
        /\ tokens' = [tokens EXCEPT ![i] = rowOf(i)]
        /\ carried' = IF req[s].late THEN carried \cup {sessionOf(i)} ELSE carried
  BY DEF InsertToken
<1>2. req[s] \in Req
  BY DEF TypeOK
<1>3. req[s].signed \in Nat /\ req[s].signed \in Seconds /\ Lifetime \in Nat
  BY <1>2, SessionsAssumption DEF Req, Seconds
<1>4. req[s].signed + Lifetime \in Nat
  BY <1>3
<1>5. rowOf(i) \in Token
  BY <1>2, <1>3, <1>4 DEF Token, Req
<1>6. /\ rowOf(i).begun = req[s].begun /\ ~rowOf(i).isRevoked
      /\ rowOf(i).session = IF req[s].op = "login" THEN i ELSE req[s].session
      /\ rowOf(i).session = sessionOf(i)
  OBVIOUS
<1> HIDE DEF rowOf, sessionOf
<1> QED BY <1>1, <1>5, <1>6

(* What a step does to the table: a row is kept or revoked, or stored new. *)
RowStep(i) ==
  \/ tokens'[i] = tokens[i]
  \/ i \in Stored /\ tokens'[i] = Revoked(tokens[i])
  \/ i \notin Stored /\ tokens'[i] \in Token

LEMMA TableStep ==
  ASSUME IInv, Next
  PROVE  /\ \A i \in RowIds : RowStep(i)
         /\ DOMAIN tokens' = RowIds
         /\ tokens' = [i \in RowIds |-> tokens'[i]]
<1> USE DEF IInv
<1>1. CASE tokens' = tokens
  BY <1>1 DEF RowStep, TypeOK
<1>2. ASSUME NEW s \in Slots, InsertToken(s)
      PROVE  /\ \A i \in RowIds : RowStep(i)
             /\ DOMAIN tokens' = RowIds
             /\ tokens' = [i \in RowIds |-> tokens'[i]]
  <2>1. PICK i \in RowIds \ Stored, row \in Token : tokens' = [tokens EXCEPT ![i] = row]
    BY <1>2, InsertedRow
  <2> QED BY <2>1 DEF RowStep, TypeOK
<1>3. ASSUME NEW s \in Slots, RevokeUpdate(s)
      PROVE  /\ \A i \in RowIds : RowStep(i)
             /\ DOMAIN tokens' = RowIds
             /\ tokens' = [i \in RowIds |-> tokens'[i]]
  BY <1>3 DEF RevokeUpdate, RowStep, TypeOK, HeldRowStored
<1>4. ASSUME NEW s \in Slots, RevokeAll(s)
      PROVE  /\ \A i \in RowIds : RowStep(i)
             /\ DOMAIN tokens' = RowIds
             /\ tokens' = [i \in RowIds |-> tokens'[i]]
  BY <1>4 DEF RevokeAll, RowStep, TypeOK, RevokesOnChange, Live
<1>5. ASSUME Next
      PROVE  \/ tokens' = tokens
             \/ \E s \in Slots : InsertToken(s) \/ RevokeUpdate(s) \/ RevokeAll(s)
  BY <1>5 DEF Next, Request, Tick, Login, Sign, Refresh, Logout, RevokeSelect,
              ChangePassword, SetPassword
<1> QED BY <1>1, <1>2, <1>3, <1>4, <1>5

(* Every step keeps the types. *)
LEMMA TypeStep ==
  ASSUME IInv, Next
  PROVE  TypeOK'
<1> USE DEF IInv
<1>1. tokens' \in [RowIds -> Token \cup {NoToken}]
  <2>1. \A i \in RowIds : tokens'[i] \in Token \cup {NoToken}
    BY TableStep, RecordTypes DEF RowStep, TypeOK
  <2> QED BY <2>1, TableStep
<1>2. now' \in Seconds
  <2>1. CASE Tick
    BY <2>1, SessionsAssumption DEF Tick, TypeOK, Seconds
  <2>2. ASSUME NEW s \in Slots, Request(s) PROVE now' = now
    BY <2>2 DEF Request, Login, Sign, InsertToken, Refresh, Logout, RevokeSelect,
       RevokeUpdate, ChangePassword, SetPassword, RevokeAll
  <2> QED BY <2>1, <2>2 DEF Next, TypeOK
<1>3. epoch' \in Nat
  <2>1. epoch' = epoch \/ epoch' = epoch + 1
    BY DEF Next, Request, Tick, Login, Sign, InsertToken, Refresh, Logout, RevokeSelect,
       RevokeUpdate, ChangePassword, SetPassword, RevokeAll
  <2>2. epoch \in Nat
    BY DEF TypeOK
  <2> QED BY <2>1, <2>2
<1>6. carried' \subseteq RowIds
  <2>1. CASE carried' = carried \/ carried' = {}
    BY <2>1 DEF TypeOK
  <2>2. ASSUME NEW s \in Slots, InsertToken(s) PROVE carried' \subseteq RowIds
    <3>1. PICK row \in Token :
            carried' = IF req[s].late THEN carried \cup {row.session} ELSE carried
      BY <2>2, InsertedRow
    <3>2. row.session \in RowIds
      BY DEF Token
    <3> QED BY <3>1, <3>2 DEF TypeOK
  <2> QED BY <2>1, <2>2 DEF Next, Request, Tick, Login, Sign, Refresh, Logout, RevokeSelect,
             RevokeUpdate, ChangePassword, SetPassword, RevokeAll
<1>4. raced' \subseteq RowIds
  <2>1. CASE raced' = raced
    BY <2>1 DEF TypeOK
  <2>2. ASSUME NEW s \in Slots, NEW t \in Seconds, Refresh(s, t) PROVE raced' \subseteq RowIds
    <3>1. PICK i \in Stored : raced' = IF Refreshing(tokens[i].session) = {} THEN raced
                                       ELSE raced \cup {tokens[i].session}
      BY <2>2 DEF Refresh
    <3>2. tokens[i].session \in RowIds
      BY RecordTypes DEF Token
    <3> QED BY <3>1, <3>2 DEF TypeOK
  <2> QED BY <2>1, <2>2 DEF Next, Request, Tick, Login, Sign, InsertToken, Logout, RevokeSelect,
             RevokeUpdate, ChangePassword, SetPassword, RevokeAll
<1>5. req' \in [Slots -> Req]
  <2>1. CASE Tick
    BY <2>1 DEF Tick, TypeOK
  <2>2. ASSUME NEW s \in Slots, Request(s), ~RevokeAll(s)
        PROVE  \E r \in Req : req' = [req EXCEPT ![s] = r]
    <3>1. now \in Seconds /\ req[s] \in Req
      BY DEF TypeOK
    <3>2. CASE Login(s)
      <4>1. [Idle EXCEPT !.pc = "compare", !.begun = epoch] \in Req
        BY RecordTypes DEF Req, TypeOK
      <4> QED BY <3>2, <4>1 DEF Login
    <3>10. CASE Sign(s)
      <4>1. [req[s] EXCEPT !.pc = "insert", !.signed = now] \in Req
        BY <3>1 DEF Req
      <4>2. req' = [req EXCEPT ![s] = [req[s] EXCEPT !.pc = "insert", !.signed = now]]
        BY <3>10 DEF Sign, TypeOK
      <4> QED BY <4>1, <4>2
    <3>3. CASE InsertToken(s)
      BY <3>3, RecordTypes DEF InsertToken, Finish
    <3>4. ASSUME NEW t \in Seconds, Refresh(s, t) PROVE \E r \in Req : req' = [req EXCEPT ![s] = r]
      <4>1. PICK i \in Stored : req' = [req EXCEPT ![s] = [Idle EXCEPT !.pc = "saveSelect",
               !.op = "refresh", !.id = i, !.session = tokens[i].session,
               !.begun = tokens[i].begun]]
        BY <3>4 DEF Refresh
      <4>2. i \in RowIds /\ tokens[i].session \in RowIds /\ tokens[i].begun \in Nat
        BY RecordTypes DEF Token, Stored
      <4>3. [Idle EXCEPT !.pc = "saveSelect",
               !.op = "refresh", !.id = i, !.session = tokens[i].session,
               !.begun = tokens[i].begun] \in Req
        BY <4>2, RecordTypes DEF Req
      <4> QED BY <4>1, <4>3
    <3>5. ASSUME NEW t \in Seconds, Logout(s, t) PROVE \E r \in Req : req' = [req EXCEPT ![s] = r]
      <4>1. PICK i \in Stored : req' = [req EXCEPT ![s] =
            IF tokens[i].isRevoked THEN Idle
            ELSE [Idle EXCEPT !.pc = "saveSelect", !.op = "logout", !.id = i]]
        BY <3>5 DEF Logout
      <4>2. [Idle EXCEPT !.pc = "saveSelect", !.op = "logout", !.id = i] \in Req
        BY RecordTypes DEF Req, Stored
      <4> QED BY <4>1, <4>2, RecordTypes
    <3>6. CASE RevokeSelect(s)
      <4>1. [req[s] EXCEPT !.pc = "saveUpdate"] \in Req
        BY <3>1 DEF Req
      <4> QED BY <3>1, <3>6, <4>1, RecordTypes DEF RevokeSelect
    <3>7. CASE RevokeUpdate(s)
      BY <3>1, <3>7, RecordTypes DEF RevokeUpdate
    <3>8. CASE ChangePassword(s)
      BY <3>8, RecordTypes DEF ChangePassword, Req
    <3>9. CASE SetPassword(s)
      <4>1. [req[s] EXCEPT !.pc = "revokeAll"] \in Req
        BY <3>1 DEF Req
      <4>2. req' = [req EXCEPT ![s] = [req[s] EXCEPT !.pc = "revokeAll"]]
        BY <3>9 DEF SetPassword, TypeOK
      <4> QED BY <4>1, <4>2
    <3> QED BY <2>2, <3>2, <3>3, <3>4, <3>5, <3>6, <3>7, <3>8, <3>9, <3>10 DEF Request
  <2>3. ASSUME NEW s \in Slots, NEW r \in Req, req' = [req EXCEPT ![s] = r]
        PROVE  req' \in [Slots -> Req]
    BY <2>3 DEF TypeOK
  <2>4. ASSUME NEW s \in Slots, RevokeAll(s) PROVE req' \in [Slots -> Req]
    BY <2>4, RecordTypes DEF RevokeAll, TypeOK
  <2> QED BY <2>1, <2>2, <2>3, <2>4 DEF Next
<1> QED BY <1>1, <1>2, <1>3, <1>4, <1>5, <1>6 DEF TypeOK

(* A stored row stays stored, a revoked one revoked. *)
LEMMA RowsStay ==
  ASSUME IInv, Next, NEW i \in Stored
  PROVE  /\ i \in Stored'
         /\ tokens[i].isRevoked => tokens'[i].isRevoked
         /\ tokens'[i].begun = tokens[i].begun
         /\ tokens'[i].session = tokens[i].session
<1>1. i \in RowIds /\ tokens[i] \in Token /\ RowStep(i)
  BY TableStep, RecordTypes DEF IInv, Stored
<1>2. tokens'[i] \in Token /\ (tokens[i].isRevoked => tokens'[i].isRevoked)
      /\ tokens'[i].begun = tokens[i].begun /\ tokens'[i].session = tokens[i].session
  BY <1>1, RecordTypes DEF RowStep, IInv
<1>3. tokens'[i] # NoToken
  BY <1>2, SessionsAssumption
<1> QED BY <1>1, <1>2, <1>3 DEF Stored

(* A request takes up a row that it found stored. *)
LEMMA HeldStep ==
  ASSUME IInv, Next
  PROVE  HeldRowStored'
<1> SUFFICES ASSUME NEW s \in Slots, req'[s].pc \in {"saveSelect", "saveUpdate"}
             PROVE  req'[s].id \in Stored'
  BY DEF HeldRowStored
<1>1. CASE req'[s].pc = req[s].pc /\ req'[s].id = req[s].id
  BY <1>1, RowsStay DEF IInv, HeldRowStored
<1>2. req \in [Slots -> Req]
  BY DEF IInv, TypeOK
<1>3. ASSUME req'[s].pc # req[s].pc \/ req'[s].id # req[s].id PROVE req'[s].id \in Stored
  <2>1. PICK z \in Slots : Request(z)
    BY <1>3 DEF Next, Tick
  <2>2. s = z
    <3>1. CASE RevokeAll(z)
      BY <1>2, <1>3, <3>1, OvertakenKeeps DEF RevokeAll
    <3> QED BY <1>2, <1>3, <2>1, <3>1 DEF Request, Login, Sign, InsertToken, Refresh, Logout,
       RevokeSelect, RevokeUpdate, ChangePassword, SetPassword, Finish
  <2>3. ASSUME NEW t \in Seconds, Refresh(s, t) PROVE req'[s].id \in Stored
    <3>1. PICK i \in Stored : req' = [req EXCEPT ![s] = [Idle EXCEPT !.pc = "saveSelect",
             !.op = "refresh", !.id = i, !.session = tokens[i].session,
               !.begun = tokens[i].begun]]
      BY <2>3 DEF Refresh
    <3>2. req'[s] = [Idle EXCEPT !.pc = "saveSelect",
             !.op = "refresh", !.id = i, !.session = tokens[i].session,
               !.begun = tokens[i].begun]
      BY <1>2, <3>1
    <3> QED BY <3>2 DEF Idle
  <2>4. ASSUME NEW t \in Seconds, Logout(s, t) PROVE req'[s].id \in Stored
    BY <1>2, <2>4 DEF Logout, Idle
  <2>5. CASE RevokeSelect(s)
    BY <1>2, <2>5 DEF RevokeSelect, AfterRevoke, Idle, Req, IInv, HeldRowStored
  <2>6. CASE Login(s) \/ Sign(s) \/ ChangePassword(s)
    BY <1>2, <2>6 DEF Login, Sign, ChangePassword, Idle, Req
  <2>7. CASE InsertToken(s) \/ RevokeAll(s)
    BY <1>2, <2>7 DEF InsertToken, RevokeAll, Finish, Idle
  <2>8. CASE RevokeUpdate(s)
    BY <1>2, <2>8 DEF RevokeUpdate, AfterRevoke, Idle, Req
  <2>9. CASE SetPassword(s)
    BY <1>2, <2>9 DEF SetPassword, Req
  <2> QED BY <2>1, <2>2, <2>3, <2>4, <2>5, <2>6, <2>7, <2>8, <2>9 DEF Request
<1> QED BY <1>1, <1>3, RowsStay

(* A password change revokes every row and overtakes every request.          *)
LEMMA ChangeRevokes ==
  ASSUME IInv, Next, NEW z \in Slots, RevokeAll(z)
  PROVE  InFlight' /\ OnlyLateSurvive'
<1>1. req \in [Slots -> Req] /\ req' = [r \in Slots |-> IF r = z THEN Idle ELSE Overtaken(req[r])]
  BY DEF RevokeAll, IInv, TypeOK
<1>2. \A s \in Slots : req'[s].pc # "idle" => req'[s].late
  <2> SUFFICES ASSUME NEW s \in Slots, req'[s].pc # "idle" PROVE req'[s].late
    OBVIOUS
  <2>1. s # z
    BY <1>1 DEF Idle
  <2>2. req'[s] = Overtaken(req[s]) /\ req[s] \in Req
    BY <1>1, <2>1
  <2> QED BY <2>2, OvertakenKeeps
<1>3. \A i \in Stored' : ~Live(i)'
  BY RecordTypes DEF RevokeAll, RevokesOnChange, Live, Stored, IInv
<1> QED BY <1>2, <1>3 DEF InFlight, OnlyLateSurvive

(* A login begins after every change so far, and a refresh takes over what   *)
(* is known of the valid token it found.                                     *)
LEMMA InFlightStep ==
  ASSUME IInv, Next
  PROVE  InFlight'
<1>1. req \in [Slots -> Req]
  BY DEF IInv, TypeOK
<1>2. CASE Tick
  BY <1>2 DEF Tick, IInv, InFlight
<1>3. ASSUME NEW z \in Slots, Request(z), ~RevokeAll(z)
      PROVE  InFlight'
  <2>1. epoch' = epoch /\ carried \subseteq carried'
    BY <1>3 DEF Request, Login, Sign, InsertToken, Refresh, Logout, RevokeSelect,
       RevokeUpdate, ChangePassword, SetPassword
  <2>2. \A s \in Slots \ {z} : req'[s] = req[s]
    BY <1>1, <1>3 DEF Request, Login, Sign, InsertToken, Refresh, Logout, RevokeSelect,
       RevokeUpdate, ChangePassword, SetPassword, Finish
  <2>3. ASSUME req'[z].pc # "idle", req'[z].op \in {"login", "refresh"}
        PROVE  \/ req'[z].begun = epoch \/ req'[z].late
               \/ req'[z].op = "refresh" /\ req'[z].session \in carried
    <3>1. CASE Login(z)
      BY <1>1, <3>1, RecordTypes DEF Login, Idle
    <3>2. ASSUME NEW t \in Seconds, Refresh(z, t)
          PROVE  req'[z].begun = epoch \/ (req'[z].op = "refresh" /\ req'[z].session \in carried)
      <4>1. PICK i \in Stored :
              /\ MayRefresh(i, t)
              /\ req' = [req EXCEPT ![z] = [Idle EXCEPT !.pc = "saveSelect",
                   !.op = "refresh", !.id = i, !.session = tokens[i].session,
                   !.begun = tokens[i].begun]]
        BY <3>2 DEF Refresh
      <4>2. /\ req'[z].op = "refresh" /\ req'[z].session = tokens[i].session
            /\ req'[z].begun = tokens[i].begun
        BY <1>1, <4>1 DEF Idle
      <4>3. tokens[i].begun = epoch \/ tokens[i].session \in carried
        BY <4>1 DEF IInv, OnlyLateSurvive, Live, MayRefresh
      <4> QED BY <4>2, <4>3
    <3>3. CASE \/ \E t \in Seconds : Logout(z, t)
               \/ InsertToken(z) \/ ChangePassword(z)
      <4>1. CASE InsertToken(z)
        BY <1>1, <2>3, <4>1 DEF InsertToken, Finish, Idle
      <4>2. CASE ChangePassword(z)
        <5>1. req'[z] = [Idle EXCEPT !.pc = "setPassword", !.op = "change"]
          BY <1>1, <4>2 DEF ChangePassword
        <5> QED BY <2>3, <5>1 DEF Idle
      <4>3. ASSUME NEW t \in Seconds, Logout(z, t) PROVE FALSE
        <5>1. PICK i \in Stored : req' = [req EXCEPT ![z] =
                IF tokens[i].isRevoked THEN Idle
                ELSE [Idle EXCEPT !.pc = "saveSelect", !.op = "logout", !.id = i]]
          BY <4>3 DEF Logout
        <5>2. \/ req'[z] = Idle
              \/ req'[z] = [Idle EXCEPT !.pc = "saveSelect", !.op = "logout", !.id = i]
          BY <1>1, <5>1
        <5>3. CASE req'[z] = Idle
          BY <2>3, <5>3 DEF Idle
        <5>4. CASE req'[z] = [Idle EXCEPT !.pc = "saveSelect", !.op = "logout", !.id = i]
          BY <2>3, <5>4 DEF Idle
        <5> QED BY <5>2, <5>3, <5>4
      <4> QED BY <3>3, <4>1, <4>2, <4>3
    <3>4. CASE Sign(z) \/ RevokeSelect(z) \/ RevokeUpdate(z) \/ SetPassword(z)
      <4>1. req[z].pc # "idle" /\ req[z] \in Req
        BY <1>1, <3>4 DEF Sign, RevokeSelect, RevokeUpdate, SetPassword
      <4>2. /\ req'[z].op = req[z].op /\ req'[z].begun = req[z].begun
            /\ req'[z].late = req[z].late /\ req'[z].session = req[z].session
        <5>1. CASE Sign(z) \/ SetPassword(z)
          BY <1>1, <4>1, <5>1 DEF Sign, SetPassword, Req
        <5>2. CASE RevokeSelect(z) \/ RevokeUpdate(z)
          <6>1. \/ req'[z] = AfterRevoke(req[z])
                \/ req'[z] = [req[z] EXCEPT !.pc = "saveUpdate"]
            BY <1>1, <5>2 DEF RevokeSelect, RevokeUpdate
          <6>2. CASE req[z].op = "refresh"
            BY <4>1, <6>1, <6>2 DEF AfterRevoke, Req
          <6>3. CASE req'[z] = [req[z] EXCEPT !.pc = "saveUpdate"]
            BY <4>1, <6>3 DEF Req
          <6>4. ASSUME req[z].op # "refresh", req'[z] = AfterRevoke(req[z]) PROVE FALSE
            BY <2>3, <6>4 DEF AfterRevoke, Idle
          <6> QED BY <6>1, <6>2, <6>3, <6>4
        <5> QED BY <3>4, <5>1, <5>2
      <4> QED BY <2>3, <4>1, <4>2 DEF IInv, InFlight
    <3> QED BY <1>3, <3>1, <3>2, <3>3, <3>4 DEF Request
  <2> QED BY <2>1, <2>2, <2>3 DEF IInv, InFlight
<1> QED BY <1>2, <1>3, ChangeRevokes DEF Next

(* A row that is valid after a step was so before, or is new and is the one  *)
(* that a login or a refresh was about to insert.                            *)
LEMMA SurvivorStep ==
  ASSUME IInv, Next
  PROVE  OnlyLateSurvive'
<1> SUFFICES ASSUME \A z \in Slots : ~RevokeAll(z),
                    NEW i \in RowIds, tokens'[i] # NoToken, ~tokens'[i].isRevoked
             PROVE  tokens'[i].begun = epoch' \/ tokens'[i].session \in carried'
  BY ChangeRevokes DEF OnlyLateSurvive, Live, Stored
<1>1. epoch' = epoch /\ carried \subseteq carried'
  BY DEF Next, Request, Tick, Login, Sign, InsertToken, Refresh, Logout, RevokeSelect,
     RevokeUpdate, ChangePassword, SetPassword
<1>2. CASE i \in Stored
  <2>1. /\ ~tokens[i].isRevoked /\ tokens'[i].begun = tokens[i].begun
        /\ tokens'[i].session = tokens[i].session
    BY <1>2, RowsStay
  <2> QED BY <1>1, <1>2, <2>1 DEF IInv, OnlyLateSurvive, Live
<1>3. CASE i \notin Stored
  <2>1. PICK s \in Slots : InsertToken(s)
    <3>1. tokens'[i] # tokens[i]
      BY <1>3 DEF Stored
    <3>2. ASSUME NEW s \in Slots, RevokeUpdate(s) PROVE tokens'[i] = tokens[i]
      BY <1>3, <3>2 DEF RevokeUpdate, IInv, TypeOK, HeldRowStored
    <3> QED BY <3>1, <3>2 DEF Next, Request, Tick, Login, Sign, Refresh, Logout, RevokeSelect,
             ChangePassword, SetPassword
  <2>2. PICK k \in RowIds \ Stored, row \in Token :
           /\ tokens' = [tokens EXCEPT ![k] = row]
           /\ row.begun = req[s].begun
           /\ row.session = IF req[s].op = "login" THEN k ELSE req[s].session
           /\ carried' = IF req[s].late THEN carried \cup {row.session} ELSE carried
    BY <2>1, InsertedRow DEF IInv
  <2>3. i = k /\ tokens'[i] = row
    BY <1>3, <2>2 DEF IInv, TypeOK, Stored
  <2>4. req[s].pc = "insert" /\ req[s].op \in {"login", "refresh"}
    BY <2>1 DEF InsertToken, IInv, InsertersOnly
  <2>5. \/ req[s].begun = epoch \/ req[s].late
        \/ req[s].op = "refresh" /\ req[s].session \in carried
    BY <2>4 DEF IInv, InFlight
  <2> QED BY <1>1, <2>2, <2>3, <2>5
<1> QED BY <1>2, <1>3

(* A login signs once the password compared, a refresh once its row is       *)
(* revoked.                                                                  *)
LEMMA InsertersStep ==
  ASSUME IInv, Next
  PROVE  InsertersOnly'
<1>1. req \in [Slots -> Req]
  BY DEF IInv, TypeOK
<1>2. CASE Tick
  BY <1>2 DEF Tick, IInv, InsertersOnly
<1>3. ASSUME NEW z \in Slots, Request(z), ~RevokeAll(z)
      PROVE  InsertersOnly'
  <2>1. \A s \in Slots \ {z} : req'[s] = req[s]
    BY <1>1, <1>3 DEF Request, Login, Sign, InsertToken, Refresh, Logout, RevokeSelect,
       RevokeUpdate, ChangePassword, SetPassword, Finish
  <2>2. /\ req'[z].pc = "compare" => req'[z].op = "login"
        /\ req'[z].pc = "insert" => req'[z].op \in {"login", "refresh"}
    <3>1. CASE Login(z)
      BY <1>1, <3>1 DEF Login, Idle
    <3>6. CASE Sign(z)
      <4>1. req[z].op = "login" /\ req[z] \in Req
        BY <1>1, <3>6 DEF Sign, IInv, InsertersOnly
      <4> QED BY <1>1, <3>6, <4>1 DEF Sign, Req
    <3>7. CASE InsertToken(z)
      BY <1>1, <3>7 DEF InsertToken, Finish, Idle
    <3>2. ASSUME NEW t \in Seconds, Refresh(z, t) PROVE req'[z].pc = "saveSelect"
      BY <1>1, <3>2 DEF Refresh, Idle
    <3>3. ASSUME NEW t \in Seconds, Logout(z, t) PROVE req'[z].pc \in {"idle", "saveSelect"}
      BY <1>1, <3>3 DEF Logout, Idle
    <3>4. CASE RevokeSelect(z) \/ RevokeUpdate(z)
      <4>1. \/ req'[z] = AfterRevoke(req[z])
            \/ req'[z] = [req[z] EXCEPT !.pc = "saveUpdate"]
        BY <1>1, <3>4 DEF RevokeSelect, RevokeUpdate
      <4>2. req[z] \in Req
        BY <1>1
      <4>3. CASE req[z].op = "refresh"
        BY <4>1, <4>2, <4>3 DEF AfterRevoke, Req
      <4>4. CASE req[z].op # "refresh"
        BY <4>1, <4>2, <4>4 DEF AfterRevoke, Idle, Req
      <4> QED BY <4>3, <4>4
    <3>5. CASE ChangePassword(z) \/ SetPassword(z)
      BY <1>1, <3>5 DEF ChangePassword, SetPassword, Idle, Req
    <3> QED BY <1>3, <3>1, <3>2, <3>3, <3>4, <3>5, <3>6, <3>7 DEF Request
  <2> QED BY <2>1, <2>2 DEF IInv, InsertersOnly
<1>4. ASSUME NEW z \in Slots, RevokeAll(z)
      PROVE  InsertersOnly'
  <2> SUFFICES ASSUME NEW s \in Slots
               PROVE  /\ req'[s].pc = "compare" => req'[s].op = "login"
                      /\ req'[s].pc = "insert" => req'[s].op \in {"login", "refresh"}
    BY DEF InsertersOnly
  <2>1. req'[s] = IF s = z THEN Idle ELSE Overtaken(req[s])
    BY <1>4 DEF RevokeAll
  <2>2. CASE s = z
    BY <2>1, <2>2 DEF Idle
  <2>3. CASE s # z
    BY <1>1, <2>1, <2>3, OvertakenKeeps DEF IInv, InsertersOnly
  <2> QED BY <2>2, <2>3
<1> QED BY <1>2, <1>3, <1>4 DEF Next

LEMMA InvStart == Init => IInv
<1> SUFFICES ASSUME Init PROVE IInv
  OBVIOUS
<1>1. AnId \in RowIds
  BY SessionsAssumption DEF AnId
<1>2. Idle \in Req
  BY <1>1, SessionsAssumption DEF Idle, Req, Seconds
<1>3. TypeOK
  BY <1>2, SessionsAssumption DEF Init, TypeOK, Seconds
<1>4. HeldRowStored
  BY DEF Init, HeldRowStored, Idle
<1>5. InsertersOnly /\ InFlight
  BY DEF Init, InsertersOnly, InFlight, Idle
<1>6. OnlyLateSurvive
  BY DEF Init, OnlyLateSurvive, Stored
<1> QED BY <1>3, <1>4, <1>5, <1>6 DEF IInv

LEMMA InvHolds == Spec => []IInv
<1>1. IInv /\ UNCHANGED vars => IInv'
  BY DEF IInv, TypeOK, HeldRowStored, InsertersOnly, InFlight, OnlyLateSurvive, Live,
         Stored, vars
<1>2. IInv /\ [Next]_vars => IInv'
  BY <1>1, TypeStep, HeldStep, InsertersStep, InFlightStep, SurvivorStep DEF IInv
<1> QED BY <1>2, InvStart, PTL DEF Spec

(* Sessions is well typed in every reachable state. *)
THEOREM SessionsTyped == Spec => []TypeOK
<1>1. IInv => TypeOK
  BY DEF IInv
<1> QED BY <1>1, InvHolds, PTL

(* A session outlives a password change by a login or a refresh that the     *)
(* change's revoke statement overtook and by nothing else, for any number of *)
(* concurrent logins, refreshes, logouts and changes.                        *)
THEOREM ChangeEndsSessions == Spec => []OnlyLateSurvive
<1>1. IInv => OnlyLateSurvive
  BY DEF IInv
<1> QED BY <1>1, InvHolds, PTL

(* No interleaving of the three writers of isRevoked makes a revoked token   *)
(* valid again.                                                              *)
THEOREM RevocationIsFinal == Spec => RevokedIsFinal
<1>1. IInv /\ [Next]_vars =>
        [\A i \in Stored : tokens[i].isRevoked => (i \in Stored /\ tokens[i].isRevoked)']_vars
  BY RowsStay
<1> QED BY <1>1, InvHolds, PTL DEF Spec, RevokedIsFinal
-----------------------------------------------------------------------------
(* One valid token per login. While two refreshes of a session never         *)
(* overlapped, its only valid row is the one its refresh holds, and none is  *)
(* left when that refresh inserts the next. An insert under a fresh id       *)
(* disturbs no session, for a session is named by a row that is stored.      *)

Refreshes(s) == req[s].op = "refresh"

(* A session, of a row or of a refresh, is the id of a stored row. *)
SessionStored ==
  /\ \A i \in Stored : tokens[i].session \in Stored
  /\ \A s \in Slots : Refreshes(s) => req[s].session \in Stored

(* A session that two requests refresh at once has been noted as raced. *)
OneRefresher ==
  \A r, s \in Slots :
    (/\ Refreshes(r) /\ Refreshes(s)
     /\ req[r].session = req[s].session /\ req[s].session \notin raced) => r = s

(* The valid row that a refresh leaves to its session is at most its own, and *)
(* none once it has revoked that.                                            *)
OneLeft ==
  \A s \in Slots : Refreshes(s) /\ req[s].session \notin raced =>
    \A j \in Stored : Live(j) /\ tokens[j].session = req[s].session =>
      req[s].pc # "insert" /\ j = req[s].id

SessionInv == SessionStored /\ OneRefresher /\ OneLeft /\ OneTokenPerSession

(* A step that stores no row and begins no refresh keeps all of it: a refresh *)
(* may end, or go on to insert once the row it holds is revoked.              *)
LEMMA NoNewRow ==
  ASSUME IInv, SessionInv, Next, Stored' = Stored, raced \subseteq raced',
         \A s \in Slots : req'[s].op = "refresh" =>
           /\ req[s].op = "refresh"
           /\ req'[s].session = req[s].session /\ req'[s].id = req[s].id
           /\ req'[s].pc = "insert" => req[s].pc = "insert" \/ tokens'[req[s].id].isRevoked
  PROVE  SessionInv'
<1>1. \A i \in Stored : /\ tokens'[i].session = tokens[i].session
                        /\ Live(i)' => Live(i)
  BY RowsStay DEF Live
<1>2. SessionStored'
  BY <1>1 DEF SessionInv, SessionStored, Refreshes
<1>3. OneRefresher'
  BY DEF SessionInv, OneRefresher, Refreshes
<1>4. OneTokenPerSession'
  BY <1>1 DEF SessionInv, OneTokenPerSession
<1>5. OneLeft'
  <2> SUFFICES ASSUME NEW s \in Slots, req'[s].op = "refresh", req'[s].session \notin raced',
                      NEW j \in Stored', Live(j)', tokens'[j].session = req'[s].session
               PROVE  req'[s].pc # "insert" /\ j = req'[s].id
    BY DEF OneLeft, Refreshes
  <2>1. /\ req[s].op = "refresh" /\ req[s].session \notin raced /\ req'[s].id = req[s].id
        /\ Live(j) /\ tokens[j].session = req[s].session /\ j \in Stored
    BY <1>1
  <2>2. req[s].pc # "insert" /\ j = req[s].id
    BY <2>1 DEF SessionInv, OneLeft, Refreshes
  <2>3. ~tokens'[j].isRevoked
    BY DEF Live
  <2> QED BY <2>1, <2>2, <2>3
<1> QED BY <1>2, <1>3, <1>4, <1>5 DEF SessionInv

(* The insert of a login or of a refresh. *)
LEMMA InsertSession ==
  ASSUME IInv, SessionInv, Next, NEW z \in Slots, InsertToken(z)
  PROVE  SessionInv'
<1> DEFINE sesOf(i) == IF req[z].op = "login" THEN i ELSE req[z].session
<1>1. PICK i \in RowIds \ Stored, row \in Token :
        tokens' = [tokens EXCEPT ![i] = row] /\ ~row.isRevoked /\ row.session = sesOf(i)
  BY InsertedRow DEF IInv
<1> DEFINE ses == sesOf(i)
<1>2. /\ tokens'[i] = row /\ tokens'[i].session = ses /\ ~tokens'[i].isRevoked
      /\ \A j \in RowIds \ {i} : tokens'[j] = tokens[j]
  BY <1>1 DEF IInv, TypeOK
<1>3. tokens'[i] # NoToken
  BY <1>2, SessionsAssumption
<1>4. Stored' = Stored \cup {i}
  BY <1>1, <1>2, <1>3 DEF Stored
<1>5. raced' = raced /\ req' = [req EXCEPT ![z] = Idle] /\ req \in [Slots -> Req]
  BY DEF InsertToken, Finish, IInv, TypeOK
<1>6. req'[z].op = "login" /\ \A s \in Slots \ {z} : req'[s] = req[s]
  BY <1>5 DEF Idle
<1>7. req[z].pc = "insert" /\ req[z].op \in {"login", "refresh"}
  BY DEF InsertToken, IInv, InsertersOnly
<1> HIDE DEF ses, sesOf
<1>8. \A j \in Stored : /\ j # i /\ tokens'[j] = tokens[j]
                        /\ tokens[j].session \in Stored
  BY <1>2 DEF Stored, SessionInv, SessionStored
<1>9. \/ ses = i
      \/ req[z].op = "refresh" /\ ses = req[z].session /\ ses \in Stored
  BY <1>7 DEF ses, sesOf, SessionInv, SessionStored, Refreshes
<1>10. \A s \in Slots : req'[s].op = "refresh" => s # z /\ req[s].op = "refresh" /\ req'[s] = req[s]
  BY <1>6
<1>11. SessionStored'
  <2>1. \A j \in Stored' : tokens'[j].session \in Stored'
    BY <1>2, <1>4, <1>8, <1>9
  <2>2. \A s \in Slots : req'[s].op = "refresh" => req'[s].session \in Stored'
    BY <1>4, <1>10 DEF SessionInv, SessionStored, Refreshes
  <2> QED BY <2>1, <2>2 DEF SessionStored, Refreshes
<1>12. OneRefresher'
  BY <1>5, <1>10 DEF SessionInv, OneRefresher, Refreshes
<1>13. OneLeft'
  <2> SUFFICES ASSUME NEW s \in Slots, req'[s].op = "refresh", req'[s].session \notin raced',
                      NEW j \in Stored', Live(j)', tokens'[j].session = req'[s].session
               PROVE  req'[s].pc # "insert" /\ j = req'[s].id
    BY DEF OneLeft, Refreshes
  <2>1. s # z /\ req[s].op = "refresh" /\ req'[s] = req[s] /\ req[s].session \in Stored
    BY <1>10 DEF SessionInv, SessionStored, Refreshes
  <2>2. ASSUME j = i PROVE FALSE
    <3>1. ses = req[s].session
      BY <1>2, <2>1, <2>2
    <3>2. req[z].op = "refresh" /\ req[z].session = req[s].session
      BY <1>8, <1>9, <2>1, <3>1
    <3> QED BY <1>5, <2>1, <3>2 DEF SessionInv, OneRefresher, Refreshes
  <2>3. j \in Stored /\ tokens'[j] = tokens[j]
    BY <1>4, <1>8, <2>2
  <2> QED BY <1>5, <2>1, <2>3 DEF SessionInv, OneLeft, Refreshes, Live
<1>14. OneTokenPerSession'
  <2>1. ASSUME NEW j \in Stored, ~tokens[j].isRevoked, tokens[j].session = ses, ses \notin raced
        PROVE  FALSE
    BY <1>7, <1>8, <1>9, <2>1 DEF SessionInv, OneLeft, Refreshes, Live
  <2> SUFFICES ASSUME NEW j \in Stored', NEW k \in Stored', Live(j)', Live(k)',
                      tokens'[j].session = tokens'[k].session, tokens'[j].session \notin raced'
               PROVE  j = k
    BY DEF OneTokenPerSession
  <2>2. ~tokens'[j].isRevoked /\ ~tokens'[k].isRevoked
    BY DEF Live
  <2>3. CASE j = i \/ k = i
    BY <1>2, <1>4, <1>5, <1>8, <2>1, <2>2, <2>3
  <2>4. CASE j # i /\ k # i
    <3>1. j \in Stored /\ k \in Stored /\ tokens'[j] = tokens[j] /\ tokens'[k] = tokens[k]
      BY <1>4, <1>8, <2>4
    <3> QED BY <1>5, <2>2, <3>1 DEF SessionInv, OneTokenPerSession, Live
  <2> QED BY <2>3, <2>4
<1> QED BY <1>11, <1>12, <1>13, <1>14 DEF SessionInv

(* A refresh begins: with another one under way its session is raced, and     *)
(* otherwise the row it found is the only valid one.                         *)
LEMMA RefreshSession ==
  ASSUME IInv, SessionInv, Next, NEW z \in Slots, NEW t \in Seconds, Refresh(z, t)
  PROVE  SessionInv'
<1>1. PICK i \in Stored :
       /\ MayRefresh(i, t)
       /\ req' = [req EXCEPT ![z] = [Idle EXCEPT !.pc = "saveSelect",
               !.op = "refresh", !.id = i, !.session = tokens[i].session,
               !.begun = tokens[i].begun]]
       /\ raced' = IF Refreshing(tokens[i].session) = {} THEN raced
                   ELSE raced \cup {tokens[i].session}
  BY DEF Refresh
<1>2. tokens' = tokens /\ req[z].pc = "idle" /\ req \in [Slots -> Req]
  BY DEF Refresh, IInv, TypeOK
<1>3. /\ req'[z].pc = "saveSelect" /\ req'[z].op = "refresh" /\ req'[z].id = i
      /\ req'[z].session = tokens[i].session
      /\ \A s \in Slots \ {z} : req'[s] = req[s]
  BY <1>1, <1>2 DEF Idle
<1>4. Live(i) /\ tokens[i].session \in Stored /\ raced \subseteq raced' /\ Stored' = Stored
  BY <1>1, <1>2 DEF MayRefresh, Live, SessionInv, SessionStored, Stored
<1>5. \A j \in Stored : Live(j)' <=> Live(j)
  BY <1>2 DEF Live, Stored
<1>6. SessionStored'
  BY <1>2, <1>3, <1>4 DEF SessionInv, SessionStored, Refreshes
<1>7. ASSUME NEW s \in Slots, req[s].op = "refresh", req[s].session = tokens[i].session
      PROVE  tokens[i].session \in raced'
  <2>1. s \in Refreshing(tokens[i].session)
    BY <1>7 DEF Refreshing
  <2> QED BY <1>1, <2>1
<1>8. OneRefresher'
  <2> SUFFICES ASSUME NEW r \in Slots, NEW s \in Slots,
                      req'[r].op = "refresh", req'[s].op = "refresh",
                      req'[r].session = req'[s].session, req'[s].session \notin raced'
               PROVE  r = s
    BY DEF OneRefresher, Refreshes
  <2>1. CASE r # z /\ s # z
    BY <1>3, <1>4, <2>1 DEF SessionInv, OneRefresher, Refreshes
  <2>2. CASE r = z \/ s = z
    BY <1>3, <1>7, <2>2
  <2> QED BY <2>1, <2>2
<1>9. OneLeft'
  <2> SUFFICES ASSUME NEW s \in Slots, req'[s].op = "refresh", req'[s].session \notin raced',
                      NEW j \in Stored, Live(j), tokens[j].session = req'[s].session
               PROVE  req'[s].pc # "insert" /\ j = req'[s].id
    BY <1>2, <1>4, <1>5 DEF OneLeft, Refreshes
  <2>1. CASE s = z
    BY <1>3, <1>4, <2>1 DEF SessionInv, OneTokenPerSession
  <2>2. CASE s # z
    BY <1>3, <1>4, <2>2 DEF SessionInv, OneLeft, Refreshes
  <2> QED BY <2>1, <2>2
<1>10. OneTokenPerSession'
  BY <1>2, <1>4, <1>5 DEF SessionInv, OneTokenPerSession
<1> QED BY <1>6, <1>8, <1>9, <1>10 DEF SessionInv

(* Every other step stores no row and begins no refresh. *)
LEMMA OtherSession ==
  ASSUME IInv, SessionInv, Next,
         NEW z \in Slots,
         \/ Login(z) \/ Sign(z) \/ \E t \in Seconds : Logout(z, t)
         \/ RevokeSelect(z) \/ RevokeUpdate(z)
         \/ ChangePassword(z) \/ SetPassword(z) \/ RevokeAll(z)
  PROVE  SessionInv'
<1>1. req \in [Slots -> Req] /\ tokens \in [RowIds -> Token \cup {NoToken}]
  BY DEF IInv, TypeOK
<1>2. /\ raced' = raced
      /\ \A s \in Slots \ {z} :
           /\ req'[s].pc = req[s].pc /\ req'[s].op = req[s].op
           /\ req'[s].id = req[s].id /\ req'[s].session = req[s].session
  <2>1. CASE RevokeAll(z)
    BY <1>1, <2>1, OvertakenKeeps DEF RevokeAll
  <2> QED BY <1>1, <2>1 DEF Login, Sign, Logout, RevokeSelect, RevokeUpdate, ChangePassword,
              SetPassword
<1>3. Stored' = Stored
  <2>1. tokens' = tokens \/ RevokeUpdate(z) \/ RevokeAll(z)
    BY DEF Login, Sign, Logout, RevokeSelect, ChangePassword, SetPassword
  <2>2. CASE tokens' = tokens
    BY <2>2 DEF Stored
  <2>3. ASSUME NEW i \in RowIds, i \notin Stored, RevokeUpdate(z) \/ RevokeAll(z)
        PROVE  tokens'[i] = tokens[i]
    BY <1>1, <2>3 DEF RevokeUpdate, RevokeAll, RevokesOnChange, Live, IInv, HeldRowStored
  <2>4. CASE RevokeUpdate(z) \/ RevokeAll(z)
    BY <2>3, <2>4, RowsStay DEF Stored
  <2> QED BY <2>1, <2>2, <2>4
<1>4. ASSUME req'[z].op = "refresh"
      PROVE  /\ req[z].op = "refresh"
             /\ req'[z].session = req[z].session /\ req'[z].id = req[z].id
             /\ req'[z].pc = "insert" => req[z].pc = "insert" \/ tokens'[req[z].id].isRevoked
  <2>0. req[z] \in Req
    BY <1>1
  <2>1. CASE Login(z) \/ Sign(z) \/ ChangePassword(z) \/ RevokeAll(z)
    <3>1. CASE Login(z)
      BY <1>1, <1>4, <3>1 DEF Login, Idle
    <3>4. CASE Sign(z)
      <4>1. req[z].op = "login"
        BY <3>4 DEF Sign, IInv, InsertersOnly
      <4> QED BY <1>1, <1>4, <2>0, <3>4, <4>1 DEF Sign, Req
    <3>2. CASE ChangePassword(z)
      <4>1. req'[z] = [Idle EXCEPT !.pc = "setPassword", !.op = "change"]
        BY <1>1, <3>2 DEF ChangePassword
      <4> QED BY <1>4, <4>1 DEF Idle
    <3>3. CASE RevokeAll(z)
      BY <1>1, <1>4, <3>3 DEF RevokeAll, Idle
    <3> QED BY <2>1, <3>1, <3>2, <3>3, <3>4
  <2>2. ASSUME NEW t \in Seconds, Logout(z, t) PROVE FALSE
    <3>1. PICK i \in Stored : req' = [req EXCEPT ![z] =
            IF tokens[i].isRevoked THEN Idle
            ELSE [Idle EXCEPT !.pc = "saveSelect", !.op = "logout", !.id = i]]
      BY <2>2 DEF Logout
    <3>2. req'[z] = Idle \/ req'[z] = [Idle EXCEPT !.pc = "saveSelect", !.op = "logout", !.id = i]
      BY <1>1, <3>1
    <3>3. CASE req'[z] = Idle
      BY <1>4, <3>3 DEF Idle
    <3>4. CASE req'[z] = [Idle EXCEPT !.pc = "saveSelect", !.op = "logout", !.id = i]
      BY <1>4, <3>4 DEF Idle
    <3> QED BY <3>2, <3>3, <3>4
  <2>3. CASE RevokeSelect(z)
    <3>1. /\ req'[z] = IF tokens[req[z].id].isRevoked THEN AfterRevoke(req[z])
                       ELSE [req[z] EXCEPT !.pc = "saveUpdate"]
          /\ tokens' = tokens
      BY <1>1, <2>3 DEF RevokeSelect
    <3> QED BY <1>4, <2>0, <3>1 DEF AfterRevoke, Idle, Req
  <2>4. CASE RevokeUpdate(z)
    <3>1. req'[z] = AfterRevoke(req[z]) /\ req[z].pc = "saveUpdate"
      BY <1>1, <2>4 DEF RevokeUpdate
    <3>2. req[z].id \in Stored
      BY <3>1 DEF IInv, HeldRowStored
    <3>3. tokens'[req[z].id].isRevoked
      BY <1>1, <2>4, <3>2, RecordTypes DEF RevokeUpdate, IInv, Stored
    <3> QED BY <1>4, <2>0, <3>1, <3>3 DEF AfterRevoke, Idle, Req
  <2>5. CASE SetPassword(z)
    BY <1>1, <1>4, <2>0, <2>5 DEF SetPassword, Req
  <2> QED BY <1>4, <2>1, <2>2, <2>3, <2>4, <2>5
<1>5. \A s \in Slots : req'[s].op = "refresh" =>
           /\ req[s].op = "refresh"
           /\ req'[s].session = req[s].session /\ req'[s].id = req[s].id
           /\ req'[s].pc = "insert" => req[s].pc = "insert" \/ tokens'[req[s].id].isRevoked
  BY <1>2, <1>4
<1> QED BY <1>2, <1>3, <1>5, NoNewRow

LEMMA SessionHolds == Spec => []SessionInv
<1>1. Init => SessionInv
  BY DEF Init, SessionInv, SessionStored, OneRefresher, OneLeft, OneTokenPerSession,
         Stored, Refreshes, Idle
<1>2. ASSUME IInv, SessionInv, [Next]_vars PROVE SessionInv'
  <2>1. CASE UNCHANGED vars
    BY <1>2, <2>1 DEF vars, SessionInv, SessionStored, OneRefresher, OneLeft,
       OneTokenPerSession, Stored, Live, Refreshes
  <2>2. CASE Tick
    BY <1>2, <2>2 DEF Tick, SessionInv, SessionStored, OneRefresher, OneLeft,
       OneTokenPerSession, Stored, Live, Refreshes
  <2>3. ASSUME NEW z \in Slots, Request(z) PROVE SessionInv'
    <3>1. Next
      BY <2>3 DEF Next
    <3> QED BY <1>2, <2>3, <3>1, InsertSession, RefreshSession, OtherSession DEF Request
  <2> QED BY <1>2, <2>1, <2>2, <2>3 DEF Next
<1> QED BY <1>1, <1>2, InvHolds, PTL DEF Spec

(* A login has one valid refresh token at a time, however its logouts,       *)
(* refreshes and the password's changes interleave, unless two of its        *)
(* refreshes overlapped.                                                     *)
THEOREM LoginHasOneToken == Spec => []OneTokenPerSession
<1>1. SessionInv => OneTokenPerSession
  BY DEF SessionInv
<1> QED BY <1>1, SessionHolds, PTL
=============================================================================
