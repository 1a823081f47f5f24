----------------------------- MODULE PushProofs -----------------------------
(***************************************************************************)
(* The three properties of Push, for any number of batches, customers,     *)
(* phones and events, and any day and window.                              *)
(***************************************************************************)
EXTENDS Push, TLAPS

BatchRec == [pc : {"idle", "prefs", "create", "devices", "send", "deactivate"},
             type : Types, left : SUBSET Users, user : Users,
             tokens : SUBSET Tokens, hit : Tokens, clear : BOOLEAN]
UpdateRec == [pc : {"idle", "insert", "select", "update"}, user : Users, field : Fields,
              held : Prefs, dirty : SUBSET Fields]
RegRec == [pc : {"idle", "insert", "select", "update"}, user : Users, token : Tokens,
           dirty : SUBSET {"user", "active"}]

Typed ==
  /\ now \in Nat
  /\ prefs \in [Users -> Prefs \cup {NoPrefs}] /\ told \in [Users -> Prefs]
  /\ device \in [Tokens -> Device \cup {NoDevice}]
  /\ cache \in [Keys -> Int] /\ sentAt \in [Keys -> Int]
  /\ batch \in [Batches -> BatchRec] /\ update \in UpdateRec /\ reg \in RegRec

-----------------------------------------------------------------------------
(* Rows of preferences *)

LEMMA PrefsShape ==
  ASSUME NEW p \in Prefs
  PROVE  /\ DOMAIN p = Fields /\ p = [f \in Fields |-> p[f]]
         /\ \A t \in Types : p[t] \in BOOLEAN
         /\ p["quiet"] \in QuietHours
PROOF
  <1>1. PICK on \in [Types -> BOOLEAN], q \in QuietHours : p = PrefsOf(on, q)
    BY DEF Prefs
  <1>2. p = [f \in Fields |-> IF f = "quiet" THEN q ELSE on[f]]
    BY <1>1 DEF PrefsOf
  <1>3. "quiet" \in Fields /\ \A t \in Types : t \in Fields /\ t # "quiet"
    BY DEF Fields, Types
  <1>4. DOMAIN p = Fields /\ p = [f \in Fields |-> p[f]] /\ p["quiet"] = q
    BY <1>2, <1>3
  <1>5. \A t \in Types : p[t] = on[t]
    BY <1>2, <1>3
  <1> QED
    BY <1>4, <1>5

LEMMA PrefsMade ==
  ASSUME NEW p, p = [f \in Fields |-> p[f]], \A t \in Types : p[t] \in BOOLEAN,
         p["quiet"] \in QuietHours
  PROVE  p \in Prefs
PROOF
  <1> DEFINE on == [t \in Types |-> p[t]]
             q == p["quiet"]
  <1>1. on \in [Types -> BOOLEAN]
    OBVIOUS
  <1>2. \A f \in Fields : p[f] = IF f = "quiet" THEN q ELSE on[f]
    BY DEF Fields, Types
  <1> HIDE DEF on, q
  <1>3. p = PrefsOf(on, q)
    BY <1>2 DEF PrefsOf
  <1>4. q \in QuietHours
    BY DEF q
  <1> HIDE DEF PrefsOf
  <1> QED
    BY <1>1, <1>3, <1>4 DEF Prefs

LEMMA DefaultsShape ==
  /\ Defaults \in Prefs /\ Defaults["quiet"] = <<>>
  /\ \A t \in Types : Defaults[t] = TRUE
PROOF
  <1>1. Defaults = [f \in Fields |-> IF f = "quiet" THEN <<>> ELSE [t \in Types |-> TRUE][f]]
    BY DEF Defaults, PrefsOf
  <1>2. "quiet" \in Fields /\ \A t \in Types : t \in Fields /\ t # "quiet"
    BY DEF Fields, Types
  <1>3. Defaults["quiet"] = <<>>
    BY <1>1, <1>2
  <1>4. \A t \in Types : Defaults[t] = TRUE
    BY <1>1, <1>2
  <1>5. Defaults \in Prefs
    <2> DEFINE on == [t \in Types |-> TRUE]
    <2>1. on \in [Types -> BOOLEAN] /\ <<>> \in QuietHours
      BY PushAssumption
    <2>2. Defaults = PrefsOf(on, <<>>)
      BY DEF Defaults
    <2> HIDE DEF on
    <2> QED
      BY <2>1, <2>2 DEF Prefs
  <1> QED
    BY <1>3, <1>4, <1>5

LEMMA PrefsExcept ==
  ASSUME NEW p \in Prefs, NEW f \in Fields, NEW v \in Choices(f)
  PROVE  /\ [p EXCEPT ![f] = v] \in Prefs /\ [p EXCEPT ![f] = v][f] = v
         /\ \A g \in Fields \ {f} : [p EXCEPT ![f] = v][g] = p[g]
PROOF
  <1> DEFINE r == [p EXCEPT ![f] = v]
  <1>1. /\ DOMAIN p = Fields /\ p = [x \in Fields |-> p[x]]
        /\ \A t \in Types : p[t] \in BOOLEAN
        /\ p["quiet"] \in QuietHours
    BY PrefsShape
  <1>2. r = [x \in Fields |-> IF x = f THEN v ELSE p[x]]
    BY <1>1
  <1> HIDE DEF r
  <1>3. /\ r = [x \in Fields |-> r[x]] /\ r[f] = v /\ \A g \in Fields \ {f} : r[g] = p[g]
    BY <1>2
  <1>4. (f = "quiet" => v \in QuietHours) /\ (f # "quiet" => v \in BOOLEAN)
    BY DEF Choices
  <1>5. "quiet" \in Fields /\ Types \subseteq Fields \ {"quiet"}
    BY DEF Fields, Types
  <1>6. r["quiet"] \in QuietHours
    BY <1>1, <1>3, <1>4, <1>5
  <1>7. \A t \in Types : r[t] \in BOOLEAN
    BY <1>1, <1>3, <1>4, <1>5
  <1>8. r \in Prefs
    BY <1>3, <1>6, <1>7, PrefsMade
  <1> QED
    BY <1>3, <1>8 DEF r

LEMMA PrefsMixed ==
  ASSUME NEW p \in Prefs, NEW h \in Prefs, NEW d
  PROVE  [f \in Fields |-> IF f \in d THEN h[f] ELSE p[f]] \in Prefs
PROOF
  <1> DEFINE r == [f \in Fields |-> IF f \in d THEN h[f] ELSE p[f]]
  <1>1. /\ \A t \in Types : p[t] \in BOOLEAN /\ h[t] \in BOOLEAN
        /\ p["quiet"] \in QuietHours /\ h["quiet"] \in QuietHours
    BY PrefsShape
  <1>2. "quiet" \in Fields /\ Types \subseteq Fields
    BY DEF Fields
  <1>3. r = [f \in Fields |-> r[f]]
    OBVIOUS
  <1>4. \A f \in Fields : r[f] \in {h[f], p[f]}
    OBVIOUS
  <1> HIDE DEF r
  <1>5. r["quiet"] \in QuietHours
    BY <1>1, <1>2, <1>4
  <1>6. \A t \in Types : r[t] \in BOOLEAN
    BY <1>1, <1>2, <1>4
  <1>7. r \in Prefs
    BY <1>3, <1>5, <1>6, PrefsMade
  <1> QED
    BY <1>7 DEF r

-----------------------------------------------------------------------------
(* Quiet hours *)

LEMMA ModSmall ==
  ASSUME NEW d \in Nat \ {0}, NEW a \in 0 .. d - 1
  PROVE  a % d = a
  OBVIOUS

LEMMA ModWrap ==
  ASSUME NEW d \in Nat \ {0}, NEW a \in 0 .. d - 1
  PROVE  (a + d) % d = a
  OBVIOUS

(* The comparison of strings agrees with going round the clock. *)
LEMMA QuietIsCyclic ==
  ASSUME NEW s \in 0 .. Day - 1, NEW e \in 0 .. Day - 1, NEW t \in 0 .. Day - 1,
         ~InQuietHours(<<s, e>>, t)
  PROVE  t \notin Cyclic(<<s, e>>)
PROOF
  <1>1. Day \in Nat \ {0}
    BY PushAssumption
  <1>2. (e - s + Day) % Day = IF s > e THEN e - s + Day ELSE e - s
    <2>1. CASE s > e
      <3>1. e - s + Day \in 0 .. Day - 1
        BY <1>1, <2>1
      <3> QED
        BY <1>1, <2>1, <3>1, ModSmall
    <2>2. CASE ~(s > e)
      <3>1. e - s \in 0 .. Day - 1
        BY <1>1, <2>2
      <3> QED
        BY <1>1, <2>2, <3>1, ModWrap
    <2> QED
      BY <2>1, <2>2
  <1>3. ASSUME NEW i \in 0 .. ((e - s + Day) % Day) - 1, (s + i) % Day = t
        PROVE  FALSE
    <2>1. i \in Int /\ 0 <= i /\ i < (IF s > e THEN e - s + Day ELSE e - s)
      BY <1>1, <1>2, <1>3
    <2>2. CASE s + i < Day
      <3>1. s + i \in 0 .. Day - 1
        BY <1>1, <2>1, <2>2
      <3>2. t = s + i
        BY <1>1, <1>3, <3>1, ModSmall
      <3> QED
        BY <1>1, <2>1, <3>2 DEF InQuietHours
    <2>3. CASE ~(s + i < Day)
      <3>1. s + i - Day \in 0 .. Day - 1 /\ s > e
        BY <1>1, <2>1, <2>3
      <3>2. (s + i - Day + Day) % Day = s + i - Day
        BY <1>1, <3>1, ModWrap
      <3>3. t = s + i - Day
        BY <1>1, <1>3, <2>1, <3>2
      <3> QED
        BY <1>1, <2>1, <3>1, <3>3 DEF InQuietHours
    <2> QED
      BY <2>2, <2>3
  <1>4. Cyclic(<<s, e>>) = {(s + i) % Day : i \in 0 .. ((e - s + Day) % Day) - 1}
    BY DEF Cyclic
  <1> QED
    BY <1>3, <1>4

-----------------------------------------------------------------------------
LEMMA IdleShape ==
  /\ AUser \in Users /\ AToken \in Tokens
  /\ IdleBatch.pc = "idle" /\ IdleBatch.tokens = {}
  /\ IdleBatch \in BatchRec
  /\ IdleUpdate \in UpdateRec
  /\ IdleUpdate.pc = "idle"
  /\ IdleReg \in RegRec
  /\ IdleReg.pc = "idle"
PROOF
  <1>1. AUser \in Users /\ AToken \in Tokens
    BY PushAssumption DEF AUser, AToken
  <1>2. "quiet" \in Fields /\ "vibe_alert" \in Types
    BY DEF Fields, Types
  <1> QED
    BY <1>1, <1>2, DefaultsShape DEF IdleBatch, IdleUpdate, IdleReg, BatchRec, UpdateRec, RegRec

(* What a batch goes on with sends to nobody yet. *)
LEMMA NextShape ==
  ASSUME NEW j, j.left \in SUBSET Users, j.type \in Types
  PROVE  /\ NextUser(j) \in BatchRec
         /\ NextUser(j).pc \in {"idle", "prefs"} /\ NextUser(j).tokens = {}
PROOF
  <1>1. CASE j.left = {}
    BY <1>1, IdleShape DEF NextUser
  <1>2. CASE j.left # {}
    BY <1>2, IdleShape DEF NextUser, BatchRec
  <1> QED
    BY <1>1, <1>2

LEMMA DecideTyped ==
  ASSUME Typed, NEW b \in Batches, NEW u \in Users, NEW p, Decide(b, u, p)
  PROVE  /\ batch' \in [Batches -> BatchRec]
         /\ cache' \in [Keys -> Int]
         /\ \A x \in Batches \ {b} : batch'[x] = batch[x]
         /\ batch'[b].tokens \subseteq batch[b].tokens
         /\ \/ batch'[b].pc \in {"idle", "prefs"}
            \/ /\ batch'[b].pc = "devices"
               /\ batch'[b].user = u /\ batch'[b].type = batch[b].type
               /\ batch'[b].clear = WantedBy(u, batch[b].type)
               /\ ShouldSend(p, batch[b].type)
               /\ ~IsDuplicate(<<u, batch[b].type>>)
               /\ excused' = IF \E x \in Batches \ {b} : Past(x, <<u, batch[b].type>>)
                             THEN excused \cup {<<u, batch[b].type>>} ELSE excused
PROOF
  <1> DEFINE j == [batch[b] EXCEPT !.left = @ \ {u}]
             k == <<u, j.type>>
             w == WantedBy(u, j.type)
             q == [j EXCEPT !.pc = "devices", !.user = u, !.clear = w]
             go == ShouldSend(p, j.type) /\ ~IsDuplicate(k)
  <1>1. /\ batch[b].type \in Types /\ batch[b].left \subseteq Users
        /\ j.type = batch[b].type /\ j.left \subseteq Users /\ j.tokens = batch[b].tokens
        /\ j \in BatchRec
    BY DEF Typed, BatchRec
  <1>2. batch' = [batch EXCEPT ![b] = IF go THEN q ELSE NextUser(j)]
    BY DEF Decide
  <1>3. w \in BOOLEAN
    BY DEF WantedBy
  <1>4. cache' \in [Keys -> Int]
    <2>1. Swept(k) \in [Keys -> Int] /\ cache \in [Keys -> Int]
      BY DEF Swept, Typed
    <2> QED
      BY <2>1 DEF Decide, cacheVars
  <1>5. excused' = IF go /\ \E x \in Batches \ {b} : Past(x, k) THEN excused \cup {k} ELSE excused
    BY DEF Decide
  <1> HIDE DEF j, w, k
  <1>6. /\ q \in BatchRec
        /\ q.pc = "devices" /\ q.user = u /\ q.type = j.type /\ q.clear = w
        /\ q.tokens = j.tokens
    BY <1>1, <1>3 DEF BatchRec
  <1>7. /\ NextUser(j) \in BatchRec
        /\ NextUser(j).pc \in {"idle", "prefs"} /\ NextUser(j).tokens = {}
    BY <1>1, NextShape
  <1> HIDE DEF q
  <1>8. CASE go
    <2>1. batch' = [batch EXCEPT ![b] = q]
      BY <1>2, <1>8
    <2>2. /\ \A x \in Batches \ {b} : batch'[x] = batch[x]
          /\ batch'[b] = q
          /\ batch' \in [Batches -> BatchRec]
      BY <2>1, <1>6 DEF Typed
    <2>3. k = <<u, batch[b].type>> /\ w = WantedBy(u, batch[b].type)
      BY <1>1 DEF k, w
    <2> QED
      BY <1>1, <1>4, <1>5, <1>6, <1>8, <2>2, <2>3
  <1>9. CASE ~go
    <2>1. batch' = [batch EXCEPT ![b] = NextUser(j)]
      BY <1>2, <1>9
    <2>2. /\ \A x \in Batches \ {b} : batch'[x] = batch[x]
          /\ batch'[b] = NextUser(j)
          /\ batch' \in [Batches -> BatchRec]
      BY <2>1, <1>7 DEF Typed
    <2> QED
      BY <1>4, <1>7, <2>2
  <1> QED
    BY <1>8, <1>9

(* The part of a batch after the preferences, for one customer: the phones are *)
(* found, or some of them have been sent to, or the customer is done with and, *)
(* if there was a phone, the key is marked.                                    *)
Found(b) == /\ batch[b].pc = "devices" /\ batch'[b].tokens = ActiveDevices(batch[b].user)
            /\ UNCHANGED <<cache, sentAt>>
Fewer(b) == /\ batch[b].pc \in {"send", "deactivate"} /\ batch'[b].tokens \subseteq batch[b].tokens
            /\ UNCHANGED <<cache, sentAt>>
Same(b) == /\ batch'[b].pc \in {"send", "deactivate"}
           /\ batch'[b].user = batch[b].user /\ batch'[b].type = batch[b].type
           /\ batch'[b].clear = batch[b].clear
Marked(b) == LET k == <<batch[b].user, batch[b].type>> IN
  /\ batch[b].pc \in {"send", "deactivate"}
  /\ cache' = MarkedSent(k) /\ sentAt' = [sentAt EXCEPT ![k] = now]
Over(b) == batch'[b].pc \in {"idle", "prefs"} /\ batch'[b].tokens = {}

Sending(b) ==
  /\ batch' \in [Batches -> BatchRec]
  /\ \A x \in Batches \ {b} : batch'[x] = batch[x]
  /\ \/ Same(b) /\ (Found(b) \/ Fewer(b))
     \/ Over(b) /\ (UNCHANGED <<cache, sentAt>> \/ Marked(b))

LEMMA ContinueSends ==
  ASSUME Typed, NEW b \in Batches, NEW rest \in SUBSET batch[b].tokens, Continue(b, rest),
         batch[b].pc \in {"send", "deactivate"}
  PROVE  Sending(b)
PROOF
  <1>1. batch[b] \in BatchRec /\ batch \in [Batches -> BatchRec]
    BY DEF Typed
  <1>2. CASE rest # {}
    <2> DEFINE q == [batch[b] EXCEPT !.pc = "send", !.tokens = rest]
    <2>1. batch' = [batch EXCEPT ![b] = q] /\ UNCHANGED <<cache, sentAt>>
      BY <1>1, <1>2 DEF Continue
    <2>2. /\ q \in BatchRec /\ q.pc = "send" /\ q.tokens = rest /\ q.user = batch[b].user
          /\ q.type = batch[b].type /\ q.clear = batch[b].clear
      BY <1>1 DEF BatchRec
    <2> HIDE DEF q
    <2>3. batch' \in [Batches -> BatchRec] /\ batch'[b] = q
          /\ \A x \in Batches \ {b} : batch'[x] = batch[x]
      BY <1>1, <2>1, <2>2
    <2> QED
      BY <2>1, <2>2, <2>3 DEF Sending, Same, Fewer
  <1>3. CASE rest = {}
    <2> DEFINE q == NextUser(batch[b])
    <2>1. q \in BatchRec /\ q.pc \in {"idle", "prefs"} /\ q.tokens = {}
      <3>1. batch[b].left \in SUBSET Users /\ batch[b].type \in Types
        BY <1>1 DEF BatchRec
      <3> QED
        BY <3>1, NextShape
    <2>2. batch' = [batch EXCEPT ![b] = q]
      BY <1>3 DEF Continue
    <2>3. Marked(b)
      BY <1>3 DEF Continue, Marked
    <2> HIDE DEF q
    <2>4. batch' \in [Batches -> BatchRec] /\ batch'[b] = q
          /\ \A x \in Batches \ {b} : batch'[x] = batch[x]
      BY <1>1, <2>1, <2>2
    <2> QED
      BY <2>1, <2>3, <2>4 DEF Sending, Over
  <1> QED
    BY <1>2, <1>3

LEMMA BeginSends ==
  ASSUME Typed, NEW b \in Batches, NEW type \in Types, NEW users \in SUBSET Users,
         BeginBatch(b, type, users)
  PROVE  Sending(b)
PROOF
  <1> DEFINE j == [IdleBatch EXCEPT !.left = users, !.type = type]
  <1>1. j.left = users /\ j.type = type
    BY DEF IdleBatch
  <1>2. batch' = [batch EXCEPT ![b] = NextUser(j)] /\ UNCHANGED <<cache, sentAt>>
    BY DEF BeginBatch, cacheVars, histVars
  <1> HIDE DEF j
  <1>3. NextUser(j) \in BatchRec /\ NextUser(j).pc \in {"idle", "prefs"} /\ NextUser(j).tokens = {}
    BY <1>1, NextShape
  <1>4. batch' \in [Batches -> BatchRec] /\ batch'[b] = NextUser(j)
        /\ \A x \in Batches \ {b} : batch'[x] = batch[x]
    BY <1>2, <1>3 DEF Typed
  <1> QED
    BY <1>2, <1>3, <1>4 DEF Sending, Over

LEMMA FindSends ==
  ASSUME Typed, NEW b \in Batches, FindDevices(b)
  PROVE  Sending(b)
PROOF
  <1> DEFINE ts == ActiveDevices(batch[b].user)
  <1>1. /\ batch[b] \in BatchRec /\ batch \in [Batches -> BatchRec]
        /\ batch[b].left \in SUBSET Users /\ batch[b].type \in Types
        /\ UNCHANGED <<cache, sentAt>> /\ batch[b].pc = "devices"
    BY DEF Typed, BatchRec, FindDevices, cacheVars, histVars
  <1>2. ts \subseteq Tokens
    BY DEF ActiveDevices
  <1>3. CASE ts = {}
    <2>1. batch' = [batch EXCEPT ![b] = NextUser(batch[b])]
      BY <1>1, <1>3 DEF FindDevices
    <2>2. /\ NextUser(batch[b]) \in BatchRec /\ NextUser(batch[b]).pc \in {"idle", "prefs"}
          /\ NextUser(batch[b]).tokens = {}
      BY <1>1, NextShape
    <2> QED
      BY <1>1, <2>1, <2>2 DEF Sending, Over
  <1>4. CASE ts # {}
    <2> DEFINE q == [batch[b] EXCEPT !.pc = "send", !.tokens = ts]
    <2>1. batch' = [batch EXCEPT ![b] = q]
      BY <1>1, <1>4 DEF FindDevices
    <2> HIDE DEF ts
    <2>2. /\ q \in BatchRec /\ q.pc = "send" /\ q.tokens = ts /\ q.user = batch[b].user
          /\ q.type = batch[b].type /\ q.clear = batch[b].clear
      BY <1>1, <1>2 DEF BatchRec
    <2> HIDE DEF q
    <2>3. batch' \in [Batches -> BatchRec] /\ batch'[b] = q
          /\ \A x \in Batches \ {b} : batch'[x] = batch[x]
      BY <1>1, <2>1, <2>2
    <2> QED
      BY <1>1, <2>2, <2>3 DEF Sending, Same, Found, ts
  <1> QED
    BY <1>3, <1>4

LEMMA SendSends ==
  ASSUME Typed, NEW b \in Batches, SendToDevice(b)
  PROVE  Sending(b)
PROOF
  <1>1. /\ batch[b] \in BatchRec /\ batch \in [Batches -> BatchRec] /\ batch[b].pc = "send"
    BY DEF Typed, SendToDevice
  <1>2. PICK t \in batch[b].tokens :
          \/ Continue(b, batch[b].tokens \ {t})
          \/ /\ batch' = [batch EXCEPT ![b].pc = "deactivate", ![b].hit = t, ![b].tokens = @ \ {t}]
             /\ UNCHANGED <<cache, sentAt>>
    BY DEF SendToDevice
  <1>3. CASE Continue(b, batch[b].tokens \ {t})
    BY <1>1, <1>3, ContinueSends
  <1>4. CASE /\ batch' = [batch EXCEPT ![b].pc = "deactivate", ![b].hit = t, ![b].tokens = @ \ {t}]
             /\ UNCHANGED <<cache, sentAt>>
    <2> DEFINE q == [batch[b] EXCEPT !.pc = "deactivate", !.hit = t, !.tokens = @ \ {t}]
    <2>1. batch' = [batch EXCEPT ![b] = q]
      BY <1>1, <1>4
    <2>2. /\ q \in BatchRec /\ q.pc = "deactivate" /\ q.tokens \subseteq batch[b].tokens
          /\ q.user = batch[b].user /\ q.type = batch[b].type /\ q.clear = batch[b].clear
      BY <1>1, <1>2 DEF BatchRec
    <2> HIDE DEF q
    <2>3. batch' \in [Batches -> BatchRec] /\ batch'[b] = q
          /\ \A x \in Batches \ {b} : batch'[x] = batch[x]
      BY <1>1, <2>1, <2>2
    <2> QED
      BY <1>1, <1>4, <2>2, <2>3 DEF Sending, Same, Fewer
  <1> QED
    BY <1>2, <1>3, <1>4

LEMMA ThrowSends ==
  ASSUME Typed, NEW b \in Batches, BatchThrows(b)
  PROVE  Sending(b)
PROOF
  <1>1. /\ batch' = [batch EXCEPT ![b] = IdleBatch] /\ UNCHANGED <<cache, sentAt>>
    BY DEF BatchThrows, cacheVars, histVars
  <1> QED
    BY <1>1, IdleShape DEF Typed, Sending, Over

(* Every step of a batch but those that read or create preferences *)
LEMMA BatchSends ==
  ASSUME Typed, NEW b \in Batches,
         \/ NotifySavedUsers(b) \/ HandleWeeklyRecap(b) \/ FindDevices(b)
         \/ SendToDevice(b) \/ MarkInactive(b) \/ BatchThrows(b)
  PROVE  /\ Sending(b)
         /\ UNCHANGED <<now, prefs, told, unkept, update, reg, excused>>
         /\ cache' \in [Keys -> Int] /\ sentAt' \in [Keys -> Int]
PROOF
  <1>1. {"vibe_alert", "weekly_recap"} = Types /\ Savers \subseteq Users
    BY PushAssumption DEF Types
  <1>2. Sending(b)
    <2>1. CASE NotifySavedUsers(b) \/ HandleWeeklyRecap(b)
      BY <1>1, <2>1, BeginSends DEF NotifySavedUsers, HandleWeeklyRecap
    <2>2. CASE MarkInactive(b)
      BY <2>2, ContinueSends DEF MarkInactive
    <2> QED
      BY <2>1, <2>2, FindSends, SendSends, ThrowSends
  <1>3. UNCHANGED <<now, prefs, told, unkept, update, reg, excused>>
    BY DEF NotifySavedUsers, HandleWeeklyRecap, BeginBatch, FindDevices, SendToDevice, MarkInactive,
       BatchThrows, rowVars, histVars
  <1>4. cache' \in [Keys -> Int] /\ sentAt' \in [Keys -> Int]
    <2>1. CASE UNCHANGED <<cache, sentAt>>
      BY <2>1 DEF Typed
    <2>2. CASE Marked(b)
      <3>1. now + Window \in Int /\ now \in Int
        BY PushAssumption DEF Typed
      <3>2. PICK k : cache' = [cache EXCEPT ![k] = now + Window] /\ sentAt' = [sentAt EXCEPT ![k] = now]
        BY <2>2 DEF Marked, MarkedSent
      <3> QED
        BY <3>1, <3>2 DEF Typed
    <2> QED
      BY <1>2, <2>1, <2>2 DEF Sending, Found, Fewer
  <1> QED
    BY <1>2, <1>3, <1>4

(* The reading of the preferences of a customer *)
LEMMA ReadFacts ==
  ASSUME Typed, NEW b \in Batches, ReadPrefs(b) \/ CreatePrefs(b)
  PROVE  /\ batch[b].pc \in {"prefs", "create"}
         /\ \/ \E u \in Users, p \in Prefs :
                 /\ Decide(b, u, p)
                 /\ p = prefs[u] \/ (p = Defaults /\ (prefs[u] = NoPrefs \/ u \in unkept'))
            \/ /\ batch'[b].pc = "create" /\ batch'[b].tokens = batch[b].tokens
               /\ \A x \in Batches \ {b} : batch'[x] = batch[x]
               /\ batch' \in [Batches -> BatchRec]
               /\ UNCHANGED <<cache, excused>>
         /\ UNCHANGED <<now, device, update, reg, told, sentAt>>
         /\ unkept \subseteq unkept'
         /\ prefs' = prefs \/ \E u \in Users : prefs[u] = NoPrefs /\ prefs' = [prefs EXCEPT ![u] = Defaults]
PROOF
  <1>1. /\ batch[b] \in BatchRec /\ batch \in [Batches -> BatchRec]
        /\ batch[b].left \subseteq Users /\ batch[b].user \in Users
    BY DEF Typed, BatchRec
  <1>2. CASE ReadPrefs(b)
    <2>1. /\ batch[b].pc = "prefs" /\ UNCHANGED <<now, device, prefs, update, reg, told, unkept, sentAt>>
      BY <1>2 DEF ReadPrefs, rowVars
    <2>2. PICK u \in batch[b].left :
            IF prefs[u] # NoPrefs THEN Decide(b, u, prefs[u])
            ELSE /\ batch' = [batch EXCEPT ![b].pc = "create", ![b].user = u]
                 /\ UNCHANGED <<cacheVars, excused>>
      BY <1>2 DEF ReadPrefs
    <2>3. CASE prefs[u] # NoPrefs
      <3>1. prefs[u] \in Prefs /\ u \in Users /\ Decide(b, u, prefs[u])
        BY <1>1, <2>2, <2>3 DEF Typed
      <3> QED
        BY <2>1, <3>1
    <2>4. CASE prefs[u] = NoPrefs
      <3> DEFINE q == [batch[b] EXCEPT !.pc = "create", !.user = u]
      <3>1. batch' = [batch EXCEPT ![b] = q] /\ UNCHANGED <<cache, excused>>
        BY <1>1, <2>2, <2>4 DEF cacheVars
      <3>2. q \in BatchRec /\ q.pc = "create" /\ q.tokens = batch[b].tokens
        BY <1>1, <2>2 DEF BatchRec
      <3> HIDE DEF q
      <3>3. batch'[b] = q /\ batch' \in [Batches -> BatchRec]
            /\ \A x \in Batches \ {b} : batch'[x] = batch[x]
        BY <1>1, <3>1, <3>2
      <3> QED
        BY <2>1, <3>1, <3>2, <3>3
    <2> QED
      BY <2>3, <2>4
  <1>3. CASE CreatePrefs(b)
    <2>1. /\ batch[b].pc = "create" /\ UNCHANGED <<now, device, update, reg, told, sentAt>>
          /\ Decide(b, batch[b].user, Defaults)
          /\ \/ /\ prefs[batch[b].user] = NoPrefs
                /\ prefs' = [prefs EXCEPT ![batch[b].user] = Defaults] /\ unkept' = unkept
             \/ /\ prefs' = prefs /\ unkept \subseteq unkept'
                /\ prefs[batch[b].user] = NoPrefs \/ batch[b].user \in unkept'
      BY <1>3 DEF CreatePrefs
    <2> QED
      BY <1>1, <2>1, DefaultsShape
  <1> QED
    BY <1>2, <1>3

(* The steps of phones and of time *)
PhoneStep == \/ UpdateFind \/ UpdateInsert \/ UpdateSelect \/ UpdateUpdate
             \/ RegisterFind \/ RegisterInsert \/ RegisterSelect \/ RegisterUpdate
             \/ (\E t \in Tokens : DeactivateDevice(t)) \/ Tick

LEMMA PhoneFacts ==
  ASSUME PhoneStep
  PROVE  UNCHANGED <<batch, cache, sentAt, excused>>
  BY DEF PhoneStep, UpdateFind, UpdateInsert, UpdateSelect, UpdateUpdate, RegisterFind, RegisterInsert,
     RegisterSelect, RegisterUpdate, DeactivateDevice, Tick, cacheVars, histVars

Eff(u) == IF prefs[u] = NoPrefs THEN Defaults ELSE prefs[u]

(* What PUT and POST do, in the form the invariants need *)
LEMMA UpdateFindFacts ==
  ASSUME Typed, UpdateFind
  PROVE  \E u \in Users, f \in Fields :
           /\ update' \in UpdateRec /\ update'.user = u /\ update'.field = f
           /\ update'.pc = IF prefs[u] = NoPrefs THEN "insert" ELSE "select"
           /\ \A g \in Fields \ {f} : update'.held[g] = Eff(u)[g]
           /\ told' = [told EXCEPT ![u] = told'[u]]
           /\ told'[u] \in Prefs /\ told'[u][f] = Defaults[f]
           /\ \A g \in Fields \ {f} : told'[u][g] = told[u][g]
PROOF
  <1>1. PICK u \in Users, f \in Fields : \E v \in Choices(f) :
          /\ update' = [pc |-> IF prefs[u] = NoPrefs THEN "insert" ELSE "select", user |-> u,
                        field |-> f, dirty |-> {}, held |-> [Eff(u) EXCEPT ![f] = v]]
          /\ told' = [told EXCEPT ![u][f] = Defaults[f]]
    BY DEF UpdateFind, Eff
  <1>2. PICK v \in Choices(f) :
          /\ update' = [pc |-> IF prefs[u] = NoPrefs THEN "insert" ELSE "select", user |-> u,
                        field |-> f, dirty |-> {}, held |-> [Eff(u) EXCEPT ![f] = v]]
          /\ told' = [told EXCEPT ![u][f] = Defaults[f]]
    BY <1>1
  <1>3. Eff(u) \in Prefs /\ told[u] \in Prefs /\ told \in [Users -> Prefs]
    BY DefaultsShape DEF Eff, Typed
  <1>4. Defaults[f] \in Choices(f)
    <2>1. <<>> \in QuietHours /\ (f # "quiet" => f \in Types)
      BY PushAssumption DEF Fields
    <2> QED
      BY <2>1, DefaultsShape DEF Choices
  <1> DEFINE h == [Eff(u) EXCEPT ![f] = v]
             r == [told[u] EXCEPT ![f] = Defaults[f]]
  <1>5. h \in Prefs /\ \A g \in Fields \ {f} : h[g] = Eff(u)[g]
    BY <1>3, PrefsExcept
  <1>6. r \in Prefs /\ r[f] = Defaults[f] /\ \A g \in Fields \ {f} : r[g] = told[u][g]
    BY <1>3, <1>4, PrefsExcept
  <1>7. told' = [told EXCEPT ![u] = r] /\ told'[u] = r
    BY <1>2, <1>3
  <1> HIDE DEF h, r
  <1>8. /\ update' \in UpdateRec /\ update'.user = u /\ update'.field = f
        /\ update'.pc = (IF prefs[u] = NoPrefs THEN "insert" ELSE "select")
        /\ update'.held = h
    BY <1>2, <1>5 DEF UpdateRec, h
  <1>9. /\ update' \in UpdateRec /\ update'.user = u /\ update'.field = f
        /\ update'.pc = (IF prefs[u] = NoPrefs THEN "insert" ELSE "select")
        /\ \A g \in Fields \ {f} : update'.held[g] = Eff(u)[g]
        /\ told' = [told EXCEPT ![u] = told'[u]]
        /\ told'[u] \in Prefs /\ told'[u][f] = Defaults[f]
        /\ \A g \in Fields \ {f} : told'[u][g] = told[u][g]
    BY <1>5, <1>6, <1>7, <1>8
  <1> HIDE DEF Eff
  <1> QED
    BY <1>9, Zenon

LEMMA AnsweredFacts ==
  ASSUME Typed, Answered
  PROVE  /\ update' = IdleUpdate
         /\ told' = [told EXCEPT ![update.user] = told'[update.user]]
         /\ told'[update.user] \in Prefs
         /\ told'[update.user][update.field] = update.held[update.field]
         /\ \A g \in Fields \ {update.field} : told'[update.user][g] = told[update.user][g]
PROOF
  <1> DEFINE u == update.user
             f == update.field
             v == update.held[f]
             r == [told[u] EXCEPT ![f] = v]
  <1>1. /\ u \in Users /\ f \in Fields /\ update.held \in Prefs /\ told[u] \in Prefs
        /\ told \in [Users -> Prefs]
    BY DEF Typed, UpdateRec
  <1>2. v \in Choices(f)
    <2>1. f # "quiet" => f \in Types
      BY <1>1 DEF Fields
    <2> QED
      BY <1>1, <2>1, PrefsShape DEF Choices
  <1>3. r \in Prefs /\ r[f] = v /\ \A g \in Fields \ {f} : r[g] = told[u][g]
    BY <1>1, <1>2, PrefsExcept
  <1>4. told' = [told EXCEPT ![u] = r] /\ told'[u] = r /\ update' = IdleUpdate
    BY <1>1 DEF Answered
  <1> HIDE DEF r
  <1> QED
    BY <1>3, <1>4

LEMMA DirtyMix ==
  ASSUME Typed, UpdateUpdate, prefs[update.user] # NoPrefs
  PROVE  \/ NotStored
         \/ /\ prefs' = [prefs EXCEPT ![update.user] = prefs'[update.user]]
            /\ prefs'[update.user] \in Prefs
            /\ unkept' = unkept
            /\ \A f \in Fields : prefs'[update.user][f] =
                 IF f \in update.dirty THEN update.held[f] ELSE prefs[update.user][f]
PROOF
  <1> DEFINE u == update.user
             r == [f \in Fields |-> IF f \in update.dirty THEN update.held[f] ELSE prefs[u][f]]
  <1>1. u \in Users /\ prefs[u] \in Prefs /\ update.held \in Prefs
    BY DEF Typed, UpdateRec
  <1>2. r \in Prefs
    BY <1>1, PrefsMixed
  <1>3. NotStored \/ (prefs' = [prefs EXCEPT ![u] = r] /\ unkept' = unkept)
    BY DEF UpdateUpdate
  <1>4. ASSUME prefs' = [prefs EXCEPT ![u] = r] PROVE prefs'[u] = r
    BY <1>1, <1>4 DEF Typed
  <1> HIDE DEF r
  <1>5. \A f \in Fields : r[f] = IF f \in update.dirty THEN update.held[f] ELSE prefs[u][f]
    BY DEF r
  <1> QED
    BY <1>2, <1>3, <1>4, <1>5

(* The request holds a row that has not changed since, but for its own column. *)
Unchanged ==
  /\ update.pc = "insert" => \A g \in Fields \ {update.field} : update.held[g] = Defaults[g]
  /\ update.pc \in {"select", "update"} =>
       /\ prefs[update.user] # NoPrefs
       /\ \A g \in Fields \ {update.field} : update.held[g] = prefs[update.user][g]
  /\ update.pc = "update" =>
       update.dirty = {f \in Fields : update.held[f] # prefs[update.user][f]}

Registering ==
  /\ reg.pc = "insert" => device[reg.token] = NoDevice
  /\ reg.pc \in {"select", "update"} => device[reg.token] # NoDevice

LEMMA RegisterFacts ==
  ASSUME Typed, Registering, RegisterInsert \/ RegisterUpdate
  PROVE  \E d \in Device : device' = [device EXCEPT ![reg.token] = d]
PROOF
  <1>1. reg.user \in Users /\ reg.token \in Tokens
    BY DEF Typed, RegRec
  <1>2. CASE RegisterInsert
    <2> DEFINE d == [user |-> reg.user, active |-> TRUE]
    <2>1. d \in Device
      BY <1>1 DEF Device
    <2>2. device' = [device EXCEPT ![reg.token] = d]
      BY <1>2 DEF RegisterInsert
    <2> HIDE DEF d
    <2> QED
      BY <2>1, <2>2
  <1>3. CASE RegisterUpdate
    <2> DEFINE o == device[reg.token]
               d == [user |-> IF "user" \in reg.dirty THEN reg.user ELSE o.user,
                     active |-> IF "active" \in reg.dirty THEN TRUE ELSE o.active]
    <2>1. o \in Device
      BY <1>1, <1>3 DEF Registering, RegisterUpdate, Typed
    <2>2. d \in Device
      <3> HIDE DEF o
      <3> QED
        BY <1>1, <2>1 DEF Device
    <2>3. device' = [device EXCEPT ![reg.token] = d]
      BY <1>1, <1>3 DEF RegisterUpdate, Typed
    <2> HIDE DEF d
    <2> QED
      BY <2>2, <2>3
  <1> QED
    BY <1>2, <1>3

LEMMA TurnOffFacts ==
  ASSUME Typed, NEW t \in Tokens, TurnOff(t)
  PROVE  /\ device' \in [Tokens -> Device \cup {NoDevice}]
         /\ \A x \in Tokens : device[x] = NoDevice <=> device'[x] = NoDevice
         /\ \A x \in Tokens : device[x] # NoDevice => device'[x].user = device[x].user
PROOF
  <1>1. CASE device[t] = NoDevice
    BY <1>1 DEF TurnOff, Typed
  <1>2. CASE device[t] # NoDevice
    <2> DEFINE d == [device[t] EXCEPT !.active = FALSE]
    <2>1. device[t] \in Device
      BY <1>2 DEF Typed
    <2>2. d \in Device /\ d.user = device[t].user
      BY <2>1 DEF Device
    <2>3. d # NoDevice
      BY <2>2, PushAssumption
    <2>4. device' = [device EXCEPT ![t] = d]
      BY <1>2 DEF TurnOff, Typed
    <2> HIDE DEF d
    <2> QED
      BY <1>2, <2>2, <2>3, <2>4 DEF Typed
  <1> QED
    BY <1>1, <1>2

LEMMA TypedKept ==
  ASSUME Typed, Unchanged, Registering, [Next]_vars
  PROVE  Typed'
PROOF
  <1>1. CASE UNCHANGED vars
    BY <1>1 DEF vars, rowVars, cacheVars, histVars, Typed
  <1>2. ASSUME NEW b \in Batches,
               \/ NotifySavedUsers(b) \/ HandleWeeklyRecap(b) \/ FindDevices(b)
               \/ SendToDevice(b) \/ MarkInactive(b) \/ BatchThrows(b)
        PROVE  Typed'
    <2>1. /\ Sending(b) /\ UNCHANGED <<now, prefs, told, update, reg>>
          /\ cache' \in [Keys -> Int] /\ sentAt' \in [Keys -> Int]
      BY <1>2, BatchSends
    <2>2. batch' \in [Batches -> BatchRec]
      BY <2>1 DEF Sending
    <2>3. device' \in [Tokens -> Device \cup {NoDevice}]
      BY <1>2 DEF NotifySavedUsers, HandleWeeklyRecap, BeginBatch, FindDevices, SendToDevice,
         MarkInactive, BatchThrows, TurnOff, rowVars, Typed, Device
    <2> QED
      BY <2>1, <2>2, <2>3 DEF Typed
  <1>3. ASSUME NEW b \in Batches, ReadPrefs(b) \/ CreatePrefs(b)
        PROVE  Typed'
    <2>1. /\ UNCHANGED <<now, device, update, reg, told, sentAt>>
          /\ \/ prefs' = prefs
             \/ \E u \in Users : prefs[u] = NoPrefs /\ prefs' = [prefs EXCEPT ![u] = Defaults]
          /\ \/ \E u \in Users, p \in Prefs : Decide(b, u, p)
             \/ batch' \in [Batches -> BatchRec] /\ cache' = cache
      BY <1>3, ReadFacts
    <2>2. batch' \in [Batches -> BatchRec] /\ cache' \in [Keys -> Int]
      BY <2>1, DecideTyped DEF Typed
    <2>3. prefs' \in [Users -> Prefs \cup {NoPrefs}]
      BY <2>1, DefaultsShape DEF Typed
    <2> QED
      BY <2>1, <2>2, <2>3 DEF Typed
  <1>4. CASE UpdateFind
    <2>1. PICK u \in Users : /\ update' \in UpdateRec /\ told' = [told EXCEPT ![u] = told'[u]]
                             /\ told'[u] \in Prefs
      BY <1>4, UpdateFindFacts
    <2>2. told' \in [Users -> Prefs]
      BY <2>1 DEF Typed
    <2> QED
      BY <1>4, <2>1, <2>2 DEF Typed, UpdateFind, rowVars, cacheVars
  <1>5. ASSUME Answered
        PROVE  update' \in UpdateRec /\ told' \in [Users -> Prefs]
    <2>1. /\ update' = IdleUpdate /\ told' = [told EXCEPT ![update.user] = told'[update.user]]
          /\ told'[update.user] \in Prefs
      BY <1>5, AnsweredFacts
    <2> QED
      BY <2>1, IdleShape DEF Typed
  <1>6. CASE UpdateInsert
    <2>1. prefs' \in [Users -> Prefs \cup {NoPrefs}]
      BY <1>6 DEF UpdateInsert, NotStored, Typed, UpdateRec
    <2> QED
      BY <1>5, <1>6, <2>1 DEF Typed, UpdateInsert, cacheVars
  <1>7. CASE UpdateSelect
    <2> DEFINE dirty == {f \in Fields : update.held[f] # prefs[update.user][f]}
    <2>1. dirty \in SUBSET Fields
      OBVIOUS
    <2>2. (Answered) \/ (update' = [update EXCEPT !.pc = "update", !.dirty = dirty] /\ told' = told)
      BY <1>7 DEF UpdateSelect
    <2> HIDE DEF dirty
    <2>3. update' \in UpdateRec /\ told' \in [Users -> Prefs]
      BY <1>5, <2>1, <2>2 DEF Typed, UpdateRec
    <2> QED
      BY <1>7, <2>3 DEF Typed, UpdateSelect, NotStored, rowVars, cacheVars
  <1>8. CASE UpdateUpdate
    <2>1. \/ prefs' = prefs
          \/ /\ prefs' = [prefs EXCEPT ![update.user] = prefs'[update.user]]
             /\ prefs'[update.user] \in Prefs
      BY <1>8, DirtyMix DEF Unchanged, UpdateUpdate, NotStored
    <2>2. prefs' \in [Users -> Prefs \cup {NoPrefs}]
      BY <2>1 DEF Typed
    <2> QED
      BY <1>5, <1>8, <2>2 DEF Typed, UpdateUpdate, cacheVars
  <1>9. CASE RegisterFind \/ RegisterInsert \/ RegisterSelect \/ RegisterUpdate
    <2>1. UNCHANGED <<now, prefs, told, cache, sentAt, batch, update>>
      BY <1>9 DEF RegisterFind, RegisterInsert, RegisterSelect, RegisterUpdate, rowVars, cacheVars,
         histVars
    <2>2. reg.user \in Users /\ reg.token \in Tokens /\ reg.pc \in {"idle", "insert", "select", "update"}
          /\ reg.dirty \subseteq {"user", "active"}
      BY DEF Typed, RegRec
    <2>3. reg' \in RegRec
      <3>1. CASE RegisterFind
        BY <3>1 DEF RegisterFind, RegRec
      <3>2. CASE RegisterSelect
        <4> DEFINE d == Differs(device[reg.token])
        <4>1. d \subseteq {"user", "active"}
          BY DEF Differs
        <4>2. reg' = [reg EXCEPT !.pc = "update", !.dirty = d]
          BY <3>2 DEF RegisterSelect
        <4> HIDE DEF d
        <4> QED
          BY <4>1, <4>2 DEF Typed, RegRec
      <3> QED
        BY <1>9, <3>1, <3>2, IdleShape DEF RegisterInsert, RegisterUpdate
    <2>4. device' \in [Tokens -> Device \cup {NoDevice}]
      <3>1. CASE RegisterInsert \/ RegisterUpdate
        BY <3>1, RegisterFacts DEF Typed
      <3>2. CASE RegisterFind \/ RegisterSelect
        BY <3>2 DEF RegisterFind, RegisterSelect, rowVars, Typed
      <3> QED
        BY <1>9, <3>1, <3>2
    <2> QED
      BY <2>1, <2>3, <2>4 DEF Typed
  <1>10. ASSUME NEW t \in Tokens, DeactivateDevice(t) PROVE Typed'
    BY <1>10 DEF DeactivateDevice, TurnOff, Typed, Device, cacheVars
  <1>11. CASE Crash
    BY <1>11, IdleShape DEF Crash, Typed, rowVars
  <1>12. CASE Tick
    BY <1>12 DEF Tick, Typed, rowVars, cacheVars, histVars
  <1> QED
    BY <1>1, <1>2, <1>3, <1>4, <1>6, <1>7, <1>8, <1>9, <1>10, <1>11, <1>12 DEF Next

-----------------------------------------------------------------------------
(* Opting out *)

(* Of a customer whose answers were kept, the stored preferences are those    *)
(* they were answered, or they may still expect either value.                *)
AsAnswered == \A u \in Users \ unkept : \A f \in Fields :
  told[u][f] = Defaults[f] \/ told[u][f] = Eff(u)[f]

LEMMA Wanted ==
  ASSUME Typed, NEW u \in Users, NEW type \in Types, NEW p \in Prefs, ShouldSend(p, type),
         \A f \in Fields : told[u][f] = Defaults[f] \/ told[u][f] = p[f]
  PROVE  WantedBy(u, type)
PROOF
  <1>1. type \in Fields /\ "quiet" \in Fields
    BY DEF Fields
  <1>2. p[type] /\ ~Quiet(p)
    BY DEF ShouldSend
  <1>3. told[u][type] = TRUE
    BY <1>1, <1>2, DefaultsShape, PrefsShape
  <1> DEFINE q == told[u]["quiet"]
             t == now % Day
  <1>4. q = <<>> \/ q = p["quiet"]
    BY <1>1, DefaultsShape
  <1>5. t \notin Cyclic(q)
    <2>1. CASE q = <<>>
      BY <2>1 DEF Cyclic
    <2>2. CASE q # <<>>
      <3>1. q \in QuietHours /\ ~InQuietHours(q, t)
        BY <1>2, <1>4, <2>2, PrefsShape DEF Quiet
      <3>2. q \in (0 .. Day - 1) \X (0 .. Day - 1)
        BY <2>2, <3>1, PushAssumption
      <3>3. PICK s \in 0 .. Day - 1, e \in 0 .. Day - 1 : q = <<s, e>>
        BY <3>2
      <3>4. t \in 0 .. Day - 1
        BY PushAssumption DEF Typed
      <3> HIDE DEF q, t
      <3> QED
        BY <3>1, <3>3, <3>4, QuietIsCyclic
    <2> QED
      BY <2>1, <2>2
  <1> QED
    BY <1>3, <1>5 DEF WantedBy

LEMMA NotNoPrefs ==
  ASSUME NEW p \in Prefs
  PROVE  p # NoPrefs
  BY PushAssumption

LEMMA OptKept ==
  ASSUME Typed, Unchanged, AsAnswered, OptOutRespected, [Next]_vars
  PROVE  Unchanged' /\ AsAnswered' /\ OptOutRespected'
PROOF
  <1>0. PICK me \in Users : me = update.user
    BY DEF Typed, UpdateRec
  <1>1. CASE UNCHANGED <<prefs, told, unkept, update, batch>>
    BY <1>1 DEF Unchanged, AsAnswered, Eff, OptOutRespected
  <1>2. ASSUME NEW b \in Batches,
               \/ NotifySavedUsers(b) \/ HandleWeeklyRecap(b) \/ FindDevices(b)
               \/ SendToDevice(b) \/ MarkInactive(b) \/ BatchThrows(b)
        PROVE  Unchanged' /\ AsAnswered' /\ OptOutRespected'
    <2>1. Sending(b) /\ UNCHANGED <<prefs, told, unkept, update>>
      BY <1>2, BatchSends
    <2>2. Unchanged' /\ AsAnswered'
      BY <2>1 DEF Unchanged, AsAnswered, Eff
    <2>3. OptOutRespected'
      BY <2>1 DEF OptOutRespected, Sending, Same, Found, Fewer, Over
    <2> QED
      BY <2>2, <2>3
  <1>3. ASSUME NEW b \in Batches, ReadPrefs(b) \/ CreatePrefs(b)
        PROVE  Unchanged' /\ AsAnswered' /\ OptOutRespected'
    <2>1. /\ \/ \E u \in Users, p \in Prefs :
                 /\ Decide(b, u, p)
                 /\ p = prefs[u] \/ (p = Defaults /\ (prefs[u] = NoPrefs \/ u \in unkept'))
             \/ batch'[b].pc = "create" /\ \A x \in Batches \ {b} : batch'[x] = batch[x]
          /\ UNCHANGED <<update, told>> /\ unkept \subseteq unkept'
          /\ prefs' = prefs \/ \E u \in Users : prefs[u] = NoPrefs /\ prefs' = [prefs EXCEPT ![u] = Defaults]
      BY <1>3, ReadFacts
    <2>2. /\ \A u \in Users : prefs[u] # NoPrefs => prefs'[u] = prefs[u]
          /\ \A u \in Users : prefs'[u] = prefs[u] \/ (prefs[u] = NoPrefs /\ prefs'[u] = Defaults)
      BY <2>1 DEF Typed
    <2>3. Unchanged'
      <3>1. update.user \in Users
        BY DEF Typed, UpdateRec
      <3> QED
        BY <2>1, <2>2, <3>1 DEF Unchanged
    <2>4. \A u \in Users : Eff(u)' = Eff(u)
      BY <2>2, DefaultsShape, NotNoPrefs DEF Eff
    <2>5. AsAnswered'
      BY <2>1, <2>4 DEF AsAnswered
    <2>6. OptOutRespected'
      <3>1. CASE batch'[b].pc = "create" /\ \A x \in Batches \ {b} : batch'[x] = batch[x]
        BY <2>1, <3>1 DEF OptOutRespected
      <3>2. ASSUME NEW u \in Users, NEW p \in Prefs, Decide(b, u, p),
                   p = prefs[u] \/ (p = Defaults /\ (prefs[u] = NoPrefs \/ u \in unkept'))
            PROVE  OptOutRespected'
        <4>1. /\ \A x \in Batches \ {b} : batch'[x] = batch[x]
              /\ \/ batch'[b].pc \in {"idle", "prefs"}
                 \/ /\ batch'[b].user = u /\ ShouldSend(p, batch[b].type)
                    /\ batch'[b].clear = WantedBy(u, batch[b].type)
          BY <3>2, DecideTyped
        <4>2. batch[b].type \in Types
          BY DEF Typed, BatchRec
        <4>3. u \in unkept' \/ \A f \in Fields : told[u][f] = Defaults[f] \/ told[u][f] = p[f]
          BY <2>1, <3>2, NotNoPrefs DEF AsAnswered, Eff
        <4>4. ShouldSend(p, batch[b].type) => WantedBy(u, batch[b].type) \/ u \in unkept'
          BY <4>2, <4>3, Wanted
        <4>5. batch'[b].pc \in {"idle", "prefs"} \/ batch'[b].clear \/ batch'[b].user \in unkept'
          BY <4>1, <4>4
        <4> QED
          BY <2>1, <4>1, <4>5 DEF OptOutRespected
      <3> QED
        BY <2>1, <3>1, <3>2
    <2> QED
      BY <2>3, <2>5, <2>6
  <1>4. CASE UpdateFind
    <2>1. UNCHANGED <<prefs, unkept, batch>>
      BY <1>4 DEF UpdateFind, rowVars
    <2>2. PICK u \in Users, f \in Fields :
           /\ update'.user = u /\ update'.field = f
           /\ update'.pc = IF prefs[u] = NoPrefs THEN "insert" ELSE "select"
           /\ \A g \in Fields \ {f} : update'.held[g] = Eff(u)[g]
           /\ told' = [told EXCEPT ![u] = told'[u]]
           /\ told'[u][f] = Defaults[f]
           /\ \A g \in Fields \ {f} : told'[u][g] = told[u][g]
      BY <1>4, UpdateFindFacts
    <2>3. \A x \in Users \ {u} : told'[x] = told[x]
      BY <2>2 DEF Typed
    <2>4. Unchanged'
      BY <2>1, <2>2 DEF Unchanged, Eff
    <2>5. AsAnswered'
      BY <2>1, <2>2, <2>3 DEF AsAnswered, Eff
    <2> QED
      BY <2>1, <2>4, <2>5 DEF OptOutRespected
  <1>5. ASSUME Answered, batch' = batch, unkept \subseteq unkept',
               \A x \in Users \ {me} : prefs'[x] = prefs[x],
               \/ me \in unkept'
               \/ /\ Eff(me)'[update.field] = update.held[update.field]
                  /\ \A g \in Fields \ {update.field} : Eff(me)'[g] = Eff(me)[g]
               \/ /\ Eff(me)'[update.field] = update.held[update.field]
                  /\ \A g \in Fields \ {update.field} : Eff(me)[g] = Defaults[g]
        PROVE  Unchanged' /\ AsAnswered' /\ OptOutRespected'
    <2> DEFINE u == me
               f == update.field
    <2>1. /\ update' = IdleUpdate /\ told' = [told EXCEPT ![u] = told'[u]]
          /\ told'[u][f] = update.held[f]
          /\ \A g \in Fields \ {f} : told'[u][g] = told[u][g]
      BY <1>0, <1>5, AnsweredFacts
    <2>2. \A x \in Users \ {u} : told'[x] = told[x]
      BY <2>1 DEF Typed
    <2>3. Unchanged'
      BY <2>1, IdleShape DEF Unchanged
    <2>4. \A x \in Users \ {u} : Eff(x)' = Eff(x)
      BY <1>5 DEF Eff
    <2>5. u \in unkept' \/ \A g \in Fields : told'[u][g] = Defaults[g] \/ told'[u][g] = Eff(u)'[g]
      <3> HIDE DEF Eff
      <3> QED
        BY <1>5, <2>1 DEF AsAnswered
    <2>6. AsAnswered'
      BY <1>5, <2>2, <2>4, <2>5 DEF AsAnswered
    <2> QED
      BY <1>5, <2>3, <2>6 DEF OptOutRespected
  <1>6. CASE UpdateInsert
    <2>1. /\ Answered /\ batch' = batch /\ update.pc = "insert"
          /\ me \in Users /\ update.held \in Prefs
      BY <1>0, <1>6 DEF UpdateInsert, Typed, UpdateRec
    <2>2. CASE prefs[me] = NoPrefs /\ ~NotStored
      <3>1. prefs' = [prefs EXCEPT ![me] = update.held] /\ unkept' = unkept
        BY <1>0, <1>6, <2>2 DEF UpdateInsert
      <3>2. prefs'[me] = update.held /\ \A x \in Users \ {me} : prefs'[x] = prefs[x]
        BY <2>1, <3>1 DEF Typed
      <3>3. Eff(me)' = update.held /\ Eff(me) = Defaults
        BY <2>1, <2>2, <3>2, NotNoPrefs DEF Eff
      <3> QED
        BY <1>5, <2>1, <3>1, <3>2, <3>3
    <2>3. CASE NotStored
      BY <1>0, <1>5, <2>1, <2>3 DEF NotStored
    <2> QED
      BY <1>0, <1>6, <2>2, <2>3 DEF UpdateInsert
  <1>7. CASE UpdateSelect
    <2> DEFINE dirty == {f \in Fields : update.held[f] # prefs[update.user][f]}
    <2>1. /\ UNCHANGED <<prefs, batch>> /\ update.pc = "select" /\ update.field \in Fields
          /\ \/ dirty = {} /\ Answered /\ unkept' = unkept
             \/ /\ update' = [update EXCEPT !.pc = "update", !.dirty = dirty] /\ told' = told
                /\ unkept' = unkept
             \/ NotStored /\ Answered
      BY <1>7 DEF UpdateSelect, NotStored, rowVars, Typed, UpdateRec
    <2>4. CASE NotStored /\ Answered
      BY <1>0, <1>5, <2>1, <2>4 DEF NotStored
    <2>2. CASE dirty = {} /\ Answered /\ unkept' = unkept
      <3>1. /\ Eff(me)'[update.field] = update.held[update.field]
            /\ Eff(me)' = Eff(me)
        BY <1>0, <2>1, <2>2 DEF Eff, Unchanged
      <3> QED
        BY <1>5, <2>1, <2>2, <3>1
    <2>3. CASE /\ update' = [update EXCEPT !.pc = "update", !.dirty = dirty] /\ told' = told
               /\ unkept' = unkept
      <3>1. /\ update'.pc = "update" /\ update'.dirty = dirty /\ update'.user = update.user
            /\ update'.held = update.held /\ update'.field = update.field
        <4> HIDE DEF dirty
        <4> QED
          BY <2>3 DEF Typed, UpdateRec
      <3>2. Unchanged'
        BY <2>1, <3>1 DEF Unchanged
      <3> QED
        BY <2>1, <2>3, <3>2 DEF AsAnswered, Eff, OptOutRespected
    <2> QED
      BY <2>1, <2>2, <2>3, <2>4
  <1>11. CASE UpdateUpdate /\ NotStored
    BY <1>0, <1>5, <1>11 DEF UpdateUpdate, NotStored
  <1>8. CASE UpdateUpdate /\ ~NotStored
    <2> DEFINE u == me
               f == update.field
    <2>1. /\ Answered /\ batch' = batch /\ unkept' = unkept /\ update.pc = "update"
          /\ u \in Users /\ f \in Fields
      BY <1>0, <1>8 DEF UpdateUpdate, Typed, UpdateRec
    <2>2. /\ prefs[u] # NoPrefs
          /\ \A g \in Fields \ {f} : update.held[g] = prefs[u][g]
          /\ update.dirty = {g \in Fields : update.held[g] # prefs[u][g]}
      BY <1>0, <2>1 DEF Unchanged
    <2>3. /\ prefs' = [prefs EXCEPT ![u] = prefs'[u]] /\ prefs'[u] \in Prefs
          /\ \A g \in Fields : prefs'[u][g] = IF g \in update.dirty THEN update.held[g] ELSE prefs[u][g]
      BY <1>0, <1>8, <2>2, DirtyMix
    <2>4. \A g \in Fields : prefs'[u][g] = update.held[g]
      BY <2>2, <2>3
    <2>5. Eff(u)' = prefs'[u] /\ Eff(u) = prefs[u]
      BY <2>2, <2>3, NotNoPrefs DEF Eff
    <2>6. \A x \in Users \ {u} : prefs'[x] = prefs[x]
      BY <2>3 DEF Typed
    <2> HIDE DEF u, f
    <2> QED
      BY <1>5, <2>1, <2>2, <2>4, <2>5, <2>6 DEF u, f
  <1>9. CASE Crash
    <2>1. /\ UNCHANGED <<prefs, told, unkept>> /\ update' = IdleUpdate
          /\ \A b \in Batches : batch'[b] = IdleBatch
      BY <1>9 DEF Crash, rowVars
    <2> QED
      BY <2>1, IdleShape DEF Unchanged, AsAnswered, Eff, OptOutRespected
  <1>10. CASE \/ UNCHANGED vars \/ Tick \/ \E t \in Tokens : DeactivateDevice(t)
              \/ RegisterFind \/ RegisterInsert \/ RegisterSelect \/ RegisterUpdate
    <2>1. UNCHANGED <<prefs, told, unkept, update, batch>>
      BY <1>10 DEF vars, Tick, DeactivateDevice, RegisterFind, RegisterInsert, RegisterSelect,
         RegisterUpdate, rowVars, histVars
    <2> QED
      BY <1>1, <2>1
  <1> QED
    BY <1>2, <1>3, <1>4, <1>6, <1>7, <1>8, <1>9, <1>10, <1>11 DEF Next

-----------------------------------------------------------------------------
(* Whose phones *)

NoPhonesYet == \A b \in Batches : batch[b].pc \notin {"send", "deactivate"} => batch[b].tokens = {}
PhonesStored == \A b \in Batches : \A t \in batch[b].tokens : device[t] # NoDevice

Phones == Registering /\ NoPhonesYet /\ PhonesStored /\ PushReachesOwner

(* The steps that only turn phones off, and move no batch to a phone it did   *)
(* not hold or that is not its customer's.                                    *)
LEMMA PhonesOff ==
  ASSUME Typed, Phones, crossed \subseteq crossed', reg' = reg,
         \A x \in Tokens : device[x] = NoDevice <=> device'[x] = NoDevice,
         \A x \in Tokens : device[x] # NoDevice => device'[x].user = device[x].user,
         batch' \in [Batches -> BatchRec],
         \A b \in Batches :
           /\ batch'[b].pc \notin {"send", "deactivate"} => batch'[b].tokens = {}
           /\ \/ batch'[b].tokens = {}
              \/ /\ batch'[b].user = batch[b].user
                 /\ batch'[b].tokens \subseteq batch[b].tokens \cup ActiveDevices(batch[b].user)
  PROVE  Phones'
PROOF
  <1>1. Registering'
    <2>1. reg.token \in Tokens
      BY DEF Typed, RegRec
    <2> QED
      BY <2>1 DEF Phones, Registering
  <1>2. NoPhonesYet'
    BY DEF NoPhonesYet
  <1>3. ASSUME NEW b \in Batches, NEW t \in batch'[b].tokens
        PROVE  device'[t] # NoDevice /\ (device'[t].user = batch'[b].user \/ t \in crossed')
    <2>1. /\ batch'[b].user = batch[b].user
          /\ t \in batch[b].tokens \cup ActiveDevices(batch[b].user)
      BY <1>3
    <2>2. t \in Tokens
      BY <1>3 DEF BatchRec
    <2>3. device[t] # NoDevice /\ (device[t].user = batch[b].user \/ t \in crossed)
      BY <2>1 DEF Phones, PhonesStored, PushReachesOwner, ActiveDevices
    <2> QED
      BY <2>1, <2>2, <2>3
  <1>4. PhonesStored' /\ PushReachesOwner'
    BY <1>3 DEF PhonesStored, PushReachesOwner
  <1> QED
    BY <1>1, <1>2, <1>4 DEF Phones

LEMMA RegisterKeeps ==
  ASSUME Typed, Phones, RegisterFind \/ RegisterInsert \/ RegisterSelect \/ RegisterUpdate
  PROVE  Phones'
PROOF
  <1>1. batch' = batch
    BY DEF RegisterFind, RegisterInsert, RegisterSelect, RegisterUpdate
  <1>2. NoPhonesYet'
    BY <1>1 DEF Phones, NoPhonesYet
  <1>3. CASE RegisterFind \/ RegisterSelect
    <2>1. device' = device /\ crossed' = crossed
      BY <1>3 DEF RegisterFind, RegisterSelect, rowVars, histVars
    <2>2. Registering'
      <3>1. CASE RegisterFind
        <4>1. PICK u \in Users, t \in Tokens :
                reg' = [pc |-> IF device[t] = NoDevice THEN "insert" ELSE "select",
                        user |-> u, token |-> t, dirty |-> {}]
          BY <3>1 DEF RegisterFind
        <4>2. reg'.token = t /\ reg'.pc = IF device[t] = NoDevice THEN "insert" ELSE "select"
          BY <4>1
        <4> QED
          BY <2>1, <4>2 DEF Registering
      <3>2. CASE RegisterSelect
        <4>1. reg.pc = "select" /\ reg'.pc = "update" /\ reg'.token = reg.token
          BY <3>2 DEF RegisterSelect, Typed, RegRec
        <4> QED
          BY <2>1, <4>1 DEF Phones, Registering
      <3> QED
        BY <1>3, <3>1, <3>2
    <2> QED
      BY <1>1, <1>2, <2>1, <2>2 DEF Phones, PhonesStored, PushReachesOwner
  <1>4. CASE RegisterInsert \/ RegisterUpdate
    <2>1. PICK d \in Device : device' = [device EXCEPT ![reg.token] = d]
      BY <1>4, RegisterFacts DEF Phones
    <2>2. d # NoDevice
      BY PushAssumption
    <2>3. \A t \in Tokens : t # reg.token => device'[t] = device[t]
      BY <2>1 DEF Typed
    <2>4. reg' = IdleReg /\ Registering'
      BY <1>4, IdleShape DEF RegisterInsert, RegisterUpdate, Registering
    <2>5. crossed \subseteq crossed'
      BY <1>4 DEF RegisterInsert, RegisterUpdate, histVars
    <2>6. ASSUME NEW b \in Batches, NEW t \in batch[b].tokens
          PROVE  device'[t] # NoDevice /\ (device'[t].user = batch[b].user \/ t \in crossed')
      <3>1. t \in Tokens /\ device[t] # NoDevice /\ (device[t].user = batch[b].user \/ t \in crossed)
        BY <2>6 DEF Typed, BatchRec, Phones, PhonesStored, PushReachesOwner
      <3>2. CASE t # reg.token
        BY <2>3, <2>5, <3>1, <3>2
      <3>3. CASE t = reg.token
        <4>1. RegisterUpdate
          BY <1>4, <3>1, <3>3 DEF RegisterInsert, Phones, Registering
        <4>2. Holding(t)
          BY <2>6 DEF Holding
        <4>3. t \in crossed'
          BY <3>3, <4>1, <4>2 DEF RegisterUpdate
        <4>4. device'[t] = d
          BY <2>1, <3>1, <3>3 DEF Typed
        <4> QED
          BY <2>2, <4>3, <4>4
      <3> QED
        BY <3>2, <3>3
    <2>7. PhonesStored' /\ PushReachesOwner'
      BY <1>1, <2>6 DEF PhonesStored, PushReachesOwner
    <2> QED
      BY <1>2, <2>4, <2>7 DEF Phones
  <1> QED
    BY <1>3, <1>4

LEMMA PhonesKept ==
  ASSUME Typed, Phones, [Next]_vars
  PROVE  Phones'
PROOF
  <1>1. ASSUME NEW b \in Batches,
               \/ NotifySavedUsers(b) \/ HandleWeeklyRecap(b) \/ FindDevices(b)
               \/ SendToDevice(b) \/ MarkInactive(b) \/ BatchThrows(b)
        PROVE  Phones'
    <2>1. Sending(b) /\ reg' = reg
      BY <1>1, BatchSends
    <2>2. /\ crossed \subseteq crossed'
          /\ \A x \in Tokens : device[x] = NoDevice <=> device'[x] = NoDevice
          /\ \A x \in Tokens : device[x] # NoDevice => device'[x].user = device[x].user
      <3>1. CASE MarkInactive(b)
        <4>1. batch[b].hit \in Tokens
          BY DEF Typed, BatchRec
        <4> QED
          BY <3>1, <4>1, TurnOffFacts DEF MarkInactive
      <3>2. CASE \/ NotifySavedUsers(b) \/ HandleWeeklyRecap(b) \/ FindDevices(b)
                 \/ SendToDevice(b) \/ BatchThrows(b)
        BY <3>2 DEF NotifySavedUsers, HandleWeeklyRecap, BeginBatch, FindDevices, SendToDevice,
           BatchThrows, rowVars, histVars
      <3> QED
        BY <1>1, <3>1, <3>2
    <2>3. ASSUME NEW x \in Batches
          PROVE  /\ batch'[x].pc \notin {"send", "deactivate"} => batch'[x].tokens = {}
                 /\ \/ batch'[x].tokens = {}
                    \/ /\ batch'[x].user = batch[x].user
                       /\ batch'[x].tokens \subseteq batch[x].tokens \cup ActiveDevices(batch[x].user)
      BY <2>1 DEF Sending, Same, Found, Fewer, Over, Phones, NoPhonesYet
    <2> QED
      BY <2>1, <2>2, <2>3, PhonesOff DEF Sending
  <1>2. ASSUME NEW b \in Batches, ReadPrefs(b) \/ CreatePrefs(b)
        PROVE  Phones'
    <2>1. /\ batch[b].pc \in {"prefs", "create"} /\ UNCHANGED <<device, reg>>
          /\ \/ \E u \in Users, p \in Prefs : Decide(b, u, p)
             \/ /\ batch'[b].pc = "create" /\ batch'[b].tokens = batch[b].tokens
                /\ \A x \in Batches \ {b} : batch'[x] = batch[x]
                /\ batch' \in [Batches -> BatchRec]
      BY <1>2, ReadFacts
    <2>2. batch[b].tokens = {}
      BY <2>1 DEF Phones, NoPhonesYet
    <2>3. /\ batch' \in [Batches -> BatchRec] /\ batch'[b].tokens = {}
          /\ \A x \in Batches \ {b} : batch'[x] = batch[x]
      BY <2>1, <2>2, DecideTyped
    <2>4. crossed' = crossed
      BY <1>2 DEF ReadPrefs, CreatePrefs
    <2>5. \A x \in Batches :
            /\ batch'[x].pc \notin {"send", "deactivate"} => batch'[x].tokens = {}
            /\ batch'[x].tokens = {} \/ batch'[x] = batch[x]
      BY <2>3 DEF Phones, NoPhonesYet
    <2> QED
      BY <2>1, <2>3, <2>4, <2>5, PhonesOff
  <1>3. ASSUME NEW t \in Tokens, DeactivateDevice(t)
        PROVE  Phones'
    <2>1. UNCHANGED <<batch, reg>> /\ crossed \subseteq crossed' /\ TurnOff(t)
      BY <1>3 DEF DeactivateDevice
    <2>2. /\ \A x \in Tokens : device[x] = NoDevice <=> device'[x] = NoDevice
          /\ \A x \in Tokens : device[x] # NoDevice => device'[x].user = device[x].user
      BY <2>1, TurnOffFacts
    <2> QED
      BY <2>1, <2>2, PhonesOff DEF Typed, Phones, NoPhonesYet
  <1>4. CASE UNCHANGED vars \/ Tick \/ UpdateFind \/ UpdateInsert \/ UpdateSelect \/ UpdateUpdate
    <2>1. UNCHANGED <<device, reg, batch, crossed>>
      BY <1>4 DEF vars, Tick, UpdateFind, UpdateInsert, UpdateSelect, UpdateUpdate, rowVars, histVars
    <2> QED
      BY <2>1 DEF Phones, Registering, NoPhonesYet, PhonesStored, PushReachesOwner
  <1>5. CASE Crash
    <2>1. reg' = IdleReg /\ \A b \in Batches : batch'[b] = IdleBatch
      BY <1>5 DEF Crash
    <2> QED
      BY <2>1, IdleShape DEF Phones, Registering, NoPhonesYet, PhonesStored, PushReachesOwner
  <1> QED
    BY <1>1, <1>2, <1>3, <1>4, <1>5, RegisterKeeps DEF Next

-----------------------------------------------------------------------------
(* Repeats *)

(* The cache knows of the last push of a key until the window has passed. *)
MarkedWhenSent == \A k \in Keys \ excused : sentAt[k] # -1 =>
  (cache[k] # 0 /\ cache[k] = sentAt[k] + Window) \/ now > sentAt[k] + Window

(* Past the test of the cache a batch is alone with its key, and late enough. *)
OneSender == \A k \in Keys \ excused : \A b \in Batches : Past(b, k) =>
  /\ \A x \in Batches \ {b} : ~Past(x, k)
  /\ sentAt[k] # -1 => now > sentAt[k] + Window

LEMMA SendOnce ==
  ASSUME Typed, MarkedWhenSent, OneSender, NEW b \in Batches, Sending(b), UNCHANGED <<now, excused>>
  PROVE  /\ MarkedWhenSent' /\ OneSender'
         /\ \A k \in Keys : sentAt'[k] # sentAt[k] /\ sentAt[k] # -1 =>
              now > sentAt[k] + Window \/ k \in excused
PROOF
  <1>1. \A x \in Batches \ {b} : \A k : Past(x, k)' <=> Past(x, k)
    BY DEF Sending, Past
  <1>2. CASE Same(b) /\ (Found(b) \/ Fewer(b))
    <2>1. UNCHANGED <<cache, sentAt>>
      BY <1>2 DEF Found, Fewer
    <2>2. \A k : Past(b, k)' => Past(b, k)
      BY <1>2 DEF Same, Found, Fewer, Past
    <2> QED
      BY <1>1, <2>1, <2>2 DEF MarkedWhenSent, OneSender
  <1>3. CASE Over(b) /\ UNCHANGED <<cache, sentAt>>
    <2>1. \A k : ~Past(b, k)'
      BY <1>3 DEF Over, Past
    <2> QED
      BY <1>1, <1>3, <2>1 DEF MarkedWhenSent, OneSender
  <1>4. CASE Over(b) /\ Marked(b)
    <2> DEFINE k0 == <<batch[b].user, batch[b].type>>
    <2>1. /\ k0 \in Keys /\ Past(b, k0)
      BY <1>4 DEF Typed, BatchRec, Keys, Marked, Past
    <2>2. /\ now + Window \in Int /\ now + Window # 0 /\ now \in Nat /\ Window \in Nat
      BY PushAssumption DEF Typed
    <2>3. cache' = [cache EXCEPT ![k0] = now + Window] /\ sentAt' = [sentAt EXCEPT ![k0] = now]
      BY <1>4 DEF Marked, MarkedSent
    <2> HIDE DEF k0
    <2>4. /\ cache'[k0] = now + Window /\ sentAt'[k0] = now
          /\ \A k \in Keys \ {k0} : cache'[k] = cache[k] /\ sentAt'[k] = sentAt[k]
      BY <2>1, <2>3 DEF Typed
    <2>5. \A k : ~Past(b, k)'
      BY <1>4 DEF Over, Past
    <2>6. MarkedWhenSent'
      BY <2>2, <2>4 DEF MarkedWhenSent
    <2>7. OneSender'
      BY <1>1, <2>1, <2>4, <2>5 DEF OneSender
    <2>8. \A k \in Keys : sentAt'[k] # sentAt[k] /\ sentAt[k] # -1 =>
              now > sentAt[k] + Window \/ k \in excused
      BY <2>1, <2>4 DEF OneSender
    <2> QED
      BY <2>6, <2>7, <2>8
  <1> QED
    BY <1>2, <1>3, <1>4 DEF Sending

LEMMA DecideOnce ==
  ASSUME Typed, MarkedWhenSent, OneSender, NEW b \in Batches, NEW u \in Users, NEW p,
         Decide(b, u, p), batch[b].pc \in {"prefs", "create"}, UNCHANGED <<now, sentAt>>
  PROVE  MarkedWhenSent' /\ OneSender'
PROOF
  <1> DEFINE k0 == <<u, batch[b].type>>
  <1>1. /\ \A x \in Batches \ {b} : batch'[x] = batch[x]
        /\ \/ batch'[b].pc \in {"idle", "prefs"}
           \/ /\ batch'[b].user = u /\ batch'[b].type = batch[b].type
              /\ ~IsDuplicate(k0)
              /\ excused' = IF \E x \in Batches \ {b} : Past(x, k0) THEN excused \cup {k0} ELSE excused
    BY DecideTyped
  <1>2. excused \subseteq excused'
    BY DEF Decide
  <1>3. k0 \in Keys
    BY DEF Typed, BatchRec, Keys
  <1>4. cache' = cache \/ \E k : cache' = Swept(k)
    BY DEF Decide, cacheVars
  <1>5. \A k \in Keys : cache'[k] = cache[k] \/ now > cache[k]
    BY <1>4 DEF Swept, ExpiredNow
  <1>6. MarkedWhenSent'
    BY <1>2, <1>5 DEF MarkedWhenSent
  <1>7. \A x \in Batches \ {b} : \A k : Past(x, k)' <=> Past(x, k)
    BY <1>1 DEF Past
  <1>8. ASSUME NEW k \in Keys, k \notin excused', Past(b, k)'
        PROVE  /\ \A x \in Batches \ {b} : ~Past(x, k)
               /\ sentAt[k] # -1 => now > sentAt[k] + Window
    <2>1. k = k0 /\ batch'[b].pc \notin {"idle", "prefs"}
      BY <1>1, <1>8 DEF Past
    <2>2. /\ ~IsDuplicate(k) /\ \A x \in Batches \ {b} : ~Past(x, k)
      BY <1>1, <1>8, <2>1
    <2>3. cache[k] = 0 \/ now > cache[k]
      BY <2>2 DEF IsDuplicate, ExpiredNow
    <2> QED
      BY <1>2, <1>8, <2>2, <2>3 DEF MarkedWhenSent
  <1> HIDE DEF k0
  <1>9. OneSender'
    BY <1>2, <1>7, <1>8 DEF OneSender
  <1> QED
    BY <1>6, <1>9

LEMMA OnceKept ==
  ASSUME Typed, MarkedWhenSent, OneSender, [Next]_vars
  PROVE  /\ MarkedWhenSent' /\ OneSender'
         /\ \A k \in Keys : sentAt'[k] # sentAt[k] /\ sentAt[k] # -1 =>
              now > sentAt[k] + Window \/ k \in excused
PROOF
  <1>1. ASSUME NEW b \in Batches,
               \/ NotifySavedUsers(b) \/ HandleWeeklyRecap(b) \/ FindDevices(b)
               \/ SendToDevice(b) \/ MarkInactive(b) \/ BatchThrows(b)
        PROVE  Sending(b) /\ UNCHANGED <<now, excused>>
    BY <1>1, BatchSends
  <1>2. ASSUME NEW b \in Batches, ReadPrefs(b) \/ CreatePrefs(b)
        PROVE  MarkedWhenSent' /\ OneSender' /\ sentAt' = sentAt
    <2>1. /\ batch[b].pc \in {"prefs", "create"} /\ UNCHANGED <<now, sentAt>>
          /\ \/ \E u \in Users, p \in Prefs : Decide(b, u, p)
             \/ /\ batch'[b].pc = "create"
                /\ \A x \in Batches \ {b} : batch'[x] = batch[x]
                /\ UNCHANGED <<cache, excused>>
      BY <1>2, ReadFacts
    <2>2. CASE /\ batch'[b].pc = "create"
               /\ \A x \in Batches \ {b} : batch'[x] = batch[x]
               /\ UNCHANGED <<cache, excused>>
      BY <2>1, <2>2 DEF MarkedWhenSent, OneSender, Past
    <2> QED
      BY <2>1, <2>2, DecideOnce
  <1>3. CASE PhoneStep \/ UNCHANGED vars
    <2>1. UNCHANGED <<batch, cache, sentAt, excused>>
      BY <1>3, PhoneFacts DEF vars, cacheVars, histVars
    <2>2. now' = now \/ now' = now + 1
      BY <1>3 DEF PhoneStep, UpdateFind, UpdateInsert, UpdateSelect, UpdateUpdate, RegisterFind,
         RegisterInsert, RegisterSelect, RegisterUpdate, DeactivateDevice, Tick, vars
    <2>3. \A k \in Keys : now > sentAt[k] + Window => now' > sentAt[k] + Window
      BY <2>2, PushAssumption DEF Typed
    <2> QED
      BY <2>1, <2>3 DEF MarkedWhenSent, OneSender, Past
  <1>4. CASE Crash
    BY <1>4 DEF Crash, MarkedWhenSent, OneSender
  <1> QED
    BY <1>1, <1>2, <1>3, <1>4, SendOnce DEF Next, PhoneStep

-----------------------------------------------------------------------------
PInv == /\ Typed /\ Unchanged /\ AsAnswered /\ OptOutRespected /\ Phones
        /\ MarkedWhenSent /\ OneSender

LEMMA PInvStarts == Init => PInv
PROOF
  <1> SUFFICES ASSUME Init PROVE PInv
    OBVIOUS
  <1>1. [user |-> AUser, active |-> TRUE] \in Device
    BY IdleShape DEF Device
  <1>2. /\ \A b \in Batches : batch[b] = IdleBatch
        /\ update = IdleUpdate /\ reg = IdleReg
        /\ \A u \in Users : told[u] = Defaults
        /\ \A k \in Keys : sentAt[k] = -1
    BY DEF Init
  <1>3. Typed
    <2>1. now \in Nat /\ cache \in [Keys -> Int] /\ sentAt \in [Keys -> Int]
      BY DEF Init
    <2>2. prefs \in [Users -> Prefs \cup {NoPrefs}] /\ told \in [Users -> Prefs]
      BY DefaultsShape DEF Init
    <2>3. device \in [Tokens -> Device \cup {NoDevice}]
      <3> DEFINE d == [user |-> AUser, active |-> TRUE]
      <3>1. device \in [Tokens -> {NoDevice, d}]
        BY DEF Init
      <3> HIDE DEF d
      <3>2. d \in Device
        BY <1>1 DEF d
      <3> QED
        BY <3>1, <3>2
    <2>4. batch \in [Batches -> BatchRec] /\ update \in UpdateRec /\ reg \in RegRec
      BY IdleShape DEF Init
    <2> QED
      BY <2>1, <2>2, <2>3, <2>4 DEF Typed
  <1>4. Unchanged /\ AsAnswered /\ OptOutRespected
    BY <1>2, IdleShape DEF Unchanged, AsAnswered, OptOutRespected
  <1>5. Phones
    BY <1>2, IdleShape DEF Phones, Registering, NoPhonesYet, PhonesStored, PushReachesOwner
  <1>6. MarkedWhenSent /\ OneSender
    BY <1>2, IdleShape DEF MarkedWhenSent, OneSender, Past
  <1> QED
    BY <1>3, <1>4, <1>5, <1>6 DEF PInv

LEMMA PInvKept == PInv /\ [Next]_vars => PInv'
  BY TypedKept, OptKept, PhonesKept, OnceKept DEF PInv, Phones

(* shouldSendPush and the preferences it reads (push.service.ts,              *)
(* devices.service.ts): no push against the answered preferences, for any day *)
(* and any quiet hours in it, unless what was answered was not stored.        *)
THEOREM NobodyIsDisturbed == Spec => []OptOutRespected
PROOF
  <1>1. PInv => OptOutRespected
    BY DEF PInv
  <1> QED
    BY PInvStarts, PInvKept, <1>1, PTL DEF Spec

(* getActiveDevicesByUserId and the registration of phones: a push goes to    *)
(* its customer's phones, however many phones change hands.                   *)
THEOREM PhonesOfTheCustomer == Spec => []PushReachesOwner
PROOF
  <1>1. PInv => PushReachesOwner
    BY DEF PInv, Phones
  <1> QED
    BY PInvStarts, PInvKept, <1>1, PTL DEF Spec

(* isDuplicate and the mark after the last phone: no repeat within the        *)
(* window, sweeps of the cache included, unless batches overlapped or the     *)
(* server was restarted.                                                      *)
THEOREM NoRepeats == Spec => OncePerWindow
PROOF
  <1>1. PInv /\ [Next]_vars =>
          [\A k \in Keys : sentAt'[k] # sentAt[k] /\ sentAt[k] # -1 =>
             now > sentAt[k] + Window \/ k \in excused]_vars
    BY OnceKept DEF PInv
  <1> QED
    BY PInvStarts, PInvKept, <1>1, PTL DEF Spec, OncePerWindow
=============================================================================
