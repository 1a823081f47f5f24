----------------------------- MODULE LiveProofs -----------------------------
(***************************************************************************)
(* Proofs about what those who look at a venue are shown: the live room of *)
(* LiveGateway, for every set of sockets, users and venues, and the state  *)
(* of an offer that OfferRules derives from the clock, for every schedule. *)
(* The two modules share no state and no names.                            *)
(***************************************************************************)
EXTENDS LiveGateway, OfferRules, FiniteSetTheorems, TLAPS

IInv == TypeOK /\ ViewersAreTheRoom /\ CountIsCurrent /\ MapsAgree

(* A count of sockets is a number up to that of all sockets. *)
LEMMA CountInRange ==
  ASSUME NEW V \in SUBSET Sockets
  PROVE  Cardinality(V) \in 0 .. Cardinality(Sockets)
<1>1. IsFiniteSet(Sockets)
  BY GatewayAssumption
<1>2. IsFiniteSet(V) /\ Cardinality(V) <= Cardinality(Sockets)
  BY <1>1, FS_Subset
<1> QED BY <1>1, <1>2, FS_CardinalityType

(* What a broadcast leaves on the screens: of the venues broadcast to, the   *)
(* members see the number; nothing else changes.                             *)
LEMMA Emitted ==
  ASSUME TypeOK, NEW vs \in SUBSET Venues,
         NEW members \in [Venues -> SUBSET Sockets],
         NEW counted \in [Venues -> SUBSET Sockets]
  PROVE  /\ EmitCount(vs, members, counted)
              \in [Sockets -> [Venues -> 0 .. Cardinality(Sockets) \cup {NothingShown}]]
         /\ \A s \in Sockets : \A v \in Venues :
              EmitCount(vs, members, counted)[s][v] =
                IF v \in vs /\ s \in members[v] THEN Cardinality(counted[v]) ELSE shown[s][v]
<1>1. \A v \in Venues : Cardinality(counted[v]) \in 0 .. Cardinality(Sockets)
  BY CountInRange
<1> QED BY <1>1 DEF EmitCount, TypeOK

(* The screens are right after a step that broadcasts every venue whose      *)
(* viewers change, and whose members are its viewers.                        *)
LEMMA ScreensFollow ==
  ASSUME IInv, NEW vs \in SUBSET Venues,
         venueViewers' \in [Venues -> SUBSET Sockets],
         room' = venueViewers',
         shown' = EmitCount(vs, room', venueViewers'),
         \A v \in Venues \ vs : venueViewers'[v] = venueViewers[v]
  PROVE  CountIsCurrent' /\ shown' \in [Sockets -> [Venues -> 0 .. Cardinality(Sockets) \cup {NothingShown}]]
<1>1. \A s \in Sockets : \A v \in Venues :
        shown'[s][v] = IF v \in vs /\ s \in room'[v] THEN Cardinality(venueViewers'[v]) ELSE shown[s][v]
  BY Emitted DEF IInv
<1>2. ASSUME NEW v \in Venues, NEW s \in room'[v]
      PROVE  shown'[s][v] = Cardinality(venueViewers'[v])
  <2>1. s \in Sockets
    OBVIOUS
  <2>2. CASE v \in vs
    BY <1>1, <2>1, <2>2
  <2>3. CASE v \notin vs
    <3>1. venueViewers'[v] = venueViewers[v] /\ s \in room[v]
      BY <2>3 DEF IInv, ViewersAreTheRoom
    <3>2. shown[s][v] = Cardinality(venueViewers[v])
      BY <3>1 DEF IInv, CountIsCurrent
    <3> QED BY <1>1, <2>1, <2>3, <3>1, <3>2
  <2> QED BY <2>2, <2>3
<1> QED BY <1>2, Emitted DEF CountIsCurrent, IInv

LEMMA ConnectStep ==
  ASSUME IInv, NEW s \in Sockets, NEW u \in Users, HandleConnection(s, u)
  PROVE  IInv'
<1> USE DEF IInv, HandleConnection
<1>1. TypeOK'
  BY DEF TypeOK
<1>2. ViewersAreTheRoom' /\ CountIsCurrent'
  BY DEF ViewersAreTheRoom, CountIsCurrent
<1>3. socketToUser[s] = NoUser
  BY DEF MapsAgree, TypeOK
<1>4. \A w \in Users : connectedUsers'[w] = {t \in Sockets : socketToUser'[t] = w}
  <2> TAKE w \in Users
  <2>1. connectedUsers[w] = {t \in Sockets : socketToUser[t] = w} /\ w # NoUser
    BY GatewayAssumption DEF MapsAgree
  <2>2. \A t \in Sockets : socketToUser'[t] = IF t = s THEN u ELSE socketToUser[t]
    BY DEF TypeOK
  <2>3. connectedUsers'[w] = IF w = u THEN connectedUsers[w] \cup {s} ELSE connectedUsers[w]
    BY DEF TypeOK
  <2> QED BY <1>3, <2>1, <2>2, <2>3
<1>5. \A t \in Sockets : socketToUser'[t] # NoUser <=> status'[t] = "open"
  BY GatewayAssumption DEF MapsAgree, TypeOK
<1> QED BY <1>1, <1>2, <1>4, <1>5 DEF MapsAgree

LEMMA RejectStep ==
  ASSUME IInv, NEW s \in Sockets, RejectConnection(s)
  PROVE  IInv'
BY DEF IInv, RejectConnection, TypeOK, ViewersAreTheRoom, CountIsCurrent, MapsAgree

LEMMA JoinStep ==
  ASSUME IInv, NEW s \in Sockets, NEW v \in Venues, HandleJoinVenue(s, v)
  PROVE  IInv'
<1> USE DEF IInv, HandleJoinVenue
<1>1. room' = venueViewers' /\ venueViewers' \in [Venues -> SUBSET Sockets]
  BY DEF ViewersAreTheRoom, TypeOK
<1>2. \A w \in Venues \ {v} : venueViewers'[w] = venueViewers[w]
  BY DEF TypeOK
<1>3. CountIsCurrent' /\ shown' \in [Sockets -> [Venues -> 0 .. Cardinality(Sockets) \cup {NothingShown}]]
  <2>1. {v} \in SUBSET Venues /\ shown' = EmitCount({v}, room', venueViewers')
    OBVIOUS
  <2> HIDE DEF IInv, HandleJoinVenue
  <2> QED BY <1>1, <1>2, <2>1, ScreensFollow
<1>4. TypeOK' /\ ViewersAreTheRoom'
  BY <1>1, <1>3 DEF TypeOK, ViewersAreTheRoom
<1>5. MapsAgree'
  BY DEF MapsAgree
<1> QED BY <1>3, <1>4, <1>5

LEMMA LeaveStep ==
  ASSUME IInv, NEW s \in Sockets, NEW v \in Venues, HandleLeaveVenue(s, v)
  PROVE  IInv'
<1> USE DEF IInv, HandleLeaveVenue
<1>1. room' = venueViewers' /\ venueViewers' \in [Venues -> SUBSET Sockets]
  BY DEF ViewersAreTheRoom, TypeOK
<1>2. \A w \in Venues \ {v} : venueViewers'[w] = venueViewers[w]
  BY DEF TypeOK
<1>3. CountIsCurrent' /\ shown' \in [Sockets -> [Venues -> 0 .. Cardinality(Sockets) \cup {NothingShown}]]
  <2>1. CASE venueViewers[v] # {}
    <3>1. {v} \in SUBSET Venues /\ shown' = EmitCount({v}, room', venueViewers')
      BY <2>1
    <3> HIDE DEF IInv, HandleLeaveVenue
    <3> QED BY <1>1, <1>2, <3>1, ScreensFollow
  <2>2. CASE venueViewers[v] = {}
    <3>1. venueViewers' = venueViewers /\ room' = room /\ shown' = shown
      BY <2>2 DEF TypeOK, ViewersAreTheRoom
    <3> QED BY <3>1 DEF CountIsCurrent, TypeOK
  <2> QED BY <2>1, <2>2
<1>4. TypeOK' /\ ViewersAreTheRoom'
  BY <1>1, <1>3 DEF TypeOK, ViewersAreTheRoom
<1>5. MapsAgree'
  BY DEF MapsAgree
<1> QED BY <1>3, <1>4, <1>5

LEMMA DisconnectStep ==
  ASSUME IInv, NEW s \in Sockets, HandleDisconnect(s)
  PROVE  IInv'
<1> USE DEF IInv, HandleDisconnect
<1>1. room' = venueViewers' /\ venueViewers' \in [Venues -> SUBSET Sockets]
  BY DEF ViewersAreTheRoom, TypeOK, Dropped
<1>2. \A w \in Venues \ {v \in Venues : s \in venueViewers[v]} : venueViewers'[w] = venueViewers[w]
  BY DEF TypeOK, Dropped
<1>3. CountIsCurrent' /\ shown' \in [Sockets -> [Venues -> 0 .. Cardinality(Sockets) \cup {NothingShown}]]
  BY <1>1, <1>2, ScreensFollow
<1>4. status' \in [Sockets -> {"new", "open", "closed"}]
      /\ socketToUser' \in [Sockets -> Users \cup {NoUser}]
      /\ connectedUsers' \in [Users -> SUBSET Sockets]
  BY DEF TypeOK
<1>5. TypeOK' /\ ViewersAreTheRoom'
  BY <1>1, <1>3, <1>4 DEF TypeOK, ViewersAreTheRoom
<1>6. \A w \in Users : connectedUsers'[w] = {t \in Sockets : socketToUser'[t] = w}
  <2> TAKE w \in Users
  <2>1. connectedUsers[w] = {t \in Sockets : socketToUser[t] = w} /\ w # NoUser
    BY GatewayAssumption DEF MapsAgree
  <2>2. \A t \in Sockets : socketToUser'[t] = IF t = s THEN NoUser ELSE socketToUser[t]
    BY DEF TypeOK
  <2>3. connectedUsers'[w] = IF w = socketToUser[s] THEN connectedUsers[w] \ {s} ELSE connectedUsers[w]
    OBVIOUS
  <2> QED BY <2>1, <2>2, <2>3
<1>7. \A t \in Sockets : socketToUser'[t] # NoUser <=> status'[t] = "open"
  BY DEF MapsAgree, TypeOK
<1> QED BY <1>3, <1>5, <1>6, <1>7 DEF MapsAgree

LEMMA InvHolds == Spec => []IInv
<1>1. Init => IInv
  <2> SUFFICES ASSUME Init PROVE IInv
    OBVIOUS
  <2>1. TypeOK
    BY DEF Init, TypeOK
  <2>2. ViewersAreTheRoom /\ CountIsCurrent
    BY DEF Init, ViewersAreTheRoom, CountIsCurrent
  <2>3. MapsAgree
    BY GatewayAssumption DEF Init, MapsAgree
  <2> QED BY <2>1, <2>2, <2>3 DEF IInv
<1>2. IInv /\ UNCHANGED vars => IInv'
  BY DEF vars, IInv, TypeOK, ViewersAreTheRoom, CountIsCurrent, MapsAgree
<1>3. IInv /\ [Next]_vars => IInv'
  BY <1>2, ConnectStep, RejectStep, JoinStep, LeaveStep, DisconnectStep DEF Next
<1> QED BY <1>1, <1>3, PTL DEF Spec

(* The gateway's maps are well typed, and no count exceeds the sockets.      *)
THEOREM GatewayTyped == Spec => []TypeOK
<1>1. IInv => TypeOK
  BY DEF IInv
<1> QED BY <1>1, InvHolds, PTL

(* The sockets counted as viewers of a venue are those its room reaches.     *)
THEOREM ViewersAreReached == Spec => []ViewersAreTheRoom
<1>1. IInv => ViewersAreTheRoom
  BY DEF IInv
<1> QED BY <1>1, InvHolds, PTL

(* Whoever looks at a venue was last sent the number of its viewers, through *)
(* any sequence of joins, leaves and lost connections.                       *)
THEOREM ViewersSeeTheCount == Spec => []CountIsCurrent
<1>1. IInv => CountIsCurrent
  BY DEF IInv
<1> QED BY <1>1, InvHolds, PTL

(* The two maps of connections stay inverse to each other.                   *)
THEOREM ConnectionsAgree == Spec => []MapsAgree
<1>1. IInv => MapsAgree
  BY DEF IInv
<1> QED BY <1>1, InvHolds, PTL

-----------------------------------------------------------------------------
(* The clock rules of one offer: the minute of the day and the weekday.      *)

(* The minute of the day is one, and the next minute is the next one of the  *)
(* same day unless it is midnight.                                           *)
LEMMA NextMinute ==
  ASSUME NEW n \in Nat
  PROVE  /\ n % DayMinutes \in 0 .. DayMinutes - 1
         /\ (n + 1) % DayMinutes = 0 \/
              /\ (n + 1) % DayMinutes = (n % DayMinutes) + 1
              /\ (n + 1) \div DayMinutes = n \div DayMinutes
<1> DEFINE d == DayMinutes
           q == n \div d
           r == n % d
           Q == (n + 1) \div d
           R == (n + 1) % d
<1>1. d \in Nat /\ d > 0
  BY RulesAssumption
<1>2. q \in Int /\ r \in 0 .. d - 1 /\ n = (d * q) + r
  BY <1>1
<1>3. Q \in Int /\ R \in 0 .. d - 1 /\ n + 1 = d * Q + R
  BY <1>1
<1> HIDE DEF d, q, r, Q, R
<1>4. d * Q + R = d * q + r + 1
  BY <1>1, <1>2, <1>3
<1>5. d * (Q - q) = r + 1 - R
  BY <1>1, <1>2, <1>3, <1>4
<1>6. Q - q >= 0 
  <2>1. CASE Q - q <= -1
    <3>1. d * (Q - q) <= -d
      BY <1>1, <1>2, <1>3, <2>1
    <3>2. QED
      BY <1>1, <1>2, <1>3, <1>5, <3>1
  <2>2. QED
    BY <1>2, <1>3, <2>1
<1>7. Q - q <= 1
  <2>1. CASE Q - q >= 2
    <3>1. d * (Q - q) >= d + d
      BY <1>1, <1>2, <1>3, <2>1
    <3>2. QED
      BY <1>1, <1>2, <1>3, <1>5, <3>1
  <2>2. QED
    BY <1>2, <1>3, <2>1
<1>8. CASE Q - q = 0
  <2>1. Q = q /\ R = r + 1
    BY <1>1, <1>2, <1>3, <1>5, <1>8
  <2>2. QED
    BY <1>2, <2>1 DEF d, q, r, Q, R
<1>9. CASE Q - q = 1
  <2>1. R = r + 1 - d
    BY <1>1, <1>2, <1>3, <1>5, <1>9
  <2>2. R = 0
    BY <1>1, <1>2, <1>3, <2>1
  <2>3. QED
    BY <1>2, <2>2 DEF d, r, R
<1>10. QED
  BY <1>2, <1>3, <1>6, <1>7, <1>8, <1>9

(* The clock, the types of the offer, and what the history of a day means.   *)
LEMMA RulesTyped == RulesSpec => []RulesTypeOK
<1> USE RulesAssumption
<1>1. RulesInit => RulesTypeOK
  <2> SUFFICES ASSUME RulesInit PROVE RulesTypeOK
    OBVIOUS
  <2>1. 0 \in Instants
    <3>1. WeekDays * DayMinutes >= 1
      OBVIOUS
    <3>2. QED
      BY <3>1 DEF Instants, Horizon
  <2>2. offer \in Offer /\ gap \in 0 .. MaxGap
    BY DEF RulesInit
  <2>3. pushed \subseteq Watched /\ settled \in BOOLEAN
    BY DEF RulesInit
  <2>4. QED
    BY <2>1, <2>2, <2>3 DEF RulesInit, RulesTypeOK
<1>2. RulesTypeOK /\ [RulesNext]_ruleVars => RulesTypeOK'
  <2> SUFFICES ASSUME RulesTypeOK, [RulesNext]_ruleVars PROVE RulesTypeOK'
    OBVIOUS
  <2> USE DEF RulesTypeOK
  <2>1. CASE Minute
    <3>1. Horizon \in Nat
      BY DEF Horizon
    <3>2. now' \in Instants /\ gap' \in 0 .. MaxGap /\ offer' = offer
      BY <2>1, <3>1 DEF Minute, Instants
    <3>3. pushed' \subseteq Watched
      BY <2>1 DEF Minute
    <3>4. settled' \in BOOLEAN
      BY <2>1, Zenon DEF Minute
    <3>5. QED
      BY <3>2, <3>3, <3>4
  <2>2. CASE CheckCountdowns
    BY <2>2 DEF CheckCountdowns
  <2>3. CASE Toggle
    BY <2>3 DEF Toggle, Offer
  <2>4. CASE Redeem
    BY <2>4 DEF Redeem, Offer
  <2>5. CASE UNCHANGED ruleVars
    BY <2>5 DEF ruleVars
  <2>6. QED
    BY <2>1, <2>2, <2>3, <2>4, <2>5 DEF RulesNext
<1>3. QED
  BY <1>1, <1>2, PTL DEF RulesSpec

(* A moment of the clock as a minute of the day.                             *)
LEMMA ClockFacts ==
  ASSUME RulesTypeOK
  PROVE  /\ now \in Nat /\ CurrentTime \in TimesOfDay
         /\ offer.validTimeEnd # NoTime => offer.validTimeEnd \in TimesOfDay
         /\ offer.validTimeStart # NoTime => offer.validTimeStart \in TimesOfDay
         /\ TimesOfDay \subseteq Nat
<1>1. now \in Nat
  BY DEF RulesTypeOK, Instants
<1>2. CurrentTime \in TimesOfDay
  BY <1>1, NextMinute DEF CurrentTime, TimesOfDay
<1>3. QED
  BY <1>1, <1>2 DEF RulesTypeOK, Offer, TimesOfDay

LEMMA MinutePasses ==
  ASSUME RulesTypeOK, Minute
  PROVE  /\ now' = now + 1
         /\ CurrentTime' \in Int
         /\ \/ CurrentTime' = 0
            \/ CurrentTime' = CurrentTime + 1 /\ Today' = Today
<1>1. now \in Nat /\ now' = now + 1
  BY ClockFacts DEF Minute
<1>2. now + 1 \in Nat
  BY <1>1
<1>3. (now + 1) % DayMinutes \in Int
  BY <1>2, NextMinute
<1>4. QED
  BY <1>1, <1>3, NextMinute DEF CurrentTime, Today

(* NoTime is no time of day. *)
LEMMA NoTimeIsNone == NoTime \notin TimesOfDay
<1>1. ASSUME NEW t \in TimesOfDay PROVE t \in Instants
  <2>1. WeekDays * DayMinutes >= DayMinutes
    BY RulesAssumption
  <2>2. WeekDays * DayMinutes \in Int
    BY RulesAssumption
  <2>3. QED
    BY <2>1, <2>2, RulesAssumption DEF TimesOfDay, Instants, Horizon
<1>2. QED
  BY <1>1, RulesAssumption

(* Between the end of the window and the push, no check has run: the gap is  *)
(* longer than the time since the end.                                       *)
Ended ==
  settled =>
    /\ offer.validTimeEnd # NoTime
    /\ CurrentTime >= offer.validTimeEnd
    /\ offer.isActive =>
         0 \in pushed \/ gap >= CurrentTime - offer.validTimeEnd + 1

LEMMA EndedStep ==
  ASSUME MaxGap <= 2, RulesTypeOK, Ended, [RulesNext]_ruleVars
  PROVE  Ended'
<1> DEFINE end == offer.validTimeEnd
<1>t. /\ now \in Nat /\ CurrentTime \in TimesOfDay /\ TimesOfDay \subseteq Nat
      /\ end # NoTime => end \in TimesOfDay
      /\ gap \in Nat /\ gap <= 2 /\ settled \in BOOLEAN
  BY ClockFacts, RulesAssumption DEF RulesTypeOK
<1>1. CASE Minute
  <2>1. offer' = offer /\ gap' = gap + 1
    BY <1>1 DEF Minute
  <2>2. CurrentTime' = 0 \/ CurrentTime' = CurrentTime + 1
    BY <1>1, MinutePasses
  <2>3. CurrentTime' \in Nat
    BY <1>t, <2>2
  <2>4. CASE CurrentTime' = end
    <3>1. end # NoTime
      <4>2. (now + 1) % DayMinutes \in TimesOfDay
        BY <1>t, NextMinute DEF TimesOfDay
      <4>3. CurrentTime' \in TimesOfDay
        BY <1>1, <4>2, MinutePasses DEF CurrentTime
      <4>4. QED
        BY <2>4, <4>3, NoTimeIsNone
    <3>2. gap' >= CurrentTime' - end + 1
      BY <1>t, <2>1, <2>3, <2>4
    <3>3. CurrentTime' >= end
      BY <2>3, <2>4
    <3>4. QED
      BY <2>1, <3>1, <3>2, <3>3 DEF Ended
  <2>5. CASE CurrentTime' = 0 /\ end # 0
    <3>1. settled' = FALSE
      BY <1>1, <2>5 DEF Minute
    <3>2. QED
      BY <3>1 DEF Ended
  <2>6. CASE CurrentTime' # end /\ ~(CurrentTime' = 0 /\ end # 0)
    <3>1. settled' = settled
      BY <1>1, <2>6 DEF Minute
    <3>2. CurrentTime' = CurrentTime + 1 /\ CurrentTime' # 0
      BY <1>t, <2>2, <2>6
    <3>3. pushed' = pushed
      BY <1>1, <3>2 DEF Minute
    <3>4. CASE settled
      <4>1. end \in Nat /\ end # NoTime /\ CurrentTime >= end
              /\ (offer.isActive => 0 \in pushed \/ gap >= CurrentTime - end + 1)
        BY <1>t, <3>4 DEF Ended
      <4>2. CurrentTime' >= end /\ (gap >= CurrentTime - end + 1 => gap' >= CurrentTime' - end + 1)
        BY <1>t, <2>1, <3>2, <4>1
      <4>3. QED
        BY <2>1, <3>1, <3>3, <4>1, <4>2 DEF Ended
    <3>5. CASE ~settled
      BY <3>1, <3>5 DEF Ended
    <3>6. QED
      BY <3>4, <3>5
  <2>7. QED
    BY <2>4, <2>5, <2>6
<1>2. CASE CheckCountdowns
  <2>1. UNCHANGED <<now, offer, settled>> /\ pushed' = pushed \cup ({Push} \cap Watched)
    BY <1>2 DEF CheckCountdowns
  <2>2. CurrentTime' = CurrentTime
    BY <2>1 DEF CurrentTime
  <2>3. ASSUME settled, offer.isActive PROVE 0 \in pushed'
    <3>1. end \in Nat /\ end # NoTime /\ CurrentTime >= end
            /\ (0 \in pushed \/ gap >= CurrentTime - end + 1)
      BY <1>t, <2>3 DEF Ended
    <3>2. CASE 0 \in pushed
      BY <2>1, <3>2
    <3>3. CASE gap >= CurrentTime - end + 1
      <4>1. end - CurrentTime \in {0, -1}
        BY <1>t, <3>1, <3>3
      <4>2. Push = 0
        BY <2>3, <3>1, <4>1 DEF Push, PushFor
      <4>3. QED
        BY <2>1, <4>2 DEF Watched
    <3>4. QED
      BY <3>1, <3>2, <3>3
  <2>4. QED
    BY <2>1, <2>2, <2>3 DEF Ended
<1>3. CASE Toggle
  BY <1>3 DEF Toggle, Ended
<1>4. CASE Redeem
  <2>1. offer'.validTimeEnd = end /\ offer'.isActive = offer.isActive
          /\ UNCHANGED <<now, gap, pushed, settled>>
    BY <1>4 DEF Redeem, RulesTypeOK, Offer
  <2>2. CurrentTime' = CurrentTime
    BY <2>1 DEF CurrentTime
  <2>3. QED
    BY <2>1, <2>2 DEF Ended
<1>5. CASE UNCHANGED ruleVars
  BY <1>5 DEF ruleVars, Ended, CurrentTime
<1>6. QED
  BY <1>1, <1>2, <1>3, <1>4, <1>5 DEF RulesNext

(* OFFER_EXPIRED is pushed within two minutes of the end of the window, on   *)
(* every day, for every length of the day and schedule, as long as no more   *)
(* than one minute in a row goes by without a check.                         *)
THEOREM ExpiryIsAnnounced ==
  ASSUME MaxGap <= 2
  PROVE  RulesSpec => []EndIsPushed
<1>1. RulesInit => Ended
  BY DEF RulesInit, Ended
<1>2. RulesTypeOK /\ Ended /\ [RulesNext]_ruleVars => Ended'
  BY EndedStep
<1>3. RulesTypeOK /\ Ended => EndIsPushed
  <2> SUFFICES ASSUME RulesTypeOK, Ended, offer.isActive, settled,
                      CurrentTime >= offer.validTimeEnd + 2
               PROVE  0 \in pushed
    BY DEF EndIsPushed
  <2>1. /\ CurrentTime \in Nat /\ offer.validTimeEnd \in Nat /\ gap \in Nat /\ gap <= 2
        /\ 0 \in pushed \/ gap >= CurrentTime - offer.validTimeEnd + 1
    BY ClockFacts, RulesAssumption DEF Ended, RulesTypeOK
  <2>2. QED
    BY <2>1
<1>4. QED
  BY <1>1, <1>2, <1>3, RulesTyped, PTL DEF RulesSpec

(* What isOfferAvailableNow lets a customer claim, getOfferStatus shows as   *)
(* active, with the two exceptions the property names.                       *)
THEOREM ClaimableIsShown == RulesSpec => []StatusAgrees
<1>1. RulesTypeOK => StatusAgrees
  BY DEF StatusAgrees, OfferStatus, AvailableNow, Full, RulesTypeOK, Offer
<1>2. QED
  BY <1>1, RulesTyped, PTL

(* An offer opens and closes by itself only where its schedule says: the     *)
(* overnight branch, the override and the inclusive end agree on that for    *)
(* every pair of times.                                                      *)
THEOREM ScheduleIsKept == RulesSpec => OpensAndClosesOnSchedule
<1>1. ASSUME RulesTypeOK, [RulesNext]_ruleVars, offer' = offer,
             AvailableNow(offer)' # AvailableNow(offer)
      PROVE  \/ CurrentTime' \in {0, offer.validTimeStart}
             \/ offer.validTimeEnd # NoTime /\ CurrentTime' = offer.validTimeEnd + 1
             \/ offer.expiresAt # Never /\ now' = offer.expiresAt + 1
  <2>1. Minute
    <3>1. now' # now
      BY <1>1 DEF AvailableNow, Expired, ValidToday, CurrentTime, Today
    <3>2. QED
      BY <1>1, <3>1 DEF RulesNext, CheckCountdowns, Toggle, Redeem, ruleVars
  <2>2. /\ now \in Nat /\ now' = now + 1 /\ CurrentTime' \in Int
        /\ CurrentTime' = 0 \/ (CurrentTime' = CurrentTime + 1 /\ Today' = Today)
    BY <1>1, <2>1, ClockFacts, MinutePasses
  <2>3. SUFFICES ASSUME CurrentTime' # 0, CurrentTime' # offer.validTimeStart,
                        ~(offer.validTimeEnd # NoTime /\ CurrentTime' = offer.validTimeEnd + 1),
                        ~(offer.expiresAt # Never /\ now' = offer.expiresAt + 1)
                 PROVE  AvailableNow(offer)' = AvailableNow(offer)
    BY <1>1
  <2>4. CurrentTime' = CurrentTime + 1 /\ Today' = Today
    BY <2>2, <2>3
  <2>5. Expired(offer)' = Expired(offer)
    <3>1. offer.expiresAt # Never => offer.expiresAt \in Nat
      BY <1>1 DEF RulesTypeOK, Offer, Instants, Never
    <3>2. QED
      BY <1>1, <2>2, <2>3, <3>1 DEF Expired
  <2>6. ValidToday(offer)' = ValidToday(offer)
    BY <1>1, <2>4 DEF ValidToday
  <2>7. NoTime \notin {offer.validTimeStart, offer.validTimeEnd} =>
          (OutsideWindow(offer.validTimeStart, offer.validTimeEnd, CurrentTime)'
             = OutsideWindow(offer.validTimeStart, offer.validTimeEnd, CurrentTime))
    <3> SUFFICES ASSUME NoTime \notin {offer.validTimeStart, offer.validTimeEnd}
                 PROVE  OutsideWindow(offer.validTimeStart, offer.validTimeEnd, CurrentTime)'
                          = OutsideWindow(offer.validTimeStart, offer.validTimeEnd, CurrentTime)
      OBVIOUS
    <3>1. offer.validTimeStart \in Nat /\ offer.validTimeEnd \in Nat /\ CurrentTime \in Nat
      BY <1>1, ClockFacts
    <3>2. QED
      BY <1>1, <2>3, <2>4, <3>1 DEF OutsideWindow
  <2>8. QED
    BY <1>1, <2>5, <2>6, <2>7 DEF AvailableNow
<1>2. RulesTypeOK /\ [RulesNext]_ruleVars =>
        [(offer' = offer /\ AvailableNow(offer)' # AvailableNow(offer)) =>
           \/ CurrentTime' \in {0, offer.validTimeStart}
           \/ offer.validTimeEnd # NoTime /\ CurrentTime' = offer.validTimeEnd + 1
           \/ offer.expiresAt # Never /\ now' = offer.expiresAt + 1]_ruleVars
  BY <1>1
<1>3. QED
  BY <1>2, RulesTyped, PTL DEF RulesSpec, OpensAndClosesOnSchedule
=============================================================================
