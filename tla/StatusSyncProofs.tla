-------------------------- MODULE StatusSyncProofs --------------------------
(***************************************************************************)
(* Proofs about StatusSync, for any number of requests of every kind, of   *)
(* queued actions, of uploads and of pulls.                                *)
(***************************************************************************)
EXTENDS StatusSync, SequenceTheorems, FiniteSetTheorems, TLAPS

-----------------------------------------------------------------------------
(* Jobs: what each kind of worker may be in the middle of.                   *)

Active == {"find", "insert", "select", "update", "record"}

JobRec == [stage : Stages, who : Writers, todo : Seq(Change), held : Row,
           dirty : SUBSET Columns, said : Values, sent : Nat]

(* The changes a worker makes: only an upload has queued ones. *)
Does(w) ==
  {c \in Change :
     /\ w \in Visitors => c = Check
     /\ w \in Staff => c.what = "set" /\ c.id = 0
     /\ w \in Uploads => c.what = "set" /\ c.id # 0}

(* What is left to do of an owner's request that asked for v. *)
OwnerTodo(v) == {Both(v), <<Set("busyness", v)>>, <<Set("vibes", v)>>, <<>>}

JobOK(w, j) ==
  /\ j \in JobRec /\ j.todo \in Seq(Does(w))
  /\ j.stage \in Active <=> j.todo # <<>>
  /\ j.stage = "idle" => j = IdleJob
  /\ w \in Uploads => j.who = "phone" \/ j.stage = "idle"
  /\ w \in Staff => j.who \in {"owner", "demo", "seed"}
  /\ w \in Visitors => j.who = "seed" /\ Len(j.todo) <= 1
  /\ j.stage = "insert" => w \in Staff
  /\ j.stage \in {"record", "answer"} => w \in Uploads
  /\ j.stage = "notify" => j.who = "owner"
  /\ j.who = "owner" => w \in Staff /\ j.todo \in OwnerTodo(j.said)

(* Head, Tail and Len of what is left to do. *)
LEMMA HeadAndTail ==
  ASSUME NEW S, NEW s \in Seq(S), s # <<>>
  PROVE  /\ Head(s) \in S /\ Tail(s) \in Seq(S)
         /\ Len(s) \in Nat \ {0} /\ Len(Tail(s)) = Len(s) - 1
         /\ Len(s) > 1 => Tail(s) # <<>>
         /\ Len(s) <= 1 => Tail(s) = <<>>
<1>1. Len(s) \in Nat \ {0} /\ Head(s) \in S /\ Tail(s) \in Seq(S) /\ Len(Tail(s)) = Len(s) - 1
  BY EmptySeq, HeadTailProperties
<1>2. Len(s) > 1 => Tail(s) # <<>>
  <2>1. Len(<<>>) = 0
    BY EmptySeq
  <2> QED BY <1>1, <2>1
<1>3. Len(s) <= 1 => Tail(s) = <<>>
  BY <1>1, EmptySeq
<1> QED BY <1>1, <1>2, <1>3

LEMMA OneAndTwo ==
  ASSUME NEW S, NEW a \in S, NEW b \in S
  PROVE  /\ <<a>> \in Seq(S) /\ <<a, b>> \in Seq(S)
         /\ <<a>> # <<>> /\ <<a, b>> # <<>>
         /\ Head(<<a>>) = a /\ Tail(<<a>>) = <<>> /\ Len(<<a>>) = 1
         /\ Head(<<a, b>>) = a /\ Tail(<<a, b>>) = <<b>> /\ Len(<<a, b>>) = 2
  OBVIOUS

LEMMA Constants ==
  /\ Seeded \in Row /\ Seeded.responses = 0
  /\ \A v \in Values, t \in Tables :
       /\ Set(t, v) \in Change
       /\ Set(t, v).table = t /\ Set(t, v).what = "set" /\ Set(t, v).val = v
       /\ Set(t, v).id = 0 /\ Set(t, v).offline = 0
  /\ Check \in Change /\ Check.table = "vibes" /\ Check.what = "check" /\ Check.id = 0
  /\ Ids \subseteq Nat \ {0}
<1>1. MaxNow \in Nat /\ MaxQueued \in Nat /\ 0 \in Instants
  BY StatusAssumption DEF Instants
<1>2. Seeded \in Row /\ Seeded.responses = 0
  BY <1>1 DEF Seeded, Row, Values, Writers
<1>3. ASSUME NEW v \in Values, NEW t \in Tables
      PROVE  /\ Set(t, v) \in Change
             /\ Set(t, v).table = t /\ Set(t, v).what = "set" /\ Set(t, v).val = v
             /\ Set(t, v).id = 0 /\ Set(t, v).offline = 0
  BY <1>1 DEF Set, Change
<1>4. "low" \in Values /\ "vibes" \in Tables
  BY DEF Values, Tables
<1>5. Check \in Change /\ Check.table = "vibes" /\ Check.what = "check" /\ Check.id = 0
  BY <1>1, <1>4 DEF Check, Set, Change
<1> QED BY <1>1, <1>2, <1>3, <1>5 DEF Ids

LEMMA IdleOK == \A w : JobOK(w, IdleJob)
<1>1. <<>> \in Seq(Change) /\ \A w : <<>> \in Seq(Does(w))
  BY EmptySeq
<1>2. IdleJob \in JobRec
  BY <1>1, Constants DEF IdleJob, JobRec, Stages, Writers, Columns, Values
<1>3. /\ IdleJob.stage = "idle" /\ IdleJob.todo = <<>> /\ IdleJob.who = "seed"
      /\ Len(IdleJob.todo) = 0
  BY EmptySeq DEF IdleJob
<1> QED BY <1>1, <1>2, <1>3 DEF JobOK, Active

(* What is left of an owner's request. *)
LEMMA OwnerTail ==
  ASSUME NEW v \in Values, NEW s \in OwnerTodo(v), s # <<>>
  PROVE  /\ Tail(s) \in OwnerTodo(v)
         /\ Head(s) \in {Set("busyness", v), Set("vibes", v)}
         /\ Tail(s) # <<>> => Head(s).table = "busyness" /\ Head(Tail(s)).table = "vibes"
<1> DEFINE a == Set("busyness", v)  b == Set("vibes", v)
<1>1. a \in Change /\ b \in Change /\ a.table = "busyness" /\ b.table = "vibes"
  BY Constants DEF Tables
<1>2. Both(v) = <<a, b>>
  BY DEF Both
<1> HIDE DEF a, b
<1>3. s \in {<<a, b>>, <<a>>, <<b>>}
  BY <1>2 DEF OwnerTodo, a, b
<1>4. Tail(s) \in {<<b>>, <<>>} /\ Head(s) \in {a, b}
      /\ (Tail(s) # <<>> => s = <<a, b>> /\ Head(Tail(s)) = b)
  <2>1. CASE s = <<a, b>>
    BY <1>1, <2>1, OneAndTwo
  <2>2. CASE s = <<a>>
    BY <1>1, <2>2, OneAndTwo
  <2>3. CASE s = <<b>>
    BY <1>1, <2>3, OneAndTwo
  <2> QED BY <1>3, <2>1, <2>2, <2>3
<1>5. s = <<a, b>> => Head(s) = a
  BY <1>1, OneAndTwo
<1> QED BY <1>1, <1>4, <1>5 DEF OwnerTodo, a, b

LEMMA ChangedTyped ==
  ASSUME NEW w, job[w].who \in Writers, NEW r \in Row, NEW c \in Change
  PROVE  /\ Changed(w, r, c) \in Row /\ Changed(w, r, c).at = r.at
         /\ c.what = "set" => /\ Changed(w, r, c).val = c.val
                              /\ Changed(w, r, c).by = job[w].who
                              /\ Changed(w, r, c).responses = r.responses
         /\ c.what = "check" => Changed(w, r, c).responses = r.responses + 1
<1>1. CASE c.what = "check"
  BY <1>1 DEF Changed, Row
<1>2. CASE c.what = "set"
  BY <1>2 DEF Changed, Row, Change
<1> QED BY <1>1, <1>2 DEF Change

(* After a change: the next one, or what follows the last. *)
LEMMA ProceedOK ==
  ASSUME NEW w \in Workers, NEW j, JobOK(w, j), j.todo # <<>>
  PROVE  /\ JobOK(w, Proceed(j))
         /\ Proceed(j).held = Seeded /\ Proceed(j).dirty = {}
         /\ Proceed(j).stage \in {"find", "idle", "notify", "answer"}
         /\ Proceed(j).stage = "idle" => Proceed(j) = IdleJob /\ j.who \notin {"owner", "phone"}
         /\ Proceed(j).stage # "idle" =>
              /\ Proceed(j).who = j.who /\ Proceed(j).said = j.said /\ Proceed(j).sent = j.sent
              /\ Proceed(j).todo = Tail(j.todo)
<1>1. /\ j \in JobRec /\ Len(j.todo) \in Nat \ {0} /\ Tail(j.todo) \in Seq(Change)
      /\ Tail(j.todo) \in Seq(Does(w)) /\ Len(Tail(j.todo)) = Len(j.todo) - 1
      /\ Len(j.todo) > 1 => Tail(j.todo) # <<>>
      /\ Len(j.todo) <= 1 => Tail(j.todo) = <<>>
  BY HeadAndTail DEF JobOK, JobRec
<1>2. IdleJob.held = Seeded /\ IdleJob.dirty = {} /\ IdleJob.stage = "idle"
  BY DEF IdleJob
<1>3. CASE Len(j.todo) > 1
  <2> DEFINE q == [j EXCEPT !.stage = "find", !.todo = Tail(@), !.held = Seeded, !.dirty = {}]
  <2>1. /\ q \in JobRec /\ q.stage = "find" /\ q.todo = Tail(j.todo) /\ q.held = Seeded
        /\ q.dirty = {} /\ q.who = j.who /\ q.said = j.said /\ q.sent = j.sent
    BY <1>1, Constants DEF JobRec, Stages
  <2>2. Proceed(j) = q
    BY <1>3 DEF Proceed
  <2> HIDE DEF q
  <2>3. j.who = "owner" => q.todo \in OwnerTodo(q.said)
    BY <2>1, OwnerTail DEF JobOK, JobRec
  <2>4. q.todo # <<>> /\ q.todo \in Seq(Does(w))
    BY <1>1, <1>3, <2>1
  <2>5. w \notin Visitors
    BY <1>1, <1>3 DEF JobOK
  <2>6. JobOK(w, q)
    BY <2>1, <2>3, <2>4, <2>5 DEF JobOK, Active
  <2> QED BY <2>1, <2>2, <2>6
<1>4. CASE Len(j.todo) <= 1 /\ AfterLast(j.who) = "idle"
  <2>1. Proceed(j) = IdleJob /\ j.who \notin {"owner", "phone"}
    BY <1>1, <1>4 DEF Proceed, AfterLast
  <2> QED BY <1>2, <2>1, IdleOK
<1>5. CASE Len(j.todo) <= 1 /\ AfterLast(j.who) # "idle"
  <2> DEFINE q == [j EXCEPT !.stage = AfterLast(j.who), !.todo = <<>>, !.held = Seeded, !.dirty = {}]
  <2>1. \/ j.who = "owner" /\ AfterLast(j.who) = "notify"
        \/ j.who = "phone" /\ AfterLast(j.who) = "answer"
    <3>1. j.who \in {"owner", "phone"}
      BY <1>5 DEF AfterLast
    <3> QED BY <3>1 DEF AfterLast
  <2>2. <<>> \in Seq(Change) /\ <<>> \in Seq(Does(w)) /\ Len(<<>>) = 0
    BY EmptySeq
  <2>3. /\ q \in JobRec /\ q.stage = AfterLast(j.who) /\ q.todo = <<>> /\ q.held = Seeded
        /\ q.dirty = {} /\ q.who = j.who /\ q.said = j.said /\ q.sent = j.sent
    BY <1>1, <2>1, <2>2, Constants DEF JobRec, Stages
  <2>4. Proceed(j) = q
    BY <1>1, <1>5 DEF Proceed
  <2> HIDE DEF q
  <2>5. j.who = "phone" => w \in Uploads
    BY DEF JobOK, Workers
  <2>6. JobOK(w, q)
    BY <2>1, <2>2, <2>3, <2>5 DEF JobOK, Active, OwnerTodo
  <2> QED BY <1>1, <1>5, <2>1, <2>3, <2>4, <2>6
<1> QED BY <1>1, <1>3, <1>4, <1>5

(* A change of a queued action that is done is recorded first. *)
Recorded(j) == [j EXCEPT !.stage = "record", !.held = Seeded, !.dirty = {}]

LEMMA RecordedOK ==
  ASSUME NEW w \in Uploads, NEW j, JobOK(w, j), j.todo # <<>>
  PROVE  /\ JobOK(w, Recorded(j))
         /\ Recorded(j).stage = "record" /\ Recorded(j).held = Seeded /\ Recorded(j).dirty = {}
         /\ Recorded(j).who = j.who /\ Recorded(j).said = j.said /\ Recorded(j).sent = j.sent
         /\ Recorded(j).todo = j.todo
<1> DEFINE q == [j EXCEPT !.stage = "record", !.held = Seeded, !.dirty = {}]
<1>1. /\ q \in JobRec /\ q.stage = "record" /\ q.held = Seeded /\ q.dirty = {}
      /\ q.who = j.who /\ q.said = j.said /\ q.sent = j.sent /\ q.todo = j.todo
  BY Constants DEF JobOK, JobRec, Stages
<1>2. Recorded(j) = q
  BY DEF Recorded
<1> HIDE DEF q
<1>3. j.stage # "idle"
  BY DEF JobOK, IdleJob
<1>4. JobOK(w, q)
  BY <1>1, <1>3 DEF JobOK, Active
<1> QED BY <1>1, <1>2, <1>4

-----------------------------------------------------------------------------
(* Types, and what each action does to the jobs.                             *)

Queued == {c \in Change : c.what = "set" /\ c.id # 0}

JobsTyped == job \in [Workers -> JobRec] /\ \A w \in Workers : JobOK(w, job[w])

Doing(w) == Head(job[w].todo)
At(w) == Doing(w).table

TInv ==
  /\ now \in Instants
  /\ rows \in [Tables -> Row \cup {NoRow}] /\ rows["busyness"] # NoRow
  /\ JobsTyped
  /\ \A w \in Workers : job[w].stage \in {"select", "update"} => rows[At(w)] # NoRow
  /\ queue \in Seq(Queued)
  /\ awaited \in Uploads \cup {"none"}
  /\ awaited \in Uploads => job[awaited].sent <= Len(queue)
  /\ since \in Instants /\ shown \subseteq Tables /\ screen \in Values
  /\ pull \in [stage : {"idle", "answer"}, seen : SUBSET Tables, whole : BOOLEAN]
  /\ begun \in [Kinds -> Nat]
  /\ storedAt \in [Tables -> Instants] /\ raced \subseteq Tables /\ missed \subseteq Tables
  /\ applied \in [Ids -> Nat] /\ unsure \in BOOLEAN

(* Only the job of w changes. *)
OthersWait(w) == JobsTyped' /\ \A x \in Workers \ {w} : job'[x] = job[x]

SameTask(w) ==
  /\ job'[w].who = job[w].who /\ job'[w].todo = job[w].todo
  /\ job'[w].said = job[w].said /\ job'[w].sent = job[w].sent

(* The change w is at is over. *)
ThroughWith(w) ==
  \/ job'[w] = Proceed(job[w])
  \/ w \in Uploads /\ job'[w] = Recorded(job[w])

LEMMA JobSet ==
  ASSUME TInv, NEW w \in Workers, NEW q, JobOK(w, q), job' = [job EXCEPT ![w] = q]
  PROVE  OthersWait(w) /\ job'[w] = q
BY DEF TInv, JobsTyped, OthersWait, JobOK

LEMMA TaskTyped ==
  ASSUME TInv, NEW w \in Workers, job[w].todo # <<>>
  PROVE  /\ Doing(w) \in Does(w) /\ Doing(w) \in Change /\ At(w) \in Tables
         /\ rows[At(w)] \in Row \cup {NoRow}
<1>1. Doing(w) \in Does(w)
  BY HeadAndTail DEF TInv, JobsTyped, JobOK, Doing
<1>2. Doing(w) \in Change
  BY <1>1 DEF Does
<1> QED BY <1>1, <1>2 DEF At, Change, TInv

LEMMA StartEffect ==
  ASSUME TInv, NEW w \in Workers, NEW who \in Writers, NEW todo \in Seq(Change), Start(w, who, todo),
         todo # <<>>, todo \in Seq(Does(w)),
         w \in Uploads => who = "phone", w \in Staff => who \in {"owner", "demo", "seed"},
         w \in Visitors => who = "seed" /\ Len(todo) = 1,
         who = "owner" => w \in Staff /\ todo[1].val \in Values /\ todo \in OwnerTodo(todo[1].val)
  PROVE  /\ OthersWait(w) /\ job[w] = IdleJob
         /\ job'[w].stage = "find" /\ job'[w].who = who /\ job'[w].todo = todo
         /\ job'[w].held = Seeded /\ job'[w].dirty = {}
         /\ job'[w].said = IF who = "owner" THEN todo[1].val ELSE "low"
         /\ job'[w].sent = IF who = "phone" THEN Len(todo) ELSE 0
<1> DEFINE sv == IF who = "owner" THEN todo[1].val ELSE "low"
           sn == IF who = "phone" THEN Len(todo) ELSE 0
           q == [IdleJob EXCEPT !.stage = "find", !.who = who, !.todo = todo,
                                !.said = sv, !.sent = sn]
<1>1. job[w] = IdleJob /\ job' = [job EXCEPT ![w] = q]
  <2>1. IdleJob.said = "low" /\ IdleJob.sent = 0
    BY DEF IdleJob
  <2>2. job[w] = IdleJob
    BY DEF Start, TInv, JobsTyped, JobOK
  <2>3. job' = [job EXCEPT ![w] = [IdleJob EXCEPT !.stage = "find", !.who = who, !.todo = todo,
                !.said = IF who = "owner" THEN todo[1].val ELSE IdleJob.said,
                !.sent = IF who = "phone" THEN Len(todo) ELSE IdleJob.sent]]
    BY DEF Start
  <2> QED BY <2>1, <2>2, <2>3
<1>2. Len(todo) \in Nat /\ IdleJob \in JobRec /\ sv \in Values /\ sn \in Nat
  BY LenProperties, IdleOK DEF JobOK, Values
<1> HIDE DEF sv, sn
<1>3. /\ q \in JobRec /\ q.stage = "find" /\ q.who = who /\ q.todo = todo
      /\ q.held = Seeded /\ q.dirty = {} /\ q.said = sv /\ q.sent = sn
  <2>1. IdleJob.held = Seeded /\ IdleJob.dirty = {}
    BY DEF IdleJob
  <2> QED BY <1>2, <2>1, Constants DEF JobRec, Stages
<1> HIDE DEF q
<1>4. JobOK(w, q)
  <2>1. ASSUME w \in Visitors PROVE Len(q.todo) <= 1
    <3>1. Len(todo) = 1
      BY <2>1
    <3>2. q.todo = todo
      BY <1>3
    <3>3. 1 <= 1
      OBVIOUS
    <3> QED BY <3>1, <3>2, <3>3, Zenon
  <2> QED BY <1>3, <2>1 DEF JobOK, Active, sv
<1> QED BY <1>1, <1>3, <1>4, JobSet DEF sv, sn

LEMMA CloseEffect ==
  ASSUME TInv, NEW w \in Workers, job[w].todo # <<>>, Close(w)
  PROVE  OthersWait(w) /\ ThroughWith(w)
<1>1. JobOK(w, job[w])
  BY DEF TInv, JobsTyped
<1>2. CASE job[w].who = "phone"
  <2>1. w \in Uploads
    BY <1>1, <1>2 DEF JobOK, Workers
  <2>2. job' = [job EXCEPT ![w] = Recorded(job[w])]
    BY <1>2 DEF Close, Recorded, TInv, JobsTyped
  <2> QED BY <1>1, <2>1, <2>2, JobSet, RecordedOK DEF ThroughWith
<1>3. CASE job[w].who # "phone"
  <2>1. job' = [job EXCEPT ![w] = Proceed(job[w])]
    BY <1>3 DEF Close, TInv, JobsTyped
  <2> QED BY <1>1, <2>1, JobSet, ProceedOK DEF ThroughWith
<1> QED BY <1>2, <1>3

LEMMA FinishEffect ==
  ASSUME TInv, NEW w \in Workers, Finish(w)
  PROVE  OthersWait(w) /\ job'[w] = IdleJob
<1>1. job' = [job EXCEPT ![w] = IdleJob]
  BY DEF Finish
<1> QED BY <1>1, JobSet, IdleOK

LEMMA FindEffect ==
  ASSUME TInv, NEW w \in Workers, FindRow(w)
  PROVE  /\ OthersWait(w) /\ job[w].stage = "find" /\ job[w].todo # <<>>
         /\ \/ ThroughWith(w) /\ (rows[At(w)] # NoRow => Doing(w).id # 0)
            \/ /\ job'[w].stage = "insert" /\ SameTask(w) /\ rows[At(w)] = NoRow
               /\ job'[w].held = Changed(w, Seeded, Doing(w)) /\ w \in Staff
            \/ /\ job'[w].stage = "select" /\ SameTask(w) /\ rows[At(w)] # NoRow
               /\ job'[w].held = Changed(w, rows[At(w)], Doing(w))
               /\ ~Conflicts(Doing(w), rows[At(w)])
<1> DEFINE c == Doing(w)  r == rows[At(w)]
<1>1. /\ job[w].stage = "find" /\ job[w].todo # <<>> /\ JobOK(w, job[w]) /\ job[w] \in JobRec
      /\ job \in [Workers -> JobRec]
  BY DEF FindRow, TInv, JobsTyped, JobOK, Active
<1>2. c \in Change /\ r \in Row \cup {NoRow} /\ job[w].who \in Writers
  BY <1>1, TaskTyped DEF JobRec
<1>3. \/ /\ r = NoRow /\ job[w].who \in {"phone", "seed"}
         /\ job' = [job EXCEPT ![w] = Proceed(job[w])]
      \/ /\ r = NoRow /\ job[w].who \notin {"phone", "seed"}
         /\ job' = [job EXCEPT ![w] = [job[w] EXCEPT !.stage = "insert", !.held = Changed(w, Seeded, c)]]
      \/ r # NoRow /\ Conflicts(c, r) /\ Close(w)
      \/ /\ r # NoRow /\ ~Conflicts(c, r)
         /\ job' = [job EXCEPT ![w] = [job[w] EXCEPT !.stage = "select", !.held = Changed(w, r, c)]]
  <2>1. IF r = NoRow
        THEN job' = [job EXCEPT ![w] = IF @.who \in {"phone", "seed"} THEN Proceed(@)
                       ELSE [@ EXCEPT !.stage = "insert", !.held = Changed(w, Seeded, c)]]
        ELSE IF Conflicts(c, r) THEN Close(w)
        ELSE job' = [job EXCEPT ![w].stage = "select", ![w].held = Changed(w, r, c)]
    BY DEF FindRow, Doing, At
  <2> DEFINE h == Changed(w, r, c)
  <2> HIDE DEF c, r
  <2>2. CASE r = NoRow
    BY <1>1, <2>1, <2>2
  <2>3. CASE r # NoRow /\ ~Conflicts(c, r)
    <3>1. job' = [job EXCEPT ![w].stage = "select", ![w].held = h]
      BY <2>1, <2>3
    <3> HIDE DEF h
    <3>2. job' = [job EXCEPT ![w] = [job[w] EXCEPT !.stage = "select", !.held = h]]
      BY <1>1, <3>1
    <3> QED BY <2>3, <3>2 DEF h
  <2> QED BY <2>1, <2>2, <2>3
<1> HIDE DEF c, r
<1>4. ASSUME NEW st \in {"insert", "select"}, NEW h \in Row, st = "insert" => w \in Staff,
             job' = [job EXCEPT ![w] = [job[w] EXCEPT !.stage = st, !.held = h]]
      PROVE  OthersWait(w) /\ job'[w].stage = st /\ job'[w].held = h /\ SameTask(w)
  <2> DEFINE q == [job[w] EXCEPT !.stage = st, !.held = h]
  <2>1. /\ q \in JobRec /\ q.stage = st /\ q.held = h /\ q.who = job[w].who
        /\ q.todo = job[w].todo /\ q.said = job[w].said /\ q.sent = job[w].sent
    BY <1>1, <1>4 DEF JobRec, Stages
  <2>2. job' = [job EXCEPT ![w] = q]
    BY <1>4
  <2> HIDE DEF q
  <2>3. JobOK(w, q)
    BY <1>1, <1>4, <2>1 DEF JobOK, Active
  <2> QED BY <2>1, <2>2, <2>3, JobSet DEF SameTask
<1>5. CASE /\ r = NoRow /\ job[w].who \in {"phone", "seed"}
           /\ job' = [job EXCEPT ![w] = Proceed(job[w])]
  <2>1. OthersWait(w) /\ ThroughWith(w)
    BY <1>1, <1>5, JobSet, ProceedOK DEF ThroughWith
  <2> QED BY <1>1, <1>5, <2>1 DEF r
<1>6. CASE /\ r = NoRow /\ job[w].who \notin {"phone", "seed"}
           /\ job' = [job EXCEPT ![w] = [job[w] EXCEPT !.stage = "insert", !.held = Changed(w, Seeded, c)]]
  <2>1. w \in Staff
    BY <1>1, <1>6 DEF JobOK, Workers
  <2>2. Changed(w, Seeded, c) \in Row
    BY <1>2, Constants, ChangedTyped
  <2> QED BY <1>1, <1>4, <1>6, <2>1, <2>2 DEF c, r
<1>7. CASE r # NoRow /\ Conflicts(c, r) /\ Close(w)
  BY <1>1, <1>7, CloseEffect DEF Conflicts, c
<1>8. CASE /\ r # NoRow /\ ~Conflicts(c, r)
           /\ job' = [job EXCEPT ![w] = [job[w] EXCEPT !.stage = "select", !.held = Changed(w, r, c)]]
  <2>1. Changed(w, r, c) \in Row
    BY <1>2, <1>8, ChangedTyped
  <2> QED BY <1>1, <1>4, <1>8, <2>1 DEF c, r
<1> QED BY <1>3, <1>5, <1>6, <1>7, <1>8

Differs(w) == {c \in Columns : job[w].held[c] # rows[At(w)][c]}

LEMMA SelectEffect ==
  ASSUME TInv, NEW w \in Workers, SaveSelect(w)
  PROVE  /\ OthersWait(w) /\ job[w].stage = "select" /\ job[w].todo # <<>>
         /\ \/ ThroughWith(w) /\ Differs(w) = {}
            \/ /\ job'[w].stage = "update" /\ SameTask(w) /\ job'[w].held = job[w].held
               /\ job'[w].dirty = Differs(w) /\ Differs(w) # {}
<1> DEFINE d == Differs(w)
<1>1. /\ job[w].stage = "select" /\ job[w].todo # <<>> /\ JobOK(w, job[w]) /\ job[w] \in JobRec
      /\ job \in [Workers -> JobRec]
  BY DEF SaveSelect, TInv, JobsTyped, JobOK, Active
<1>2. d \in SUBSET Columns
  BY DEF Differs
<1>3. IF d = {} THEN Close(w)
      ELSE job' = [job EXCEPT ![w].stage = "update", ![w].dirty = d]
  BY DEF SaveSelect, Differs, At, Doing
<1> HIDE DEF d
<1>4. CASE d = {}
  BY <1>1, <1>3, <1>4, CloseEffect DEF d
<1>5. CASE d # {}
  <2> DEFINE q == [job[w] EXCEPT !.stage = "update", !.dirty = d]
  <2>1. job' = [job EXCEPT ![w] = q]
    BY <1>1, <1>3, <1>5
  <2>2. /\ q \in JobRec /\ q.stage = "update" /\ q.held = job[w].held /\ q.who = job[w].who
        /\ q.todo = job[w].todo /\ q.said = job[w].said /\ q.sent = job[w].sent /\ q.dirty = d
    BY <1>1, <1>2 DEF JobRec, Stages
  <2> HIDE DEF q
  <2>3. JobOK(w, q)
    BY <1>1, <2>2 DEF JobOK, Active
  <2>4. OthersWait(w) /\ job'[w] = q
    BY <2>1, <2>3, JobSet
  <2> QED BY <1>1, <1>5, <2>2, <2>4 DEF SameTask, d
<1> QED BY <1>4, <1>5

(* The row that an UPDATE by w leaves. *)
LEMMA UpdateEffect ==
  ASSUME TInv, NEW w \in Workers, SaveUpdate(w)
  PROVE  /\ OthersWait(w) /\ ThroughWith(w) /\ NoteWrite(w, Doing(w))
         /\ job[w].stage = "update" /\ job[w].todo # <<>>
         /\ rows[At(w)] \in Row /\ rows'[At(w)] \in Row
         /\ \A t \in Tables \ {At(w)} : rows'[t] = rows[t]
         /\ rows' \in [Tables -> Row \cup {NoRow}]
         /\ rows'[At(w)].at = IF "at" \in job[w].dirty THEN job[w].held.at ELSE now
         /\ rows'[At(w)].val = IF "val" \in job[w].dirty THEN job[w].held.val ELSE rows[At(w)].val
         /\ rows'[At(w)].by = IF "by" \in job[w].dirty THEN job[w].held.by ELSE rows[At(w)].by
         /\ rows'[At(w)].responses = IF "responses" \in job[w].dirty THEN job[w].held.responses
                                     ELSE rows[At(w)].responses
<1> DEFINE t == At(w)  r == rows[t]  held == job[w].held  dirty == job[w].dirty
           n == [val |-> IF "val" \in dirty THEN held.val ELSE r.val,
                 by |-> IF "by" \in dirty THEN held.by ELSE r.by,
                 responses |-> IF "responses" \in dirty THEN held.responses ELSE r.responses,
                 at |-> Stamp(held, r, dirty)]
<1>1. /\ job[w].stage = "update" /\ job[w].todo # <<>> /\ JobOK(w, job[w])
      /\ job \in [Workers -> JobRec] /\ held \in Row
  BY DEF SaveUpdate, TInv, JobsTyped, JobOK, Active, JobRec
<1>2. r \in Row /\ t \in Tables /\ now \in Instants
  BY <1>1, TaskTyped DEF TInv
<1>3. rows' = [rows EXCEPT ![t] = n] /\ NoteWrite(w, Doing(w)) /\ Close(w)
  BY DEF SaveUpdate, At, Doing
<1>4. n \in Row /\ n.at = IF "at" \in dirty THEN held.at ELSE now
  BY <1>1, <1>2 DEF Row, Stamp
<1>5. /\ n.val = IF "val" \in dirty THEN held.val ELSE r.val
      /\ n.by = IF "by" \in dirty THEN held.by ELSE r.by
      /\ n.responses = IF "responses" \in dirty THEN held.responses ELSE r.responses
  OBVIOUS
<1> HIDE DEF n
<1>6. OthersWait(w) /\ ThroughWith(w)
  BY <1>1, <1>3, CloseEffect
<1>7. /\ rows'[t] = n /\ rows' \in [Tables -> Row \cup {NoRow}]
      /\ \A u \in Tables \ {t} : rows'[u] = rows[u]
  BY <1>2, <1>3, <1>4 DEF TInv
<1> QED BY <1>1, <1>2, <1>3, <1>4, <1>5, <1>6, <1>7

LEMMA InsertEffect ==
  ASSUME TInv, NEW w \in Workers, SaveInsert(w)
  PROVE  /\ OthersWait(w) /\ w \in Staff
         /\ job[w].stage = "insert" /\ job[w].todo # <<>>
         /\ \/ /\ ThroughWith(w) /\ NoteWrite(w, Doing(w)) /\ rows[At(w)] = NoRow
               /\ rows'[At(w)] \in Row
               /\ \A t \in Tables \ {At(w)} : rows'[t] = rows[t]
               /\ rows' \in [Tables -> Row \cup {NoRow}]
               /\ rows'[At(w)].at = now /\ rows'[At(w)].responses = job[w].held.responses
               /\ UNCHANGED unsure
            \/ /\ job'[w] = IdleJob /\ unsure' = (unsure \/ job[w].who = "owner")
               /\ UNCHANGED <<rows, storedAt, raced, applied, missed, pull, shown>>
<1> DEFINE t == At(w)  n == [job[w].held EXCEPT !.at = now]
<1>1. /\ job[w].stage = "insert" /\ job[w].todo # <<>> /\ JobOK(w, job[w]) /\ w \in Staff
      /\ job[w].held \in Row /\ t \in Tables /\ now \in Instants
  BY TaskTyped DEF SaveInsert, TInv, JobsTyped, JobOK, Active, JobRec
<1>2. n \in Row /\ n.at = now /\ n.responses = job[w].held.responses
  BY <1>1 DEF Row
<1>3. \/ rows[t] = NoRow /\ rows' = [rows EXCEPT ![t] = n] /\ NoteWrite(w, Doing(w)) /\ Close(w)
         /\ UNCHANGED unsure
      \/ Finish(w) /\ unsure' = (unsure \/ job[w].who = "owner")
         /\ UNCHANGED <<rows, storedAt, raced, applied, missed, pull, shown>>
  BY DEF SaveInsert, At, Doing, writeVars
<1> HIDE DEF n
<1>4. CASE rows[t] = NoRow /\ rows' = [rows EXCEPT ![t] = n] /\ NoteWrite(w, Doing(w)) /\ Close(w)
           /\ UNCHANGED unsure
  <2>1. OthersWait(w) /\ ThroughWith(w)
    BY <1>1, <1>4, CloseEffect
  <2>2. /\ rows'[t] = n /\ rows' \in [Tables -> Row \cup {NoRow}]
        /\ \A u \in Tables \ {t} : rows'[u] = rows[u]
    BY <1>1, <1>2, <1>4 DEF TInv
  <2> QED BY <1>1, <1>2, <1>4, <2>1, <2>2
<1>5. CASE Finish(w) /\ unsure' = (unsure \/ job[w].who = "owner")
           /\ UNCHANGED <<rows, storedAt, raced, applied, missed, pull, shown>>
  BY <1>1, <1>5, FinishEffect
<1> QED BY <1>3, <1>4, <1>5

(* What a write notes. *)
LEMMA NoteTyped ==
  ASSUME TInv, NEW w \in Workers, job[w].todo # <<>>, NoteWrite(w, Doing(w))
  PROVE  /\ storedAt' \in [Tables -> Instants] /\ storedAt'[At(w)] = now
         /\ \A t \in Tables \ {At(w)} : storedAt'[t] = storedAt[t]
         /\ raced \subseteq raced' /\ raced' \subseteq Tables
         /\ At(w) \notin raced' => \A x \in Workers \ {w} : ~Holds(x, At(w))
         /\ \A t \in Tables \ {At(w)} : t \in raced' <=> t \in raced
         /\ missed' = IF pull.stage = "idle" THEN missed \ {At(w)} ELSE missed \cup {At(w)}
         /\ shown' = shown \ {At(w)}
         /\ pull' \in [stage : {"idle", "answer"}, seen : SUBSET Tables, whole : BOOLEAN]
         /\ pull'.stage = pull.stage /\ pull'.whole = pull.whole /\ pull'.seen = pull.seen \ {At(w)}
         /\ applied' \in [Ids -> Nat]
         /\ \A i \in Ids : applied'[i] =
              IF i = Doing(w).id /\ Doing(w).offline < now THEN applied[i] + 1 ELSE applied[i]
<1> DEFINE c == Doing(w)  t == At(w)
<1>1. c \in Change /\ t \in Tables /\ c.id \in Ids \cup {0} /\ t = c.table
  BY TaskTyped DEF Change, At
<1>2. 0 \notin Ids
  BY Constants
<1>3. storedAt' \in [Tables -> Instants] /\ storedAt'[t] = now
      /\ \A u \in Tables \ {t} : storedAt'[u] = storedAt[u]
  BY <1>1 DEF NoteWrite, TInv
<1>4. /\ raced \subseteq raced' /\ raced' \subseteq Tables
      /\ t \notin raced' => \A x \in Workers \ {w} : ~Holds(x, t)
      /\ \A u \in Tables \ {t} : u \in raced' <=> u \in raced
  <2>1. raced' = IF \E x \in Workers \ {w} : Holds(x, t) THEN raced \cup {t} ELSE raced
    BY <1>1 DEF NoteWrite
  <2> HIDE DEF t
  <2> QED BY <1>1, <2>1 DEF TInv
<1>5. missed' = (IF pull.stage = "idle" THEN missed \ {t} ELSE missed \cup {t})
      /\ shown' = shown \ {t}
  BY <1>1 DEF NoteWrite
<1>6. /\ pull' \in [stage : {"idle", "answer"}, seen : SUBSET Tables, whole : BOOLEAN]
      /\ pull'.stage = pull.stage /\ pull'.whole = pull.whole /\ pull'.seen = pull.seen \ {t}
  <2>1. pull' = [pull EXCEPT !.seen = pull.seen \ {t}]
    BY <1>1 DEF NoteWrite
  <2> HIDE DEF t
  <2> QED BY <2>1 DEF TInv
<1>7. /\ applied' \in [Ids -> Nat]
      /\ \A i \in Ids : applied'[i] = IF i = c.id /\ c.offline < now THEN applied[i] + 1 ELSE applied[i]
  BY <1>1, <1>2 DEF NoteWrite, TInv
<1> QED BY <1>3, <1>4, <1>5, <1>6, <1>7

(* A request of the owner's screen or of the demo begins. *)
LEMMA StatusEffect ==
  ASSUME TInv, NEW w \in Workers, UpdateVenueStatus(w) \/ SimulateTime(w) \/ ResetDemo(w)
  PROVE  /\ OthersWait(w) /\ w \in Staff /\ job[w] = IdleJob
         /\ job'[w].stage = "find" /\ job'[w].held = Seeded /\ job'[w].dirty = {}
         /\ job'[w].who \in {"owner", "demo", "seed"} /\ job'[w].sent = 0
         /\ job'[w].todo # <<>> /\ Head(job'[w].todo).table = "busyness"
         /\ job'[w].who = "owner" => unsure' = (unsure \/ \E x \in Staff : job[x].who = "owner")
         /\ job'[w].who # "owner" => unsure' = unsure
         /\ begun' = [begun EXCEPT !["status"] = @ + 1]
         /\ UNCHANGED <<now, rows, phoneVars, screen, writeVars>>
<1>0. PICK v \in Values, who \in {"owner", "demo", "seed"} :
        \E todo \in {Both(v), <<Set("busyness", v)>>} :
          /\ StatusRequest(w, who, todo)
          /\ who = "owner" => unsure' = (unsure \/ \E x \in Staff : job[x].who = "owner")
          /\ who # "owner" => unsure' = unsure
  <2>1. CASE UpdateVenueStatus(w)
    BY <2>1 DEF UpdateVenueStatus
  <2>2. CASE SimulateTime(w)
    BY <2>2 DEF SimulateTime
  <2>3. CASE ResetDemo(w)
    BY <2>3, Constants DEF ResetDemo, Row
  <2> QED BY <2>1, <2>2, <2>3
<1>1. PICK todo \in {Both(v), <<Set("busyness", v)>>} :
        /\ StatusRequest(w, who, todo)
        /\ who = "owner" => unsure' = (unsure \/ \E x \in Staff : job[x].who = "owner")
        /\ who # "owner" => unsure' = unsure
  BY <1>0
<1>2. w \in Staff /\ w \notin Visitors /\ w \notin Uploads
  BY <1>1, StatusAssumption DEF StatusRequest
<1> DEFINE a == Set("busyness", v)  b == Set("vibes", v)
<1>3. /\ a \in Change /\ a.table = "busyness" /\ a.what = "set" /\ a.val = v /\ a.id = 0
      /\ b \in Change /\ b.table = "vibes" /\ b.what = "set" /\ b.id = 0
  BY Constants DEF Tables
<1>4. a \in Does(w) /\ b \in Does(w)
  BY <1>2, <1>3 DEF Does
<1>5. Both(v) = <<a, b>> /\ todo \in {<<a, b>>, <<a>>}
  BY <1>1 DEF Both
<1> HIDE DEF a, b
<1>6. /\ todo # <<>> /\ todo \in Seq(Does(w)) /\ todo \in Seq(Change)
      /\ Head(todo) = a /\ todo[1] = a
  <2>1. CASE todo = <<a, b>>
    BY <1>3, <1>4, <2>1, OneAndTwo
  <2>2. CASE todo = <<a>>
    BY <1>3, <1>4, <2>2, OneAndTwo
  <2> QED BY <1>5, <2>1, <2>2
<1>7. todo \in OwnerTodo(v)
  BY <1>1 DEF OwnerTodo
<1>8. Start(w, who, todo) /\ who \in Writers
  BY <1>1 DEF StatusRequest, Writers
<1>9. /\ OthersWait(w) /\ job[w] = IdleJob
      /\ job'[w].stage = "find" /\ job'[w].who = who /\ job'[w].todo = todo
      /\ job'[w].held = Seeded /\ job'[w].dirty = {} /\ job'[w].sent = 0
  BY <1>1, <1>2, <1>3, <1>6, <1>7, <1>8, StartEffect
<1>10. /\ begun' = [begun EXCEPT !["status"] = @ + 1]
       /\ UNCHANGED <<now, rows, phoneVars, screen, writeVars>>
  BY <1>1 DEF StatusRequest, Begin
<1> QED BY <1>1, <1>2, <1>3, <1>6, <1>9, <1>10

LEMMA CheckEffect ==
  ASSUME TInv, NEW w \in Workers, VibeCheck(w)
  PROVE  /\ OthersWait(w) /\ w \in Visitors /\ job[w] = IdleJob
         /\ job'[w].stage = "find" /\ job'[w].held = Seeded /\ job'[w].dirty = {}
         /\ job'[w].who = "seed" /\ job'[w].todo = <<Check>> /\ job'[w].sent = 0
         /\ rows["vibes"] # NoRow
         /\ begun' = [begun EXCEPT !["check"] = @ + 1]
<1>1. w \in Visitors /\ w \notin Staff /\ w \notin Uploads
  BY StatusAssumption DEF VibeCheck
<1> DEFINE c == Check
<1>2. c \in Change /\ c \in Does(w)
  BY <1>1, Constants DEF Does
<1>3. PICK todo \in Seq(Change) : todo = <<c>>
  BY <1>2, OneAndTwo
<1> HIDE DEF c
<1>4. todo # <<>> /\ todo \in Seq(Does(w)) /\ Len(todo) = 1
  BY <1>2, <1>3, OneAndTwo
<1>5. Start(w, "seed", todo) /\ "seed" \in Writers
  BY <1>3 DEF VibeCheck, c, Writers
<1>6. /\ OthersWait(w) /\ job[w] = IdleJob
      /\ job'[w].stage = "find" /\ job'[w].who = "seed" /\ job'[w].todo = todo
      /\ job'[w].held = Seeded /\ job'[w].dirty = {} /\ job'[w].sent = 0
  BY <1>1, <1>4, <1>5, StartEffect
<1> QED BY <1>1, <1>3, <1>6 DEF VibeCheck, Begin, c

LEMMA UploadEffect ==
  ASSUME TInv, NEW w \in Workers, Upload(w)
  PROVE  /\ OthersWait(w) /\ w \in Uploads /\ job[w] = IdleJob /\ awaited' = w
         /\ job'[w].stage = "find" /\ job'[w].held = Seeded /\ job'[w].dirty = {}
         /\ job'[w].who = "phone" /\ job'[w].todo = queue /\ job'[w].sent = Len(queue)
         /\ begun' = [begun EXCEPT !["upload"] = @ + 1]
<1>1. w \in Uploads /\ w \notin Staff /\ w \notin Visitors
  BY StatusAssumption DEF Upload
<1>2. Queued \subseteq Does(w) /\ Queued \subseteq Change
  BY <1>1 DEF Queued, Does
<1>3. queue # <<>> /\ queue \in Seq(Does(w)) /\ queue \in Seq(Change)
  BY <1>2, SeqMonotonic DEF Upload, TInv
<1>4. Start(w, "phone", queue) /\ "phone" \in Writers
  BY DEF Upload, Writers
<1>5. /\ OthersWait(w) /\ job[w] = IdleJob
      /\ job'[w].stage = "find" /\ job'[w].who = "phone" /\ job'[w].todo = queue
      /\ job'[w].held = Seeded /\ job'[w].dirty = {} /\ job'[w].sent = Len(queue)
  BY <1>1, <1>3, <1>4, StartEffect
<1> QED BY <1>1, <1>5 DEF Upload, Begin

LEMMA RecordEffect ==
  ASSUME TInv, NEW w \in Workers, RecordAction(w)
  PROVE  OthersWait(w) /\ ThroughWith(w) /\ w \in Uploads /\ job[w].todo # <<>>
<1>1. JobOK(w, job[w]) /\ job[w].todo # <<>> /\ w \in Uploads
  <2>1. JobOK(w, job[w])
    BY DEF TInv, JobsTyped
  <2> QED BY <2>1 DEF RecordAction, JobOK, Active, Workers
<1>2. job' = [job EXCEPT ![w] = Proceed(job[w])]
  BY DEF RecordAction, TInv, JobsTyped
<1> QED BY <1>1, <1>2, JobSet, ProceedOK DEF ThroughWith

LEMMA EndEffect ==
  ASSUME TInv, NEW w \in Workers, RequestFails(w) \/ Answer(w) \/ Broadcast(w)
  PROVE  /\ OthersWait(w) /\ job'[w] = IdleJob
         /\ RequestFails(w) => w \in Staff
         /\ Answer(w) => w \in Uploads
         /\ Broadcast(w) => w \in Staff /\ job[w].who = "owner"
<1>1. JobOK(w, job[w]) /\ Finish(w)
  BY DEF TInv, JobsTyped, RequestFails, Answer, Broadcast
<1>2. OthersWait(w) /\ job'[w] = IdleJob
  BY <1>1, FinishEffect
<1> QED BY <1>1, <1>2 DEF JobOK, RequestFails, Answer, Broadcast

(* When the change w is at is over, it holds nothing. *)
LEMMA ThroughEffect ==
  ASSUME TInv, NEW w \in Workers, job[w].todo # <<>>, ThroughWith(w)
  PROVE  /\ job'[w].stage \in {"find", "idle", "notify", "answer", "record"}
         /\ job'[w].held = Seeded /\ job'[w].dirty = {}
         /\ job'[w].sent \in {0, job[w].sent}
         /\ job'[w].stage = "idle" => job'[w] = IdleJob /\ job[w].who \notin {"owner", "phone"}
         /\ job'[w].stage # "idle" =>
              /\ job'[w].who = job[w].who /\ job'[w].said = job[w].said
              /\ job'[w].todo = Tail(job[w].todo) \/ (w \in Uploads /\ job'[w].todo = job[w].todo)
<1>1. JobOK(w, job[w])
  BY DEF TInv, JobsTyped
<1>2. CASE job'[w] = Proceed(job[w])
  <2>1. IdleJob.sent = 0
    BY DEF IdleJob
  <2> QED BY <1>1, <1>2, <2>1, ProceedOK
<1>3. CASE w \in Uploads /\ job'[w] = Recorded(job[w])
  BY <1>1, <1>3, RecordedOK
<1> QED BY <1>2, <1>3 DEF ThroughWith

(* What a step of w's job leaves of the invariant that relates jobs to rows. *)
LEMMA JobStepTyped ==
  ASSUME TInv, NEW w \in Workers, OthersWait(w),
         \A t \in Tables : rows[t] # NoRow => rows'[t] # NoRow,
         job'[w].stage \in {"select", "update"} => rows'[Head(job'[w].todo).table] # NoRow
  PROVE  /\ JobsTyped'
         /\ \A x \in Workers : job'[x].stage \in {"select", "update"} => rows'[At(x)'] # NoRow
<1>1. ASSUME NEW x \in Workers, x # w, job'[x].stage \in {"select", "update"}
      PROVE  rows'[At(x)'] # NoRow
  <2>1. job'[x] = job[x] /\ At(x)' = At(x)
    BY <1>1 DEF OthersWait, At, Doing
  <2>2. job[x].todo # <<>> /\ rows[At(x)] # NoRow
    BY <1>1, <2>1 DEF TInv, JobsTyped, JobOK, Active
  <2> QED BY <2>1, <2>2, TaskTyped
<1>2. At(w)' = Head(job'[w].todo).table
  BY DEF At, Doing
<1> QED BY <1>1, <1>2 DEF OthersWait

LEMMA SentStays ==
  ASSUME TInv, NEW w \in Workers, OthersWait(w), job'[w].sent \in {0, job[w].sent},
         UNCHANGED <<queue, awaited>>
  PROVE  awaited' \in Uploads => job'[awaited'].sent <= Len(queue')
<1> SUFFICES ASSUME awaited \in Uploads PROVE job'[awaited].sent <= Len(queue)
  OBVIOUS
<1>1. awaited \in Workers /\ job[awaited].sent <= Len(queue) /\ Len(queue) \in Nat
  BY LenProperties DEF TInv, Workers
<1>2. job'[awaited].sent \in {0, job[awaited].sent}
  BY <1>1 DEF OthersWait
<1> QED BY <1>1, <1>2

(* A worker's step preserves the types. *)
LEMMA BeginTyped ==
  ASSUME TInv, NEW w \in Workers, NEW k \in Kinds, begun' = [begun EXCEPT ![k] = @ + 1]
  PROVE  begun' \in [Kinds -> Nat]
BY DEF TInv

LEMMA RequestTyped ==
  ASSUME TInv, NEW w \in Workers,
         UpdateVenueStatus(w) \/ SimulateTime(w) \/ ResetDemo(w) \/ VibeCheck(w)
  PROVE  TInv'
<1>1. /\ OthersWait(w) /\ job'[w].stage = "find" /\ job'[w].sent = 0
      /\ \E k \in Kinds : begun' = [begun EXCEPT ![k] = @ + 1]
      /\ UNCHANGED <<now, rows, phoneVars, screen, writeVars>>
      /\ unsure' \in BOOLEAN
  <2>1. CASE UpdateVenueStatus(w) \/ SimulateTime(w) \/ ResetDemo(w)
    <3>1. unsure' \in BOOLEAN
      BY <2>1, StatusEffect DEF TInv
    <3> QED BY <2>1, <3>1, StatusEffect DEF Kinds
  <2>2. CASE VibeCheck(w)
    BY <2>2, CheckEffect DEF VibeCheck, Kinds, TInv
  <2> QED BY <2>1, <2>2
<1>2. begun' \in [Kinds -> Nat]
  BY <1>1, BeginTyped
<1>3. /\ JobsTyped'
      /\ \A x \in Workers : job'[x].stage \in {"select", "update"} => rows'[At(x)'] # NoRow
  BY <1>1, JobStepTyped
<1>4. awaited' \in Uploads => job'[awaited'].sent <= Len(queue')
  BY <1>1, SentStays DEF phoneVars
<1> QED BY <1>1, <1>2, <1>3, <1>4 DEF TInv, phoneVars, writeVars

LEMMA UploadTyped ==
  ASSUME TInv, NEW w \in Workers, Upload(w)
  PROVE  TInv'
<1>1. /\ OthersWait(w) /\ w \in Uploads /\ awaited' = w
      /\ job'[w].stage = "find" /\ job'[w].sent = Len(queue)
      /\ begun' = [begun EXCEPT !["upload"] = @ + 1]
      /\ UNCHANGED <<now, rows, queue, since, pull, shown, screen, writeVars, unsure>>
  BY UploadEffect DEF Upload
<1>2. begun' \in [Kinds -> Nat]
  BY <1>1, BeginTyped DEF Kinds
<1>3. /\ JobsTyped'
      /\ \A x \in Workers : job'[x].stage \in {"select", "update"} => rows'[At(x)'] # NoRow
  BY <1>1, JobStepTyped
<1>4. awaited' \in Uploads => job'[awaited'].sent <= Len(queue')
  BY <1>1, LenProperties DEF TInv
<1> QED BY <1>1, <1>2, <1>3, <1>4 DEF TInv, writeVars

(* A step of a request that stores nothing. *)
LEMMA ReadTyped ==
  ASSUME TInv, NEW w \in Workers,
         FindRow(w) \/ SaveSelect(w) \/ RecordAction(w) \/ RequestFails(w) \/ Broadcast(w)
  PROVE  TInv'
<1>1. /\ OthersWait(w) /\ job'[w].sent \in {0, job[w].sent}
      /\ job'[w].stage \in {"select", "update"} => rows[Head(job'[w].todo).table] # NoRow
  <2>1. CASE FindRow(w)
    BY <2>1, FindEffect, ThroughEffect DEF SameTask, At, Doing
  <2>2. CASE SaveSelect(w)
    BY <2>2, SelectEffect, ThroughEffect DEF SameTask, At, Doing, TInv
  <2>3. CASE RecordAction(w)
    BY <2>3, RecordEffect, ThroughEffect
  <2>4. CASE RequestFails(w) \/ Broadcast(w)
    BY <2>4, EndEffect DEF IdleJob
  <2> QED BY <2>1, <2>2, <2>3, <2>4
<1>2. /\ UNCHANGED <<now, rows, phoneVars, begun, writeVars>>
      /\ screen' \in Values /\ unsure' \in BOOLEAN
  <2>1. job[w].said \in Values
    BY DEF TInv, JobsTyped, JobRec
  <2> QED BY <2>1 DEF FindRow, SaveSelect, RecordAction, RequestFails, Broadcast, AnnouncedValue, TInv
<1>3. /\ JobsTyped'
      /\ \A x \in Workers : job'[x].stage \in {"select", "update"} => rows'[At(x)'] # NoRow
  BY <1>1, <1>2, JobStepTyped
<1>4. awaited' \in Uploads => job'[awaited'].sent <= Len(queue')
  BY <1>1, <1>2, SentStays DEF phoneVars
<1> QED BY <1>2, <1>3, <1>4 DEF TInv, phoneVars, writeVars

(* A step of a request that writes a row. *)
LEMMA WriteTyped ==
  ASSUME TInv, NEW w \in Workers, SaveUpdate(w) \/ SaveInsert(w)
  PROVE  TInv'
<1>1. /\ OthersWait(w) /\ job[w].todo # <<>> /\ (ThroughWith(w) \/ job'[w] = IdleJob)
      /\ rows' \in [Tables -> Row \cup {NoRow}]
      /\ \A t \in Tables : rows[t] # NoRow => rows'[t] # NoRow
      /\ \/ NoteWrite(w, Doing(w))
         \/ UNCHANGED <<storedAt, raced, applied, missed, pull, shown>>
  <2>1. NoRow \notin Row
    BY StatusAssumption
  <2>2. CASE SaveUpdate(w)
    BY <2>1, <2>2, UpdateEffect
  <2>3. CASE SaveInsert(w)
    BY <2>1, <2>3, InsertEffect DEF TInv
  <2> QED BY <2>2, <2>3
<1>2. /\ UNCHANGED <<now, queue, awaited, since, screen, begun>> /\ unsure' \in BOOLEAN
  BY DEF SaveUpdate, SaveInsert, TInv
<1>3. /\ job'[w].stage \notin {"select", "update"} /\ job'[w].sent \in {0, job[w].sent}
  BY <1>1, ThroughEffect DEF IdleJob
<1>4. /\ JobsTyped'
      /\ \A x \in Workers : job'[x].stage \in {"select", "update"} => rows'[At(x)'] # NoRow
  BY <1>1, <1>3, JobStepTyped
<1>5. awaited' \in Uploads => job'[awaited'].sent <= Len(queue')
  BY <1>1, <1>2, <1>3, SentStays
<1>6. /\ storedAt' \in [Tables -> Instants] /\ raced' \subseteq Tables /\ missed' \subseteq Tables
      /\ applied' \in [Ids -> Nat] /\ shown' \subseteq Tables
      /\ pull' \in [stage : {"idle", "answer"}, seen : SUBSET Tables, whole : BOOLEAN]
  <2>1. CASE NoteWrite(w, Doing(w))
    BY <1>1, <2>1, NoteTyped, TaskTyped DEF TInv
  <2> QED BY <1>1, <2>1 DEF TInv
<1>7. rows'["busyness"] # NoRow
  BY <1>1 DEF TInv, Tables
<1> QED BY <1>1, <1>2, <1>4, <1>5, <1>6, <1>7 DEF TInv

(* The answer drops from the queue what the upload sent. *)
LEMMA AnswerTyped ==
  ASSUME TInv, NEW w \in Workers, Answer(w)
  PROVE  TInv'
<1>1. /\ OthersWait(w) /\ w \in Uploads /\ job'[w] = IdleJob
      /\ UNCHANGED <<now, rows, since, pull, shown, screen, begun, writeVars, unsure>>
  BY EndEffect DEF Answer
<1>2. IdleJob.stage = "idle" /\ IdleJob.sent = 0
  BY DEF IdleJob
<1>3. /\ JobsTyped'
      /\ \A x \in Workers : job'[x].stage \in {"select", "update"} => rows'[At(x)'] # NoRow
  BY <1>1, <1>2, JobStepTyped
<1>4. CASE awaited = w
  <2>1. queue' = SubSeq(queue, job[w].sent + 1, Len(queue)) /\ awaited' = "none"
    BY <1>4 DEF Answer
  <2>2. job[w].sent \in Nat /\ Len(queue) \in Nat
    BY LenProperties DEF TInv, JobsTyped, JobRec
  <2>3. queue' \in Seq(Queued)
    <3>1. ASSUME NEW i \in job[w].sent + 1 .. Len(queue) PROVE i \in 1 .. Len(queue)
      BY <2>2
    <3> QED BY <2>1, <2>2, <3>1, SubSeqProperties DEF TInv
  <2>4. "none" \notin Uploads
    BY StatusAssumption
  <2> QED BY <1>1, <1>3, <2>1, <2>3, <2>4 DEF TInv, writeVars
<1>5. CASE awaited # w
  <2>1. UNCHANGED <<queue, awaited>>
    BY <1>5 DEF Answer
  <2>2. awaited' \in Uploads => job'[awaited'].sent <= Len(queue')
    BY <1>1, <1>2, <2>1, SentStays
  <2> QED BY <1>1, <1>3, <2>1, <2>2 DEF TInv, writeVars
<1> QED BY <1>4, <1>5

LEMMA EnqueueTyped ==
  ASSUME TInv, Enqueue
  PROVE  TInv' /\ \E c \in Queued : /\ queue' = Append(queue, c)
                                    /\ c.id = begun["queued"] + 1 /\ c.offline = now
<1> DEFINE n == begun["queued"]
<1>1. n \in Nat /\ n + 1 \in Ids /\ begun' = [begun EXCEPT !["queued"] = @ + 1]
  BY StatusAssumption DEF Enqueue, Begin, TInv, Kinds, Ids
<1>2. PICK t \in Tables, v \in Values :
        queue' = Append(queue, [table |-> t, what |-> "set", val |-> v, id |-> n + 1, offline |-> now])
  BY DEF Enqueue
<1> DEFINE c == [table |-> t, what |-> "set", val |-> v, id |-> n + 1, offline |-> now]
<1>3. c \in Queued /\ c.id = n + 1 /\ c.offline = now
  BY <1>1, Constants DEF Queued, Change, TInv
<1>4. queue' = Append(queue, c)
  BY <1>2
<1> HIDE DEF c
<1>5. queue' \in Seq(Queued) /\ Len(queue') = Len(queue) + 1 /\ Len(queue) \in Nat
  BY <1>3, <1>4, AppendProperties, LenProperties DEF TInv
<1>6. UNCHANGED <<now, rows, job, awaited, since, pull, shown, screen, writeVars, unsure>>
  BY DEF Enqueue
<1>7. awaited' \in Uploads => job'[awaited'].sent <= Len(queue')
  <2> SUFFICES ASSUME awaited \in Uploads PROVE job[awaited].sent <= Len(queue')
    BY <1>6
  <2>1. job[awaited].sent \in Nat /\ job[awaited].sent <= Len(queue)
    BY DEF TInv, JobsTyped, JobRec, Workers
  <2> QED BY <1>5, <2>1
<1>8. begun' \in [Kinds -> Nat]
  BY <1>1, BeginTyped DEF Kinds, TInv
<1>9. JobsTyped' /\ \A x \in Workers : job'[x].stage \in {"select", "update"} => rows'[At(x)'] # NoRow
  BY <1>6 DEF TInv, JobsTyped, At, Doing
<1> QED BY <1>3, <1>4, <1>5, <1>6, <1>7, <1>8, <1>9 DEF TInv, writeVars

(* The phone's other steps, and the clock. *)
LEMMA PhoneTyped ==
  ASSUME TInv, GiveUp \/ PullQuery \/ PullAnswer \/ Tick
  PROVE  TInv'
<1>1. /\ UNCHANGED <<rows, job, queue, screen, writeVars, unsure>>
      /\ now' \in Instants
      /\ awaited' \in {awaited, "none"}
      /\ since' \in Instants /\ shown' \subseteq Tables
      /\ pull' \in [stage : {"idle", "answer"}, seen : SUBSET Tables, whole : BOOLEAN]
      /\ begun' \in [Kinds -> Nat]
  <2>1. CASE GiveUp
    BY <2>1 DEF GiveUp, TInv
  <2>2. CASE PullQuery
    <3> DEFINE whole == \E t \in Tables : rows[t] # NoRow /\ rows[t].at >= since
    <3>1. pull' = [stage |-> "answer", seen |-> IF whole THEN Tables ELSE {}, whole |-> whole]
      BY <2>2 DEF PullQuery
    <3>2. whole \in BOOLEAN
      OBVIOUS
    <3> HIDE DEF whole
    <3>3. pull' \in [stage : {"idle", "answer"}, seen : SUBSET Tables, whole : BOOLEAN]
      BY <3>1, <3>2
    <3>4. begun' \in [Kinds -> Nat]
      BY <2>2 DEF PullQuery, Begin, Kinds, TInv
    <3>5. /\ UNCHANGED <<rows, job, queue, screen, writeVars, unsure>>
          /\ UNCHANGED <<now, awaited, since, shown>>
      BY <2>2 DEF PullQuery
    <3> QED BY <3>3, <3>4, <3>5 DEF TInv
  <2>3. CASE PullAnswer
    <3>1. NoPull \in [stage : {"idle", "answer"}, seen : SUBSET Tables, whole : BOOLEAN]
      BY DEF NoPull
    <3>2. pull.seen \subseteq Tables
      BY DEF TInv
    <3> QED BY <2>3, <3>1, <3>2 DEF PullAnswer, TInv
  <2>4. CASE Tick
    <3>1. now \in Instants /\ MaxNow \in Nat /\ now < MaxNow /\ now' = now + 1
      BY <2>4, StatusAssumption DEF Tick, TInv
    <3>2. now' \in Instants
      BY <3>1 DEF Instants
    <3>3. UNCHANGED <<rows, job, queue, awaited, since, pull, shown, screen, begun, writeVars, unsure>>
      BY <2>4 DEF Tick, phoneVars
    <3> QED BY <3>2, <3>3 DEF TInv
  <2> QED BY <2>1, <2>2, <2>3, <2>4
<1>2. awaited' \in Uploads => job'[awaited'].sent <= Len(queue')
  BY <1>1, StatusAssumption DEF TInv
<1>3. JobsTyped' /\ \A x \in Workers : job'[x].stage \in {"select", "update"} => rows'[At(x)'] # NoRow
  BY <1>1 DEF TInv, JobsTyped, At, Doing
<1> QED BY <1>1, <1>2, <1>3 DEF TInv, writeVars

LEMMA StatusInit == Init => TInv
<1> SUFFICES ASSUME Init PROVE TInv
  OBVIOUS
<1>1. \A w : JobOK(w, IdleJob)
  BY IdleOK
<1>2. IdleJob \in JobRec /\ IdleJob.stage = "idle" /\ IdleJob.todo = <<>>
  BY <1>1 DEF JobOK, IdleJob
<1>3. JobsTyped /\ \A w \in Workers : job[w].stage \notin {"select", "update"}
  BY <1>1, <1>2 DEF Init, JobsTyped
<1>4. rows \in [Tables -> Row \cup {NoRow}] /\ rows["busyness"] # NoRow
  BY Constants, StatusAssumption DEF Init, Tables
<1>5. 0 \in Instants
  BY StatusAssumption DEF Instants
<1>6. NoPull \in [stage : {"idle", "answer"}, seen : SUBSET Tables, whole : BOOLEAN]
  BY DEF NoPull
<1>7. queue \in Seq(Queued) /\ awaited \notin Uploads /\ awaited = "none"
  BY EmptySeq, StatusAssumption DEF Init
<1>8. /\ begun \in [Kinds -> Nat] /\ storedAt \in [Tables -> Instants] /\ applied \in [Ids -> Nat]
      /\ now \in Instants /\ since \in Instants /\ screen \in Values /\ unsure \in BOOLEAN
      /\ raced = {} /\ missed = {} /\ shown = {} /\ pull = NoPull
  BY <1>5 DEF Init, Values
<1> QED BY <1>3, <1>4, <1>6, <1>7, <1>8 DEF TInv

LEMMA StatusStep == TInv /\ [Next]_vars => TInv'
<1> SUFFICES ASSUME TInv, [Next]_vars PROVE TInv'
  OBVIOUS
<1>1. ASSUME NEW w \in Workers, Work(w) PROVE TInv'
  BY <1>1, ReadTyped, WriteTyped, AnswerTyped DEF Work
<1>2. ASSUME NEW w \in Workers, UpdateVenueStatus(w) \/ SimulateTime(w) \/ ResetDemo(w) \/ VibeCheck(w) \/ Upload(w)
      PROVE  TInv'
  BY <1>2, RequestTyped, UploadTyped
<1>3. CASE Enqueue \/ GiveUp \/ PullQuery \/ PullAnswer \/ Tick
  BY <1>3, EnqueueTyped, PhoneTyped
<1>4. CASE UNCHANGED vars
  BY <1>4 DEF vars, phoneVars, writeVars, TInv, JobsTyped, At, Doing
<1> QED BY <1>1, <1>2, <1>3, <1>4 DEF Next

(* The rows, the jobs, the phone's queue and what is recorded of them keep    *)
(* their types: no handler reads a row that is not there.                     *)
THEOREM StatusTyped == Spec => []TypeOK
<1>1. TInv => TypeOK
  <2> SUFFICES ASSUME TInv PROVE TypeOK
    OBVIOUS
  <2>1. ASSUME NEW w \in Workers
        PROVE  /\ job[w].stage \in Stages /\ job[w].who \in Writers
               /\ \A i \in DOMAIN job[w].todo : job[w].todo[i] \in Change
               /\ job[w].held \in Row /\ job[w].dirty \subseteq Columns
               /\ job[w].said \in Values /\ job[w].sent \in Nat
    <3>1. job[w] \in JobRec
      BY DEF TInv, JobsTyped
    <3>2. job[w].todo \in Seq(Change)
      BY <3>1 DEF JobRec
    <3>3. \A i \in DOMAIN job[w].todo : job[w].todo[i] \in Change
      BY <3>2, ElementOfSeq, LenProperties
    <3> QED BY <3>1, <3>3 DEF JobRec
  <2>2. \A i \in DOMAIN queue : queue[i] \in Change
    <3>1. queue \in Seq(Change)
      BY SeqMonotonic DEF TInv, Queued
    <3> QED BY <3>1, ElementOfSeq, LenProperties
  <2> QED BY <2>1, <2>2 DEF TypeOK, TInv, JobsTyped
<1> QED BY <1>1, StatusInit, StatusStep, PTL DEF Spec

-----------------------------------------------------------------------------
(* What a row holds when it is written. Without an overlapping write the      *)
(* entity in hand is the stored row with the change made to it, and the row's *)
(* stamp is the time of its last write.                                       *)

HeldFresh ==
  \A w \in Workers : job[w].stage \in {"select", "update"} /\ At(w) \notin raced =>
    /\ job[w].held = Changed(w, rows[At(w)], Doing(w))
    /\ Doing(w).id # 0 => Doing(w).offline >= rows[At(w)].at
    /\ job[w].stage = "update" => job[w].dirty = Differs(w) /\ Differs(w) # {}

Stamped ==
  \A t \in Tables :
    /\ storedAt[t] <= now
    /\ rows[t] # NoRow /\ t \notin raced => rows[t].at = storedAt[t]

(* A write: of an entity found before, or of a new one. *)
Stores(w) ==
  /\ OthersWait(w) /\ ThroughWith(w) /\ NoteWrite(w, Doing(w)) /\ job[w].todo # <<>>
  /\ \/ SaveUpdate(w)
     \/ SaveInsert(w) /\ rows[At(w)] = NoRow /\ rows'[At(w)].at = now
        /\ rows'[At(w)].responses = job[w].held.responses
  /\ rows'[At(w)] \in Row /\ rows' \in [Tables -> Row \cup {NoRow}]
  /\ \A t \in Tables \ {At(w)} : rows'[t] = rows[t]
  /\ UNCHANGED <<now, queue, awaited, since, screen, begun, unsure>>

LEMMA StoreCases ==
  ASSUME TInv, NEW w \in Workers, SaveUpdate(w) \/ SaveInsert(w)
  PROVE  \/ Stores(w)
         \/ /\ OthersWait(w) /\ job'[w] = IdleJob /\ unsure' = (unsure \/ job[w].who = "owner")
            /\ SaveInsert(w)
            /\ UNCHANGED <<now, rows, phoneVars, screen, begun, writeVars>>
<1>1. UNCHANGED <<now, queue, awaited, since, screen, begun>>
  BY DEF SaveUpdate, SaveInsert
<1>2. CASE SaveUpdate(w)
  <2>1. UNCHANGED unsure
    BY <1>2 DEF SaveUpdate
  <2> QED BY <1>1, <1>2, <2>1, UpdateEffect DEF Stores
<1>3. CASE SaveInsert(w)
  BY <1>1, <1>3, InsertEffect DEF Stores, phoneVars, writeVars
<1> QED BY <1>2, <1>3

(* Every step either writes a row or leaves the rows and their history. *)
LEMMA RowSteps ==
  ASSUME TInv, [Next]_vars
  PROVE  \/ \E w \in Workers : Stores(w)
         \/ UNCHANGED <<rows, storedAt, raced, applied, missed>> /\ now' >= now
<1>0. now \in Nat
  BY StatusAssumption DEF TInv, Instants
<1>1. ASSUME NEW w \in Workers, Work(w)
      PROVE  \/ Stores(w)
             \/ UNCHANGED <<rows, storedAt, raced, applied, missed>> /\ now' >= now
  <2>1. CASE SaveUpdate(w) \/ SaveInsert(w)
    BY <1>0, <2>1, StoreCases DEF writeVars
  <2>2. CASE FindRow(w) \/ SaveSelect(w) \/ RecordAction(w) \/ RequestFails(w) \/ Answer(w) \/ Broadcast(w)
    BY <1>0, <2>2 DEF FindRow, SaveSelect, RecordAction, RequestFails, Answer, Broadcast, writeVars
  <2> QED BY <1>1, <2>1, <2>2 DEF Work
<1>2. ASSUME NEW w \in Workers, UpdateVenueStatus(w) \/ SimulateTime(w) \/ ResetDemo(w)
      PROVE  UNCHANGED <<rows, storedAt, raced, applied, missed>> /\ now' >= now
  BY <1>0, <1>2, StatusEffect DEF writeVars
<1>3. ASSUME NEW w \in Workers, VibeCheck(w) \/ Upload(w)
      PROVE  UNCHANGED <<rows, storedAt, raced, applied, missed>> /\ now' >= now
  BY <1>0, <1>3 DEF VibeCheck, Upload, writeVars
<1>4. CASE Enqueue \/ GiveUp \/ PullQuery \/ PullAnswer \/ Tick
  BY <1>0, <1>4 DEF Enqueue, GiveUp, PullQuery, PullAnswer, Tick, writeVars
<1>5. CASE UNCHANGED vars
  BY <1>0, <1>5 DEF vars, writeVars
<1> QED BY <1>1, <1>2, <1>3, <1>4, <1>5 DEF Next

(* Who holds a row after a step held it before, or has just found it, or has  *)
(* just compared it.                                                          *)
LEMMA HoldingSteps ==
  ASSUME TInv, [Next]_vars, NEW x \in Workers, job'[x].stage \in {"select", "update"}
  PROVE  \/ job'[x] = job[x]
         \/ /\ FindRow(x) /\ job'[x].stage = "select" /\ SameTask(x) /\ rows[At(x)] # NoRow
            /\ job'[x].held = Changed(x, rows[At(x)], Doing(x))
            /\ ~Conflicts(Doing(x), rows[At(x)])
         \/ /\ SaveSelect(x) /\ job'[x].stage = "update" /\ SameTask(x) /\ job'[x].held = job[x].held
            /\ job'[x].dirty = Differs(x) /\ Differs(x) # {}
<1> DEFINE Explained ==
         \/ job'[x] = job[x]
         \/ /\ FindRow(x) /\ job'[x].stage = "select" /\ SameTask(x) /\ rows[At(x)] # NoRow
            /\ job'[x].held = Changed(x, rows[At(x)], Doing(x))
            /\ ~Conflicts(Doing(x), rows[At(x)])
         \/ /\ SaveSelect(x) /\ job'[x].stage = "update" /\ SameTask(x) /\ job'[x].held = job[x].held
            /\ job'[x].dirty = Differs(x) /\ Differs(x) # {}
<1>0. IdleJob.stage = "idle"
  BY DEF IdleJob
<1>1. ASSUME NEW w \in Workers, Work(w) PROVE Explained
  <2>1. CASE FindRow(w)
    BY <2>1, FindEffect, ThroughEffect DEF OthersWait
  <2>2. CASE SaveSelect(w)
    BY <2>2, SelectEffect, ThroughEffect DEF OthersWait
  <2>3. CASE SaveUpdate(w) \/ SaveInsert(w)
    <3>1. OthersWait(w) /\ job'[w].stage \notin {"select", "update"}
      BY <1>0, <2>3, StoreCases, ThroughEffect DEF Stores
    <3> QED BY <3>1 DEF OthersWait
  <2>4. CASE RecordAction(w)
    <3>1. OthersWait(w) /\ job'[w].stage \notin {"select", "update"}
      BY <2>4, RecordEffect, ThroughEffect
    <3> QED BY <3>1 DEF OthersWait
  <2>5. CASE RequestFails(w) \/ Answer(w) \/ Broadcast(w)
    <3>1. OthersWait(w) /\ job'[w].stage \notin {"select", "update"}
      BY <1>0, <2>5, EndEffect
    <3> QED BY <3>1 DEF OthersWait
  <2> QED BY <1>1, <2>1, <2>2, <2>3, <2>4, <2>5 DEF Work
<1>2. ASSUME NEW w \in Workers,
             UpdateVenueStatus(w) \/ SimulateTime(w) \/ ResetDemo(w) \/ VibeCheck(w) \/ Upload(w)
      PROVE  Explained
  <2>1. OthersWait(w) /\ job'[w].stage = "find"
    BY <1>2, StatusEffect, CheckEffect, UploadEffect
  <2> QED BY <2>1 DEF OthersWait
<1>3. ASSUME Enqueue \/ GiveUp \/ PullQuery \/ PullAnswer \/ Tick
      PROVE  Explained
  BY <1>3 DEF Enqueue, GiveUp, PullQuery, PullAnswer, Tick
<1>4. ASSUME UNCHANGED vars PROVE Explained
  BY <1>4 DEF vars
<1> HIDE DEF Explained
<1>5. Explained
  BY <1>1, <1>2, <1>3, <1>4 DEF Next
<1> QED BY <1>5 DEF Explained

LEMMA FreshStep ==
  ASSUME TInv, HeldFresh, Stamped, [Next]_vars
  PROVE  HeldFresh'
<1> SUFFICES ASSUME NEW x \in Workers, job'[x].stage \in {"select", "update"}, At(x)' \notin raced'
             PROVE  /\ job'[x].held = Changed(x, rows[At(x)], Doing(x))'
                    /\ Doing(x)'.id # 0 => Doing(x)'.offline >= rows'[At(x)'].at
                    /\ job'[x].stage = "update" => job'[x].dirty = Differs(x)' /\ Differs(x)' # {}
  BY DEF HeldFresh
<1>1. CASE \E w \in Workers : Stores(w)
  <2>1. PICK w \in Workers : Stores(w)
    BY <1>1
  <2>2. x # w /\ job'[x] = job[x]
    BY <2>1, ThroughEffect DEF Stores, OthersWait
  <2>3. /\ At(x)' = At(x) /\ Doing(x)' = Doing(x) /\ At(x) \in Tables
        /\ job[x].stage \in {"select", "update"} /\ job[x].todo # <<>>
    <3>1. /\ At(x)' = At(x) /\ Doing(x)' = Doing(x)
          /\ job[x].stage \in {"select", "update"}
      BY <2>2 DEF At, Doing
    <3>2. job[x].todo # <<>>
      BY <3>1 DEF TInv, JobsTyped, JobOK, Active
    <3> QED BY <3>1, <3>2, TaskTyped
  <2>4. At(x) # At(w)
    <3>1. At(w) \notin raced' => ~Holds(x, At(w))
      BY <2>1, <2>2, NoteTyped DEF Stores
    <3> QED BY <2>3, <3>1 DEF Holds, At, Doing
  <2>5. rows'[At(x)] = rows[At(x)] /\ At(x) \notin raced
    BY <2>1, <2>3, <2>4, NoteTyped DEF Stores
  <2>6. /\ job[x].held = Changed(x, rows[At(x)], Doing(x))
        /\ Doing(x).id # 0 => Doing(x).offline >= rows[At(x)].at
        /\ job[x].stage = "update" => job[x].dirty = Differs(x) /\ Differs(x) # {}
    BY <2>3, <2>5 DEF HeldFresh
  <2>7. Changed(x, rows[At(x)], Doing(x))' = Changed(x, rows[At(x)], Doing(x))
    BY <2>2, <2>3, <2>5 DEF Changed
  <2>8. Differs(x)' = Differs(x)
    BY <2>2, <2>3, <2>5 DEF Differs
  <2> QED BY <2>2, <2>3, <2>5, <2>6, <2>7, <2>8
<1>2. CASE UNCHANGED <<rows, storedAt, raced, applied, missed>>
  <2>1. CASE job'[x] = job[x]
    <3>1. /\ At(x)' = At(x) /\ Doing(x)' = Doing(x)
          /\ Changed(x, rows[At(x)], Doing(x))' = Changed(x, rows[At(x)], Doing(x))
          /\ Differs(x)' = Differs(x)
      BY <1>2, <2>1 DEF At, Doing, Changed, Differs
    <3> QED BY <1>2, <2>1, <3>1 DEF HeldFresh
  <2>2. ASSUME SameTask(x)
        PROVE  /\ At(x)' = At(x) /\ Doing(x)' = Doing(x)
               /\ Changed(x, rows[At(x)], Doing(x))' = Changed(x, rows[At(x)], Doing(x))
    BY <1>2, <2>2 DEF At, Doing, Changed, SameTask
  <2>3. CASE /\ FindRow(x) /\ job'[x].stage = "select" /\ SameTask(x) /\ rows[At(x)] # NoRow
             /\ job'[x].held = Changed(x, rows[At(x)], Doing(x))
             /\ ~Conflicts(Doing(x), rows[At(x)])
    <3>1. job[x].todo # <<>>
      BY <2>3, FindEffect
    <3>2. Doing(x) \in Change /\ rows[At(x)] \in Row
      BY <2>3, <3>1, TaskTyped
    <3>3. Doing(x).offline \in Nat /\ rows[At(x)].at \in Nat
      BY <3>2, StatusAssumption DEF Change, Row, Instants
    <3>4. Doing(x).id # 0 => Doing(x).offline >= rows[At(x)].at
      BY <2>3, <3>3 DEF Conflicts
    <3> QED BY <1>2, <2>2, <2>3, <3>4
  <2>4. CASE /\ SaveSelect(x) /\ job'[x].stage = "update" /\ SameTask(x) /\ job'[x].held = job[x].held
             /\ job'[x].dirty = Differs(x) /\ Differs(x) # {}
    <3>1. job[x].stage = "select"
      BY <2>4, SelectEffect
    <3>2. /\ job[x].held = Changed(x, rows[At(x)], Doing(x))
          /\ Doing(x).id # 0 => Doing(x).offline >= rows[At(x)].at
      BY <1>2, <2>2, <2>4, <3>1 DEF HeldFresh
    <3>3. Differs(x)' = Differs(x)
      BY <1>2, <2>2, <2>4 DEF Differs
    <3> QED BY <1>2, <2>2, <2>4, <3>2, <3>3
  <2> QED BY <2>1, <2>3, <2>4, HoldingSteps
<1> QED BY <1>1, <1>2, RowSteps

LEMMA StampedStep ==
  ASSUME TInv, HeldFresh, Stamped, [Next]_vars
  PROVE  Stamped'
<1> SUFFICES ASSUME NEW t \in Tables
             PROVE  /\ storedAt'[t] <= now'
                    /\ rows'[t] # NoRow /\ t \notin raced' => rows'[t].at = storedAt'[t]
  BY DEF Stamped
<1>0. now \in Nat /\ storedAt[t] \in Nat
  BY StatusAssumption DEF TInv, Instants
<1>1. CASE \E w \in Workers : Stores(w)
  <2>1. PICK w \in Workers : Stores(w)
    BY <1>1
  <2>2. CASE t # At(w)
    <3>1. rows'[t] = rows[t] /\ storedAt'[t] = storedAt[t] /\ (t \in raced' <=> t \in raced) /\ now' = now
      BY <2>1, <2>2, NoteTyped DEF Stores
    <3> QED BY <3>1 DEF Stamped
  <2>3. CASE t = At(w)
    <3>1. storedAt'[t] = now /\ raced \subseteq raced' /\ now' = now
      BY <2>1, <2>3, NoteTyped DEF Stores
    <3>2. ASSUME t \notin raced, SaveUpdate(w) PROVE rows'[t].at = now
      <4>1. /\ job[w].stage = "update" /\ rows[t] \in Row
            /\ rows'[t].at = IF "at" \in job[w].dirty THEN job[w].held.at ELSE now
        BY <2>3, <3>2, UpdateEffect
      <4>2. job[w].held = Changed(w, rows[t], Doing(w)) /\ job[w].dirty = Differs(w)
        BY <2>3, <3>2, <4>1 DEF HeldFresh
      <4>3. job[w].who \in Writers /\ Doing(w) \in Change
        BY <2>1, TaskTyped DEF Stores, TInv, JobsTyped, JobRec
      <4>4. job[w].held.at = rows[t].at
        BY <4>1, <4>2, <4>3, ChangedTyped
      <4> QED BY <2>3, <4>1, <4>2, <4>4 DEF Differs
    <3>3. SaveInsert(w) /\ ~SaveUpdate(w) => rows'[t].at = now
      BY <2>1, <2>3 DEF Stores
    <3>4. SaveUpdate(w) \/ SaveInsert(w)
      BY <2>1 DEF Stores
    <3> QED BY <1>0, <3>1, <3>2, <3>3, <3>4
  <2> QED BY <2>2, <2>3
<1>2. CASE UNCHANGED <<rows, storedAt, raced, applied, missed>> /\ now' >= now
  <2>1. now' \in Nat
    BY StatusStep, StatusAssumption DEF TInv, Instants
  <2> QED BY <1>0, <1>2, <2>1 DEF Stamped
<1> QED BY <1>1, <1>2, RowSteps

(* Last write wins. A queued change that is about to be written was not a     *)
(* conflict with the row its save found, and unless a write overlapped, that  *)
(* row is the stored one and its stamp the true time of the last write.       *)
THEOREM LastWriteWins == Spec => OldNeverReplacesNew
<1> DEFINE FInv == TInv /\ HeldFresh /\ Stamped
<1>1. Init => FInv
  <2> SUFFICES ASSUME Init PROVE FInv
    OBVIOUS
  <2>1. TInv
    BY StatusInit
  <2>2. HeldFresh
    BY DEF Init, HeldFresh, IdleJob
  <2>3. Stamped
    BY Constants DEF Init, Stamped, Seeded, Tables
  <2> QED BY <2>1, <2>2, <2>3
<1>2. FInv /\ [Next]_vars => FInv'
  BY StatusStep, FreshStep, StampedStep
<1>3. FInv /\ [Next]_vars =>
        [\A w \in Uploads :
           job[w].stage = "update" /\ rows' # rows /\ job'[w] # job[w] =>
             LET c == Head(job[w].todo) IN c.offline >= storedAt[c.table] \/ c.table \in raced]_vars
  <2> SUFFICES ASSUME FInv, NEW w \in Uploads, job[w].stage = "update", At(w) \notin raced
               PROVE  Doing(w).offline >= storedAt[At(w)]
    BY DEF At, Doing
  <2>1. w \in Workers /\ JobOK(w, job[w]) /\ job[w].todo # <<>>
    BY DEF Workers, TInv, JobsTyped, JobOK, Active
  <2>2. Doing(w).id # 0 /\ At(w) \in Tables
    BY <2>1, TaskTyped DEF Does
  <2>3. rows[At(w)] # NoRow
    BY <2>1 DEF TInv
  <2>4. Doing(w).offline >= rows[At(w)].at
    BY <2>1, <2>2 DEF HeldFresh
  <2> QED BY <2>2, <2>3, <2>4 DEF Stamped
<1> HIDE DEF FInv
<1> QED BY <1>1, <1>2, <1>3, PTL DEF Spec, OldNeverReplacesNew

-----------------------------------------------------------------------------
(* The delta pull. What its query saw and what was written since is all that  *)
(* its answer may leave out.                                                  *)

LEMMA PullSteps ==
  ASSUME TInv, [Next]_vars
  PROVE  \/ \E w \in Workers : Stores(w)
         \/ PullQuery \/ PullAnswer
         \/ UNCHANGED <<rows, raced, missed, pull, shown, since>>
<1> DEFINE Stays == UNCHANGED <<rows, raced, missed, pull, shown, since>>
<1>1. ASSUME NEW w \in Workers, Work(w) PROVE Stores(w) \/ Stays
  <2>1. CASE SaveUpdate(w) \/ SaveInsert(w)
    BY <2>1, StoreCases DEF phoneVars, writeVars
  <2>2. CASE FindRow(w) \/ SaveSelect(w) \/ RecordAction(w) \/ RequestFails(w) \/ Answer(w) \/ Broadcast(w)
    BY <2>2 DEF FindRow, SaveSelect, RecordAction, RequestFails, Answer, Broadcast, phoneVars, writeVars
  <2> QED BY <1>1, <2>1, <2>2 DEF Work
<1>2. ASSUME NEW w \in Workers,
             UpdateVenueStatus(w) \/ SimulateTime(w) \/ ResetDemo(w) \/ VibeCheck(w) \/ Upload(w)
      PROVE  Stays
  <2>1. CASE UpdateVenueStatus(w) \/ SimulateTime(w) \/ ResetDemo(w)
    BY <2>1, StatusEffect DEF phoneVars, writeVars
  <2>2. CASE VibeCheck(w) \/ Upload(w)
    BY <2>2 DEF VibeCheck, Upload, phoneVars, writeVars
  <2> QED BY <1>2, <2>1, <2>2
<1>3. ASSUME Enqueue \/ GiveUp \/ Tick PROVE Stays
  BY <1>3 DEF Enqueue, GiveUp, Tick, phoneVars, writeVars
<1>4. ASSUME UNCHANGED vars PROVE Stays
  BY <1>4 DEF vars, phoneVars, writeVars
<1> HIDE DEF Stays
<1>5. \/ \E w \in Workers : Stores(w)
      \/ PullQuery \/ PullAnswer
      \/ Stays
  BY <1>1, <1>2, <1>3, <1>4 DEF Next
<1> QED BY <1>5 DEF Stays

(* The tables whose last write the answer of the pull in progress will miss. *)
Pulled ==
  /\ since <= now
  /\ pull.stage = "answer" =>
       \A t \in Tables :
         /\ pull.whole /\ t \notin pull.seen => t \in missed
         /\ ~pull.whole /\ rows[t] # NoRow /\ t \notin shown => t \in missed \cup raced

LEMMA PulledStep ==
  ASSUME TInv, HeldFresh, Stamped, Pulled, NextPullBrings, [Next]_vars
  PROVE  Pulled' /\ NextPullBrings'
<1>0. /\ now \in Nat /\ now' \in Nat /\ since \in Nat /\ now' >= now
      /\ \A t \in Tables : rows[t] # NoRow => rows[t].at \in Nat
  <2>1. now \in Nat /\ now' \in Nat /\ since \in Nat
    BY StatusStep, StatusAssumption DEF TInv, Instants
  <2>2. now' >= now
    BY <2>1, RowSteps DEF Stores
  <2>3. ASSUME NEW t \in Tables, rows[t] # NoRow PROVE rows[t].at \in Nat
    BY <2>3, StatusAssumption DEF TInv, Row, Instants
  <2> QED BY <2>1, <2>2, <2>3
<1>1. CASE \E w \in Workers : Stores(w)
  <2>1. PICK w \in Workers : Stores(w)
    BY <1>1
  <2> DEFINE u == At(w)
  <2>2. /\ shown' = shown \ {u} /\ pull'.stage = pull.stage /\ pull'.whole = pull.whole
        /\ pull'.seen = pull.seen \ {u} /\ raced \subseteq raced' /\ since' = since /\ now' = now
        /\ missed' = IF pull.stage = "idle" THEN missed \ {u} ELSE missed \cup {u}
        /\ \A t \in Tables \ {u} : rows'[t] = rows[t]
        /\ u \in Tables /\ rows'[u] # NoRow
    BY <2>1, NoteTyped, TaskTyped, StatusAssumption DEF Stores
  <2>3. u \in raced' \/ rows'[u].at = now
    <3>1. Stamped' /\ storedAt'[u] = now
      BY <2>1, StampedStep, NoteTyped DEF Stores
    <3> QED BY <2>2, <3>1 DEF Stamped
  <2> HIDE DEF u
  <2>4. pull.stage \in {"idle", "answer"}
    BY DEF TInv
  <2>5. Pulled'
    BY <2>2, <2>4 DEF Pulled
  <2>6. ASSUME NEW t \in Tables, rows'[t] # NoRow, t \notin shown'
        PROVE  rows'[t].at >= since' \/ t \in missed' \cup raced'
    <3>1. CASE t = u
      BY <1>0, <2>2, <2>3, <3>1 DEF Pulled
    <3>2. CASE t # u
      <4>1. rows'[t] = rows[t] /\ t \notin shown
        BY <2>2, <2>6, <3>2
      <4>2. rows[t].at >= since \/ t \in missed \cup raced
        BY <2>6, <4>1 DEF NextPullBrings
      <4> QED BY <2>2, <3>2, <4>1, <4>2
    <3> QED BY <3>1, <3>2
  <2> QED BY <2>5, <2>6 DEF NextPullBrings
<1>2. CASE PullQuery
  <2> DEFINE whole == \E t \in Tables : rows[t] # NoRow /\ rows[t].at >= since
  <2>1. /\ pull' = [stage |-> "answer", seen |-> IF whole THEN Tables ELSE {}, whole |-> whole]
        /\ UNCHANGED <<now, rows, since, shown, raced, missed>>
    BY <1>2 DEF PullQuery, writeVars
  <2>2. ASSUME ~whole, NEW t \in Tables, rows[t] # NoRow, t \notin shown PROVE t \in missed \cup raced
    BY <2>2 DEF NextPullBrings
  <2> HIDE DEF whole
  <2>3. pull'.whole = whole /\ (whole => pull'.seen = Tables)
    BY <2>1
  <2> QED BY <2>1, <2>2, <2>3 DEF Pulled, NextPullBrings
<1>3. CASE PullAnswer
  <2>1. /\ pull.stage = "answer" /\ pull'.stage = "idle" /\ since' = now /\ now' = now
        /\ shown' = IF pull.whole THEN pull.seen ELSE shown
        /\ UNCHANGED <<rows, raced, missed>>
    BY <1>3 DEF PullAnswer, NoPull, writeVars
  <2>2. pull.whole \in BOOLEAN
    BY DEF TInv
  <2>3. ASSUME NEW t \in Tables, rows[t] # NoRow, t \notin shown' PROVE t \in missed \cup raced
    BY <2>1, <2>2, <2>3 DEF Pulled
  <2> QED BY <1>0, <2>1, <2>3 DEF Pulled, NextPullBrings
<1>4. CASE UNCHANGED <<rows, raced, missed, pull, shown, since>>
  BY <1>0, <1>4 DEF Pulled, NextPullBrings
<1> QED BY <1>1, <1>2, <1>3, <1>4, PullSteps

(* What the phone's screens show of a table is what was last stored, or the   *)
(* next delta pull brings it: only a write between a pull's query and its     *)
(* lastSync, or one that overlapped another, is never pulled.                 *)
THEOREM PullsMissNothing == Spec => []NextPullBrings
<1> DEFINE PInv == TInv /\ HeldFresh /\ Stamped /\ Pulled /\ NextPullBrings
<1>1. Init => PInv
  <2> SUFFICES ASSUME Init PROVE PInv
    OBVIOUS
  <2>1. TInv
    BY StatusInit
  <2>2. HeldFresh
    BY DEF Init, HeldFresh, IdleJob
  <2>3. Stamped
    BY Constants DEF Init, Stamped, Seeded, Tables
  <2>4. \A t \in Tables : rows[t] # NoRow => rows[t].at = 0
    BY <2>3 DEF Init, Stamped
  <2>5. Pulled /\ NextPullBrings
    BY <2>4 DEF Init, Pulled, NextPullBrings, NoPull
  <2> QED BY <2>1, <2>2, <2>3, <2>5
<1>2. PInv /\ [Next]_vars => PInv'
  BY StatusStep, FreshStep, StampedStep, PulledStep
<1>3. PInv => NextPullBrings
  OBVIOUS
<1> HIDE DEF PInv
<1> QED BY <1>1, <1>2, <1>3, PTL DEF Spec

-----------------------------------------------------------------------------
(* Queued actions: the ids on their way are known, and one that was written   *)
(* at a later time than its own is older than its row.                        *)

On(s) == {s[i] : i \in 1 .. Len(s)}
InFlight == On(queue) \cup UNION {On(job[w].todo) : w \in Uploads}

Tracked ==
  /\ \A c \in InFlight : c \in Queued /\ c.id <= begun["queued"]
  /\ \A c, d \in InFlight : c.id = d.id => c = d
  /\ \A c \in InFlight : applied[c.id] > 0 => storedAt[c.table] > c.offline
  /\ \A i \in Ids : applied[i] > 0 => i <= begun["queued"]

LEMMA Parts ==
  ASSUME NEW S, NEW s \in Seq(S)
  PROVE  /\ On(s) \subseteq S /\ On(<<>>) = {}
         /\ s # <<>> => Head(s) \in On(s) /\ On(Tail(s)) \subseteq On(s)
         /\ \A c \in S : On(Append(s, c)) \subseteq On(s) \cup {c}
         /\ \A n \in Nat : On(SubSeq(s, n + 1, Len(s))) \subseteq On(s)
<1>1. On(s) \subseteq S /\ Len(s) \in Nat
  BY ElementOfSeq, LenProperties DEF On
<1>2. On(<<>>) = {}
  BY EmptySeq DEF On
<1>3. ASSUME s # <<>> PROVE Head(s) \in On(s) /\ On(Tail(s)) \subseteq On(s)
  <2>1. Len(s) \in Nat \ {0} /\ Head(s) = s[1] /\ Len(Tail(s)) = Len(s) - 1
        /\ \A i \in 1 .. Len(Tail(s)) : Tail(s)[i] = s[i + 1]
    BY <1>3, EmptySeq, HeadTailProperties
  <2>2. Head(s) \in On(s)
    BY <2>1 DEF On
  <2>3. ASSUME NEW i \in 1 .. Len(Tail(s)) PROVE Tail(s)[i] \in On(s)
    <3>1. i + 1 \in 1 .. Len(s) /\ Tail(s)[i] = s[i + 1]
      BY <2>1
    <3> QED BY <3>1 DEF On
  <2> QED BY <2>2, <2>3 DEF On
<1>4. ASSUME NEW c \in S PROVE On(Append(s, c)) \subseteq On(s) \cup {c}
  <2>1. /\ Len(Append(s, c)) = Len(s) + 1
        /\ \A i \in 1 .. Len(s) : Append(s, c)[i] = s[i]
        /\ Append(s, c)[Len(s) + 1] = c
    BY AppendProperties
  <2>2. ASSUME NEW i \in 1 .. Len(Append(s, c)) PROVE Append(s, c)[i] \in On(s) \cup {c}
    <3>1. i \in 1 .. Len(s) \/ i = Len(s) + 1
      BY <1>1, <2>1
    <3> QED BY <2>1, <3>1 DEF On
  <2> QED BY <2>2 DEF On
<1>5. ASSUME NEW n \in Nat PROVE On(SubSeq(s, n + 1, Len(s))) \subseteq On(s)
  <2> DEFINE u == SubSeq(s, n + 1, Len(s))
  <2>1. \A i \in n + 1 .. Len(s) : s[i] \in S
    BY <1>1, ElementOfSeq
  <2>2. /\ Len(u) = IF n + 1 <= Len(s) THEN Len(s) - (n + 1) + 1 ELSE 0
        /\ \A i \in 1 .. Len(s) - (n + 1) + 1 : u[i] = s[n + 1 + i - 1]
    BY <1>1, <2>1, SubSeqProperties
  <2> HIDE DEF u
  <2>3. ASSUME NEW i \in 1 .. Len(u) PROVE u[i] \in On(s)
    <3>1. /\ i \in 1 .. Len(s) - (n + 1) + 1 /\ n + 1 + i - 1 \in 1 .. Len(s)
      BY <1>1, <2>2
    <3> QED BY <2>2, <3>1 DEF On
  <2> QED BY <2>3 DEF On, u
<1> QED BY <1>1, <1>2, <1>3, <1>4, <1>5

(* No step but the phone's own puts an action on its way. *)
LEMMA SameFlight ==
  ASSUME TInv, NEW w \in Workers, OthersWait(w), On(queue') \subseteq On(queue),
         w \in Uploads => On(job'[w].todo) \subseteq On(job[w].todo) \cup On(queue)
  PROVE  InFlight' \subseteq InFlight
<1>1. ASSUME NEW x \in Uploads PROVE On(job'[x].todo) \subseteq InFlight
  <2>1. On(job[x].todo) \subseteq InFlight /\ On(queue) \subseteq InFlight
    BY DEF InFlight
  <2>2. x # w => job'[x] = job[x]
    BY DEF OthersWait, Workers
  <2> QED BY <2>1, <2>2
<1> QED BY <1>1 DEF InFlight

LEMMA ThroughFlight ==
  ASSUME TInv, NEW w \in Workers, job[w].todo # <<>>, ThroughWith(w)
  PROVE  On(job'[w].todo) \subseteq On(job[w].todo)
<1>1. job[w].todo \in Seq(Change)
  BY DEF TInv, JobsTyped, JobRec
<1>2. On(Tail(job[w].todo)) \subseteq On(job[w].todo) /\ On(<<>>) = {}
  BY <1>1, Parts
<1>3. IdleJob.todo = <<>>
  BY DEF IdleJob
<1>4. \/ job'[w] = IdleJob
      \/ job'[w].todo = Tail(job[w].todo)
      \/ job'[w].todo = job[w].todo
  BY ThroughEffect
<1> QED BY <1>2, <1>3, <1>4

LEMMA FlightSteps ==
  ASSUME TInv, [Next]_vars
  PROVE  \/ InFlight' \subseteq InFlight /\ begun'["queued"] = begun["queued"]
         \/ /\ \E c \in Queued : /\ InFlight' \subseteq InFlight \cup {c}
                                 /\ c.id = begun["queued"] + 1
            /\ begun'["queued"] = begun["queued"] + 1
            /\ UNCHANGED <<rows, storedAt, raced, applied, missed>>
<1> DEFINE Same == InFlight' \subseteq InFlight /\ begun'["queued"] = begun["queued"]
<1>0. IdleJob.todo = <<>> /\ On(<<>>) = {}
  BY Parts, EmptySeq DEF IdleJob
<1>1. ASSUME NEW w \in Workers, Work(w) PROVE Same
  <2>1. OthersWait(w) /\ On(job'[w].todo) \subseteq On(job[w].todo)
    <3>1. CASE FindRow(w)
      BY <3>1, FindEffect, ThroughFlight DEF SameTask
    <3>2. CASE SaveSelect(w)
      BY <3>2, SelectEffect, ThroughFlight DEF SameTask
    <3>3. CASE SaveUpdate(w) \/ SaveInsert(w)
      BY <1>0, <3>3, StoreCases, ThroughFlight DEF Stores
    <3>4. CASE RecordAction(w)
      BY <3>4, RecordEffect, ThroughFlight
    <3>5. CASE RequestFails(w) \/ Answer(w) \/ Broadcast(w)
      BY <1>0, <3>5, EndEffect
    <3> QED BY <1>1, <3>1, <3>2, <3>3, <3>4, <3>5 DEF Work
  <2>2. On(queue') \subseteq On(queue)
    <3>1. CASE Answer(w)
      <4>1. queue \in Seq(Queued) /\ job[w].sent \in Nat
        BY DEF TInv, JobsTyped, JobRec
      <4>2. queue' = SubSeq(queue, job[w].sent + 1, Len(queue)) \/ queue' = queue
        BY <3>1 DEF Answer
      <4> QED BY <4>1, <4>2, Parts
    <3>2. CASE FindRow(w) \/ SaveSelect(w) \/ SaveUpdate(w) \/ SaveInsert(w) \/ RecordAction(w)
               \/ RequestFails(w) \/ Broadcast(w)
      <4>1. queue' = queue
        BY <3>2 DEF FindRow, SaveSelect, SaveUpdate, SaveInsert, RecordAction, RequestFails, Broadcast,
                    phoneVars
      <4> QED BY <4>1
    <3> QED BY <1>1, <3>1, <3>2 DEF Work
  <2>3. begun' = begun
    BY <1>1 DEF Work, FindRow, SaveSelect, SaveUpdate, SaveInsert, RecordAction, RequestFails, Answer,
                Broadcast
  <2> QED BY <2>1, <2>2, <2>3, SameFlight
<1>2. ASSUME NEW w \in Workers,
             UpdateVenueStatus(w) \/ SimulateTime(w) \/ ResetDemo(w) \/ VibeCheck(w) \/ Upload(w)
      PROVE  Same
  <2>1. OthersWait(w) /\ queue' = queue /\ \E k \in {"status", "check", "upload"} :
          begun' = [begun EXCEPT ![k] = @ + 1]
    <3>1. CASE UpdateVenueStatus(w) \/ SimulateTime(w) \/ ResetDemo(w)
      BY <3>1, StatusEffect DEF phoneVars
    <3>2. CASE VibeCheck(w)
      BY <3>2, CheckEffect DEF VibeCheck, phoneVars
    <3>3. CASE Upload(w)
      BY <3>3, UploadEffect DEF Upload
    <3> QED BY <1>2, <3>1, <3>2, <3>3
  <2>2. w \in Uploads => job'[w].todo = queue
    <3>1. UpdateVenueStatus(w) \/ SimulateTime(w) \/ ResetDemo(w) \/ VibeCheck(w) => w \notin Uploads
      BY StatusEffect, CheckEffect, StatusAssumption
    <3> QED BY <1>2, <3>1, UploadEffect
  <2>3. begun'["queued"] = begun["queued"]
    BY <2>1 DEF TInv, Kinds
  <2> QED BY <2>1, <2>2, <2>3, SameFlight
<1>3. ASSUME Enqueue
      PROVE  /\ \E c \in Queued : InFlight' \subseteq InFlight \cup {c} /\ c.id = begun["queued"] + 1
             /\ begun'["queued"] = begun["queued"] + 1
             /\ UNCHANGED <<rows, storedAt, raced, applied, missed>>
  <2>1. PICK c \in Queued : queue' = Append(queue, c) /\ c.id = begun["queued"] + 1
    BY <1>3, EnqueueTyped
  <2>2. On(queue') \subseteq On(queue) \cup {c} /\ job' = job
    BY <1>3, <2>1, Parts DEF Enqueue, TInv
  <2>3. begun'["queued"] = begun["queued"] + 1
    BY <1>3 DEF Enqueue, Begin, TInv, Kinds
  <2> QED BY <1>3, <2>1, <2>2, <2>3 DEF Enqueue, InFlight, writeVars
<1>4. ASSUME GiveUp \/ PullQuery \/ PullAnswer \/ Tick \/ UNCHANGED vars PROVE Same
  <2>1. job' = job /\ queue' = queue
    BY <1>4 DEF GiveUp, PullQuery, PullAnswer, Tick, vars, phoneVars
  <2>2. begun'["queued"] = begun["queued"]
    BY <1>4 DEF GiveUp, PullQuery, PullAnswer, Tick, vars, Begin, TInv, Kinds
  <2> QED BY <2>1, <2>2 DEF InFlight
<1> HIDE DEF Same
<1>5. Same \/ Enqueue
  BY <1>1, <1>2, <1>4 DEF Next
<1> QED BY <1>3, <1>5 DEF Same

LEMMA TrackedStep ==
  ASSUME TInv, HeldFresh, Stamped, Tracked, AppliedOnce, [Next]_vars
  PROVE  Tracked' /\ AppliedOnce'
<1>0. /\ now \in Nat /\ applied \in [Ids -> Nat] /\ begun["queued"] \in Nat
      /\ \A t \in Tables : storedAt[t] \in Nat
      /\ \A c \in Queued : c.id \in Ids /\ c.id \in Nat /\ c.offline \in Nat /\ c.table \in Tables
  <2>1. MaxNow \in Nat /\ Instants \subseteq Nat
    BY StatusAssumption DEF Instants
  <2>2. \A c \in Queued : c.id \in Ids /\ c.id \in Nat /\ c.offline \in Nat /\ c.table \in Tables
    BY <2>1, Constants DEF Queued, Change
  <2> QED BY <2>1, <2>2 DEF TInv, Kinds
<1>1. CASE \E w \in Workers : Stores(w)
  <2>1. PICK w \in Workers : Stores(w)
    BY <1>1
  <2> DEFINE c == Doing(w)  t == At(w)
  <2>2. /\ c \in Change /\ c \in Does(w) /\ t \in Tables /\ t = c.table
        /\ storedAt'[t] = now /\ \A u \in Tables \ {t} : storedAt'[u] = storedAt[u]
        /\ raced \subseteq raced' /\ applied' \in [Ids -> Nat]
        /\ \A i \in Ids : applied'[i] = IF i = c.id /\ c.offline < now THEN applied[i] + 1 ELSE applied[i]
    BY <2>1, TaskTyped, NoteTyped DEF Stores, At
  <2>3. InFlight' \subseteq InFlight /\ begun'["queued"] = begun["queued"]
    BY <2>1, <1>0, FlightSteps DEF Stores
  <2>4. \A u \in Tables : storedAt'[u] >= storedAt[u]
    BY <1>0, <2>2 DEF Stamped
  <2>5. ASSUME c.id # 0
        PROVE  /\ w \in Uploads /\ c \in InFlight
               /\ raced' = {} => c.offline >= storedAt[t]
    <3>1. w \in Uploads
      BY <2>2, <2>5, Constants DEF Does, Workers
    <3>2. job[w].todo \in Seq(Change) /\ job[w].todo # <<>>
      BY <2>1 DEF Stores, TInv, JobsTyped, JobRec
    <3>3. c \in InFlight
      BY <3>1, <3>2, Parts DEF Doing, InFlight
    <3>4. SaveUpdate(w)
      <4>1. w \notin Staff
        BY <3>1, StatusAssumption
      <4> QED BY <2>1, <4>1, InsertEffect DEF Stores
    <3>5. job[w].stage = "update" /\ rows[t] # NoRow
      BY <3>4, UpdateEffect, StatusAssumption
    <3>6. raced' = {} => t \notin raced
      BY <2>2
    <3>7. t \notin raced => c.offline >= rows[t].at /\ rows[t].at = storedAt[t]
      BY <2>2, <2>5, <3>5 DEF HeldFresh, Stamped
    <3> QED BY <3>1, <3>3, <3>6, <3>7
  <2> HIDE DEF c, t
  <2>6. ASSUME NEW d \in InFlight, applied'[d.id] > 0 PROVE storedAt'[d.table] > d.offline
    <3>1. d \in Queued /\ d.id \in Ids /\ d.table \in Tables /\ d.offline \in Nat /\ d.id # 0
      BY <1>0, Constants DEF Tracked, Queued
    <3>2. storedAt'[d.table] >= storedAt[d.table] /\ storedAt[d.table] \in Nat
          /\ storedAt'[d.table] \in Nat
      BY <1>0, <2>2, <2>4, <3>1
    <3>3. CASE d.id = c.id /\ c.offline < now
      <4>1. d = c
        BY <2>5, <3>1, <3>3 DEF Tracked
      <4> QED BY <1>0, <2>2, <3>1, <3>3, <4>1
    <3>4. CASE ~(d.id = c.id /\ c.offline < now)
      <4>1. applied[d.id] > 0
        BY <2>2, <2>6, <3>1, <3>4
      <4>2. storedAt[d.table] > d.offline
        BY <4>1 DEF Tracked
      <4> QED BY <3>1, <3>2, <4>2
    <3> QED BY <3>3, <3>4
  <2>7. ASSUME NEW i \in Ids, applied'[i] > 0 PROVE i <= begun["queued"]
    <3>1. CASE i = c.id
      <4>1. c \in InFlight
        BY <2>5, <3>1, Constants
      <4> QED BY <3>1, <4>1 DEF Tracked
    <3>2. CASE i # c.id
      BY <2>2, <2>7, <3>2 DEF Tracked
    <3> QED BY <3>1, <3>2
  <2>8. Tracked'
    BY <2>3, <2>6, <2>7 DEF Tracked
  <2>9. ASSUME NEW i \in Ids, applied'[i] > 1, raced' = {} PROVE FALSE
    <3>1. raced = {} /\ applied[i] \in Nat /\ ~(applied[i] > 1)
      BY <1>0, <2>2, <2>9 DEF AppliedOnce
    <3>2. i = c.id /\ c.offline < now /\ applied[i] > 0
      BY <2>2, <2>9, <3>1
    <3>3. i # 0
      BY Constants
    <3>4. c \in InFlight /\ c.offline >= storedAt[t] /\ c.offline \in Nat
      BY <1>0, <2>5, <2>9, <3>2, <3>3 DEF Tracked
    <3>5. storedAt[t] > c.offline
      BY <2>2, <3>2, <3>4 DEF Tracked
    <3> QED BY <1>0, <2>2, <3>4, <3>5
  <2>10. AppliedOnce'
    BY <2>9 DEF AppliedOnce
  <2> QED BY <2>8, <2>10
<1>2. CASE UNCHANGED <<rows, storedAt, raced, applied, missed>>
  <2>1. CASE InFlight' \subseteq InFlight /\ begun'["queued"] = begun["queued"]
    BY <1>2, <2>1 DEF Tracked, AppliedOnce
  <2>2. CASE /\ \E c \in Queued : /\ InFlight' \subseteq InFlight \cup {c}
                                  /\ c.id = begun["queued"] + 1
             /\ begun'["queued"] = begun["queued"] + 1
    <3>1. PICK c \in Queued : InFlight' \subseteq InFlight \cup {c} /\ c.id = begun["queued"] + 1
      BY <2>2
    <3>2. c.id \in Ids /\ c.id \in Nat
      BY <1>0
    <3>3. ~(applied[c.id] > 0)
      BY <1>0, <3>1, <3>2 DEF Tracked
    <3>4. \A d \in InFlight : d.id # c.id /\ d.id \in Nat /\ d \in Queued /\ d.id <= begun["queued"]
      BY <1>0, <3>1 DEF Tracked
    <3>5. \A d \in InFlight' : d \in Queued /\ d.id <= begun'["queued"]
      BY <1>0, <2>2, <3>1, <3>4
    <3>6. \A d, e \in InFlight' : d.id = e.id => d = e
      BY <3>1, <3>4 DEF Tracked
    <3>7. \A d \in InFlight' : applied[d.id] > 0 => storedAt[d.table] > d.offline
      BY <3>1, <3>3 DEF Tracked
    <3>8. \A i \in Ids : applied[i] > 0 => i <= begun'["queued"]
      <4>1. \A i \in Ids : i \in Nat
        BY Constants
      <4> QED BY <1>0, <2>2, <4>1 DEF Tracked
    <3> QED BY <1>2, <3>5, <3>6, <3>7, <3>8 DEF Tracked, AppliedOnce
  <2> QED BY <2>1, <2>2, FlightSteps
<1> QED BY <1>1, <1>2, RowSteps

(* A queued action that is uploaded again is not applied a second time unless *)
(* some writes overlapped: after the first time its row is stamped later than *)
(* the action, so that the second time it is a conflict.                      *)
THEOREM RetriesAreConflicts == Spec => []AppliedOnce
<1> DEFINE AInv == TInv /\ HeldFresh /\ Stamped /\ Tracked /\ AppliedOnce
<1>1. Init => AInv
  <2> SUFFICES ASSUME Init PROVE AInv
    OBVIOUS
  <2>1. TInv
    BY StatusInit
  <2>2. HeldFresh
    BY DEF Init, HeldFresh, IdleJob
  <2>3. Stamped
    BY Constants DEF Init, Stamped, Seeded, Tables
  <2>4. InFlight = {}
    <3>1. On(<<>>) = {} /\ IdleJob.todo = <<>>
      BY Parts, EmptySeq DEF IdleJob
    <3>2. queue = <<>> /\ \A w \in Uploads : job[w] = IdleJob
      BY DEF Init, Workers
    <3> QED BY <3>1, <3>2 DEF InFlight
  <2>5. \A i \in Ids : applied[i] = 0
    BY DEF Init
  <2>6. Tracked
    BY <2>4, <2>5 DEF Tracked
  <2>7. AppliedOnce
    BY <2>5 DEF AppliedOnce
  <2> QED BY <2>1, <2>2, <2>3, <2>6, <2>7
<1>2. AInv /\ [Next]_vars => AInv'
  BY StatusStep, FreshStep, StampedStep, TrackedStep
<1>3. AInv => AppliedOnce
  OBVIOUS
<1> HIDE DEF AInv
<1> QED BY <1>1, <1>2, <1>3, PTL DEF Spec

-----------------------------------------------------------------------------
(* Vibe checks: those that are over, and what rows and requests know of them. *)

Checking == {w \in Visitors : job[w].stage # "idle"}
Done == begun["check"] - Cardinality(Checking)
Extra(w) == IF w \in Visitors THEN 1 ELSE 0

Counted ==
  /\ Cardinality(Checking) <= begun["check"]
  /\ \A w \in Workers : job[w].held.responses <= Done + Extra(w)
  /\ \A t \in Tables : rows[t] # NoRow => rows[t].responses <= Done
  /\ rows["vibes"] # NoRow /\ "vibes" \notin raced => rows["vibes"].responses = Done
  /\ rows["vibes"] = NoRow => Done = 0 /\ Checking = {}

LEMMA CheckingFinite ==
  ASSUME TInv
  PROVE  IsFiniteSet(Checking) /\ Cardinality(Checking) \in Nat /\ begun["check"] \in Nat
<1>1. IsFiniteSet(Visitors) /\ Checking \subseteq Visitors
  BY StatusAssumption DEF Checking
<1>2. IsFiniteSet(Checking)
  BY <1>1, FS_Subset
<1> QED BY <1>2, FS_CardinalityType DEF TInv, Kinds

LEMMA CheckingStays ==
  ASSUME NEW w \in Workers, OthersWait(w),
         w \in Visitors => (job'[w].stage = "idle" <=> job[w].stage = "idle")
  PROVE  Checking' = Checking
BY DEF Checking, OthersWait, Workers

LEMMA CheckingBegins ==
  ASSUME TInv, NEW w \in Visitors, OthersWait(w), job[w].stage = "idle", job'[w].stage # "idle"
  PROVE  Cardinality(Checking') = Cardinality(Checking) + 1
<1>1. Checking' = Checking \cup {w} /\ w \notin Checking
  BY DEF Checking, OthersWait, Workers
<1> QED BY <1>1, CheckingFinite, FS_AddElement

LEMMA CheckingEnds ==
  ASSUME TInv, NEW w \in Visitors, OthersWait(w), job[w].stage # "idle", job'[w].stage = "idle"
  PROVE  Cardinality(Checking') = Cardinality(Checking) - 1
<1>1. Checking' = Checking \ {w} /\ w \in Checking
  BY DEF Checking, OthersWait, Workers
<1> QED BY <1>1, CheckingFinite, FS_RemoveElement

LEMMA VisitorThrough ==
  ASSUME TInv, NEW w \in Visitors, job[w].todo # <<>>, ThroughWith(w)
  PROVE  job'[w] = IdleJob
<1>1. w \in Workers /\ w \notin Uploads /\ w \notin Staff
  BY StatusAssumption DEF Workers
<1>2. JobOK(w, job[w]) /\ job'[w] = Proceed(job[w])
  BY <1>1 DEF TInv, JobsTyped, ThroughWith
<1>3. /\ JobOK(w, Proceed(job[w])) /\ Proceed(job[w]).stage \in {"find", "idle", "notify", "answer"}
      /\ Proceed(job[w]).stage = "idle" => Proceed(job[w]) = IdleJob
      /\ Proceed(job[w]).stage # "idle" => Proceed(job[w]).todo = Tail(job[w].todo)
  BY <1>1, <1>2, ProceedOK
<1>4. Tail(job[w].todo) = <<>>
  BY <1>2, HeadAndTail DEF JobOK
<1>5. Proceed(job[w]).stage = "idle"
  BY <1>1, <1>3, <1>4 DEF JobOK, Active
<1> QED BY <1>2, <1>3, <1>5

LEMMA ChangedCount ==
  ASSUME TInv, NEW w \in Workers, job[w].todo # <<>>, NEW r \in Row
  PROVE  /\ Changed(w, r, Doing(w)).responses = r.responses + Extra(w)
         /\ r.responses \in Nat
         /\ w \in Visitors => At(w) = "vibes"
<1>1. Doing(w) \in Change /\ Doing(w) \in Does(w) /\ job[w].who \in Writers
  BY TaskTyped DEF TInv, JobsTyped, JobRec
<1>2. r.responses \in Nat
  BY DEF Row
<1>3. CASE w \in Visitors
  <2>1. Doing(w).what = "check" /\ At(w) = "vibes"
    BY <1>1, <1>3, Constants DEF Does, At
  <2> QED BY <1>1, <1>2, <1>3, <2>1, ChangedTyped DEF Extra
<1>4. CASE w \notin Visitors
  <2>1. Doing(w).what = "set"
    BY <1>1, <1>4 DEF Does, Workers
  <2>2. Changed(w, r, Doing(w)).responses = r.responses
    BY <1>1, <2>1, ChangedTyped
  <2> QED BY <1>2, <1>4, <2>2 DEF Extra
<1> QED BY <1>3, <1>4

(* A step of a request that is no vibe check's last and writes no row. *)
LEMMA QuietCounted ==
  ASSUME TInv, Counted, NEW w \in Workers, OthersWait(w), UNCHANGED <<rows, raced>>,
         begun'["check"] = begun["check"],
         w \in Visitors => (job'[w].stage = "idle" <=> job[w].stage = "idle"),
         job'[w].held.responses <= Done + Extra(w)
  PROVE  Counted'
<1>1. Checking' = Checking
  BY CheckingStays
<1>2. Done' = Done
  BY <1>1 DEF Done
<1>3. \A x \in Workers : job'[x].held.responses <= Done + Extra(x)
  BY DEF Counted, OthersWait
<1> QED BY <1>1, <1>2, <1>3 DEF Counted, Extra

LEMMA DoneTyped ==
  ASSUME TInv, Counted
  PROVE  Done \in Nat /\ Seeded.responses <= Done /\ \A w : Extra(w) \in {0, 1}
<1>1. Cardinality(Checking) \in Nat /\ begun["check"] \in Nat /\ Cardinality(Checking) <= begun["check"]
  BY CheckingFinite DEF Counted
<1> QED BY <1>1, Constants DEF Done, Extra

(* A vibe check ends. *)
LEMMA EndCounted ==
  ASSUME TInv, Counted, NEW w \in Visitors, OthersWait(w), job[w].stage # "idle", job'[w] = IdleJob,
         begun'["check"] = begun["check"],
         rows["vibes"] # NoRow, rows'["vibes"] # NoRow,
         \A t \in Tables : rows'[t] # NoRow => rows'[t] \in Row /\ rows'[t].responses <= Done + 1,
         "vibes" \notin raced' => rows'["vibes"].responses = Done + 1
  PROVE  Counted'
<1>1. Cardinality(Checking') = Cardinality(Checking) - 1
  BY CheckingEnds DEF IdleJob
<1>2. Done' = Done + 1 /\ Done \in Nat /\ Cardinality(Checking') <= begun'["check"]
  BY <1>1, CheckingFinite, DoneTyped DEF Done, Counted
<1>3. ASSUME NEW x \in Workers PROVE job'[x].held.responses <= Done' + Extra(x)
  <2>1. Extra(x) \in {0, 1}
    BY DEF Extra
  <2>2. CASE x = w
    <3>1. job'[x].held = Seeded
      BY <2>2 DEF IdleJob
    <3> QED BY <1>2, <2>1, <3>1, Constants
  <2>3. CASE x # w
    <3>1. job'[x].held.responses <= Done + Extra(x) /\ job'[x].held.responses \in Nat
      BY <2>3 DEF Counted, OthersWait, TInv, JobsTyped, JobRec, Row
    <3> QED BY <1>2, <2>1, <3>1
  <2> QED BY <2>2, <2>3
<1> QED BY <1>2, <1>3 DEF Counted, Extra

LEMMA StoresCounted ==
  ASSUME TInv, HeldFresh, Counted, NEW w \in Workers, Stores(w)
  PROVE  Counted'
<1> DEFINE t == At(w)  d == Done
<1>1. /\ OthersWait(w) /\ ThroughWith(w) /\ job[w].todo # <<>> /\ t \in Tables
      /\ rows'[t] \in Row /\ NoRow \notin Row /\ begun' = begun
      /\ raced \subseteq raced' /\ \A u \in Tables \ {t} : rows'[u] = rows[u]
      /\ rows' \in [Tables -> Row \cup {NoRow}]
  BY TaskTyped, NoteTyped, StatusAssumption DEF Stores
<1>2. d \in Nat /\ Seeded.responses <= d /\ Extra(w) \in {0, 1}
  BY DoneTyped
<1>3. job[w].held \in Row /\ job[w].held.responses \in Nat /\ job[w].held.responses <= d + Extra(w)
  BY DEF Counted, TInv, JobsTyped, JobRec, Row
<1>4. rows[t] # NoRow => rows[t] \in Row /\ rows[t].responses \in Nat /\ rows[t].responses <= d
  BY <1>1 DEF Counted, TInv, Row
<1>5. rows'[t].responses <= d + Extra(w) /\ rows'[t].responses \in Nat
  <2>1. CASE SaveUpdate(w)
    <3>1. /\ rows[t] \in Row /\ rows'[t].responses \in {job[w].held.responses, rows[t].responses}
      BY <2>1, UpdateEffect
    <3> QED BY <1>1, <1>2, <1>3, <1>4, <3>1
  <2>2. CASE ~SaveUpdate(w)
    BY <1>3, <2>2 DEF Stores
  <2> QED BY <2>1, <2>2
<1>6. ASSUME t = "vibes", "vibes" \notin raced' PROVE rows'[t].responses = d + Extra(w)
  <2>1. "vibes" \notin raced
    BY <1>1, <1>6
  <2>2. CASE SaveUpdate(w)
    <3>1. /\ rows[t] \in Row /\ job[w].stage = "update"
          /\ rows'[t].responses = IF "responses" \in job[w].dirty THEN job[w].held.responses
                                  ELSE rows[t].responses
      BY <2>2, UpdateEffect
    <3>2. /\ job[w].held = Changed(w, rows[t], Doing(w)) /\ job[w].dirty = Differs(w)
      BY <1>6, <2>1, <3>1 DEF HeldFresh
    <3>3. rows[t].responses = d
      BY <1>1, <1>6, <2>1, <3>1 DEF Counted
    <3>4. job[w].held.responses = d + Extra(w)
      BY <1>1, <3>1, <3>2, <3>3, ChangedCount
    <3>5. "responses" \notin job[w].dirty => job[w].held.responses = rows[t].responses
      BY <3>2 DEF Differs, Columns
    <3> QED BY <3>1, <3>4, <3>5
  <2>3. CASE ~SaveUpdate(w)
    <3>1. rows[t] = NoRow /\ rows'[t].responses = job[w].held.responses /\ w \in Staff
      BY <2>3, InsertEffect DEF Stores
    <3>2. d = 0 /\ Extra(w) = 0
      BY <1>6, <3>1, StatusAssumption DEF Counted, Extra
    <3> QED BY <1>3, <3>1, <3>2
  <2> QED BY <2>2, <2>3
<1>7. CASE w \in Visitors
  <2>1. t = "vibes" /\ job'[w] = IdleJob /\ job[w].stage # "idle"
    <3>1. t = "vibes"
      BY <1>1, <1>7, <1>3, ChangedCount
    <3>2. job[w].stage # "idle"
      BY <1>1 DEF TInv, JobsTyped, JobOK, IdleJob
    <3> QED BY <1>1, <1>7, <3>1, <3>2, VisitorThrough
  <2>2. Extra(w) = 1
    BY <1>7 DEF Extra
  <2>3. rows["vibes"] # NoRow
    BY <1>7, <2>1 DEF Counted, Checking
  <2>4. ASSUME NEW u \in Tables, rows'[u] # NoRow PROVE rows'[u] \in Row /\ rows'[u].responses <= d + 1
    <3>1. CASE u = t
      BY <1>1, <1>5, <2>2, <3>1
    <3>2. CASE u # t
      <4>1. rows[u] \in Row /\ rows'[u] = rows[u] /\ rows[u].responses <= d /\ rows[u].responses \in Nat
        BY <1>1, <2>4, <3>2 DEF Counted, TInv, Row
      <4> QED BY <1>2, <4>1
    <3> QED BY <3>1, <3>2
  <2>5. "vibes" \notin raced' => rows'["vibes"].responses = d + 1
    BY <1>6, <2>1, <2>2
  <2>6. rows'["vibes"] # NoRow
    BY <1>1, <2>1
  <2> HIDE DEF t
  <2> QED BY <1>1, <1>7, <2>1, <2>3, <2>4, <2>5, <2>6, EndCounted
<1>8. CASE w \notin Visitors
  <2>1. Checking' = Checking /\ Extra(w) = 0
    BY <1>1, <1>8, CheckingStays DEF Extra
  <2>2. Done' = d
    BY <1>1, <2>1 DEF Done
  <2>3. ASSUME NEW x \in Workers PROVE job'[x].held.responses <= d + Extra(x)
    <3>1. CASE x = w
      <4>1. job'[x].held = Seeded
        BY <1>1, <3>1, ThroughEffect
      <4> QED BY <1>2, <2>1, <3>1, <4>1, Constants
    <3>2. CASE x # w
      BY <1>1, <3>2 DEF Counted, OthersWait
    <3> QED BY <3>1, <3>2
  <2>4. \A u \in Tables : rows'[u] # NoRow => rows'[u].responses <= d
    <3>1. rows'[t].responses <= d
      BY <1>2, <1>5, <2>1
    <3> QED BY <1>1, <3>1 DEF Counted
  <2>5. "vibes" \notin raced' /\ rows'["vibes"] # NoRow => rows'["vibes"].responses = d
    <3>1. t = "vibes" /\ "vibes" \notin raced' => rows'["vibes"].responses = d
      BY <1>2, <1>6, <2>1
    <3>2. t # "vibes" => rows'["vibes"] = rows["vibes"]
      BY <1>1 DEF Tables
    <3> QED BY <1>1, <3>1, <3>2 DEF Counted
  <2>6. rows'["vibes"] = NoRow => rows["vibes"] = NoRow
    BY <1>1 DEF Tables
  <2> HIDE DEF t, d
  <2> QED BY <1>1, <2>1, <2>2, <2>3, <2>4, <2>5, <2>6 DEF Counted, Extra, d
<1> QED BY <1>7, <1>8

LEMMA WorkCounted ==
  ASSUME TInv, HeldFresh, Counted, NEW w \in Workers, Work(w)
  PROVE  Counted'
<1>0. /\ Done \in Nat /\ Seeded.responses <= Done + Extra(w) /\ Extra(w) \in {0, 1}
      /\ IdleJob.held = Seeded /\ IdleJob.stage = "idle"
  <2>1. Done \in Nat /\ Seeded.responses <= Done /\ Extra(w) \in {0, 1} /\ Seeded.responses = 0
    BY DoneTyped, Constants
  <2> QED BY <2>1 DEF IdleJob
<1>1. \A t \in Tables : rows[t] # NoRow => rows[t] \in Row /\ rows[t].responses <= Done
  BY DEF Counted, TInv
<1>2. w \in Visitors => w \notin Staff /\ w \notin Uploads
  BY StatusAssumption
<1>3. job[w].held.responses <= Done + Extra(w)
  BY DEF Counted
<1>4. job[w].todo # <<>> => job[w].stage # "idle"
  BY DEF TInv, JobsTyped, JobOK, IdleJob
<1>5. CASE FindRow(w)
  <2>1. /\ OthersWait(w) /\ job[w].stage = "find" /\ job[w].todo # <<>> /\ UNCHANGED <<rows, raced, begun>>
    BY <1>5, FindEffect DEF FindRow, writeVars
  <2>2. At(w) \in Tables
    BY <2>1, TaskTyped
  <2>3. CASE ThroughWith(w) /\ (rows[At(w)] # NoRow => Doing(w).id # 0)
    <3>1. job'[w].held = Seeded
      BY <2>1, <2>3, ThroughEffect
    <3>2. w \notin Visitors
      <4> SUFFICES ASSUME w \in Visitors PROVE FALSE
        OBVIOUS
      <4>1. rows["vibes"] # NoRow
        BY <2>1 DEF Counted, Checking
      <4>2. Doing(w) = Check
        BY <2>1, TaskTyped DEF Does
      <4> QED BY <2>3, <4>1, <4>2, Constants DEF At
    <3> QED BY <1>0, <2>1, <3>1, <3>2, QuietCounted
  <2>4. CASE /\ job'[w].stage = "insert" /\ SameTask(w) /\ rows[At(w)] = NoRow
             /\ job'[w].held = Changed(w, Seeded, Doing(w)) /\ w \in Staff
    <3>1. job'[w].held.responses = Seeded.responses + Extra(w)
      BY <2>1, <2>4, ChangedCount, Constants
    <3>2. job'[w].held.responses <= Done + Extra(w)
      BY <1>0, <3>1, Constants
    <3> QED BY <2>1, <2>4, <3>2, QuietCounted
  <2>5. CASE /\ job'[w].stage = "select" /\ SameTask(w) /\ rows[At(w)] # NoRow
             /\ job'[w].held = Changed(w, rows[At(w)], Doing(w))
             /\ ~Conflicts(Doing(w), rows[At(w)])
    <3>1. rows[At(w)] \in Row /\ rows[At(w)].responses <= Done
      BY <1>1, <2>2, <2>5
    <3>2. job'[w].held.responses = rows[At(w)].responses + Extra(w) /\ rows[At(w)].responses \in Nat
      BY <2>1, <2>5, <3>1, ChangedCount
    <3>3. job'[w].held.responses <= Done + Extra(w)
      BY <1>0, <3>1, <3>2
    <3> QED BY <2>1, <2>5, <3>3, QuietCounted
  <2> QED BY <1>5, <2>3, <2>4, <2>5, FindEffect
<1>6. CASE SaveSelect(w)
  <2>1. /\ OthersWait(w) /\ job[w].stage = "select" /\ job[w].todo # <<>> /\ UNCHANGED <<rows, raced, begun>>
    BY <1>6, SelectEffect DEF SaveSelect, writeVars
  <2>2. CASE job'[w].stage = "update" /\ job'[w].held = job[w].held
    BY <1>3, <2>1, <2>2, QuietCounted
  <2>3. CASE ThroughWith(w) /\ Differs(w) = {}
    <3>1. job'[w].held = Seeded
      BY <2>1, <2>3, ThroughEffect
    <3>2. CASE w \notin Visitors
      BY <1>0, <2>1, <3>1, <3>2, QuietCounted
    <3>3. CASE w \in Visitors
      <4>1. job'[w] = IdleJob
        BY <2>1, <2>3, <3>3, VisitorThrough
      <4>2. At(w) = "vibes" /\ rows["vibes"] \in Row
        BY <2>1, <3>3, TaskTyped, ChangedCount, Constants DEF TInv
      <4>3. Extra(w) = 1
        BY <3>3 DEF Extra
      <4>4. "vibes" \in raced
        <5> SUFFICES ASSUME "vibes" \notin raced PROVE FALSE
          OBVIOUS
        <5>1. job[w].held = Changed(w, rows["vibes"], Doing(w))
          BY <2>1, <4>2 DEF HeldFresh
        <5>2. job[w].held.responses = rows["vibes"].responses + 1 /\ rows["vibes"].responses \in Nat
          BY <2>1, <4>2, <4>3, <5>1, ChangedCount
        <5>3. job[w].held.responses # rows["vibes"].responses
          BY <5>2
        <5> QED BY <2>3, <4>2, <5>3 DEF Differs, Columns
      <4>5. ASSUME NEW u \in Tables, rows[u] # NoRow PROVE rows[u] \in Row /\ rows[u].responses <= Done + 1
        <5>1. rows[u] \in Row /\ rows[u].responses <= Done /\ rows[u].responses \in Nat
          BY <1>1, <4>5 DEF Row
        <5> QED BY <1>0, <5>1
      <4>6. rows["vibes"] # NoRow
        BY <4>2, StatusAssumption
      <4> QED BY <2>1, <3>3, <4>1, <4>4, <4>5, <4>6, EndCounted
    <3> QED BY <3>2, <3>3
  <2> QED BY <1>6, <2>2, <2>3, SelectEffect
<1>7. CASE SaveUpdate(w) \/ SaveInsert(w)
  <2>1. CASE Stores(w)
    BY <2>1, StoresCounted
  <2>2. CASE /\ OthersWait(w) /\ job'[w] = IdleJob /\ SaveInsert(w)
             /\ UNCHANGED <<now, rows, phoneVars, screen, begun, writeVars>>
    <3>1. w \notin Visitors
      BY <1>2, <2>2, InsertEffect
    <3> QED BY <1>0, <2>2, <3>1, QuietCounted DEF writeVars
  <2> QED BY <1>7, <2>1, <2>2, StoreCases
<1>8. CASE RecordAction(w) \/ RequestFails(w) \/ Answer(w) \/ Broadcast(w)
  <2>1. OthersWait(w) /\ job'[w].held = Seeded /\ w \notin Visitors
    <3>1. CASE RecordAction(w)
      BY <1>2, <3>1, RecordEffect, ThroughEffect
    <3>2. CASE RequestFails(w) \/ Answer(w) \/ Broadcast(w)
      BY <1>0, <1>2, <3>2, EndEffect
    <3> QED BY <1>8, <3>1, <3>2
  <2>2. UNCHANGED <<rows, raced, begun>>
    BY <1>8 DEF RecordAction, RequestFails, Answer, Broadcast, writeVars
  <2> QED BY <1>0, <2>1, <2>2, QuietCounted
<1> QED BY <1>5, <1>6, <1>7, <1>8 DEF Work

LEMMA CountedStep ==
  ASSUME TInv, HeldFresh, Counted, [Next]_vars
  PROVE  Counted'
<1>0. Done \in Nat /\ Seeded.responses <= Done /\ (\A x : Extra(x) \in {0, 1}) /\ Seeded.responses = 0
  BY DoneTyped, Constants
<1>1. ASSUME NEW w \in Workers, UpdateVenueStatus(w) \/ SimulateTime(w) \/ ResetDemo(w) \/ Upload(w)
      PROVE  Counted'
  <2>1. /\ OthersWait(w) /\ job'[w].held = Seeded /\ w \notin Visitors /\ UNCHANGED <<rows, raced>>
        /\ begun'["check"] = begun["check"]
    <3>1. CASE UpdateVenueStatus(w) \/ SimulateTime(w) \/ ResetDemo(w)
      BY <3>1, StatusEffect, StatusAssumption DEF TInv, Kinds, writeVars
    <3>2. CASE Upload(w)
      BY <3>2, UploadEffect, StatusAssumption DEF Upload, TInv, Kinds, writeVars
    <3> QED BY <1>1, <3>1, <3>2
  <2>2. job'[w].held.responses <= Done + Extra(w)
    BY <1>0, <2>1
  <2> QED BY <2>1, <2>2, QuietCounted
<1>2. ASSUME NEW w \in Workers, VibeCheck(w) PROVE Counted'
  <2>1. /\ OthersWait(w) /\ w \in Visitors /\ job[w] = IdleJob /\ job'[w].stage = "find"
        /\ job'[w].held = Seeded /\ rows["vibes"] # NoRow /\ UNCHANGED <<rows, raced>>
        /\ begun'["check"] = begun["check"] + 1
    BY <1>2, CheckEffect DEF VibeCheck, TInv, Kinds, writeVars
  <2>2. Cardinality(Checking') = Cardinality(Checking) + 1
    BY <2>1, CheckingBegins DEF IdleJob
  <2>3. Done' = Done /\ Cardinality(Checking') <= begun'["check"]
    BY <2>1, <2>2, CheckingFinite DEF Done, Counted
  <2>4. ASSUME NEW x \in Workers PROVE job'[x].held.responses <= Done + Extra(x)
    <3>1. CASE x = w
      BY <1>0, <2>1, <3>1
    <3>2. CASE x # w
      BY <2>1, <3>2 DEF Counted, OthersWait
    <3> QED BY <3>1, <3>2
  <2> QED BY <2>1, <2>3, <2>4 DEF Counted, Extra
<1>3. CASE Enqueue \/ GiveUp \/ PullQuery \/ PullAnswer \/ Tick
  <2>1. UNCHANGED <<rows, raced, job>> /\ begun'["check"] = begun["check"]
    BY <1>3 DEF Enqueue, GiveUp, PullQuery, PullAnswer, Tick, Begin, TInv, Kinds, writeVars
  <2>2. Checking' = Checking
    BY <2>1 DEF Checking
  <2>3. Done' = Done
    BY <2>1, <2>2 DEF Done
  <2> QED BY <2>1, <2>2, <2>3 DEF Counted, Extra
<1>4. CASE UNCHANGED vars
  <2>1. UNCHANGED <<rows, raced, job, begun>>
    BY <1>4 DEF vars, writeVars
  <2>2. Checking' = Checking
    BY <2>1 DEF Checking
  <2>3. Done' = Done
    BY <2>1, <2>2 DEF Done
  <2> QED BY <2>1, <2>2, <2>3 DEF Counted, Extra
<1> QED BY <1>1, <1>2, <1>3, <1>4, WorkCounted DEF Next

(* No vibe check is made up, and unless writes overlapped none is lost: the   *)
(* row counts the checks that were begun, but for those still being made.     *)
THEOREM NoCheckIsLost == Spec => []ChecksCounted
<1> DEFINE CInv == TInv /\ HeldFresh /\ Stamped /\ Counted
<1>1. Init => CInv
  <2> SUFFICES ASSUME Init PROVE CInv
    OBVIOUS
  <2>1. TInv
    BY StatusInit
  <2>2. HeldFresh
    BY DEF Init, HeldFresh, IdleJob
  <2>3. Stamped
    BY Constants DEF Init, Stamped, Seeded, Tables
  <2>4. Checking = {} /\ begun["check"] = 0
    BY DEF Init, Checking, IdleJob, Workers, Kinds
  <2>5. Cardinality(Checking) = 0 /\ Done = 0
    BY <2>4, FS_EmptySet DEF Done
  <2>6. \A w \in Workers : job[w].held = Seeded
    BY DEF Init, IdleJob
  <2>7. \A t \in Tables : rows[t] # NoRow => rows[t] = Seeded
    BY DEF Init, Tables
  <2>8. \A w : Extra(w) \in {0, 1}
    BY DEF Extra
  <2>9. Counted
    <3>1. "vibes" \in Tables
      BY DEF Tables
    <3>2. \A w \in Workers : job[w].held.responses <= Done + Extra(w)
      BY <2>5, <2>6, <2>8, Constants
    <3> QED BY <2>4, <2>5, <2>7, <3>1, <3>2, Constants DEF Counted
  <2> QED BY <2>1, <2>2, <2>3, <2>9
<1>2. CInv /\ [Next]_vars => CInv'
  BY StatusStep, FreshStep, StampedStep, CountedStep
<1>3. CInv => ChecksCounted
  <2> SUFFICES ASSUME CInv, rows["vibes"] # NoRow
               PROVE  /\ rows["vibes"].responses <= begun["check"]
                      /\ rows["vibes"].responses + Cardinality(Checking) >= begun["check"] \/ "vibes" \in raced
    BY DEF ChecksCounted, Checking
  <2>1. /\ rows["vibes"].responses \in Nat /\ rows["vibes"].responses <= Done
        /\ "vibes" \notin raced => rows["vibes"].responses = Done
    BY DEF Counted, TInv, Row, Tables
  <2> QED BY <2>1, CheckingFinite, DoneTyped DEF Done
<1> HIDE DEF CInv
<1> QED BY <1>1, <1>2, <1>3, PTL DEF Spec

-----------------------------------------------------------------------------
(* The live feed. While one owner's request is past its busyness, the row     *)
(* holds what the request will announce; otherwise the feed has announced it. *)

Owns(w) == job[w].who = "owner"
Past(w) == job[w].todo = <<>> \/ At(w) = "vibes"

FeedInv ==
  ~unsure =>
    /\ \A w, x \in Staff : Owns(w) /\ Owns(x) => w = x
    /\ "busyness" \notin raced /\ rows["busyness"].by = "owner" =>
         /\ (\A w \in Staff : Owns(w) => ~Past(w)) => screen = rows["busyness"].val
         /\ \A w \in Staff : Owns(w) /\ Past(w) => job[w].said = rows["busyness"].val

LEMMA OwnerDoes ==
  ASSUME TInv, NEW w \in Workers, Owns(w), job[w].todo # <<>>
  PROVE  /\ w \in Staff /\ job[w].said \in Values /\ At(w) \in {"busyness", "vibes"}
         /\ Doing(w).what = "set" /\ Doing(w).val = job[w].said /\ Doing(w).id = 0
         /\ Tail(job[w].todo) # <<>> => Head(Tail(job[w].todo)).table = "vibes"
<1>1. w \in Staff /\ job[w].said \in Values /\ job[w].todo \in OwnerTodo(job[w].said)
  BY DEF TInv, JobsTyped, JobOK, JobRec, Owns
<1>2. Doing(w) \in {Set("busyness", job[w].said), Set("vibes", job[w].said)}
  BY <1>1, OwnerTail DEF Doing
<1>3. "busyness" \in Tables /\ "vibes" \in Tables
  BY DEF Tables
<1> QED BY <1>1, <1>2, <1>3, OwnerTail, Constants DEF At

LEMMA OwnerThrough ==
  ASSUME TInv, NEW w \in Workers, Owns(w), job[w].todo # <<>>, ThroughWith(w)
  PROVE  Owns(w)' /\ Past(w)' /\ job'[w].said = job[w].said
<1>1. w \in Staff /\ w \notin Uploads
  BY OwnerDoes, StatusAssumption
<1>2. job'[w].who = "owner" /\ job'[w].said = job[w].said /\ job'[w].todo = Tail(job[w].todo)
  BY <1>1, ThroughEffect DEF Owns
<1>3. Past(w)'
  BY <1>2, OwnerDoes DEF Past, At, Doing
<1> QED BY <1>2, <1>3 DEF Owns

(* A worker's step by which no owner passes busyness or ends. *)
LEMMA FrameFeed ==
  ASSUME TInv, FeedInv, NEW w \in Workers, OthersWait(w),
         Owns(w)' <=> Owns(w),
         Owns(w) => job'[w].said = job[w].said /\ (Past(w)' <=> Past(w)),
         screen' = screen, unsure' = unsure, raced \subseteq raced',
         "busyness" \notin raced' =>
            rows'["busyness"] = rows["busyness"] \/ rows'["busyness"].by # "owner"
  PROVE  FeedInv'
<1>1. ASSUME NEW x \in Staff
      PROVE  /\ Owns(x)' <=> Owns(x)
             /\ Owns(x) => job'[x].said = job[x].said /\ (Past(x)' <=> Past(x))
  <2>1. CASE x = w
    BY <2>1
  <2>2. CASE x # w
    BY <2>2 DEF OthersWait, Workers, Owns, Past, At, Doing
  <2> QED BY <2>1, <2>2
<1>2. CASE ~unsure
  <2>1. \A x, y \in Staff : Owns(x)' /\ Owns(y)' => x = y
    BY <1>1, <1>2 DEF FeedInv
  <2>2. ASSUME "busyness" \notin raced', rows'["busyness"].by = "owner"
        PROVE  /\ (\A x \in Staff : Owns(x)' => ~Past(x)') => screen' = rows'["busyness"].val
               /\ \A x \in Staff : Owns(x)' /\ Past(x)' => job'[x].said = rows'["busyness"].val
    <3>1. rows'["busyness"] = rows["busyness"] /\ "busyness" \notin raced
      BY <2>2
    <3>2. /\ (\A x \in Staff : Owns(x) => ~Past(x)) => screen = rows["busyness"].val
          /\ \A x \in Staff : Owns(x) /\ Past(x) => job[x].said = rows["busyness"].val
      BY <1>2, <2>2, <3>1 DEF FeedInv
    <3> QED BY <1>1, <3>1, <3>2
  <2> QED BY <2>1, <2>2 DEF FeedInv
<1> QED BY <1>2 DEF FeedInv

(* The owner's busyness is stored. *)
LEMMA StoredFeed ==
  ASSUME TInv, FeedInv, NEW w \in Staff, OthersWait(w), Owns(w), Owns(w)', Past(w)',
         unsure' = unsure, "busyness" \notin raced' => job'[w].said = rows'["busyness"].val
  PROVE  FeedInv'
<1>1. \A x \in Staff \ {w} : job'[x] = job[x]
  BY DEF OthersWait, Workers
<1>2. CASE ~unsure
  <2>1. \A x \in Staff : Owns(x)' => x = w
    BY <1>1, <1>2 DEF FeedInv, Owns
  <2> QED BY <2>1 DEF FeedInv
<1> QED BY <1>2 DEF FeedInv

(* A write of the busyness row that overlaps no other. *)
LEMMA BusynessWritten ==
  ASSUME TInv, HeldFresh, NEW w \in Workers, Stores(w), At(w) = "busyness", "busyness" \notin raced'
  PROVE  rows'["busyness"].val = Doing(w).val /\ rows'["busyness"].by = job[w].who
<1> DEFINE r == rows["busyness"]  c == Doing(w)
<1>1. /\ c \in Change /\ c \in Does(w) /\ job[w].who \in Writers /\ raced \subseteq raced'
      /\ r # NoRow
  BY TaskTyped, NoteTyped DEF Stores, TInv, JobsTyped, JobRec
<1>2. c.what = "set"
  <2>1. w \notin Visitors
    BY <1>1, Constants DEF Does, At
  <2> QED BY <1>1, <2>1 DEF Does, Workers
<1>3. SaveUpdate(w)
  BY <1>1 DEF Stores
<1>4. /\ job[w].stage = "update" /\ r \in Row
      /\ rows'["busyness"].val = IF "val" \in job[w].dirty THEN job[w].held.val ELSE r.val
      /\ rows'["busyness"].by = IF "by" \in job[w].dirty THEN job[w].held.by ELSE r.by
  BY <1>3, UpdateEffect
<1>5. job[w].held = Changed(w, r, c) /\ job[w].dirty = Differs(w)
  BY <1>1, <1>4 DEF HeldFresh
<1>6. job[w].held.val = c.val /\ job[w].held.by = job[w].who
  BY <1>1, <1>2, <1>4, <1>5, ChangedTyped
<1>7. /\ "val" \notin job[w].dirty => r.val = job[w].held.val
      /\ "by" \notin job[w].dirty => r.by = job[w].held.by
  BY <1>5 DEF Differs, Columns
<1> QED BY <1>4, <1>6, <1>7

LEMMA StoresFeed ==
  ASSUME TInv, HeldFresh, FeedInv, NEW w \in Workers, Stores(w)
  PROVE  FeedInv'
<1>1. /\ OthersWait(w) /\ ThroughWith(w) /\ job[w].todo # <<>> /\ At(w) \in Tables
      /\ raced \subseteq raced' /\ \A u \in Tables \ {At(w)} : rows'[u] = rows[u]
      /\ screen' = screen /\ unsure' = unsure
  BY TaskTyped, NoteTyped DEF Stores
<1>2. CASE ~Owns(w)
  <2>1. ~Owns(w)'
    BY <1>1, <1>2, ThroughEffect DEF Owns, IdleJob
  <2>2. CASE At(w) = "busyness"
    <3>1. "busyness" \notin raced' => rows'["busyness"].by # "owner"
      BY <1>2, <2>2, BusynessWritten DEF Owns
    <3> QED BY <1>1, <1>2, <2>1, <3>1, FrameFeed
  <2>3. CASE At(w) # "busyness"
    <3>1. rows'["busyness"] = rows["busyness"]
      BY <1>1, <2>3 DEF Tables
    <3> QED BY <1>1, <1>2, <2>1, <3>1, FrameFeed
  <2> QED BY <2>2, <2>3
<1>3. CASE Owns(w)
  <2>1. /\ Owns(w)' /\ Past(w)' /\ job'[w].said = job[w].said /\ w \in Staff
        /\ Doing(w).val = job[w].said /\ At(w) \in {"busyness", "vibes"}
    BY <1>1, <1>3, OwnerThrough, OwnerDoes
  <2>2. CASE At(w) = "busyness"
    <3>1. "busyness" \notin raced' => job'[w].said = rows'["busyness"].val
      BY <2>1, <2>2, BusynessWritten
    <3> QED BY <1>1, <1>3, <2>1, <3>1, StoredFeed
  <2>3. CASE At(w) = "vibes"
    <3>1. Past(w) /\ rows'["busyness"] = rows["busyness"]
      BY <1>1, <2>3 DEF Past, Tables
    <3> QED BY <1>1, <1>3, <2>1, <3>1, FrameFeed
  <2> QED BY <2>1, <2>2, <2>3
<1> QED BY <1>2, <1>3

LEMMA SameTaskFeed ==
  ASSUME TInv, FeedInv, NEW w \in Workers, OthersWait(w), SameTask(w),
         UNCHANGED <<rows, raced, screen, unsure>>
  PROVE  FeedInv'
<1>1. (Owns(w)' <=> Owns(w)) /\ (Past(w)' <=> Past(w)) /\ job'[w].said = job[w].said
  BY DEF SameTask, Owns, Past, At, Doing
<1> QED BY <1>1, FrameFeed

(* An owner's change is over without a write. *)
LEMMA NoWriteFeed ==
  ASSUME TInv, HeldFresh, FeedInv, NEW w \in Workers, OthersWait(w), job[w].todo # <<>>, ThroughWith(w),
         UNCHANGED <<rows, raced, screen, unsure>>,
         Owns(w) /\ At(w) = "busyness" => job[w].stage = "select" /\ Differs(w) = {}
  PROVE  FeedInv'
<1>1. CASE ~Owns(w)
  <2>1. ~Owns(w)'
    BY <1>1, ThroughEffect DEF Owns, IdleJob
  <2> QED BY <1>1, <2>1, FrameFeed
<1>2. CASE Owns(w)
  <2>1. /\ Owns(w)' /\ Past(w)' /\ job'[w].said = job[w].said /\ w \in Staff
        /\ Doing(w).val = job[w].said /\ Doing(w).what = "set" /\ At(w) \in {"busyness", "vibes"}
    BY <1>2, OwnerThrough, OwnerDoes
  <2>2. CASE At(w) = "busyness"
    <3>1. ASSUME "busyness" \notin raced PROVE job[w].said = rows["busyness"].val
      <4>1. job[w].held = Changed(w, rows["busyness"], Doing(w)) /\ Differs(w) = {}
        BY <1>2, <2>2, <3>1 DEF HeldFresh
      <4>2. Doing(w) \in Change /\ job[w].who \in Writers /\ rows["busyness"] \in Row
        BY TaskTyped DEF TInv, JobsTyped, JobRec, Tables
      <4>3. job[w].held.val = job[w].said
        BY <2>1, <4>1, <4>2, ChangedTyped
      <4> QED BY <2>2, <4>1, <4>3 DEF Differs, Columns
    <3> QED BY <1>2, <2>1, <3>1, StoredFeed
  <2>3. CASE At(w) = "vibes"
    <3>1. Past(w)
      BY <2>3 DEF Past
    <3> QED BY <1>2, <2>1, <3>1, FrameFeed
  <2> QED BY <2>1, <2>2, <2>3
<1> QED BY <1>1, <1>2

LEMMA WorkFeed ==
  ASSUME TInv, HeldFresh, FeedInv, NEW w \in Workers, Work(w)
  PROVE  FeedInv'
<1>0. unsure \in BOOLEAN /\ IdleJob.who = "seed"
  BY DEF TInv, IdleJob
<1>1. CASE FindRow(w)
  <2>1. /\ OthersWait(w) /\ job[w].todo # <<>> /\ UNCHANGED <<rows, raced, screen, unsure>>
    BY <1>1, FindEffect DEF FindRow, writeVars
  <2>2. CASE SameTask(w)
    BY <2>1, <2>2, SameTaskFeed
  <2>3. CASE ThroughWith(w) /\ (rows[At(w)] # NoRow => Doing(w).id # 0)
    <3>1. ~(Owns(w) /\ At(w) = "busyness")
      BY <2>1, <2>3, OwnerDoes DEF TInv
    <3> QED BY <2>1, <2>3, <3>1, NoWriteFeed
  <2> QED BY <1>1, <2>2, <2>3, FindEffect
<1>2. CASE SaveSelect(w)
  <2>1. /\ OthersWait(w) /\ job[w].todo # <<>> /\ job[w].stage = "select"
        /\ UNCHANGED <<rows, raced, screen, unsure>>
    BY <1>2, SelectEffect DEF SaveSelect, writeVars
  <2>2. CASE SameTask(w)
    BY <2>1, <2>2, SameTaskFeed
  <2>3. CASE ThroughWith(w) /\ Differs(w) = {}
    BY <2>1, <2>3, NoWriteFeed
  <2> QED BY <1>2, <2>2, <2>3, SelectEffect
<1>3. CASE SaveUpdate(w) \/ SaveInsert(w)
  <2>1. CASE Stores(w)
    BY <2>1, StoresFeed
  <2>2. CASE /\ OthersWait(w) /\ job'[w] = IdleJob /\ unsure' = (unsure \/ job[w].who = "owner")
             /\ SaveInsert(w)
             /\ UNCHANGED <<now, rows, phoneVars, screen, begun, writeVars>>
    <3>1. CASE Owns(w)
      BY <2>2, <3>1 DEF FeedInv, Owns
    <3>2. CASE ~Owns(w)
      BY <1>0, <2>2, <3>2, FrameFeed DEF Owns, writeVars
    <3> QED BY <3>1, <3>2
  <2> QED BY <1>3, <2>1, <2>2, StoreCases
<1>4. CASE RecordAction(w)
  <2>1. OthersWait(w) /\ ThroughWith(w) /\ w \in Uploads /\ job[w].todo # <<>>
        /\ UNCHANGED <<rows, raced, screen, unsure>>
    BY <1>4, RecordEffect DEF RecordAction, writeVars
  <2>2. ~Owns(w)
    BY <2>1, OwnerDoes, StatusAssumption
  <2> QED BY <2>1, <2>2, NoWriteFeed
<1>5. CASE RequestFails(w)
  <2>1. OthersWait(w) /\ job'[w] = IdleJob /\ unsure' = (unsure \/ job[w].who = "owner")
        /\ UNCHANGED <<rows, raced, screen>>
    BY <1>5, EndEffect DEF RequestFails, writeVars
  <2>2. CASE Owns(w)
    BY <2>1, <2>2 DEF FeedInv, Owns
  <2>3. CASE ~Owns(w)
    BY <1>0, <2>1, <2>3, FrameFeed DEF Owns
  <2> QED BY <2>2, <2>3
<1>6. CASE Answer(w)
  <2>1. OthersWait(w) /\ job'[w] = IdleJob /\ ~Owns(w) /\ UNCHANGED <<rows, raced, screen, unsure>>
    <3>1. w \in Uploads /\ JobOK(w, job[w])
      BY <1>6, EndEffect DEF TInv, JobsTyped
    <3>2. ~Owns(w)
      BY <3>1, StatusAssumption DEF JobOK, Owns
    <3> QED BY <1>6, <3>2, EndEffect DEF Answer, writeVars
  <2> QED BY <1>0, <2>1, FrameFeed DEF Owns
<1>7. CASE Broadcast(w)
  <2>1. /\ OthersWait(w) /\ job'[w] = IdleJob /\ w \in Staff /\ Owns(w) /\ UNCHANGED <<rows, raced>>
        /\ job[w].stage = "notify"
        /\ (screen' = job[w].said /\ unsure' = unsure) \/ unsure' = TRUE
    BY <1>7, EndEffect DEF Broadcast, AnnouncedValue, writeVars, Owns
  <2>2. CASE unsure' = TRUE
    BY <2>2 DEF FeedInv
  <2>3. CASE screen' = job[w].said /\ unsure' = unsure /\ ~unsure
    <3>1. \A x \in Staff : ~Owns(x)'
      <4>1. \A x \in Staff \ {w} : job'[x] = job[x] /\ ~Owns(x)
        BY <2>1, <2>3 DEF OthersWait, Workers, FeedInv
      <4> QED BY <1>0, <2>1, <4>1 DEF Owns
    <3>2. Past(w)
      BY <2>1 DEF TInv, JobsTyped, JobOK, Active, Past
    <3>3. "busyness" \notin raced /\ rows["busyness"].by = "owner" => screen' = rows["busyness"].val
      BY <2>1, <2>3, <3>2 DEF FeedInv
    <3> QED BY <2>1, <3>1, <3>3 DEF FeedInv
  <2> QED BY <2>1, <2>2, <2>3 DEF FeedInv
<1> QED BY <1>1, <1>2, <1>3, <1>4, <1>5, <1>6, <1>7 DEF Work

LEMMA FeedStep ==
  ASSUME TInv, HeldFresh, FeedInv, [Next]_vars
  PROVE  FeedInv'
<1>0. unsure \in BOOLEAN /\ IdleJob.who = "seed"
  BY DEF TInv, IdleJob
<1>1. ASSUME NEW w \in Workers,
             UpdateVenueStatus(w) \/ SimulateTime(w) \/ ResetDemo(w) \/ VibeCheck(w) \/ Upload(w)
      PROVE  FeedInv'
  <2>1. /\ OthersWait(w) /\ ~Owns(w) /\ UNCHANGED <<rows, raced, screen>>
        /\ \/ unsure' = unsure /\ ~Owns(w)'
           \/ /\ w \in Staff /\ unsure' = (unsure \/ \E x \in Staff : Owns(x))
              /\ job'[w].todo # <<>> /\ Head(job'[w].todo).table = "busyness"
    <3>1. CASE UpdateVenueStatus(w) \/ SimulateTime(w) \/ ResetDemo(w)
      <4>1. /\ OthersWait(w) /\ ~Owns(w) /\ UNCHANGED <<rows, raced, screen>>
        BY <1>0, <3>1, StatusEffect DEF Owns, writeVars
      <4>2. /\ w \in Staff /\ job'[w].todo # <<>> /\ Head(job'[w].todo).table = "busyness"
            /\ job'[w].who = "owner" => unsure' = (unsure \/ \E x \in Staff : job[x].who = "owner")
            /\ job'[w].who # "owner" => unsure' = unsure
        BY <3>1, StatusEffect
      <4> QED BY <4>1, <4>2 DEF Owns
    <3>2. CASE VibeCheck(w)
      BY <1>0, <3>2, CheckEffect DEF VibeCheck, Owns, writeVars
    <3>3. CASE Upload(w)
      BY <1>0, <3>3, UploadEffect DEF Upload, Owns, writeVars
    <3> QED BY <1>1, <3>1, <3>2, <3>3
  <2>2. CASE unsure' = unsure /\ ~Owns(w)'
    BY <2>1, <2>2, FrameFeed
  <2>3. CASE /\ w \in Staff /\ unsure' = (unsure \/ \E x \in Staff : Owns(x))
             /\ job'[w].todo # <<>> /\ Head(job'[w].todo).table = "busyness"
    <3>1. ~Past(w)'
      BY <2>3 DEF Past, At, Doing
    <3>2. CASE ~unsure /\ \A x \in Staff : ~Owns(x)
      <4>1. \A x \in Staff \ {w} : ~Owns(x)'
        BY <2>1, <3>2 DEF OthersWait, Workers, Owns
      <4>2. "busyness" \notin raced /\ rows["busyness"].by = "owner" => screen = rows["busyness"].val
        BY <3>2 DEF FeedInv
      <4> QED BY <2>1, <3>1, <4>1, <4>2 DEF FeedInv
    <3> QED BY <2>3, <3>2 DEF FeedInv
  <2> QED BY <2>1, <2>2, <2>3
<1>2. CASE Enqueue \/ GiveUp \/ PullQuery \/ PullAnswer \/ Tick \/ UNCHANGED vars
  <2>1. UNCHANGED <<rows, raced, screen, unsure, job>>
    BY <1>2 DEF Enqueue, GiveUp, PullQuery, PullAnswer, Tick, vars, writeVars
  <2> QED BY <2>1 DEF FeedInv, Owns, Past, At, Doing
<1> QED BY <1>1, <1>2, WorkFeed DEF Next

(* What the live feed shows of an owner's busyness is what is stored, unless  *)
(* two owners' requests overlapped, or one failed before its broadcast.       *)
THEOREM FeedIsTheOwners == Spec => []FeedShowsOwner
<1> DEFINE BInv == TInv /\ HeldFresh /\ Stamped /\ FeedInv
<1>1. Init => BInv
  <2> SUFFICES ASSUME Init PROVE BInv
    OBVIOUS
  <2>1. TInv
    BY StatusInit
  <2>2. HeldFresh
    BY DEF Init, HeldFresh, IdleJob
  <2>3. Stamped
    BY Constants DEF Init, Stamped, Seeded, Tables
  <2>4. \A w \in Staff : ~Owns(w)
    BY DEF Init, Owns, IdleJob, Workers
  <2>5. rows["busyness"].by = "seed"
    BY DEF Init, Seeded, Tables
  <2>6. FeedInv
    BY <2>4, <2>5 DEF FeedInv
  <2> QED BY <2>1, <2>2, <2>3, <2>6
<1>2. BInv /\ [Next]_vars => BInv'
  BY StatusStep, FreshStep, StampedStep, FeedStep
<1>3. BInv => FeedShowsOwner
  BY DEF FeedShowsOwner, FeedInv, Owns
<1> HIDE DEF BInv
<1> QED BY <1>1, <1>2, <1>3, PTL DEF Spec
=============================================================================
