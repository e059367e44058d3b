---------------------------- MODULE WorkerProofs ----------------------------
(***************************************************************************)
(* For any documents, installments, processes and bounds: downloads are    *)
(* whole, the owner's browser is told once of what is due but for the two  *)
(* ways that PushedOnce names, and overdue emails are Interval days apart  *)
(* but for the one that RemindersApart names.                              *)
(***************************************************************************)
EXTENDS Worker, TLAPS

-----------------------------------------------------------------------------
(* Generated documents.                                                    *)

\* A .pdf is a document that was stored, and only an expired one leaves the folder while it
\* is being written, or after it was stored or found.
Document(f) ==
  /\ disk[f] \in {"none", "part", "pdf"}
  /\ disk[f] = "pdf" => writer[f] = "stored"
  /\ writer[f] = "open" /\ f \notin old => disk[f] = "part"
  /\ writer[f] = "stored" /\ f \notin old => disk[f] = "pdf"
  /\ reader[f] \in {"found", "whole", "error"} => writer[f] = "stored"
  /\ reader[f] # "half" /\ (reader[f] = "error" => f \in old)

StoreInv ==
  /\ DOMAIN disk = Files /\ DOMAIN writer = Files /\ DOMAIN reader = Files
  /\ \A f \in Files : Document(f)

LEMMA RequestStep ==
  ASSUME StoreInv, NEW f \in Files, Request(f)
  PROVE  StoreInv'
<1> USE DEF StoreInv, Document
<1>1. CASE MakeFolder(f)
  BY <1>1 DEF MakeFolder, Writes
<1>2. CASE OpenFile(f)
  BY <1>2 DEF OpenFile, Writes, BeginsAs
<1>3. CASE Rename(f)
  BY <1>3 DEF Rename, Writes
<1>4. CASE WriterDies(f)
  BY <1>4 DEF WriterDies
<1>5. CASE Ages(f)
  BY <1>5 DEF Ages
<1>6. CASE Find(f)
  BY <1>6 DEF Find
<1>7. CASE Open(f)
  BY <1>7 DEF Open
<1> QED
  BY <1>1, <1>2, <1>3, <1>4, <1>5, <1>6, <1>7 DEF Request

LEMMA StoreStep == StoreInv /\ [Next]_vars => StoreInv'
<1> SUFFICES ASSUME StoreInv, [Next]_vars PROVE StoreInv'
  OBVIOUS
<1>1. CASE UNCHANGED <<disk, writer, reader, old>>
  BY <1>1 DEF StoreInv, Document
<1>2. ASSUME NEW f \in Files, Request(f) PROVE StoreInv'
  BY <1>2, RequestStep
<1>3. ASSUME NEW p \in Processes, SweepStep(p) PROVE StoreInv'
  <2>1. CASE SweepFile(p)
    <3>1. PICK entry \in sweep[p].left :
            disk' = IF Removable(entry[1], entry[2]) THEN [disk EXCEPT ![entry[1]] = "none"] ELSE disk
      BY <2>1 DEF SweepFile
    <3>2. UNCHANGED <<writer, reader, old>>
      BY <2>1 DEF SweepFile
    <3> QED
      BY <3>1, <3>2 DEF StoreInv, Document, Removable
  <2>2. CASE List(p) \/ RemoveFolder(p)
    BY <1>1, <2>2 DEF List, RemoveFolder, store
  <2> QED
    BY <1>3, <2>1, <2>2 DEF SweepStep
<1> QED
  BY <1>1, <1>2, <1>3
     DEF Next, Step, Users, vars, store, StartSweep, EndSweep, StartRun, FinishRun, Raised, Dies, TenMinutes, Restart

\* A download is never half a document, and finds every document that was stored and has
\* not expired.
THEOREM DownloadsAreWhole == Spec => []DownloadsWhole
<1>1. Init => StoreInv
  BY DEF Init, InitStore, StoreInv, Document
<1>2. StoreInv => DownloadsWhole
  BY DEF StoreInv, Document, DownloadsWhole
<1> QED
  BY <1>1, <1>2, StoreStep, PTL DEF Spec

-----------------------------------------------------------------------------
(* Web pushes.                                                             *)

Fields == {"at", "day", "todo", "asked", "batch", "email"}
Pushing(p) == run[p].at \in {"send", "record"}

\* Only a process that sends reminders has a run.
RunOf(p) ==
  /\ run[p].at # "off" => stage[p] = "remind"
  /\ run[p].at \notin {"off", "raised"} => DOMAIN run[p] = Fields

\* A push that was sent is on record, or about to be.
Sent(key) ==
  key \in DOMAIN pushed /\ key \notin doubt =>
    pushed[key] = 1 /\ (key \in recorded \/ \E p \in Processes : run[p].at = "record" /\ PushKey(p) = key)

\* Whoever is about to send a push is the first to do so, and alone.
First(p) == run[p].at = "send" /\ PushKey(p) \notin doubt => PushKey(p) \notin DOMAIN pushed
Single(p, q) == Pushing(p) /\ Pushing(q) /\ PushKey(p) = PushKey(q) /\ PushKey(p) \notin doubt => p = q

PushInv ==
  /\ DOMAIN run = Processes /\ DOMAIN stage = Processes
  /\ \A p \in Processes : RunOf(p) /\ First(p)
  /\ \A p, q \in Processes : Single(p, q)
  /\ \A key : Sent(key)

\* Steps of a process that is not pushing and does not begin to, or of none.
LEMMA PushAside ==
  ASSUME PushInv, UNCHANGED <<recorded, pushed>>, doubt \subseteq doubt',
         DOMAIN run' = Processes, DOMAIN stage' = Processes,
         \A p \in Processes : RunOf(p)',
         \A p \in Processes : \/ run'[p] = run[p]
                              \/ ~Pushing(p)' /\ (run[p].at = "record" => PushKey(p) \in doubt')
  PROVE  PushInv'
<1>1. ASSUME NEW p \in Processes, Pushing(p)'
      PROVE  run'[p] = run[p] /\ PushKey(p)' = PushKey(p) /\ Pushing(p)
  BY <1>1 DEF PushKey, DueTomorrow, Item, Pushing
<1>2. ASSUME NEW p \in Processes PROVE First(p)'
  BY <1>1 DEF PushInv, First, Pushing
<1>3. ASSUME NEW p \in Processes, NEW q \in Processes PROVE Single(p, q)'
  BY <1>1 DEF PushInv, Single
<1>4. ASSUME NEW key PROVE Sent(key)'
  <2> SUFFICES ASSUME key \in DOMAIN pushed, key \notin doubt' PROVE Sent(key)'
    BY DEF Sent
  <2>1. Sent(key) /\ key \notin doubt
    BY DEF PushInv
  <2>2. ASSUME NEW p \in Processes, run[p].at = "record", PushKey(p) = key
        PROVE  run'[p].at = "record" /\ PushKey(p)' = key
    BY <2>2 DEF PushKey, DueTomorrow, Item
  <2> QED
    BY <2>1, <2>2 DEF Sent
<1> QED
  BY <1>2, <1>3, <1>4 DEF PushInv

\* A step of one run: the other runs and their keys stay, and it is still a run.
LEMMA OneRun ==
  ASSUME PushInv, NEW p \in Processes, run[p].at \notin {"off", "raised"}, NEW r, r.at # "off",
         r.at # "raised" => DOMAIN r = Fields,
         run' = [run EXCEPT ![p] = r], stage' = stage
  PROVE  /\ DOMAIN run' = Processes /\ DOMAIN stage' = Processes /\ run'[p] = r
         /\ \A q \in Processes : RunOf(q)'
         /\ \A q \in Processes : q # p => run'[q] = run[q] /\ PushKey(q)' = PushKey(q)
  BY DEF PushInv, RunOf, PushKey, DueTomorrow, Item

LEMMA Moving ==
  ASSUME PushInv, NEW p \in Processes, run[p].at \notin {"off", "raised"}, NEW at
  PROVE  /\ [run[p] EXCEPT !.at = at].at = at /\ DOMAIN [run[p] EXCEPT !.at = at] = Fields
         /\ [run[p] EXCEPT !.at = at].todo = run[p].todo /\ [run[p] EXCEPT !.at = at].day = run[p].day
         /\ Done(p).at = "item" /\ DOMAIN Done(p) = Fields
<1>1. DOMAIN run[p] = Fields
  BY DEF PushInv, RunOf
<1> QED
  BY <1>1 DEF Fields, Done

LEMMA CheckStep ==
  ASSUME PushInv, NEW p \in Processes, CheckPush(p), UNCHANGED stage
  PROVE  PushInv'
<1>1. run[p].at = "push" /\ UNCHANGED <<recorded, pushed>>
  BY DEF CheckPush, rows
<1>2. CASE run' = [run EXCEPT ![p] = Done(p)] /\ UNCHANGED doubt
  <2>1. Done(p).at = "item" /\ DOMAIN Done(p) = Fields
    BY <1>1, Moving
  <2> HIDE DEF Done
  <2>2. /\ DOMAIN run' = Processes /\ DOMAIN stage' = Processes /\ run'[p] = Done(p)
        /\ \A q \in Processes : RunOf(q)' /\ (q # p => run'[q] = run[q])
    BY <1>1, <1>2, <2>1, OneRun
  <2> QED
    BY <1>1, <1>2, <2>1, <2>2, PushAside DEF Pushing
<1>3. CASE /\ ~Delivered(PushKey(p)) /\ run' = [run EXCEPT ![p].at = "send"]
           /\ doubt' = IF \E q \in Processes \ {p} : run[q].at \in {"send", "record"} /\ PushKey(q) = PushKey(p)
                       THEN doubt \cup {PushKey(p)} ELSE doubt
  <2> DEFINE r == [run[p] EXCEPT !.at = "send"]
             key == PushKey(p)
  <2>1. r.at = "send" /\ DOMAIN r = Fields /\ r.todo = run[p].todo /\ r.day = run[p].day
    BY <1>1, Moving
  <2>2. run' = [run EXCEPT ![p] = r]
    BY <1>3
  <2> HIDE DEF r
  <2>3. /\ DOMAIN run' = Processes /\ DOMAIN stage' = Processes /\ run'[p] = r
        /\ \A q \in Processes : RunOf(q)' /\ (q # p => run'[q] = run[q] /\ PushKey(q)' = PushKey(q))
    BY <1>1, <2>1, <2>2, OneRun
  <2>4. PushKey(p)' = key
    BY <2>1, <2>3 DEF PushKey, DueTomorrow, Item
  <2>5. \A q \in Processes : q # p /\ Pushing(q) /\ PushKey(q) = key => key \in doubt'
    BY <1>3 DEF Pushing
  <2>6. doubt \subseteq doubt'
    BY <1>3
  <2> HIDE DEF key
  <2>7. First(p)'
    <3> SUFFICES ASSUME key \notin doubt', key \in DOMAIN pushed PROVE FALSE
      BY <1>1, <2>4 DEF First
    <3>1. Sent(key) /\ key \notin recorded
      BY <1>3 DEF PushInv, Delivered, key
    <3>2. PICK q \in Processes : run[q].at = "record" /\ PushKey(q) = key
      BY <2>6, <3>1 DEF Sent
    <3> QED
      BY <1>1, <2>5, <3>2 DEF Pushing
  <2>8. ASSUME NEW q \in Processes, q # p PROVE First(q)'
    BY <1>1, <2>3, <2>6, <2>8 DEF PushInv, First
  <2>9. ASSUME NEW q \in Processes, NEW u \in Processes PROVE Single(q, u)'
    <3>1. CASE q # p /\ u # p
      BY <2>3, <2>6, <3>1 DEF PushInv, Single, Pushing
    <3>2. CASE q = p \/ u = p
      BY <2>3, <2>4, <2>5, <3>2 DEF Single, Pushing
    <3> QED
      BY <3>1, <3>2
  <2>10. ASSUME NEW k PROVE Sent(k)'
    <3>1. Sent(k)
      BY DEF PushInv
    <3>2. \A q \in Processes : run[q].at = "record" => run'[q].at = "record" /\ PushKey(q)' = PushKey(q)
      BY <1>1, <2>3
    <3> QED
      BY <1>1, <2>6, <3>1, <3>2 DEF Sent
  <2> QED
    BY <2>3, <2>7, <2>8, <2>9, <2>10 DEF PushInv
<1> QED
  BY <1>2, <1>3 DEF CheckPush, Set, Go

LEMMA SendStep ==
  ASSUME PushInv, NEW p \in Processes, Send(p), UNCHANGED stage
  PROVE  PushInv'
<1>1. run[p].at = "send" /\ UNCHANGED <<recorded, doubt>>
  BY DEF Send, doubts
<1>2. CASE run' = [run EXCEPT ![p] = Done(p)] /\ UNCHANGED pushed
  <2>1. Done(p).at = "item" /\ DOMAIN Done(p) = Fields
    BY <1>1, Moving
  <2> HIDE DEF Done
  <2>2. /\ DOMAIN run' = Processes /\ DOMAIN stage' = Processes /\ run'[p] = Done(p)
        /\ \A q \in Processes : RunOf(q)' /\ (q # p => run'[q] = run[q])
    BY <1>1, <1>2, <2>1, OneRun
  <2> QED
    BY <1>1, <1>2, <2>1, <2>2, PushAside DEF Pushing
<1>3. CASE /\ run' = [run EXCEPT ![p].at = "record"]
           /\ pushed' = [k \in DOMAIN pushed \cup {PushKey(p)} |->
                           IF k # PushKey(p) THEN pushed[k] ELSE IF k \in DOMAIN pushed THEN 2 ELSE 1]
  <2> DEFINE r == [run[p] EXCEPT !.at = "record"]
             key == PushKey(p)
  <2>1. r.at = "record" /\ DOMAIN r = Fields /\ r.todo = run[p].todo /\ r.day = run[p].day
    BY <1>1, Moving
  <2>2. run' = [run EXCEPT ![p] = r]
    BY <1>3
  <2> HIDE DEF r
  <2>3. /\ DOMAIN run' = Processes /\ DOMAIN stage' = Processes /\ run'[p] = r
        /\ \A q \in Processes : RunOf(q)' /\ (q # p => run'[q] = run[q] /\ PushKey(q)' = PushKey(q))
    BY <1>1, <2>1, <2>2, OneRun
  <2>4. PushKey(p)' = key
    BY <2>1, <2>3 DEF PushKey, DueTomorrow, Item
  <2>5. /\ DOMAIN pushed' = DOMAIN pushed \cup {key} /\ (key \notin DOMAIN pushed => pushed'[key] = 1)
        /\ \A k \in DOMAIN pushed : k # key => pushed'[k] = pushed[k]
    BY <1>3
  <2>6. key \notin doubt => key \notin DOMAIN pushed /\ \A q \in Processes : Pushing(q) /\ PushKey(q) = key => q = p
    BY <1>1 DEF PushInv, First, Single, Pushing
  <2> HIDE DEF key
  <2>7. ASSUME NEW q \in Processes PROVE First(q)'
    <3>1. CASE q = p
      BY <2>1, <2>3, <3>1 DEF First
    <3>2. CASE q # p
      BY <1>1, <2>3, <2>5, <2>6, <3>2 DEF PushInv, First, Pushing
    <3> QED
      BY <3>1, <3>2
  <2>8. ASSUME NEW q \in Processes, NEW u \in Processes PROVE Single(q, u)'
    <3>1. /\ \A v \in Processes : Pushing(v)' => Pushing(v) /\ PushKey(v)' = PushKey(v)
      BY <1>1, <2>3, <2>4 DEF Pushing, key
    <3> QED
      BY <1>1, <3>1 DEF PushInv, Single
  <2>9. ASSUME NEW k PROVE Sent(k)'
    <3>1. CASE k = key
      BY <1>1, <2>1, <2>3, <2>4, <2>5, <2>6, <3>1 DEF Sent
    <3>2. CASE k # key
      <4>1. Sent(k)
        BY DEF PushInv
      <4>2. \A q \in Processes : run[q].at = "record" => run'[q].at = "record" /\ PushKey(q)' = PushKey(q)
        BY <1>1, <2>3
      <4> QED
        BY <1>1, <2>5, <3>2, <4>1, <4>2 DEF Sent
    <3> QED
      BY <3>1, <3>2
  <2> QED
    BY <2>3, <2>7, <2>8, <2>9 DEF PushInv
<1> QED
  BY <1>2, <1>3 DEF Send, Set, Go

LEMMA RecordStep ==
  ASSUME PushInv, NEW p \in Processes, Record(p), UNCHANGED stage
  PROVE  PushInv'
<1> DEFINE r == IF PushKey(p) \in recorded THEN [at |-> "raised"] ELSE Done(p)
           key == PushKey(p)
<1>1. /\ run[p].at = "record" /\ recorded' = recorded \cup {key} /\ UNCHANGED <<pushed, doubt>>
      /\ run' = [run EXCEPT ![p] = r]
  BY DEF Record, Set, doubts
<1>2. r.at \in {"raised", "item"} /\ (r.at # "raised" => DOMAIN r = Fields)
  BY <1>1, Moving
<1> HIDE DEF r
<1>3. /\ DOMAIN run' = Processes /\ DOMAIN stage' = Processes /\ run'[p] = r
      /\ \A q \in Processes : RunOf(q)' /\ (q # p => run'[q] = run[q] /\ PushKey(q)' = PushKey(q))
  BY <1>1, <1>2, OneRun
<1>4. ASSUME NEW q \in Processes, Pushing(q)'
      PROVE  q # p /\ Pushing(q) /\ run'[q] = run[q] /\ PushKey(q)' = PushKey(q)
  BY <1>2, <1>3, <1>4 DEF Pushing
<1>5. ASSUME NEW q \in Processes PROVE First(q)'
  BY <1>1, <1>4 DEF PushInv, First, Pushing
<1>6. ASSUME NEW q \in Processes, NEW u \in Processes PROVE Single(q, u)'
  BY <1>1, <1>4 DEF PushInv, Single
<1>7. ASSUME NEW k PROVE Sent(k)'
  <2>1. Sent(k)
    BY DEF PushInv
  <2>2. \A q \in Processes : q # p /\ run[q].at = "record" => run'[q].at = "record" /\ PushKey(q)' = PushKey(q)
    BY <1>3
  <2> QED
    BY <1>1, <2>1, <2>2 DEF Sent
<1> QED
  BY <1>3, <1>5, <1>6, <1>7 DEF PushInv

\* The rest of a run sends no push.
LEMMA MailStep ==
  ASSUME PushInv, NEW p \in Processes, UNCHANGED stage,
         Remind(p) \/ QueueReminder(p) \/ BeginMail(p) \/ Claim(p) \/ FinishMail(p)
  PROVE  PushInv'
<1>1. run[p].at \in {"item", "queue", "mail", "smtp"} /\ UNCHANGED <<recorded, pushed, doubt>>
  BY DEF Remind, QueueReminder, BeginMail, Claim, FinishMail, doubts, rows
<1>2. DOMAIN run[p] = Fields /\ DOMAIN run = Processes
  BY <1>1 DEF PushInv, RunOf
<1>3. \E r : run' = [run EXCEPT ![p] = r] /\ r.at \in {"push", "queue", "mail", "smtp"} /\ DOMAIN r = Fields
  <2>1. CASE Remind(p)
    <3>1. \/ run' = [run EXCEPT ![p] = [run[p] EXCEPT !.at = "push"]]
          \/ run' = [run EXCEPT ![p] = [run[p] EXCEPT !.asked = TRUE, !.at = "queue"]]
          \/ run' = [run EXCEPT ![p] = [run[p] EXCEPT !.asked = TRUE, !.at = "push"]]
      BY <2>1 DEF Remind, Go
    <3> QED
      BY ONLY <1>2, <3>1 DEF Fields
  <2>2. CASE QueueReminder(p)
    <3>1. run' = [run EXCEPT ![p] = [run[p] EXCEPT !.at = "push"]]
      BY <2>2 DEF QueueReminder, Go
    <3>2. [run[p] EXCEPT !.at = "push"].at = "push" /\ DOMAIN [run[p] EXCEPT !.at = "push"] = Fields
      BY ONLY <1>2 DEF Fields
    <3> QED
      BY <3>1, <3>2
  <2>3. CASE BeginMail(p)
    <3>1. run' = [run EXCEPT ![p] = [run[p] EXCEPT !.at = "mail", !.batch = Unfinished]]
      BY <2>3 DEF BeginMail
    <3>2. [run[p] EXCEPT !.at = "mail", !.batch = Unfinished].at = "mail" /\ DOMAIN [run[p] EXCEPT !.at = "mail", !.batch = Unfinished] = Fields
      BY ONLY <1>2 DEF Fields
    <3> QED
      BY <3>1, <3>2
  <2>4. CASE Claim(p)
    <3>1. PICK k \in run[p].batch :
            \/ run' = [run EXCEPT ![p] = [run[p] EXCEPT !.at = "smtp", !.batch = @ \ {k}, !.email = k]]
            \/ run' = [run EXCEPT ![p] = [run[p] EXCEPT !.batch = @ \ {k}]] /\ run[p].at = "mail"
      BY <2>4 DEF Claim
    <3> QED
      BY ONLY <1>2, <3>1 DEF Fields
  <2>5. CASE FinishMail(p)
    <3>1. run' = [run EXCEPT ![p] = [run[p] EXCEPT !.at = "mail", !.email = {}]]
      BY <2>5 DEF FinishMail
    <3>2. [run[p] EXCEPT !.at = "mail", !.email = {}].at = "mail" /\ DOMAIN [run[p] EXCEPT !.at = "mail", !.email = {}] = Fields
      BY ONLY <1>2 DEF Fields
    <3> QED
      BY <3>1, <3>2
  <2> QED
    BY <2>1, <2>2, <2>3, <2>4, <2>5
<1>4. PICK r : run' = [run EXCEPT ![p] = r] /\ r.at \in {"push", "queue", "mail", "smtp"} /\ DOMAIN r = Fields
  BY <1>3
<1>5. /\ DOMAIN run' = Processes /\ DOMAIN stage' = Processes /\ run'[p] = r
      /\ \A q \in Processes : RunOf(q)' /\ (q # p => run'[q] = run[q])
  BY <1>1, <1>4, OneRun
<1> QED
  BY <1>1, <1>4, <1>5, PushAside DEF Pushing

\* A process begins or ends something, or dies; a push it was about to record is in doubt.
LEMMA TurnStep ==
  ASSUME PushInv, NEW p \in Processes,
         StartSweep(p) \/ EndSweep(p) \/ StartRun(p) \/ FinishRun(p) \/ Raised(p) \/ Dies(p)
  PROVE  PushInv'
<1> USE DEF reminders, rows, doubts
<1>1. UNCHANGED <<recorded, pushed>>
  BY DEF StartSweep, EndSweep, StartRun, FinishRun, Raised, Dies
<1>2. CASE StartSweep(p) \/ EndSweep(p)
  <2>1. UNCHANGED <<run, doubt>> /\ stage[p] # "remind" /\ \E at : stage' = [stage EXCEPT ![p] = at]
    BY <1>2 DEF StartSweep, EndSweep, To
  <2>2. DOMAIN stage' = Processes /\ \A q \in Processes : RunOf(q)'
    BY <2>1 DEF PushInv, RunOf
  <2> QED
    BY <1>1, <2>1, <2>2, PushAside DEF PushInv
<1>3. CASE StartRun(p)
  <2> DEFINE r == [at |-> "item", day |-> clock, todo |-> installments \ paid, asked |-> FALSE,
                   batch |-> {}, email |-> {}]
  <2>1. run' = [run EXCEPT ![p] = r] /\ stage' = [stage EXCEPT ![p] = "remind"] /\ doubt' = doubt
    BY <1>3 DEF StartRun, BeginRun, Set, To
  <2>2. run[p].at = "off"
    BY <1>3 DEF StartRun, PushInv, RunOf
  <2>3. r.at = "item" /\ DOMAIN r = Fields
    BY DEF Fields
  <2> HIDE DEF r
  <2>4. /\ DOMAIN run' = Processes /\ DOMAIN stage' = Processes /\ run'[p] = r /\ stage'[p] = "remind"
        /\ \A q \in Processes : q # p => run'[q] = run[q] /\ stage'[q] = stage[q]
    BY <2>1 DEF PushInv
  <2>5. \A q \in Processes : RunOf(q)'
    BY <2>3, <2>4 DEF PushInv, RunOf
  <2> QED
    BY <1>1, <2>1, <2>2, <2>3, <2>4, <2>5, PushAside DEF Pushing
<1>4. CASE FinishRun(p) \/ Raised(p) \/ Dies(p)
  <2>1. /\ run' = [run EXCEPT ![p] = NoRun] /\ \E at : stage' = [stage EXCEPT ![p] = at]
        /\ doubt \subseteq doubt' /\ (run[p].at = "record" => PushKey(p) \in doubt')
    BY <1>4 DEF FinishRun, EndRun, Raised, Dies, Ended, RunDies, Set, To
  <2>2. NoRun.at = "off"
    BY DEF NoRun
  <2>3. /\ DOMAIN run' = Processes /\ DOMAIN stage' = Processes /\ run'[p] = NoRun
        /\ \A q \in Processes : q # p => run'[q] = run[q] /\ stage'[q] = stage[q]
    BY <2>1 DEF PushInv
  <2>4. \A q \in Processes : RunOf(q)'
    BY <2>2, <2>3 DEF PushInv, RunOf
  <2> QED
    BY <1>1, <2>1, <2>2, <2>3, <2>4, PushAside DEF Pushing
<1> QED
  BY <1>2, <1>3, <1>4

LEMMA PushStep == PushInv /\ [Next]_vars => PushInv'
<1> SUFFICES ASSUME PushInv, [Next]_vars PROVE PushInv'
  OBVIOUS
<1> USE DEF reminders, rows, doubts, loop
<1>1. CASE UNCHANGED <<run, stage, recorded, pushed, doubt>>
  <2>1. \A q \in Processes : RunOf(q)'
    BY <1>1 DEF PushInv, RunOf
  <2> QED
    BY <1>1, <2>1, PushAside DEF PushInv
<1>2. ASSUME NEW p \in Processes, RunStep(p), UNCHANGED stage PROVE PushInv'
  BY <1>2, CheckStep, SendStep, RecordStep, MailStep DEF RunStep
<1>3. CASE Restart
  <2>1. UNCHANGED <<run, recorded, pushed, doubt>> /\ stage[Loop] = "down" /\ stage' = [stage EXCEPT ![Loop] = "top"]
    BY <1>3 DEF Restart, To
  <2>2. DOMAIN stage' = Processes /\ \A q \in Processes : RunOf(q)'
    BY <2>1, WorkerAssumption DEF PushInv, RunOf
  <2> QED
    BY <2>1, <2>2, PushAside DEF PushInv
<1>4. CASE TenMinutes \/ Users
  BY <1>1, <1>4 DEF TenMinutes, Users, DayPasses, Subscribe, Pay
<1>5. ASSUME NEW p \in Processes, SweepStep(p) /\ UNCHANGED <<reminders, loop>> PROVE PushInv'
  BY <1>1, <1>5
<1>6. CASE UNCHANGED vars
  BY <1>1, <1>6 DEF vars
<1> QED
  BY <1>2, <1>3, <1>4, <1>5, <1>6, TurnStep DEF Next, Step

\* The owner's browser is told once of an installment that is due tomorrow, and once a day
\* of one that is overdue, unless a process died before it recorded the push or two
\* processes sent it at the same time.
THEOREM PushesSentOnce == Spec => []PushedOnce
<1>1. Init => PushInv
  BY DEF Init, InitReminders, NoRun, PushInv, RunOf, First, Single, Pushing, Sent
<1>2. PushInv => PushedOnce
  BY DEF PushInv, Sent, PushedOnce
<1> QED
  BY <1>1, <1>2, PushStep, PTL DEF Spec

-----------------------------------------------------------------------------
(* Reminder emails.                                                        *)

Finished(k) == emails[k].status \notin {"pending", "sending"}

\* Day d is long enough after k, which is finished.
Long(k, d) == Finished(k) /\ (emails[k].status = "sent" => d - emails[k].sentOn >= Interval)

Active(p) == run[p].at \notin {"off", "raised"}

\* What an email and a run are.
EmailOf(k) ==
  /\ DOMAIN emails[k] = {"status", "sentOn"}
  /\ k[1] = "overdue" =>
       /\ k = Combined(k[3]) /\ k[3] \in Int /\ k[3] <= clock
       /\ emails[k].sentOn \in Int

DayOf(p) ==
  /\ Active(p) => run[p].day \in Int /\ run[p].day <= clock
  /\ run[p].at = "smtp" => run[p].email \in DOMAIN emails

\* Whoever holds an email holds it alone, and it is being sent.
Holds(p) == run[p].at = "smtp" => emails[run[p].email].status = "sending"
Alone(p, q) == run[p].at = "smtp" /\ run[q].at = "smtp" /\ run[p].email = run[q].email => p = q

MailTypes ==
  /\ clock \in Int
  /\ \A k \in DOMAIN emails : EmailOf(k)
  /\ \A p \in Processes : DayOf(p) /\ Holds(p)
  /\ \A p, q \in Processes : Alone(p, q)

\* Runs are of one day, and no reminder is of a later one.
OneDay == \A p, q \in Processes : Active(p) /\ Active(q) => run[p].day = run[q].day
Past == \A p \in Processes, k \in Reminded : Active(p) => k[3] <= run[p].day

\* A reminder was queued long enough after each earlier one, and was sent no earlier.
Spaced == \A j, k \in Reminded : j[3] < k[3] => Long(j, k[3])
Late == \A k \in Reminded : emails[k].status = "sent" => emails[k].sentOn >= k[3]

\* A run about to queue a reminder found all others long ago.
Cleared == \A p \in Processes, k \in Reminded :
             run[p].at = "queue" /\ k[3] # run[p].day => Long(k, run[p].day)

Apart == OneDay /\ Past /\ Spaced /\ Late /\ Cleared

MailInv == MailTypes /\ (~crossed => Apart)

\* Reminder emails, and the run that holds one, but for a step's own.
LEMMA MailAside ==
  ASSUME MailInv, PushInv', clock' \in Int, clock <= clock', crossed => crossed',
         UNCHANGED emails,
         \A p \in Processes :
           \/ run'[p] = run[p]
           \/ ~Active(p)'
           \/ /\ run'[p].at \notin {"queue", "smtp"}
              /\ \/ Active(p) /\ run'[p].day = run[p].day
                 \/ run'[p].day = clock /\ (~crossed' => \A q \in Processes : Active(q) => run[q].day = clock)
  PROVE  MailInv'
<1> USE DEF Active
<1>1. ASSUME NEW k \in DOMAIN emails PROVE EmailOf(k)'
  BY <1>1 DEF MailInv, MailTypes, EmailOf, Combined
<1>2. \A k : Reminded' = Reminded /\ (\A d : Long(k, d)' = Long(k, d))
  BY DEF Reminded, Long, Finished
<1>3. ASSUME NEW p \in Processes PROVE DayOf(p)' /\ Holds(p)'
  BY DEF MailInv, MailTypes, DayOf, Holds
<1>4. ASSUME NEW p \in Processes, NEW q \in Processes PROVE Alone(p, q)'
  BY DEF MailInv, MailTypes, Alone
<1>5. MailTypes'
  BY <1>1, <1>3, <1>4 DEF MailTypes
<1>6. ASSUME ~crossed' PROVE Apart'
  <2>1. Apart /\ MailTypes
    BY <1>6 DEF MailInv
  <2>2. OneDay'
    BY <1>6, <2>1 DEF Apart, OneDay
  <2>3. Past'
    BY <1>2, <1>6, <2>1 DEF Apart, Past, MailTypes, EmailOf, Reminded
  <2>4. Spaced' /\ Late'
    BY <1>2, <2>1 DEF Apart, Spaced, Late
  <2>5. Cleared'
    BY <1>2, <2>1 DEF Apart, Cleared
  <2> QED
    BY <2>2, <2>3, <2>4, <2>5 DEF Apart
<1> QED
  BY <1>5, <1>6 DEF MailInv

\* What a step of one run that keeps its day does to the others.
LEMMA OneMoves ==
  ASSUME PushInv, NEW p \in Processes, run[p].at \notin {"off", "raised"}, NEW r,
         run' = [run EXCEPT ![p] = r]
  PROVE  run'[p] = r /\ \A q \in Processes : q # p => run'[q] = run[q]
  BY DEF PushInv

LEMMA NewDay ==
  ASSUME NEW key, key \notin DOMAIN emails, emails' = Queued(key)
  PROVE  /\ DOMAIN emails' = DOMAIN emails \cup {key}
         /\ emails'[key] = [status |-> "pending", sentOn |-> -1]
         /\ \A k \in DOMAIN emails : emails'[k] = emails[k]
  BY DEF Queued

\* The day before an installment is due.
LEMMA RemindsTomorrow ==
  ASSUME MailInv, PushInv, PushInv', NEW p \in Processes, run[p].at = "item",
         NEW i, emails' = Queued(Tomorrow(i)), run' = [run EXCEPT ![p].at = "push"],
         UNCHANGED <<clock, crossed>>
  PROVE  MailInv'
<1>1. [run[p] EXCEPT !.at = "push"].at = "push" /\ [run[p] EXCEPT !.at = "push"].day = run[p].day
  BY Moving
<1>2. run'[p].at = "push" /\ run'[p].day = run[p].day /\ \A q \in Processes : q # p => run'[q] = run[q]
  BY <1>1 DEF PushInv
<1>3. CASE Tomorrow(i) \in DOMAIN emails
  <2>1. emails' = emails
    BY <1>3 DEF Queued
  <2> QED
    BY <1>2, <2>1, MailAside DEF Active, MailInv, MailTypes
<1>4. CASE Tomorrow(i) \notin DOMAIN emails
  <2> DEFINE key == Tomorrow(i)
  <2>1. key[1] = "tomorrow"
    BY DEF Tomorrow
  <2> HIDE DEF key
  <2>2. /\ DOMAIN emails' = DOMAIN emails \cup {key}
        /\ emails'[key] = [status |-> "pending", sentOn |-> -1]
        /\ \A k \in DOMAIN emails : emails'[k] = emails[k]
    BY <1>4, NewDay DEF key
  <2>3. Reminded' = Reminded /\ \A k \in Reminded : \A d : Long(k, d)' = Long(k, d)
    BY <2>1, <2>2 DEF Reminded, Long, Finished
  <2>4. \A k \in DOMAIN emails' : EmailOf(k)'
    BY <2>1, <2>2 DEF MailInv, MailTypes, EmailOf, Combined
  <2>5. ASSUME NEW q \in Processes PROVE DayOf(q)' /\ Holds(q)'
    BY <1>2, <2>2 DEF MailInv, MailTypes, DayOf, Holds, Active
  <2>6. ASSUME NEW q \in Processes, NEW u \in Processes PROVE Alone(q, u)'
    BY <1>2 DEF MailInv, MailTypes, Alone
  <2>7. MailTypes'
    BY <2>4, <2>5, <2>6 DEF MailInv, MailTypes
  <2>8. ASSUME ~crossed' PROVE Apart'
    <3>1. Apart
      BY <2>8 DEF MailInv
    <3>2. OneDay'
      BY <1>2, <3>1 DEF Apart, OneDay, Active
    <3>3. Past'
      BY <1>2, <2>3, <3>1 DEF Apart, Past, Active
    <3>4. Spaced'
      BY <2>3, <3>1 DEF Apart, Spaced
    <3>5. Late'
      BY <2>2, <2>3, <3>1 DEF Apart, Late, Reminded
    <3>6. Cleared'
      BY <1>2, <2>3, <3>1 DEF Apart, Cleared
    <3> QED
      BY <3>2, <3>3, <3>4, <3>5, <3>6 DEF Apart
  <2> QED
    BY <2>7, <2>8 DEF MailInv
<1> QED
  BY <1>3, <1>4

\* An overdue installment: the run asks whether the last email was long ago.
LEMMA Asks ==
  ASSUME MailInv, PushInv, PushInv', NEW p \in Processes, run[p].at = "item",
         run' = [run EXCEPT ![p].asked = TRUE,
                            ![p].at = IF MayRemind(run[p].day) THEN "queue" ELSE "push"],
         UNCHANGED <<clock, crossed, emails>>
  PROVE  MailInv'
<1> DEFINE at == IF MayRemind(run[p].day) THEN "queue" ELSE "push"
           r == [run[p] EXCEPT !.asked = TRUE, !.at = at]
<1>1. run' = [run EXCEPT ![p] = r]
  OBVIOUS
<1>2. DOMAIN run[p] = Fields
  BY DEF PushInv, RunOf
<1>3. r.at = at /\ r.day = run[p].day
  BY <1>2 DEF Fields
<1> HIDE DEF r
<1>4. at \in {"queue", "push"} /\ (at = "queue" <=> MayRemind(run[p].day))
  OBVIOUS
<1> HIDE DEF at
<1>5. run'[p].at = at /\ run'[p].day = run[p].day /\ \A q \in Processes : q # p => run'[q] = run[q]
  BY <1>1, <1>3, OneMoves
<1>6. CASE ~MayRemind(run[p].day)
  BY ONLY <1>4, <1>5, <1>6, MailAside, MailInv, PushInv', run[p].at = "item",
     UNCHANGED <<clock, crossed, emails>>
     DEF Active, MailInv, MailTypes
<1>7. CASE MayRemind(run[p].day)
  <2>1. \A k \in Reminded : Long(k, run[p].day)
    BY <1>7 DEF MayRemind, Long, Finished
  <2>2. Reminded' = Reminded /\ \A k, d : Long(k, d)' = Long(k, d)
    BY DEF Reminded, Long, Finished
  <2>3. \A q \in Processes : Active(q)' = Active(q) /\ run'[q].day = run[q].day
                             /\ (run'[q].at = "smtp" => run[q].at = "smtp" /\ run'[q].email = run[q].email)
    BY <1>5, <1>7, <1>4 DEF Active
  <2>4. MailTypes'
    <3>1. \A k \in DOMAIN emails' : EmailOf(k)'
      BY DEF MailInv, MailTypes, EmailOf, Combined
    <3>2. \A q \in Processes : DayOf(q)' /\ Holds(q)'
      BY <2>3 DEF MailInv, MailTypes, DayOf, Holds
    <3>3. \A q, u \in Processes : Alone(q, u)'
      BY <2>3 DEF MailInv, MailTypes, Alone
    <3> QED
      BY <3>1, <3>2, <3>3 DEF MailInv, MailTypes
  <2>5. ASSUME ~crossed' PROVE Apart'
    <3>1. Apart
      BY <2>5 DEF MailInv
    <3>2. OneDay' /\ Past'
      BY ONLY <2>2, <2>3, <3>1 DEF Apart, OneDay, Past
    <3>5. Spaced' /\ Late'
      BY <2>2, <3>1 DEF Apart, Spaced, Late
    <3>3. ASSUME NEW q \in Processes, NEW k \in Reminded, run'[q].at = "queue", k[3] # run'[q].day
          PROVE  Long(k, run'[q].day)
      BY <1>5, <1>4, <2>1, <3>1, <3>3 DEF Apart, Cleared
    <3>4. Cleared'
      BY <2>2, <3>3 DEF Cleared
    <3> QED
      BY <3>2, <3>4, <3>5 DEF Apart
  <2> QED
    BY <2>4, <2>5 DEF MailInv
<1> QED
  BY <1>6, <1>7

LEMMA QueueStep ==
  ASSUME MailInv, PushInv, PushInv', NEW p \in Processes, QueueReminder(p)
  PROVE  MailInv'
<1>1. PICK day, key : day = run[p].day /\ key = Combined(day)
  OBVIOUS
<1>2. /\ run[p].at = "queue" /\ emails' = Queued(key) /\ run' = [run EXCEPT ![p].at = "push"]
      /\ UNCHANGED <<clock, crossed>>
  BY <1>1 DEF QueueReminder, Go, doubts
<1>3. [run[p] EXCEPT !.at = "push"].at = "push" /\ [run[p] EXCEPT !.at = "push"].day = day
  BY <1>1, <1>2, Moving
<1>4. run'[p].at = "push" /\ run'[p].day = day /\ \A q \in Processes : q # p => run'[q] = run[q]
  BY <1>2, <1>3 DEF PushInv
<1>5. day \in Int /\ day <= clock /\ clock \in Int
  BY <1>1, <1>2 DEF MailInv, MailTypes, DayOf, Active
<1>6. key[1] = "overdue" /\ key[3] = day /\ key = Combined(key[3])
  BY <1>1 DEF Combined
<1>7. CASE key \in DOMAIN emails
  <2>1. emails' = emails
    BY <1>2, <1>7 DEF Queued
  <2> QED
    BY <1>2, <1>4, <1>5, <2>1, MailAside DEF Active
<1>8. CASE key \notin DOMAIN emails
  <2>1. /\ DOMAIN emails' = DOMAIN emails \cup {key}
        /\ emails'[key] = [status |-> "pending", sentOn |-> -1]
        /\ \A k \in DOMAIN emails : emails'[k] = emails[k]
    BY <1>2, <1>8, NewDay
  <2>2. Reminded' = Reminded \cup {key} /\ \A k \in Reminded : \A d : Long(k, d)' = Long(k, d)
    BY <1>6, <2>1 DEF Reminded, Long, Finished
  <2>3. EmailOf(key)'
    <3>1. DOMAIN emails'[key] = {"status", "sentOn"} /\ emails'[key].sentOn = -1
      BY <2>1
    <3> QED
      BY <1>2, <1>5, <1>6, <3>1 DEF EmailOf, Combined
  <2>4. \A k \in DOMAIN emails : EmailOf(k)'
    BY <1>2, <2>1 DEF MailInv, MailTypes, EmailOf, Combined
  <2>5. \A q \in Processes : DayOf(q)' /\ Holds(q)'
    BY <1>2, <1>4, <1>5, <2>1 DEF MailInv, MailTypes, DayOf, Holds, Active
  <2>6. \A q, u \in Processes : Alone(q, u)'
    BY <1>4 DEF MailInv, MailTypes, Alone
  <2>7. MailTypes'
    BY <1>2, <1>5, <2>1, <2>3, <2>4, <2>5, <2>6 DEF MailTypes
  <2>8. ASSUME ~crossed' PROVE Apart'
    <3>1. Apart /\ \A q \in Processes : Active(q)' => Active(q) /\ run'[q].day = day
      BY <1>1, <1>2, <1>4, <2>8 DEF MailInv, Apart, OneDay, Active
    <3>2. OneDay'
      BY <3>1 DEF OneDay
    <3>3. \A k \in Reminded : k[3] \in Int /\ k[3] <= day
      BY <1>1, <1>2, <3>1 DEF Apart, Past, MailInv, MailTypes, EmailOf, Reminded, Active
    <3>4. Past'
      BY <1>5, <1>6, <2>2, <3>1, <3>3 DEF Past
    <3>5. \A k \in Reminded : k[3] # day => Long(k, day)
      BY <1>1, <1>2, <3>1 DEF Apart, Cleared
    <3>6. Spaced'
      BY <1>5, <1>6, <2>2, <3>1, <3>3, <3>5 DEF Apart, Spaced
    <3>7. Late'
      BY <2>1, <2>2, <3>1 DEF Apart, Late, Reminded
    <3>8. Cleared'
      <4>1. \A q \in Processes : run'[q].at = "queue" => run'[q].day = day
        BY <3>1 DEF Active
      <4>2. \A k \in Reminded' : k[3] # day => k \in Reminded /\ Long(k, day)'
        BY <1>6, <2>2, <3>5
      <4> QED
        BY <4>1, <4>2 DEF Cleared
    <3> QED
      BY <3>2, <3>4, <3>6, <3>7, <3>8 DEF Apart
  <2> QED
    BY <2>7, <2>8 DEF MailInv
<1> QED
  BY <1>7, <1>8

LEMMA ClaimStep ==
  ASSUME MailInv, PushInv, PushInv', NEW p \in Processes, Claim(p)
  PROVE  MailInv'
<1>1. run[p].at = "mail" /\ UNCHANGED <<clock, crossed>> /\ DOMAIN run[p] = Fields
  BY DEF Claim, doubts, PushInv, RunOf
<1>2. PICK k \in run[p].batch :
        \/ /\ k \in Unfinished /\ ~Held(k)
           /\ emails' = [emails EXCEPT ![k].status = "sending"]
           /\ run' = [run EXCEPT ![p].at = "smtp", ![p].batch = @ \ {k}, ![p].email = k]
        \/ run' = [run EXCEPT ![p].batch = @ \ {k}] /\ UNCHANGED emails
  BY DEF Claim
<1>3. CASE run' = [run EXCEPT ![p].batch = @ \ {k}] /\ UNCHANGED emails
  <2> DEFINE r == [run[p] EXCEPT !.batch = @ \ {k}]
  <2>1. run' = [run EXCEPT ![p] = r]
    BY <1>3
  <2>2. r.at = "mail" /\ r.day = run[p].day
    BY <1>1 DEF Fields
  <2> HIDE DEF r
  <2>3. run'[p].at = "mail" /\ run'[p].day = run[p].day /\ \A q \in Processes : q # p => run'[q] = run[q]
    BY <1>1, <2>1, <2>2, OneMoves
  <2> QED
    BY <1>1, <1>3, <2>3, MailAside DEF Active, MailInv, MailTypes
<1>4. CASE /\ k \in Unfinished /\ ~Held(k)
           /\ emails' = [emails EXCEPT ![k].status = "sending"]
           /\ run' = [run EXCEPT ![p].at = "smtp", ![p].batch = @ \ {k}, ![p].email = k]
  <2> DEFINE r == [run[p] EXCEPT !.at = "smtp", !.batch = @ \ {k}, !.email = k]
             mail == [emails[k] EXCEPT !.status = "sending"]
  <2>1. run' = [run EXCEPT ![p] = r] /\ emails' = [emails EXCEPT ![k] = mail]
    BY <1>4
  <2>2. r.at = "smtp" /\ r.day = run[p].day /\ r.email = k
    BY <1>1 DEF Fields
  <2>3. k \in DOMAIN emails /\ ~Finished(k) /\ EmailOf(k)
    BY <1>4 DEF Unfinished, Finished, MailInv, MailTypes
  <2>4. mail.status = "sending" /\ mail.sentOn = emails[k].sentOn /\ DOMAIN mail = {"status", "sentOn"}
    BY <2>3 DEF EmailOf
  <2> HIDE DEF r, mail
  <2>5. /\ run'[p].at = "smtp" /\ run'[p].day = run[p].day /\ run'[p].email = k
        /\ \A q \in Processes : q # p => run'[q] = run[q]
    BY <1>1, <2>1, <2>2, OneMoves
  <2>6. DOMAIN emails' = DOMAIN emails /\ emails'[k] = mail /\ \A j \in DOMAIN emails : j # k => emails'[j] = emails[j]
    BY <2>1, <2>3
  <2>7. \A q \in Processes : run[q].at = "smtp" => run[q].email # k
    BY <1>4 DEF Held
  <2>8. \A j \in DOMAIN emails : EmailOf(j)'
    BY <1>1, <2>4, <2>6 DEF MailInv, MailTypes, EmailOf, Combined
  <2>9. \A q \in Processes : DayOf(q)' /\ Holds(q)'
    <3>1. \A q \in Processes : DayOf(q)'
      BY <1>1, <2>3, <2>5, <2>6 DEF MailInv, MailTypes, DayOf, Active
    <3>2. \A q \in Processes : Holds(q)'
      BY <1>1, <2>3, <2>4, <2>5, <2>6 DEF MailInv, MailTypes, DayOf, Holds
    <3> QED
      BY <3>1, <3>2
  <2>10. \A q, u \in Processes : Alone(q, u)'
    BY <2>5, <2>7 DEF MailInv, MailTypes, Alone
  <2>11. MailTypes'
    BY <1>1, <2>6, <2>8, <2>9, <2>10 DEF MailInv, MailTypes
  <2>12. ASSUME ~crossed' PROVE Apart'
    <3>1. Apart
      BY <1>1, <2>12 DEF MailInv
    <3>2. Reminded' = Reminded /\ \A j \in Reminded : \A d : Long(j, d) => Long(j, d)'
      BY <2>3, <2>6 DEF Reminded, Long, Finished
    <3>3. \A q \in Processes : Active(q)' = Active(q) /\ run'[q].day = run[q].day /\ (run'[q].at = "queue" => run[q].at = "queue")
      BY <1>1, <2>5 DEF Active
    <3>4. OneDay' /\ Past'
      BY <3>1, <3>2, <3>3 DEF Apart, OneDay, Past
    <3>7. Spaced'
      BY <3>1, <3>2 DEF Apart, Spaced
    <3>5. Late'
      BY <2>4, <2>6, <3>1, <3>2 DEF Apart, Late, Reminded
    <3>6. Cleared'
      BY <3>1, <3>2, <3>3 DEF Apart, Cleared
    <3> QED
      BY <3>4, <3>5, <3>6, <3>7 DEF Apart
  <2> QED
    BY <2>11, <2>12 DEF MailInv
<1> QED
  BY <1>2, <1>3, <1>4

LEMMA FinishStep ==
  ASSUME MailInv, PushInv, PushInv', NEW p \in Processes, FinishMail(p)
  PROVE  MailInv'
<1>1. PICK k, day : k = run[p].email /\ day = run[p].day
  OBVIOUS
<1> DEFINE r == [run[p] EXCEPT !.at = "mail", !.email = {}]
<1>2. /\ run[p].at = "smtp" /\ UNCHANGED <<clock, crossed>> /\ DOMAIN run[p] = Fields
      /\ run' = [run EXCEPT ![p] = r]
      /\ \/ emails' = [emails EXCEPT ![k] = [status |-> "sent", sentOn |-> day]]
         \/ emails' = [emails EXCEPT ![k].status = "pending"]
         \/ emails' = [emails EXCEPT ![k].status = "cancelled"]
  BY <1>1 DEF FinishMail, doubts, PushInv, RunOf
<1>3. k \in DOMAIN emails /\ EmailOf(k) /\ ~Finished(k) /\ day \in Int /\ day <= clock
  BY <1>1, <1>2 DEF MailInv, MailTypes, DayOf, Holds, Finished, Active
<1>4. PICK mail : /\ emails' = [emails EXCEPT ![k] = mail] /\ DOMAIN mail = {"status", "sentOn"}
                  /\ \/ mail.status = "sent" /\ mail.sentOn = day
                     \/ mail.status # "sent" /\ mail.sentOn = emails[k].sentOn
  <2>1. CASE emails' = [emails EXCEPT ![k] = [status |-> "sent", sentOn |-> day]]
    <3> DEFINE mail == [status |-> "sent", sentOn |-> day]
    <3>1. mail.status = "sent" /\ mail.sentOn = day /\ DOMAIN mail = {"status", "sentOn"}
      OBVIOUS
    <3>2. emails' = [emails EXCEPT ![k] = mail]
      BY <2>1
    <3> HIDE DEF mail
    <3> QED
      BY <3>1, <3>2
  <2>2. CASE emails' = [emails EXCEPT ![k].status = "pending"]
    <3> DEFINE mail == [emails[k] EXCEPT !.status = "pending"]
    <3>1. emails' = [emails EXCEPT ![k] = mail]
      BY <2>2
    <3>2. mail.status = "pending" /\ mail.sentOn = emails[k].sentOn /\ DOMAIN mail = {"status", "sentOn"}
      BY <1>3 DEF EmailOf
    <3> HIDE DEF mail
    <3> QED
      BY <3>1, <3>2
  <2>3. CASE emails' = [emails EXCEPT ![k].status = "cancelled"]
    <3> DEFINE mail == [emails[k] EXCEPT !.status = "cancelled"]
    <3>1. emails' = [emails EXCEPT ![k] = mail]
      BY <2>3
    <3>2. mail.status = "cancelled" /\ mail.sentOn = emails[k].sentOn /\ DOMAIN mail = {"status", "sentOn"}
      BY <1>3 DEF EmailOf
    <3> HIDE DEF mail
    <3> QED
      BY <3>1, <3>2
  <2> QED
    BY <1>2, <2>1, <2>2, <2>3
<1>5. r.at = "mail" /\ r.day = day
  BY <1>1, <1>2 DEF Fields
<1> HIDE DEF r
<1>6. run'[p].at = "mail" /\ run'[p].day = day /\ \A q \in Processes : q # p => run'[q] = run[q]
  BY <1>2, <1>5, OneMoves
<1>7. DOMAIN emails' = DOMAIN emails /\ emails'[k] = mail /\ \A j \in DOMAIN emails : j # k => emails'[j] = emails[j]
  BY <1>3, <1>4
<1>8. \A q \in Processes : q # p /\ run[q].at = "smtp" => run[q].email # k
  BY <1>1, <1>2 DEF MailInv, MailTypes, Alone
<1>9. \A q \in Processes : Active(q)' = Active(q) /\ run'[q].day = run[q].day
                           /\ (run'[q].at = "queue" => run[q].at = "queue")
  BY <1>1, <1>2, <1>6 DEF Active
<1>10. MailTypes'
  <2>1. \A j \in DOMAIN emails : EmailOf(j)'
    <3>1. EmailOf(k)'
      BY <1>2, <1>3, <1>4, <1>7 DEF EmailOf
    <3>2. \A j \in DOMAIN emails : j # k => EmailOf(j)'
      BY <1>2, <1>7 DEF MailInv, MailTypes, EmailOf, Combined
    <3> QED
      BY <3>1, <3>2
  <2>2. \A q \in Processes : DayOf(q)'
    BY <1>2, <1>3, <1>6, <1>7 DEF MailInv, MailTypes, DayOf, Active
  <2>3. \A q \in Processes : Holds(q)'
    BY <1>2, <1>6, <1>7, <1>8 DEF MailInv, MailTypes, Holds, DayOf
  <2>4. \A q, u \in Processes : Alone(q, u)'
    BY <1>6 DEF MailInv, MailTypes, Alone
  <2> QED
    BY <1>2, <1>7, <2>1, <2>2, <2>3, <2>4 DEF MailInv, MailTypes
<1>11. ASSUME ~crossed' PROVE Apart'
  <2>1. Apart
    BY <1>2, <1>11 DEF MailInv
  <2>2. Reminded' = Reminded /\ \A j \in Reminded : \A d : Long(j, d) => Long(j, d)'
    BY <1>3, <1>7 DEF Reminded, Long, Finished
  <2>3. OneDay' /\ Past'
    BY <1>9, <2>1, <2>2 DEF Apart, OneDay, Past
  <2>4. Spaced'
    BY <2>1, <2>2 DEF Apart, Spaced
  <2>5. k \in Reminded => k[3] <= day
    BY <1>1, <1>2, <2>1 DEF Apart, Past, Active
  <2>6. Late'
    BY <1>4, <1>7, <2>1, <2>2, <2>5 DEF Apart, Late, Reminded
  <2>7. Cleared'
    BY <1>9, <2>1, <2>2 DEF Apart, Cleared
  <2> QED
    BY <2>3, <2>4, <2>6, <2>7 DEF Apart
<1> QED
  BY <1>10, <1>11 DEF MailInv

\* The rest of a run touches no email.
LEMMA QuietStep ==
  ASSUME MailInv, PushInv, PushInv', NEW p \in Processes, UNCHANGED stage,
         Remind(p) \/ CheckPush(p) \/ Send(p) \/ Record(p) \/ BeginMail(p)
  PROVE  MailInv'
<1> USE DEF doubts, rows
<1>1. run[p].at \in {"item", "push", "send", "record"} /\ DOMAIN run[p] = Fields /\ UNCHANGED <<clock, crossed>>
  BY DEF PushInv, RunOf, Remind, CheckPush, Send, Record, BeginMail
<1>2. Done(p).at = "item" /\ Done(p).day = run[p].day
  BY ONLY <1>1 DEF Fields, Done
<1>3. \A at : [run[p] EXCEPT !.at = at].at = at /\ [run[p] EXCEPT !.at = at].day = run[p].day
  BY ONLY <1>1 DEF Fields
<1>4. ASSUME NEW r, run' = [run EXCEPT ![p] = r], UNCHANGED emails,
             r.at \notin {"queue", "smtp"}, r.at # "raised" => r.day = run[p].day
      PROVE  MailInv'
  <2>1. run'[p] = r /\ \A q \in Processes : q # p => run'[q] = run[q]
    BY <1>1, <1>4, OneMoves
  <2> QED
    BY <1>1, <1>4, <2>1, MailAside DEF Active, MailInv, MailTypes
<1>5. CASE CheckPush(p)
  <2>1. run' = [run EXCEPT ![p] = [run[p] EXCEPT !.at = "send"]] \/ run' = [run EXCEPT ![p] = Done(p)]
    BY <1>5 DEF CheckPush, Go, Set
  <2>2. UNCHANGED emails
    BY <1>5 DEF CheckPush
  <2> QED
    BY <1>2, <1>3, <1>4, <2>1, <2>2
<1>6. CASE Send(p)
  <2>1. run' = [run EXCEPT ![p] = [run[p] EXCEPT !.at = "record"]] \/ run' = [run EXCEPT ![p] = Done(p)]
    BY <1>6 DEF Send, Go, Set
  <2>2. UNCHANGED emails
    BY <1>6 DEF Send
  <2> QED
    BY <1>2, <1>3, <1>4, <2>1, <2>2
<1>7. CASE Record(p)
  <2>1. run' = [run EXCEPT ![p] = [at |-> "raised"]] \/ run' = [run EXCEPT ![p] = Done(p)]
    BY <1>7 DEF Record, Set
  <2>2. UNCHANGED emails
    BY <1>7 DEF Record
  <2> QED
    BY <1>2, <1>4, <2>1, <2>2
<1>8. CASE BeginMail(p)
  <2> DEFINE r == [run[p] EXCEPT !.at = "mail", !.batch = Unfinished]
  <2>1. UNCHANGED emails /\ run' = [run EXCEPT ![p] = r]
    BY <1>8 DEF BeginMail
  <2>2. r.at = "mail" /\ r.day = run[p].day
    BY <1>1 DEF Fields
  <2> HIDE DEF r
  <2> QED
    BY <1>4, <2>1, <2>2
<1>9. CASE Remind(p)
  <2>1. run[p].at = "item"
    BY <1>9 DEF Remind
  <2>2. CASE emails' = Queued(Tomorrow(Item(p))) /\ Go(p, "push")
    BY <1>1, <2>1, <2>2, RemindsTomorrow DEF Go
  <2>3. CASE /\ UNCHANGED emails
             /\ run' = [run EXCEPT ![p].asked = TRUE,
                                   ![p].at = IF MayRemind(run[p].day) THEN "queue" ELSE "push"]
    BY <1>1, <2>1, <2>3, Asks
  <2>4. CASE Go(p, "push") /\ UNCHANGED emails
    <3>1. run' = [run EXCEPT ![p] = [run[p] EXCEPT !.at = "push"]]
      BY <2>4 DEF Go
    <3> QED
      BY <1>3, <1>4, <2>4, <3>1
  <2> QED
    BY <1>9, <2>2, <2>3, <2>4 DEF Remind
<1> QED
  BY <1>5, <1>6, <1>7, <1>8, <1>9

\* A process begins or ends something, or dies.
LEMMA TurnMail ==
  ASSUME MailInv, PushInv, PushInv', NEW p \in Processes,
         StartSweep(p) \/ EndSweep(p) \/ StartRun(p) \/ FinishRun(p) \/ Raised(p) \/ Dies(p)
  PROVE  MailInv'
<1> USE DEF reminders, rows, doubts
<1>1. UNCHANGED <<clock, emails>> /\ clock \in Int
  BY DEF StartSweep, EndSweep, StartRun, FinishRun, Raised, Dies, MailInv, MailTypes
<1>2. CASE StartSweep(p) \/ EndSweep(p)
  BY <1>1, <1>2, MailAside DEF StartSweep, EndSweep
<1>3. CASE StartRun(p)
  <2> DEFINE r == [at |-> "item", day |-> clock, todo |-> installments \ paid, asked |-> FALSE,
                   batch |-> {}, email |-> {}]
  <2>1. run' = [run EXCEPT ![p] = r] /\ crossed' = (crossed \/ \E q \in Running : run[q].day # clock)
    BY <1>3 DEF StartRun, BeginRun, Set
  <2>2. r.at = "item" /\ r.day = clock
    OBVIOUS
  <2> HIDE DEF r
  <2>3. run'[p] = r /\ \A q \in Processes : q # p => run'[q] = run[q]
    BY <2>1 DEF PushInv
  <2>4. (crossed => crossed') /\ (~crossed' => \A q \in Processes : Active(q) => run[q].day = clock)
    BY <2>1 DEF Running, Active
  <2>5. \A q \in Processes :
          \/ run'[q] = run[q]
          \/ /\ run'[q].at \notin {"queue", "smtp"}
             /\ run'[q].day = clock /\ (~crossed' => \A u \in Processes : Active(u) => run[u].day = clock)
    BY <2>2, <2>3, <2>4
  <2>6. clock' \in Int /\ clock <= clock'
    BY <1>1
  <2> QED
    BY <1>1, <2>4, <2>5, <2>6, MailAside
<1>4. CASE FinishRun(p) \/ Raised(p) \/ Dies(p)
  <2>1. run' = [run EXCEPT ![p] = NoRun] /\ crossed' = crossed
    BY <1>4 DEF FinishRun, EndRun, Raised, Dies, Ended, RunDies, Set
  <2>2. NoRun.at = "off"
    BY DEF NoRun
  <2>3. run'[p] = NoRun /\ \A q \in Processes : q # p => run'[q] = run[q]
    BY <2>1 DEF PushInv
  <2> QED
    BY <1>1, <2>1, <2>2, <2>3, MailAside DEF Active
<1> QED
  BY <1>2, <1>3, <1>4

LEMMA MailSteps == PushInv /\ PushInv' /\ MailInv /\ [Next]_vars => MailInv'
<1> SUFFICES ASSUME PushInv, PushInv', MailInv, [Next]_vars PROVE MailInv'
  OBVIOUS
<1> USE DEF reminders, rows, doubts, loop
<1>1. CASE UNCHANGED <<run, emails, crossed>> /\ clock' \in Int /\ clock <= clock'
  BY <1>1, MailAside
<1>2. ASSUME NEW p \in Processes, RunStep(p), UNCHANGED stage PROVE MailInv'
  BY <1>2, QuietStep, QueueStep, ClaimStep, FinishStep DEF RunStep
<1>3. clock \in Int
  BY DEF MailInv, MailTypes
<1>4. CASE Restart \/ TenMinutes \/ Users
  BY <1>1, <1>3, <1>4 DEF Restart, TenMinutes, Users, DayPasses, Subscribe, Pay
<1>5. ASSUME NEW p \in Processes, SweepStep(p) /\ UNCHANGED <<reminders, loop>> PROVE MailInv'
  BY <1>1, <1>3, <1>5
<1>6. CASE UNCHANGED vars
  BY <1>1, <1>3, <1>6 DEF vars
<1> QED
  BY <1>2, <1>4, <1>5, <1>6, TurnMail DEF Next, Step

\* Overdue emails of a loan are sent Interval days apart, unless runs overlap that began on
\* different days.
THEOREM RemindersStayApart == Spec => []RemindersApart
<1>1. Init => PushInv
  BY DEF Init, InitReminders, NoRun, PushInv, RunOf, First, Single, Pushing, Sent
<1>2. Init => MailInv
  BY DEF Init, InitReminders, NoRun, MailInv, MailTypes, Apart, DayOf, Holds, Alone, Active, OneDay, Past,
         Spaced, Late, Cleared, Reminded
<1>3. MailInv => RemindersApart
  <2> SUFFICES ASSUME MailInv, ~crossed, NEW j \in Reminded, NEW k \in Reminded,
                      emails[j].status = "sent", emails[k].status = "sent", j[3] < k[3]
               PROVE  emails[k].sentOn - emails[j].sentOn >= Interval
    BY DEF RemindersApart
  <2>1. Long(j, k[3]) /\ emails[k].sentOn >= k[3]
    BY DEF MailInv, Apart, Spaced, Late
  <2>2. k[3] \in Int /\ emails[k].sentOn \in Int /\ emails[j].sentOn \in Int
    BY DEF MailInv, MailTypes, EmailOf, Reminded
  <2> QED
    BY <2>1, <2>2, RemindersAssumption DEF Long
<1> QED
  BY <1>1, <1>2, <1>3, PushStep, MailSteps, PTL DEF Spec
=============================================================================
