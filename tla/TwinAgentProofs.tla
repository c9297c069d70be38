-------------------------- MODULE TwinAgentProofs --------------------------
(***************************************************************************)
(* The twin agent, for all sets of jobs and threads and all limits of the  *)
(* feed and the lists. The relay implements AskAndAnswer; the page handles *)
(* what the relay says at most once while it stays mounted, and skips no   *)
(* reply while the relay stays up.                                         *)
(***************************************************************************)
EXTENDS TwinAgent, SequenceTheorems, FiniteSetTheorems, TLAPS

(* What the argument needs of the types: nothing of the feed, and of a request *)
(* only that it has its fields.                                                *)
Fields == {"pc", "todo", "job", "op"}

RelayTypeOK ==
    /\ jobs \in Seq(Job)
    /\ issued \in SUBSET Jobs
    /\ posted \in Seq([kind : Kinds, job : Jobs])
    /\ DOMAIN call = Threads
    /\ \A t \in Threads :
          /\ Fields \subseteq DOMAIN call[t]
          /\ call[t].todo \subseteq Jobs
          /\ call[t].pc \in {"reply", "commands"} => call[t].job \in Jobs
          /\ call[t].pc # "announce" => call[t].todo = {}

\* Thread t is about to answer question j, or to post its commands.
OwesReply(t, j) == j \in call[t].todo \/ (call[t].pc = "reply" /\ call[t].job = j)
OwesCommands(t, j) == call[t].pc \in {"reply", "commands"} /\ call[t].job = j

IsAnswered(j) == \E i \in DOMAIN posted : posted[i] = [kind |-> "reply", job |-> j]
IsCommanded(j) == \E i \in DOMAIN posted : posted[i] = [kind |-> "commands", job |-> j]

\* A job is tracked once, and after its id was issued.
JobsDistinct ==
    /\ \A i, k \in DOMAIN jobs : jobs[i].id = jobs[k].id => i = k
    /\ \A i \in DOMAIN jobs : jobs[i].id \in issued

\* Only issued ids are owed or said anything.
OnlyIssued ==
    /\ \A t \in Threads, j \in Jobs : OwesReply(t, j) \/ OwesCommands(t, j) => j \in issued
    /\ \A i \in DOMAIN posted : posted[i].job \in issued

\* A live job is nobody's debt yet, and nothing was said of it.
LiveUntouched ==
    \A i \in DOMAIN jobs : jobs[i].status \in Live =>
        /\ \A t \in Threads : ~OwesReply(t, jobs[i].id) /\ ~OwesCommands(t, jobs[i].id)
        /\ ~IsAnswered(jobs[i].id) /\ ~IsCommanded(jobs[i].id)

\* At most one thread owes an answer, and it was not said yet.
OneDebtor ==
    /\ \A t, u \in Threads, j \in Jobs :
          /\ (OwesReply(t, j) /\ OwesReply(u, j) => t = u)
          /\ (OwesCommands(t, j) /\ OwesCommands(u, j) => t = u)
    /\ \A t \in Threads, j \in Jobs :
          /\ OwesReply(t, j) => ~IsAnswered(j)
          /\ OwesCommands(t, j) => ~IsCommanded(j)

\* The reply comes before the commands.
ReplyFirst == \A t \in Threads : call[t].pc = "commands" => IsAnswered(call[t].job)

RelayInv ==
    /\ RelayTypeOK /\ JobsDistinct /\ OnlyIssued /\ LiveUntouched /\ OneDebtor /\ ReplyFirst

USE DEF Fields

-----------------------------------------------------------------------------
(* The initial state, and the steps that touch neither jobs nor feed.         *)

LEMMA InitRelay == ServerInit => RelayInv
  BY DEF ServerInit, RelayInv, RelayTypeOK, JobsDistinct, OnlyIssued, LiveUntouched,
         OneDebtor, ReplyFirst, OwesReply, OwesCommands, IsAnswered, IsCommanded, Free

\* What the invariant says depends on these four variables only.
LEMMA QuietRelay ==
    ASSUME RelayInv, UNCHANGED <<jobs, call, issued, posted>>
    PROVE  RelayInv'
  BY DEF RelayInv, RelayTypeOK, JobsDistinct, OnlyIssued, LiveUntouched,
         OneDebtor, ReplyFirst, OwesReply, OwesCommands, IsAnswered, IsCommanded

\* A thread that takes up a request, or is done with one, owes nothing.
LEMMA CallRelay ==
    ASSUME RelayInv, NEW t \in Threads, NEW c,
           call' = [call EXCEPT ![t] = c],
           Fields \subseteq DOMAIN c, c.todo = {}, c.pc \notin {"reply", "commands"},
           UNCHANGED <<jobs, issued, posted>>
    PROVE  RelayInv'
  BY DEF RelayInv, RelayTypeOK, JobsDistinct, OnlyIssued, LiveUntouched,
         OneDebtor, ReplyFirst, OwesReply, OwesCommands, IsAnswered, IsCommanded

LEMMA EnqueueRelay ==
    ASSUME RelayInv, NEW j \in Jobs, EnqueueJob(j)
    PROVE  RelayInv'
<1>1. [id |-> j, status |-> "pending"] \in Job
  BY DEF Job, Live
<1>2. /\ jobs' \in Seq(Job)
      /\ Len(jobs') = Len(jobs) + 1
      /\ \A i \in DOMAIN jobs : jobs'[i] = jobs[i]
      /\ jobs'[Len(jobs) + 1] = [id |-> j, status |-> "pending"]
  BY <1>1, AppendProperties DEF RelayInv, RelayTypeOK, EnqueueJob
<1>3. \A i \in DOMAIN jobs' : i \in DOMAIN jobs \/ i = Len(jobs) + 1
  BY <1>2, LenProperties DEF RelayInv, RelayTypeOK
<1>4. issued' = issued \cup {j} /\ j \notin issued /\ UNCHANGED <<call, posted>>
  BY DEF EnqueueJob
<1>5. RelayTypeOK'
  BY <1>2, <1>4 DEF RelayInv, RelayTypeOK
<1>6. JobsDistinct'
  BY <1>2, <1>3, <1>4 DEF RelayInv, JobsDistinct
<1>7. OnlyIssued' /\ OneDebtor' /\ ReplyFirst'
  BY <1>4 DEF RelayInv, OnlyIssued, OneDebtor, ReplyFirst, OwesReply, OwesCommands, IsAnswered, IsCommanded
<1>8. \A t \in Threads : ~OwesReply(t, j) /\ ~OwesCommands(t, j)
  BY <1>4 DEF RelayInv, OnlyIssued
<1>9. ~IsAnswered(j) /\ ~IsCommanded(j)
  BY <1>4 DEF RelayInv, OnlyIssued, IsAnswered, IsCommanded
<1>10. LiveUntouched'
  BY <1>2, <1>3, <1>4, <1>8, <1>9 DEF RelayInv, LiveUntouched, OwesReply, OwesCommands, IsAnswered, IsCommanded
<1> QED
  BY <1>5, <1>6, <1>7, <1>10 DEF RelayInv

-----------------------------------------------------------------------------
(* The sweep.                                                                *)

LEMMA LastOfFacts ==
    ASSUME NEW S, NEW s \in Seq(S), NEW n \in Nat \ {0}
    PROVE  /\ LastOf(n, s) \in Seq(S)
           /\ \E off \in Nat : \A i \in DOMAIN LastOf(n, s) :
                 i + off \in DOMAIN s /\ LastOf(n, s)[i] = s[i + off]
<1> DEFINE first == IF Len(s) > n THEN Len(s) - n + 1 ELSE 1
<1>1. first \in Nat \ {0} /\ Len(s) \in Nat /\ DOMAIN s = 1..Len(s)
  BY LenProperties
<1>2. \A i \in first..Len(s) : s[i] \in S
  BY <1>1, ElementOfSeq
<1>3. LastOf(n, s) = SubSeq(s, first, Len(s))
  BY DEF LastOf
<1> HIDE DEF first
<1>4. /\ SubSeq(s, first, Len(s)) \in Seq(S)
      /\ Len(SubSeq(s, first, Len(s))) = IF first <= Len(s) THEN Len(s) - first + 1 ELSE 0
      /\ \A i \in 1..(Len(s) - first + 1) : SubSeq(s, first, Len(s))[i] = s[first + i - 1]
  BY <1>1, <1>2, SubSeqProperties
<1>5. \A i \in DOMAIN LastOf(n, s) : i \in 1..(Len(s) - first + 1)
  BY <1>1, <1>3, <1>4, LenProperties
<1>6. first - 1 \in Nat
  BY <1>1
<1>7. \A i \in DOMAIN LastOf(n, s) :
         i + (first - 1) \in DOMAIN s /\ LastOf(n, s)[i] = s[i + (first - 1)]
  <2> TAKE i \in DOMAIN LastOf(n, s)
  <2>1. i \in 1..(Len(s) - first + 1)
    BY <1>5
  <2>2. first + i - 1 = i + (first - 1) /\ i + (first - 1) \in 1..Len(s)
    BY <1>1, <2>1
  <2> QED
    BY <1>1, <1>3, <1>4, <2>1, <2>2
<1> QED
  BY <1>3, <1>4, <1>6, <1>7

LEMMA SweepRelay ==
    ASSUME RelayInv, NEW t \in Threads, Sweep(t)
    PROVE  RelayInv'
<1> DEFINE after == [i \in DOMAIN jobs |-> Swept(jobs[i])]
<1>1. jobs \in Seq(Job) /\ UNCHANGED <<issued, posted>>
  BY DEF RelayInv, RelayTypeOK, Sweep
<1>2. /\ DOMAIN after = DOMAIN jobs
      /\ \A i \in DOMAIN jobs :
            /\ after[i] \in Job /\ after[i].id = jobs[i].id
            /\ after[i].status \in Live => jobs[i].status \in Live /\ ~Expired(jobs[i])
  <2>1. \A i \in DOMAIN jobs : jobs[i] \in Job
    BY <1>1, ElementOfSeq, LenProperties
  <2> QED
    BY <2>1 DEF Swept, Expired, Job, Live
<1>3. after \in Seq(Job)
  BY <1>1, <1>2, LenProperties, SeqDef
<1>4. jobs' = LastOf(MaxTracked, after)
  BY DEF Sweep
<1>5. jobs' \in Seq(Job)
  BY <1>3, <1>4, LastOfFacts, ServerAssumption
<1> HIDE DEF after
<1>6. PICK off \in Nat : \A i \in DOMAIN jobs' :
         i + off \in DOMAIN after /\ jobs'[i] = after[i + off]
  BY <1>3, <1>4, LastOfFacts, ServerAssumption
<1>7. \A i \in DOMAIN jobs' :
         /\ i + off \in DOMAIN jobs /\ jobs'[i].id = jobs[i + off].id
         /\ jobs'[i].status \in Live => jobs[i + off].status \in Live /\ ~Expired(jobs[i + off])
  BY <1>2, <1>6
<1>8. \A i \in DOMAIN jobs' : i \in Nat
  BY <1>5, LenProperties
<1>9. JobsDistinct'
  <2>1. \A i, k \in DOMAIN jobs' : jobs'[i].id = jobs'[k].id => i + off = k + off
    BY <1>7 DEF RelayInv, JobsDistinct
  <2>2. \A i, k \in DOMAIN jobs' : i + off = k + off => i = k
    BY <1>6, <1>8
  <2> QED
    BY <1>1, <1>7, <2>1, <2>2 DEF RelayInv, JobsDistinct
<1>10. /\ call' = [call EXCEPT ![t].pc = "announce", ![t].todo = ExpiredIds]
       /\ call[t].pc = "sweep"
  BY DEF Sweep
<1>11. /\ DOMAIN call' = Threads
       /\ \A u \in Threads : u # t => call'[u] = call[u]
       /\ call'[t].pc = "announce" /\ call'[t].todo = ExpiredIds
       /\ Fields \subseteq DOMAIN call'[t]
  BY <1>10 DEF RelayInv, RelayTypeOK
<1>12. \A j \in ExpiredIds :
          /\ j \in Jobs /\ j \in issued
          /\ \A u \in Threads : ~OwesReply(u, j)
          /\ ~IsAnswered(j)
  <2>1. \A i \in DOMAIN jobs : jobs[i] \in Job
    BY <1>1, ElementOfSeq, LenProperties
  <2> QED
    BY <2>1 DEF ExpiredIds, Expired, RelayInv, JobsDistinct, LiveUntouched, Job
<1>13. RelayTypeOK'
  BY <1>1, <1>5, <1>11, <1>12 DEF RelayInv, RelayTypeOK
<1>14. OnlyIssued'
  BY <1>1, <1>11, <1>12 DEF RelayInv, OnlyIssued, OwesReply, OwesCommands
<1>15. OneDebtor'
  BY <1>1, <1>11, <1>12 DEF RelayInv, OneDebtor, LiveUntouched, OwesReply, OwesCommands, IsAnswered, IsCommanded
<1>16. LiveUntouched'
  <2>1. ASSUME NEW i \in DOMAIN jobs', jobs'[i].status \in Live, NEW j \in Jobs, j = jobs'[i].id
        PROVE  j \notin ExpiredIds
    <3>1. \A k \in DOMAIN jobs : Expired(jobs[k]) => jobs[k].id # jobs'[i].id
      BY <1>7, <2>1 DEF RelayInv, JobsDistinct
    <3> QED
      BY <3>1, <2>1 DEF ExpiredIds
  <2>2. \A i \in DOMAIN jobs' : jobs'[i].id \in Jobs
    <3>1. \A i \in DOMAIN jobs' : jobs'[i] \in Job
      BY <1>5, ElementOfSeq, LenProperties
    <3> QED
      BY <3>1 DEF Job
  <2>3. ASSUME NEW i \in DOMAIN jobs', jobs'[i].status \in Live, NEW j \in Jobs, j = jobs'[i].id
        PROVE  /\ \A u \in Threads : ~OwesReply(u, j)' /\ ~OwesCommands(u, j)'
               /\ ~IsAnswered(j)' /\ ~IsCommanded(j)'
    BY <1>1, <1>7, <1>11, <2>1, <2>3 DEF RelayInv, LiveUntouched, OwesReply, OwesCommands, IsAnswered, IsCommanded
  <2> QED
    BY <2>2, <2>3 DEF LiveUntouched, OwesReply, OwesCommands, IsAnswered, IsCommanded
<1>17. ReplyFirst'
  BY <1>1, <1>11 DEF RelayInv, ReplyFirst, IsAnswered
<1> QED
  BY <1>9, <1>13, <1>14, <1>15, <1>16, <1>17 DEF RelayInv

-----------------------------------------------------------------------------
(* Claiming and completing.                                                  *)

LEMMA StatusRelay ==
    ASSUME RelayInv, NEW i \in DOMAIN jobs, NEW s \in {"claimed", "done"},
           jobs' = [jobs EXCEPT ![i].status = s]
    PROVE  /\ jobs' \in Seq(Job)
           /\ DOMAIN jobs' = DOMAIN jobs
           /\ \A k \in DOMAIN jobs : /\ jobs[k].id \in Jobs
                                     /\ jobs'[k].id = jobs[k].id
                                     /\ k # i => jobs'[k] = jobs[k]
           /\ jobs'[i].status = s
<1>1. jobs \in Seq(Job)
  BY DEF RelayInv, RelayTypeOK
<1>2. \A k \in DOMAIN jobs : jobs[k] \in Job
  BY <1>1, ElementOfSeq, LenProperties
<1>3. [jobs[i] EXCEPT !.status = s] \in Job
  BY <1>2 DEF Job, Live
<1>4. jobs' \in Seq(Job)
  BY <1>1, <1>3, ExceptSeq, LenProperties
<1> QED
  BY <1>1, <1>2, <1>4 DEF Job

LEMMA ClaimRelay ==
    ASSUME RelayInv, NEW t \in Threads, Claim(t)
    PROVE  RelayInv'
<1>1. DOMAIN call = Threads /\ Fields \subseteq DOMAIN call[t]
  BY DEF RelayInv, RelayTypeOK
<1>2. CASE UNCHANGED jobs /\ call' = [call EXCEPT ![t].pc = "answer"]
  <2> DEFINE c == [call[t] EXCEPT !.pc = "answer"]
  <2>1. Fields \subseteq DOMAIN c /\ c.todo = {} /\ c.pc = "answer"
    BY <1>1 DEF Claim
  <2>2. call' = [call EXCEPT ![t] = c] /\ UNCHANGED <<jobs, issued, posted>>
    BY <1>2 DEF Claim
  <2> HIDE DEF c
  <2> QED
    BY <2>1, <2>2, CallRelay
<1>3. ASSUME NEW i \in DOMAIN jobs, FirstPending(i),
             jobs' = [jobs EXCEPT ![i].status = "claimed"],
             call' = [call EXCEPT ![t].pc = "answer", ![t].job = jobs[i].id]
      PROVE  RelayInv'
  <2>1. /\ DOMAIN call' = Threads
        /\ \A u \in Threads : u # t => call'[u] = call[u]
        /\ call'[t].pc = "answer" /\ call'[t].todo = {}
        /\ Fields \subseteq DOMAIN call'[t]
    BY <1>1, <1>3 DEF Claim
  <2>2. UNCHANGED <<issued, posted>>
    BY DEF Claim
  <2>3. /\ jobs' \in Seq(Job) /\ DOMAIN jobs' = DOMAIN jobs
        /\ \A k \in DOMAIN jobs : /\ jobs[k].id \in Jobs
                                  /\ jobs'[k].id = jobs[k].id
                                  /\ jobs'[k].status \in Live => jobs[k].status \in Live
    BY <1>3, StatusRelay DEF FirstPending, Live
  <2>4. RelayTypeOK' /\ JobsDistinct'
    BY <2>1, <2>2, <2>3 DEF RelayInv, RelayTypeOK, JobsDistinct
  <2>5. OnlyIssued' /\ OneDebtor' /\ ReplyFirst'
    BY <2>1, <2>2 DEF RelayInv, OnlyIssued, OneDebtor, ReplyFirst,
                      OwesReply, OwesCommands, IsAnswered, IsCommanded
  <2>6. LiveUntouched'
    BY <2>1, <2>2, <2>3 DEF RelayInv, LiveUntouched, OwesReply, OwesCommands, IsAnswered, IsCommanded
  <2> QED
    BY <2>4, <2>5, <2>6 DEF RelayInv
<1> QED
  BY <1>2, <1>3 DEF Claim

LEMMA CompleteRelay ==
    ASSUME RelayInv, NEW t \in Threads, Complete(t)
    PROVE  RelayInv'
<1>1. DOMAIN call = Threads /\ Fields \subseteq DOMAIN call[t] /\ call[t].todo = {}
  BY DEF RelayInv, RelayTypeOK, Complete
<1>2. UNCHANGED <<issued, posted>>
  BY DEF Complete
<1>3. ASSUME UNCHANGED jobs, NEW code,
             call' = [call EXCEPT ![t].pc = "answer", ![t].code = code]
      PROVE  RelayInv'
  <2> DEFINE c == [call[t] EXCEPT !.pc = "answer", !.code = code]
  <2>1. Fields \subseteq DOMAIN c /\ c.todo = {} /\ c.pc = "answer"
    BY <1>1
  <2>2. call' = [call EXCEPT ![t] = c]
    BY <1>3
  <2> QED
    BY <1>2, <1>3, <2>1, <2>2, CallRelay
<1>4. ASSUME NEW i \in DOMAIN jobs, Tracked(call[t].job, i), MayComplete(jobs[i]),
             jobs' = [jobs EXCEPT ![i].status = "done"],
             call' = [call EXCEPT ![t].pc = "reply"]
      PROVE  RelayInv'
  <2>1. /\ DOMAIN call' = Threads
        /\ \A u \in Threads : u # t => call'[u] = call[u]
        /\ call'[t].pc = "reply" /\ call'[t].todo = {}
        /\ call'[t].job = jobs[i].id
        /\ Fields \subseteq DOMAIN call'[t]
    BY <1>1, <1>4 DEF Tracked
  <2>2. /\ jobs' \in Seq(Job) /\ DOMAIN jobs' = DOMAIN jobs
        /\ \A k \in DOMAIN jobs : /\ jobs[k].id \in Jobs
                                  /\ jobs'[k].id = jobs[k].id
                                  /\ k # i => jobs'[k] = jobs[k]
        /\ jobs'[i].status = "done"
    BY <1>4, StatusRelay
  <2>3. /\ \A u \in Threads : ~OwesReply(u, jobs[i].id) /\ ~OwesCommands(u, jobs[i].id)
        /\ ~IsAnswered(jobs[i].id) /\ ~IsCommanded(jobs[i].id)
        /\ jobs[i].id \in issued
    BY <1>4 DEF RelayInv, LiveUntouched, JobsDistinct, MayComplete, Live
  <2>4. JobsDistinct'
    BY <1>2, <2>2 DEF RelayInv, JobsDistinct
  <2>8. RelayTypeOK'
    BY <1>2, <2>1, <2>2 DEF RelayInv, RelayTypeOK
  <2>5. OnlyIssued' /\ ReplyFirst'
    BY <1>2, <2>1, <2>3 DEF RelayInv, OnlyIssued, ReplyFirst, OwesReply, OwesCommands, IsAnswered
  <2>6. OneDebtor'
    BY <1>2, <2>1, <2>3 DEF RelayInv, OneDebtor, OwesReply, OwesCommands, IsAnswered, IsCommanded
  <2>7. LiveUntouched'
    <3>1. \A k \in DOMAIN jobs' : jobs'[k].status \in Live =>
             k # i /\ jobs[k].status \in Live /\ jobs[k].id # jobs[i].id
      BY <2>2 DEF RelayInv, JobsDistinct, Live
    <3> QED
      BY <1>2, <2>1, <2>2, <3>1
         DEF RelayInv, LiveUntouched, OwesReply, OwesCommands, IsAnswered, IsCommanded
  <2> QED
    BY <2>4, <2>5, <2>6, <2>7, <2>8 DEF RelayInv
<1> QED
  BY <1>3, <1>4 DEF Complete

-----------------------------------------------------------------------------
(* Saying something.                                                         *)

LEMMA PostFacts ==
    ASSUME RelayInv, NEW j \in Jobs, NEW kind \in Kinds, Post(kind, j)
    PROVE  /\ posted' \in Seq([kind : Kinds, job : Jobs])
           /\ \A i \in DOMAIN posted : i \in DOMAIN posted' /\ posted'[i] = posted[i]
           /\ \A i \in DOMAIN posted' : i \in DOMAIN posted \/ posted'[i] = [kind |-> kind, job |-> j]
           /\ \E i \in DOMAIN posted' : posted'[i] = [kind |-> kind, job |-> j]
<1> DEFINE e == [kind |-> kind, job |-> j]
<1>1. e \in [kind : Kinds, job : Jobs] /\ posted \in Seq([kind : Kinds, job : Jobs])
  BY DEF RelayInv, RelayTypeOK
<1>2. posted' = Append(posted, e)
  BY DEF Post
<1> HIDE DEF e
<1>3. /\ posted' \in Seq([kind : Kinds, job : Jobs])
      /\ Len(posted') = Len(posted) + 1
      /\ \A i \in DOMAIN posted : posted'[i] = posted[i]
      /\ posted'[Len(posted) + 1] = e
  BY <1>1, <1>2, AppendProperties
<1>4. /\ DOMAIN posted = 1..Len(posted) /\ Len(posted) \in Nat
      /\ DOMAIN posted' = 1..(Len(posted) + 1)
  BY <1>1, <1>3, LenProperties
<1> QED
  BY <1>3, <1>4 DEF e

LEMMA AnnounceRelay ==
    ASSUME RelayInv, NEW t \in Threads, Announce(t)
    PROVE  RelayInv' /\ \E j \in Jobs : Promise!Answer(j)
<1>1. /\ DOMAIN call = Threads /\ Fields \subseteq DOMAIN call[t]
      /\ call[t].pc = "announce" /\ call[t].todo \subseteq Jobs
  BY DEF RelayInv, RelayTypeOK, Announce
<1>2. PICK j \in call[t].todo :
         Post("reply", j) /\ call' = [call EXCEPT ![t].todo = @ \ {j}]
  BY DEF Announce
<1>3. j \in Jobs /\ UNCHANGED <<jobs, issued>>
  BY <1>1, <1>2 DEF Announce
<1>4. /\ DOMAIN call' = Threads
      /\ \A u \in Threads : u # t => call'[u] = call[u]
      /\ call'[t].pc = "announce" /\ call'[t].todo = call[t].todo \ {j}
      /\ call'[t].job = call[t].job
      /\ Fields \subseteq DOMAIN call'[t]
  BY <1>1, <1>2
<1>5. OwesReply(t, j) /\ ~IsAnswered(j) /\ j \in issued
  BY <1>2, <1>3 DEF RelayInv, OneDebtor, OnlyIssued, OwesReply
<1>6. /\ posted' \in Seq([kind : Kinds, job : Jobs])
      /\ \A i \in DOMAIN posted : i \in DOMAIN posted' /\ posted'[i] = posted[i]
      /\ \A i \in DOMAIN posted' : i \in DOMAIN posted \/ posted'[i] = [kind |-> "reply", job |-> j]
  BY <1>2, <1>3, PostFacts DEF Kinds
<1>7. RelayTypeOK' /\ JobsDistinct'
  BY <1>3, <1>4, <1>6 DEF RelayInv, RelayTypeOK, JobsDistinct
<1>8. OnlyIssued'
  BY <1>3, <1>4, <1>5, <1>6 DEF RelayInv, OnlyIssued, OwesReply, OwesCommands
<1>9. ReplyFirst'
  BY <1>4, <1>6 DEF RelayInv, ReplyFirst, IsAnswered
<1>10. OneDebtor'
  BY <1>4, <1>5, <1>6 DEF RelayInv, OneDebtor, OwesReply, OwesCommands, IsAnswered, IsCommanded
<1>11. LiveUntouched'
  <2>1. \A i \in DOMAIN jobs : jobs[i].status \in Live => jobs[i].id # j
    BY <1>5 DEF RelayInv, LiveUntouched
  <2> QED
    BY <1>3, <1>4, <1>6, <2>1
       DEF RelayInv, LiveUntouched, OwesReply, OwesCommands, IsAnswered, IsCommanded
<1>12. Promise!Answer(j)
  BY <1>2, <1>3, <1>5 DEF Post, Promise!Answer, Promise!Said, Promise!Reply, IsAnswered
<1> QED
  BY <1>3, <1>7, <1>8, <1>9, <1>10, <1>11, <1>12 DEF RelayInv

LEMMA ReplyRelay ==
    ASSUME RelayInv, NEW t \in Threads, PostReply(t)
    PROVE  RelayInv' /\ \E j \in Jobs : Promise!Answer(j)
<1> DEFINE j == call[t].job
<1>1. /\ DOMAIN call = Threads /\ Fields \subseteq DOMAIN call[t]
      /\ call[t].pc = "reply" /\ call[t].todo = {} /\ j \in Jobs
  BY DEF RelayInv, RelayTypeOK, PostReply
<1>2. UNCHANGED <<jobs, issued>> /\ Post("reply", j)
  BY DEF PostReply
<1>3. PICK next \in {"commands", "answer"} : call' = [call EXCEPT ![t].pc = next]
  BY DEF PostReply
<1>4. /\ DOMAIN call' = Threads
      /\ \A u \in Threads : u # t => call'[u] = call[u]
      /\ call'[t].pc = next /\ call'[t].todo = {} /\ call'[t].job = j
      /\ Fields \subseteq DOMAIN call'[t]
  BY <1>1, <1>3
<1>5. OwesReply(t, j) /\ OwesCommands(t, j) /\ ~IsAnswered(j) /\ j \in issued
  BY <1>1 DEF RelayInv, OneDebtor, OnlyIssued, OwesReply, OwesCommands
<1>6. /\ posted' \in Seq([kind : Kinds, job : Jobs])
      /\ \A i \in DOMAIN posted : i \in DOMAIN posted' /\ posted'[i] = posted[i]
      /\ \A i \in DOMAIN posted' : i \in DOMAIN posted \/ posted'[i] = [kind |-> "reply", job |-> j]
      /\ \E i \in DOMAIN posted' : posted'[i] = [kind |-> "reply", job |-> j]
  BY <1>1, <1>2, PostFacts DEF Kinds
<1>7. JobsDistinct'
  BY <1>2 DEF RelayInv, JobsDistinct
<1>13. RelayTypeOK'
  BY <1>1, <1>2, <1>4, <1>6 DEF RelayInv, RelayTypeOK
<1>8. OnlyIssued'
  BY <1>1, <1>2, <1>4, <1>5, <1>6 DEF RelayInv, OnlyIssued, OwesReply, OwesCommands
<1>9. ReplyFirst'
  BY <1>4, <1>6 DEF RelayInv, ReplyFirst, IsAnswered
<1>10. OneDebtor'
  BY <1>1, <1>4, <1>5, <1>6 DEF RelayInv, OneDebtor, OwesReply, OwesCommands, IsAnswered, IsCommanded
<1>11. LiveUntouched'
  <2>1. \A i \in DOMAIN jobs : jobs[i].status \in Live => jobs[i].id # j
    BY <1>5 DEF RelayInv, LiveUntouched
  <2> QED
    BY <1>1, <1>2, <1>4, <1>6, <2>1
       DEF RelayInv, LiveUntouched, OwesReply, OwesCommands, IsAnswered, IsCommanded
<1>12. Promise!Answer(j)
  BY <1>2, <1>5 DEF Post, Promise!Answer, Promise!Said, Promise!Reply, IsAnswered
<1> QED
  BY <1>1, <1>7, <1>8, <1>9, <1>10, <1>11, <1>12, <1>13 DEF RelayInv

LEMMA CommandsRelay ==
    ASSUME RelayInv, NEW t \in Threads, PostCommands(t)
    PROVE  RelayInv' /\ \E j \in Jobs : Promise!Command(j)
<1> DEFINE j == call[t].job
<1>1. /\ DOMAIN call = Threads /\ Fields \subseteq DOMAIN call[t]
      /\ call[t].pc = "commands" /\ call[t].todo = {} /\ j \in Jobs
  BY DEF RelayInv, RelayTypeOK, PostCommands
<1>2. UNCHANGED <<jobs, issued>> /\ Post("commands", j) /\ call' = [call EXCEPT ![t].pc = "answer"]
  BY DEF PostCommands
<1>3. /\ DOMAIN call' = Threads
      /\ \A u \in Threads : u # t => call'[u] = call[u]
      /\ call'[t].pc = "answer" /\ call'[t].todo = {} /\ call'[t].job = j
      /\ Fields \subseteq DOMAIN call'[t]
  BY <1>1, <1>2
<1>4. OwesCommands(t, j) /\ ~IsCommanded(j) /\ IsAnswered(j) /\ j \in issued
  BY <1>1 DEF RelayInv, OneDebtor, OnlyIssued, ReplyFirst, OwesCommands
<1>5. /\ posted' \in Seq([kind : Kinds, job : Jobs])
      /\ \A i \in DOMAIN posted : i \in DOMAIN posted' /\ posted'[i] = posted[i]
      /\ \A i \in DOMAIN posted' : i \in DOMAIN posted \/ posted'[i] = [kind |-> "commands", job |-> j]
  BY <1>1, <1>2, PostFacts DEF Kinds
<1>6. RelayTypeOK' /\ JobsDistinct'
  BY <1>1, <1>2, <1>3, <1>5 DEF RelayInv, RelayTypeOK, JobsDistinct
<1>7. OnlyIssued'
  BY <1>1, <1>2, <1>3, <1>4, <1>5 DEF RelayInv, OnlyIssued, OwesReply, OwesCommands
<1>8. ReplyFirst'
  BY <1>3, <1>5 DEF RelayInv, ReplyFirst, IsAnswered
<1>9. OneDebtor'
  BY <1>1, <1>3, <1>4, <1>5 DEF RelayInv, OneDebtor, OwesReply, OwesCommands, IsAnswered, IsCommanded
<1>10. LiveUntouched'
  <2>1. \A i \in DOMAIN jobs : jobs[i].status \in Live => jobs[i].id # j
    BY <1>4 DEF RelayInv, LiveUntouched
  <2> QED
    BY <1>1, <1>2, <1>3, <1>5, <2>1
       DEF RelayInv, LiveUntouched, OwesReply, OwesCommands, IsAnswered, IsCommanded
<1>11. Promise!Command(j)
  BY <1>2, <1>4 DEF Post, Promise!Command, Promise!Said, Promise!Reply, Promise!Commands,
                    IsAnswered, IsCommanded
<1> QED
  BY <1>1, <1>6, <1>7, <1>8, <1>9, <1>10, <1>11 DEF RelayInv

-----------------------------------------------------------------------------
(* Requests, restarts, and every step of the relay.                          *)

LEMMA RequestRelay ==
    ASSUME RelayInv, NEW t \in Threads,
           \/ \E cursor \in Cursor : BeginUpdates(t, cursor)
           \/ BeginJobs(t)
           \/ \E j \in Jobs, tools \in BOOLEAN : BeginResult(t, j, tools)
           \/ Return(t) \/ Collect(t)
    PROVE  RelayInv' /\ UNCHANGED <<issued, posted>>
<1>1. DOMAIN call = Threads /\ Fields \subseteq DOMAIN call[t]
  BY DEF RelayInv, RelayTypeOK
<1>2. ASSUME NEW c, Begin(t, c), Fields \subseteq DOMAIN c, c.todo = {}, c.pc \notin {"reply", "commands"}
      PROVE  RelayInv' /\ UNCHANGED <<issued, posted>>
  BY <1>2, CallRelay DEF Begin
<1>3. ASSUME NEW cursor \in Cursor, BeginUpdates(t, cursor)
      PROVE  RelayInv' /\ UNCHANGED <<issued, posted>>
  <2> DEFINE c == IF slot THEN [Free EXCEPT !.op = "updates", !.pc = "sweep", !.cursor = cursor]
                  ELSE [Free EXCEPT !.op = "updates", !.pc = "answer", !.code = "404"]
  <2>1. Begin(t, c)
    BY <1>3 DEF BeginUpdates
  <2>2. Fields \subseteq DOMAIN c /\ c.todo = {} /\ c.pc \notin {"reply", "commands"}
    BY DEF Free
  <2> QED
    BY <1>2, <2>1, <2>2
<1>4. CASE BeginJobs(t)
  <2> DEFINE c == [Free EXCEPT !.op = "jobs", !.pc = "sweep"]
  <2>1. Begin(t, c)
    BY <1>4 DEF BeginJobs
  <2>2. Fields \subseteq DOMAIN c /\ c.todo = {} /\ c.pc \notin {"reply", "commands"}
    BY DEF Free
  <2> QED
    BY <1>2, <2>1, <2>2
<1>5. ASSUME NEW j \in Jobs, NEW tools \in BOOLEAN, BeginResult(t, j, tools)
      PROVE  RelayInv' /\ UNCHANGED <<issued, posted>>
  <2> DEFINE c == [Free EXCEPT !.op = "result", !.pc = "complete", !.job = j, !.tools = tools]
  <2>1. Begin(t, c)
    BY <1>5 DEF BeginResult
  <2>2. Fields \subseteq DOMAIN c /\ c.todo = {} /\ c.pc \notin {"reply", "commands"}
    BY DEF Free
  <2> QED
    BY <1>2, <2>1, <2>2
<1>6. CASE Return(t)
  <2>1. Fields \subseteq DOMAIN Free /\ Free.todo = {} /\ Free.pc \notin {"reply", "commands"}
    BY DEF Free
  <2> QED
    BY <1>6, <2>1, CallRelay DEF Return
<1>7. ASSUME NEW events, Collect(t),
             \/ call' = [call EXCEPT ![t].pc = "answer", ![t].cursor = tail, ![t].online = workerSeen]
             \/ call' = [call EXCEPT ![t].pc = "answer", ![t].cursor = tail, ![t].online = workerSeen,
                                     ![t].events = events]
      PROVE  RelayInv'
  <2> DEFINE c == [call[t] EXCEPT !.pc = "answer", !.cursor = tail, !.online = workerSeen]
             d == [call[t] EXCEPT !.pc = "answer", !.cursor = tail, !.online = workerSeen, !.events = events]
  <2>1. /\ Fields \subseteq DOMAIN c /\ c.todo = {} /\ c.pc = "answer"
        /\ Fields \subseteq DOMAIN d /\ d.todo = {} /\ d.pc = "answer"
    BY <1>1, <1>7 DEF Collect
  <2>2. call' = [call EXCEPT ![t] = c] \/ call' = [call EXCEPT ![t] = d]
    BY <1>7
  <2>3. UNCHANGED <<jobs, issued, posted>>
    BY <1>7 DEF Collect
  <2> HIDE DEF c, d
  <2> QED
    BY <2>1, <2>2, <2>3, CallRelay
<1>8. CASE Collect(t)
  BY <1>7, <1>8 DEF Collect
<1> QED
  BY <1>3, <1>4, <1>5, <1>6, <1>8

LEMMA RestartRelay ==
    ASSUME RelayInv, Restart
    PROVE  RelayInv' /\ UNCHANGED <<issued, posted>>
<1>1. /\ DOMAIN call' = Threads /\ \A t \in Threads : call'[t] = Free
      /\ Fields \subseteq DOMAIN Free /\ Free.todo = {} /\ Free.pc = "free"
  BY DEF Restart, Free
<1>2. jobs' = <<>> /\ UNCHANGED <<issued, posted>>
  BY DEF Restart
<1> QED
  BY <1>1, <1>2 DEF RelayInv, RelayTypeOK, JobsDistinct, OnlyIssued, LiveUntouched,
       OneDebtor, ReplyFirst, OwesReply, OwesCommands, IsAnswered, IsCommanded

LEMMA StepRelay ==
    ASSUME RelayInv, [ServerNext]_serverVars
    PROVE  RelayInv' /\ [Promise!Next]_<<issued, posted>>
<1>1. CASE StoreSnapshot \/ WorkerUnseen \/ (\E j \in Jobs : PassLimit(j)) \/ UNCHANGED serverVars
  BY <1>1, QuietRelay DEF StoreSnapshot, WorkerUnseen, PassLimit, serverVars
<1>2. CASE Restart
  BY <1>2, RestartRelay
<1>3. ASSUME NEW j \in Jobs, EnqueueJob(j)
      PROVE  RelayInv' /\ Promise!Ask(j)
  BY <1>3, EnqueueRelay DEF EnqueueJob, Promise!Ask
<1>4. ASSUME NEW t \in Threads, Sweep(t) \/ Claim(t) \/ Complete(t)
      PROVE  RelayInv' /\ UNCHANGED <<issued, posted>>
  BY <1>4, SweepRelay, ClaimRelay, CompleteRelay DEF Sweep, Claim, Complete
<1>5. ASSUME NEW t \in Threads, Announce(t) \/ PostReply(t) \/ PostCommands(t)
      PROVE  RelayInv' /\ Promise!Next
  BY <1>5, AnnounceRelay, ReplyRelay, CommandsRelay DEF Promise!Next
<1>6. ASSUME NEW t \in Threads,
             \/ \E cursor \in Cursor : BeginUpdates(t, cursor)
             \/ BeginJobs(t)
             \/ \E j \in Jobs, tools \in BOOLEAN : BeginResult(t, j, tools)
             \/ Return(t) \/ Collect(t)
      PROVE  RelayInv' /\ UNCHANGED <<issued, posted>>
  BY <1>6, RequestRelay
<1> QED
  BY <1>1, <1>2, <1>3, <1>4, <1>5, <1>6 DEF ServerNext, Handle, Promise!Next

-----------------------------------------------------------------------------
(* The invariant: a live job is owed to nobody, an ended one to at most one   *)
(* thread, and what is owed was not yet said (complete_job and the sweep      *)
(* change a job's status and take the debt under one lock).                   *)
THEOREM DebtsKept == ServerSpec => []RelayInv
<1>1. RelayInv /\ [ServerNext]_serverVars => RelayInv'
  BY StepRelay
<1> QED
  BY <1>1, InitRelay, PTL DEF ServerSpec

(* Whatever the sweep, late results, retries and restarts do to each other, a *)
(* question is answered at most once and commands follow the answer at most   *)
(* once: the relay implements AskAndAnswer.                                   *)
THEOREM QuestionsAnsweredOnce == ServerSpec => AnswersOnce
<1>1. ServerInit => Promise!Init
  BY DEF ServerInit, Promise!Init
<1>2. RelayInv /\ [ServerNext]_serverVars => [Promise!Next]_<<issued, posted>>
  BY StepRelay
<1> QED
  BY <1>1, <1>2, DebtsKept, PTL DEF ServerSpec, AnswersOnce, Promise!Spec

-----------------------------------------------------------------------------
(***************************************************************************)
(* Types of the whole: the relay, the page and the worker.                 *)
(***************************************************************************)
LEMMA FreeTyped == Free \in Call /\ Free.pc = "free" /\ Free.op = "free"
  BY DEF Free, Call, Cursor

\* What a step does to the request of a thread.
LEMMA ThreadTyped ==
    ASSUME ServerTypeOK, NEW t \in Threads, NEW c \in Call, call' = [call EXCEPT ![t] = c]
    PROVE  call' \in [Threads -> Call]
  BY DEF ServerTypeOK

LEMMA BeginTyped ==
    ASSUME ServerTypeOK, NEW t \in Threads,
           \/ \E cursor \in Cursor : BeginUpdates(t, cursor)
           \/ BeginJobs(t)
           \/ \E j \in Jobs, tools \in BOOLEAN : BeginResult(t, j, tools)
           \/ Return(t)
    PROVE  call' \in [Threads -> Call] /\ workerSeen' \in BOOLEAN
           /\ UNCHANGED <<jobs, overdue, feed, tail, slot, issued, posted>>
  <1>1. ASSUME NEW cursor \in Cursor, BeginUpdates(t, cursor)
        PROVE  \E c \in Call : call' = [call EXCEPT ![t] = c]
    <2>1. /\ [Free EXCEPT !.op = "updates", !.pc = "sweep", !.cursor = cursor] \in Call
          /\ [Free EXCEPT !.op = "updates", !.pc = "answer", !.code = "404"] \in Call
      BY DEF Free, Call, Cursor
    <2> QED
      BY <1>1, <2>1 DEF BeginUpdates, Begin
  <1>2. CASE BeginJobs(t)
    <2>1. [Free EXCEPT !.op = "jobs", !.pc = "sweep"] \in Call
      BY DEF Free, Call, Cursor
    <2> QED
      BY <1>2, <2>1, ThreadTyped DEF BeginJobs, Begin
  <1>3. ASSUME NEW j \in Jobs, NEW tools \in BOOLEAN, BeginResult(t, j, tools)
        PROVE  \E c \in Call : call' = [call EXCEPT ![t] = c]
    <2>1. [Free EXCEPT !.op = "result", !.pc = "complete", !.job = j, !.tools = tools] \in Call
      BY DEF Free, Call, Cursor
    <2> QED
      BY <1>3, <2>1 DEF BeginResult, Begin
  <1>4. CASE Return(t)
    BY <1>4, FreeTyped, ThreadTyped DEF Return, ServerTypeOK
  <1> QED
    BY <1>1, <1>2, <1>3, <1>4, ThreadTyped DEF BeginUpdates, BeginResult, Begin, ServerTypeOK

LEMMA PostTyped ==
    ASSUME ServerTypeOK, NEW kind \in Kinds, NEW j \in Jobs, Post(kind, j)
    PROVE  feed' \in SUBSET Event /\ tail' \in Nat
  <1>1. [seq |-> tail + 1, kind |-> kind, job |-> j] \in Event /\ tail + 1 \in Nat
    BY DEF ServerTypeOK, Event
  <1> QED
    BY <1>1 DEF Post, ServerTypeOK

LEMMA HandleTyped ==
    ASSUME ServerTypeOK, RelayInv, NEW t \in Threads, Handle(t)
    PROVE  /\ call' \in [Threads -> Call]
           /\ feed' \in SUBSET Event /\ tail' \in Nat /\ overdue' \in SUBSET Jobs
           /\ UNCHANGED <<slot, workerSeen>>
  <1>1. call[t] \in Call /\ tail \in Nat /\ overdue \in SUBSET Jobs /\ feed \in SUBSET Event /\ workerSeen \in BOOLEAN
    BY DEF ServerTypeOK
  <1>2. \A i \in DOMAIN jobs : jobs[i].id \in Jobs
    <2>1. \A i \in DOMAIN jobs : jobs[i] \in Job
      BY ElementOfSeq, LenProperties DEF ServerTypeOK
    <2> QED
      BY <2>1 DEF Job
  <1>3. CASE Sweep(t)
    <2>1. ExpiredIds \subseteq Jobs
      BY <1>2 DEF ExpiredIds
    <2>2. PICK c : c = [call[t] EXCEPT !.pc = "announce", !.todo = ExpiredIds]
      OBVIOUS
    <2>3. c \in Call
      BY <1>1, <2>1, <2>2 DEF Call
    <2>4. call' = [call EXCEPT ![t] = c]
      BY <1>3, <2>2 DEF Sweep, ServerTypeOK
    <2> QED
      BY <1>1, <1>3, <2>3, <2>4, ThreadTyped DEF Sweep
  <1>4. CASE Announce(t)
    <2>1. PICK j \in call[t].todo : Post("reply", j) /\ call' = [call EXCEPT ![t].todo = @ \ {j}]
      BY <1>4 DEF Announce
    <2>2. PICK c : c = [call[t] EXCEPT !.todo = @ \ {j}]
      OBVIOUS
    <2>3. c \in Call /\ j \in Jobs
      BY <1>1, <2>1, <2>2 DEF Call
    <2>4. call' = [call EXCEPT ![t] = c]
      BY <2>1, <2>2 DEF ServerTypeOK
    <2> QED
      BY <1>1, <1>4, <2>1, <2>3, <2>4, ThreadTyped, PostTyped DEF Announce, Kinds
  <1>5. CASE Collect(t)
    <2>1. CASE call' = [call EXCEPT ![t].pc = "answer", ![t].cursor = tail, ![t].online = workerSeen]
      <3>1. PICK c : c = [call[t] EXCEPT !.pc = "answer", !.cursor = tail, !.online = workerSeen]
        OBVIOUS
      <3>2. c \in Call
        BY <1>1, <3>1 DEF Call, Cursor
      <3>3. call' = [call EXCEPT ![t] = c]
        BY <2>1, <3>1 DEF ServerTypeOK
      <3> QED
        BY <1>1, <1>5, <3>2, <3>3, ThreadTyped DEF Collect
    <2>2. ASSUME NEW events \in SUBSET Event,
                 call' = [call EXCEPT ![t].pc = "answer", ![t].cursor = tail, ![t].online = workerSeen,
                                      ![t].events = events]
          PROVE  call' \in [Threads -> Call]
      <3>1. PICK c : c = [call[t] EXCEPT !.pc = "answer", !.cursor = tail, !.online = workerSeen, !.events = events]
        OBVIOUS
      <3>2. c \in Call
        BY <1>1, <3>1 DEF Call, Cursor
      <3>3. call' = [call EXCEPT ![t] = c]
        BY <2>2, <3>1 DEF ServerTypeOK
      <3> QED
        BY <3>2, <3>3, ThreadTyped
    <2>3. ASSUME NEW stale PROVE Unread(call[t].cursor, stale) \in SUBSET Event
      BY <1>1 DEF Unread
    <2> QED
      BY <1>1, <1>5, <2>1, <2>2, <2>3 DEF Collect
  <1>6. CASE Claim(t)
    <2>1. ASSUME NEW i \in DOMAIN jobs, overdue' = overdue \ {jobs[i].id},
                 call' = [call EXCEPT ![t].pc = "answer", ![t].job = jobs[i].id]
          PROVE  call' \in [Threads -> Call]
      <3>1. PICK c : c = [call[t] EXCEPT !.pc = "answer", !.job = jobs[i].id]
        OBVIOUS
      <3>2. c \in Call
        BY <1>1, <1>2, <3>1 DEF Call
      <3>3. call' = [call EXCEPT ![t] = c]
        BY <2>1, <3>1 DEF ServerTypeOK
      <3> QED
        BY <3>2, <3>3, ThreadTyped
    <2>2. ASSUME call' = [call EXCEPT ![t].pc = "answer"]
          PROVE  call' \in [Threads -> Call]
      BY <1>1, <2>2 DEF Call, ServerTypeOK
    <2> QED
      BY <1>1, <1>6, <2>1, <2>2 DEF Claim
  <1>7. CASE Complete(t)
    <2>1. ASSUME NEW code \in {"404", "409"}, call' = [call EXCEPT ![t].pc = "answer", ![t].code = code]
          PROVE  call' \in [Threads -> Call]
      <3>1. PICK c : c = [call[t] EXCEPT !.pc = "answer", !.code = code]
        OBVIOUS
      <3>2. c \in Call
        BY <1>1, <3>1 DEF Call
      <3>3. call' = [call EXCEPT ![t] = c]
        BY <2>1, <3>1 DEF ServerTypeOK
      <3> QED
        BY <3>2, <3>3, ThreadTyped
    <2>2. ASSUME call' = [call EXCEPT ![t].pc = "reply"]
          PROVE  call' \in [Threads -> Call]
      BY <1>1, <2>2 DEF Call, ServerTypeOK
    <2> QED
      BY <1>1, <1>7, <2>1, <2>2 DEF Complete
  <1>8. ASSUME NEW next \in {"commands", "answer"}, call' = [call EXCEPT ![t].pc = next]
        PROVE  call' \in [Threads -> Call]
    BY <1>1, <1>8 DEF Call, ServerTypeOK
  <1>9. CASE PostReply(t) \/ PostCommands(t)
    <2>1. call[t].job \in Jobs
      BY <1>9 DEF RelayInv, RelayTypeOK, PostReply, PostCommands
    <2>2. PICK next \in {"commands", "answer"} : call' = [call EXCEPT ![t].pc = next]
      BY <1>9 DEF PostReply, PostCommands
    <2> QED
      BY <1>1, <1>8, <1>9, <2>1, <2>2, PostTyped DEF PostReply, PostCommands, Kinds
  <1> QED
    BY <1>3, <1>4, <1>5, <1>6, <1>7, <1>9 DEF Handle

LEMMA ServerTyped ==
    ASSUME ServerTypeOK, RelayInv, [ServerNext]_serverVars
    PROVE  ServerTypeOK'
  <1>1. jobs' \in Seq(Job) /\ issued' \in SUBSET Jobs /\ posted' \in Seq([kind : Kinds, job : Jobs])
    BY StepRelay DEF RelayInv, RelayTypeOK
  <1>2. CASE StoreSnapshot \/ WorkerUnseen \/ UNCHANGED serverVars
    BY <1>1, <1>2 DEF StoreSnapshot, WorkerUnseen, serverVars, ServerTypeOK
  <1>6. CASE Restart
    <2>1. call' \in [Threads -> Call]
      BY <1>6, FreeTyped DEF Restart
    <2> QED
      BY <1>1, <1>6, <2>1 DEF Restart, ServerTypeOK
  <1>3. ASSUME NEW j \in Jobs, EnqueueJob(j) \/ PassLimit(j) PROVE ServerTypeOK'
    BY <1>1, <1>3 DEF EnqueueJob, PassLimit, ServerTypeOK
  <1>4. ASSUME NEW t \in Threads,
               \/ \E cursor \in Cursor : BeginUpdates(t, cursor)
               \/ BeginJobs(t)
               \/ \E j \in Jobs, tools \in BOOLEAN : BeginResult(t, j, tools)
               \/ Return(t)
        PROVE  ServerTypeOK'
    BY <1>1, <1>4, BeginTyped DEF ServerTypeOK
  <1>5. ASSUME NEW t \in Threads, Handle(t) PROVE ServerTypeOK'
    BY <1>1, <1>5, HandleTyped DEF ServerTypeOK
  <1> QED
    BY <1>2, <1>3, <1>4, <1>5, <1>6 DEF ServerNext

-----------------------------------------------------------------------------
(***************************************************************************)
(* Every step of the whole is one of the relay, or leaves it alone; and    *)
(* the page's answers are finite, so that what it counts are numbers.      *)
(***************************************************************************)
LEMMA StepIsRelays ==
    ASSUME ServerTypeOK, page \in Page, worker \in Worker, Len(worker.queue) <= RetrySize, [Next]_vars
    PROVE  [ServerNext]_serverVars
  <1>1. ASSUME NEW t \in Threads, BeginUpdates(t, page.cursor) PROVE ServerNext
    <2>1. page.cursor \in Cursor
      BY DEF Page
    <2> QED
      BY <1>1, <2>1 DEF ServerNext
  <1>2. ASSUME NEW t \in Threads, Repost PROVE ServerNext
    <2>1. Head(worker.queue) \in Result
      BY <1>2, HeadTailProperties, EmptySeq DEF Worker, Repost
    <2>2. Head(worker.queue).job \in Jobs /\ Head(worker.queue).tools \in BOOLEAN
      BY <2>1 DEF Result
    <2> QED
      BY <1>2, <2>2 DEF Repost, ServerNext
  <1>3. CASE PostResult
    <2>1. worker.job \in Jobs /\ worker.tools \in BOOLEAN
      BY <1>3 DEF PostResult, Worker
    <2> QED
      BY <1>3, <2>1 DEF PostResult, ServerNext
  <1>4. CASE PageStep
    BY <1>1, <1>4 DEF PageStep, Ask, MessageFails, PublishSnapshot, Poll, PollFails, Apply, Remount, ServerNext
  <1>5. CASE WorkerStep
    <2>1. CASE Repost
      <3>1. \E t \in Threads : TRUE
        BY <2>1 DEF Repost
      <3> QED
        BY <1>2, <2>1, <3>1
    <2>2. CASE Fetch
      BY <2>2 DEF Fetch, ServerNext
    <2> QED
      BY <1>3, <1>5, <2>1, <2>2 DEF WorkerStep, Think, Sleep, WorkerFails
  <1>6. ASSUME NEW t \in Threads, ThreadStep(t) PROVE ServerNext
    BY <1>6 DEF ThreadStep, ServerRuns, PollReturns, WorkerReturns, NobodyWaits, ServerNext
  <1>7. CASE WorkerCrash \/ ServerFaults \/ TimeLimits \/ UNCHANGED vars
    BY <1>7 DEF WorkerCrash, ServerFaults, TimeLimits, ServerNext, vars
  <1>8. ASSUME NEW j \in Jobs, MessageArrives(j) PROVE ServerNext
    BY <1>8 DEF MessageArrives, ServerNext
  <1> QED
    BY <1>4, <1>5, <1>6, <1>7, <1>8 DEF Next

Finite ==
    /\ IsFiniteSet(feed) /\ IsFiniteSet(page.data.events)
    /\ \A t \in Threads : IsFiniteSet(call[t].events)
    /\ IsFiniteSet(faults)

LEMMA RelayFinite ==
    ASSUME ServerTypeOK, Finite, [ServerNext]_serverVars
    PROVE  IsFiniteSet(feed') /\ \A t \in Threads : IsFiniteSet(call'[t].events)
  <1>1. \A t \in Threads : call[t] \in Call
    BY DEF ServerTypeOK
  <1>2. IsFiniteSet({})
    BY FS_EmptySet
  <1>3. ASSUME NEW t \in Threads, NEW c, call' = [call EXCEPT ![t] = c], IsFiniteSet(c.events)
        PROVE  \A u \in Threads : IsFiniteSet(call'[u].events)
    BY <1>3 DEF Finite, ServerTypeOK
  <1>4. ASSUME NEW kind, NEW j, Post(kind, j) PROVE IsFiniteSet(feed')
    <2>1. IsFiniteSet(feed \cup {[seq |-> tail + 1, kind |-> kind, job |-> j]})
      BY FS_AddElement DEF Finite
    <2>2. feed' \subseteq feed \cup {[seq |-> tail + 1, kind |-> kind, job |-> j]}
      BY <1>4 DEF Post
    <2> QED
      BY <2>1, <2>2, FS_Subset
  <1>5. ASSUME NEW t \in Threads, NEW c, Begin(t, c), c.events = {}
        PROVE  IsFiniteSet(feed') /\ \A u \in Threads : IsFiniteSet(call'[u].events)
    BY <1>2, <1>3, <1>5 DEF Begin, Finite
  <1>6. ASSUME NEW t \in Threads, NEW cursor, BeginUpdates(t, cursor)
        PROVE  IsFiniteSet(feed') /\ \A u \in Threads : IsFiniteSet(call'[u].events)
    BY <1>5, <1>6 DEF BeginUpdates, Free
  <1>7. ASSUME NEW t \in Threads, BeginJobs(t) \/ \E j \in Jobs, tools \in BOOLEAN : BeginResult(t, j, tools)
        PROVE  IsFiniteSet(feed') /\ \A u \in Threads : IsFiniteSet(call'[u].events)
    BY <1>5, <1>7 DEF BeginJobs, BeginResult, Free
  <1>8. ASSUME NEW t \in Threads, Return(t)
        PROVE  IsFiniteSet(feed') /\ \A u \in Threads : IsFiniteSet(call'[u].events)
    BY <1>2, <1>3, <1>8 DEF Return, Free, Finite
  <1>9. ASSUME NEW t \in Threads, Collect(t)
        PROVE  IsFiniteSet(feed') /\ \A u \in Threads : IsFiniteSet(call'[u].events)
    <2>1. ASSUME NEW stale PROVE IsFiniteSet(Unread(call[t].cursor, stale))
      <3>1. Unread(call[t].cursor, stale) \subseteq feed
        BY DEF Unread
      <3> QED
        BY <3>1, FS_Subset DEF Finite
    <2>2. CASE call' = [call EXCEPT ![t].pc = "answer", ![t].cursor = tail, ![t].online = workerSeen]
      <3>1. \A u \in Threads : call'[u].events = call[u].events
        BY <1>1, <2>2 DEF ServerTypeOK, Call
      <3> QED
        BY <1>9, <3>1 DEF Collect, Finite
    <2>3. ASSUME NEW events, IsFiniteSet(events),
                 call' = [call EXCEPT ![t].pc = "answer", ![t].cursor = tail, ![t].online = workerSeen,
                                      ![t].events = events]
          PROVE  IsFiniteSet(feed') /\ \A u \in Threads : IsFiniteSet(call'[u].events)
      <3>1. \A u \in Threads : call'[u].events \in {call[u].events, events}
        BY <1>1, <2>3 DEF ServerTypeOK, Call
      <3> QED
        BY <1>9, <2>3, <3>1 DEF Collect, Finite
    <2> QED
      BY <1>9, <2>1, <2>2, <2>3 DEF Collect
  <1>10. ASSUME NEW t \in Threads, Sweep(t) \/ Claim(t) \/ Complete(t) \/ Announce(t) \/ PostReply(t) \/ PostCommands(t)
         PROVE  \A u \in Threads : IsFiniteSet(call'[u].events)
    <2>1. \A u \in Threads : call'[u].events = call[u].events
      <3>1. CASE Sweep(t)
        BY <1>1, <3>1 DEF Sweep, ServerTypeOK, Call
      <3>5. CASE Announce(t)
        <4>1. PICK j : call' = [call EXCEPT ![t].todo = @ \ {j}]
          BY <3>5 DEF Announce
        <4> QED
          BY <1>1, <4>1 DEF ServerTypeOK, Call
      <3>2. CASE Claim(t)
        <4>1. \/ call' = [call EXCEPT ![t].pc = "answer"]
              \/ \E j : call' = [call EXCEPT ![t].pc = "answer", ![t].job = j]
          BY <3>2, Zenon DEF Claim
        <4>2. CASE call' = [call EXCEPT ![t].pc = "answer"]
          BY <1>1, <4>2 DEF ServerTypeOK, Call
        <4>3. ASSUME NEW j, call' = [call EXCEPT ![t].pc = "answer", ![t].job = j]
              PROVE  \A u \in Threads : call'[u].events = call[u].events
          BY <1>1, <4>3 DEF ServerTypeOK, Call
        <4> QED
          BY <4>1, <4>2, <4>3
      <3>3. CASE Complete(t)
        <4>1. \/ \E code : call' = [call EXCEPT ![t].pc = "answer", ![t].code = code]
              \/ call' = [call EXCEPT ![t].pc = "reply"]
          BY <3>3, Zenon DEF Complete
        <4>2. ASSUME NEW code, call' = [call EXCEPT ![t].pc = "answer", ![t].code = code]
              PROVE  \A u \in Threads : call'[u].events = call[u].events
          BY <1>1, <4>2 DEF ServerTypeOK, Call
        <4>3. CASE call' = [call EXCEPT ![t].pc = "reply"]
          BY <1>1, <4>3 DEF ServerTypeOK, Call
        <4> QED
          BY <4>1, <4>2, <4>3
      <3>4. CASE PostReply(t) \/ PostCommands(t)
        BY <1>1, <3>4 DEF PostReply, PostCommands, ServerTypeOK, Call
      <3> QED
        BY <1>10, <3>1, <3>2, <3>3, <3>4, <3>5
    <2> QED
      BY <2>1 DEF Finite
  <1>11. ASSUME NEW t \in Threads, Sweep(t) \/ Claim(t) \/ Complete(t) \/ Announce(t) \/ PostReply(t) \/ PostCommands(t)
         PROVE  IsFiniteSet(feed')
    BY <1>4, <1>11 DEF Sweep, Claim, Complete, Announce, PostReply, PostCommands, Finite
  <1>12. CASE Restart
    BY <1>2, <1>12 DEF Restart, Free
  <1>13. CASE StoreSnapshot \/ WorkerUnseen \/ (\E j \in Jobs : EnqueueJob(j) \/ PassLimit(j)) \/ UNCHANGED serverVars
    BY <1>13 DEF StoreSnapshot, WorkerUnseen, EnqueueJob, PassLimit, serverVars, Finite
  <1> QED
    BY <1>6, <1>7, <1>8, <1>9, <1>10, <1>11, <1>12, <1>13 DEF ServerNext, Handle


-----------------------------------------------------------------------------
(* The page and the worker.                                                  *)

\* What the worker waits for, and what it then has at hand.
WorkerInv ==
    /\ worker.wait # NoThread => worker.pc \in {"fetching", "reposting", "posting"}
    /\ worker.pc = "reposting" => worker.queue # <<>>
    /\ worker.pc = "posting" => worker.job # NoJob

LEMMA LastOfShort ==
    ASSUME NEW S, NEW s \in Seq(S), NEW n \in Nat \ {0}
    PROVE  Len(LastOf(n, s)) <= n
<1> DEFINE first == IF Len(s) > n THEN Len(s) - n + 1 ELSE 1
<1>1. first \in Nat \ {0} /\ Len(s) \in Nat /\ DOMAIN s = 1..Len(s) /\ Len(s) - first + 1 <= n
  BY LenProperties
<1>2. \A i \in first..Len(s) : s[i] \in S
  BY <1>1, ElementOfSeq
<1>3. LastOf(n, s) = SubSeq(s, first, Len(s))
  BY DEF LastOf
<1> HIDE DEF first
<1>4. Len(SubSeq(s, first, Len(s))) = IF first <= Len(s) THEN Len(s) - first + 1 ELSE 0
  BY <1>1, <1>2, SubSeqProperties
<1> QED
  BY <1>1, <1>3, <1>4

LEMMA LessTyped == ASSUME NEW n \in Nat, NEW k \in Nat PROVE Less(n, k) \in Nat
  BY DEF Less

LEMMA FaultTyped ==
    ASSUME IsFiniteSet(faults), faults \subseteq FaultKinds, Cardinality(faults) <= MaxFaults,
           NEW kind, Fault(kind)
    PROVE  faults' \subseteq FaultKinds /\ IsFiniteSet(faults') /\ Cardinality(faults') <= MaxFaults
  <1>1. /\ faults' = faults \cup {kind} /\ kind \in FaultKinds /\ kind \notin faults
        /\ Cardinality(faults) < MaxFaults
    BY DEF Fault
  <1>2. /\ Cardinality(faults) \in Nat /\ IsFiniteSet(faults \cup {kind})
        /\ Cardinality(faults \cup {kind}) = Cardinality(faults) + 1
    BY <1>1, FS_CardinalityType, FS_AddElement
  <1> QED
    BY <1>1, <1>2, AgentAssumption

\* The worker's variable after each of its steps.
LEMMA WorkerTyped ==
    ASSUME ServerTypeOK, worker \in Worker, Len(worker.queue) <= RetrySize, WorkerInv,
           \/ WorkerStep \/ WorkerCrash
           \/ \E t \in Threads : WorkerReturns(t)
    PROVE  worker' \in Worker /\ Len(worker'.queue) <= RetrySize /\ WorkerInv'
  <1>1. /\ worker.job \in Jobs \cup {NoJob} /\ worker.tools \in BOOLEAN
        /\ worker.wait \in Threads \cup {NoThread} /\ worker.queue \in Seq(Result)
    BY DEF Worker
  <1>2. CASE Fetch
    <2>1. PICK t \in Threads : Calls("fetching", t)
      BY <1>2 DEF Fetch
    <2> QED
      BY <2>1 DEF Calls, Worker, WorkerInv
  <1>3. CASE Think
    <2>1. PICK tools \in BOOLEAN : worker' = [worker EXCEPT !.pc = "flushing", !.tools = tools]
      BY <1>3 DEF Think
    <2>2. worker.wait = NoThread
      BY <1>3 DEF Think, WorkerInv
    <2> QED
      BY <2>1, <2>2 DEF Worker, WorkerInv
  <1>4. CASE Repost
    <2>1. PICK t \in Threads : Calls("reposting", t)
      BY <1>4 DEF Repost
    <2> QED
      BY <1>4, <2>1 DEF Repost, Calls, Worker, WorkerInv
  <1>5. CASE PostResult
    <2>1. PICK t \in Threads : Calls("posting", t)
      BY <1>5 DEF PostResult
    <2> QED
      BY <1>5, <2>1 DEF PostResult, Calls, Worker, WorkerInv
  <1>6. CASE Sleep
    <2>1. worker.wait = NoThread
      BY <1>6 DEF Sleep, Flushed, WorkerInv
    <2> QED
      BY <1>6, <2>1 DEF Sleep, Worker, WorkerInv
  <1>7. CASE WorkerFails
    <2>1. worker.wait # NoThread /\ worker.pc \in {"fetching", "reposting", "posting"}
      BY <1>7 DEF WorkerFails, WorkerInv
    <2>2. CASE worker.pc = "fetching"
      <3>1. worker' = [worker EXCEPT !.wait = NoThread, !.pc = "idle"]
        BY <1>7, <2>2 DEF WorkerFails
      <3> QED
        BY <3>1 DEF Worker, WorkerInv
    <2>3. CASE worker.pc = "reposting"
      <3>1. worker' = [worker EXCEPT !.wait = NoThread, !.pc = "flushed"]
        BY <1>7, <2>3 DEF WorkerFails
      <3> QED
        BY <3>1 DEF Worker, WorkerInv
    <2>4. CASE worker.pc = "posting"
      <3>1. worker' = [worker EXCEPT !.wait = NoThread, !.pc = "flushing", !.job = NoJob, !.queue = Kept]
        BY <1>7, <2>4 DEF WorkerFails
      <3>2. [job |-> worker.job, tools |-> worker.tools] \in Result
        BY <1>1, <2>4 DEF WorkerInv, Result
      <3>3. Append(worker.queue, [job |-> worker.job, tools |-> worker.tools]) \in Seq(Result)
        BY <1>1, <3>2, AppendProperties
      <3>4. Kept \in Seq(Result) /\ Len(Kept) <= RetrySize
        BY <3>3, LastOfFacts, LastOfShort, AgentAssumption DEF Kept
      <3>5. PICK q \in Seq(Result) : q = Kept
        BY <3>4
      <3>6. worker' = [worker EXCEPT !.wait = NoThread, !.pc = "flushing", !.job = NoJob, !.queue = q]
        BY <3>1, <3>5
      <3> QED
        BY <3>4, <3>5, <3>6 DEF Worker, WorkerInv
    <2> QED
      BY <2>1, <2>2, <2>3, <2>4
  <1>8. CASE WorkerCrash
    BY <1>8, EmptySeq, AgentAssumption DEF WorkerCrash, Started, Worker, WorkerInv
  <1>9. ASSUME NEW t \in Threads, WorkerReturns(t)
        PROVE  worker' \in Worker /\ Len(worker'.queue) <= RetrySize /\ WorkerInv'
    <2>1. worker.pc \in {"fetching", "reposting", "posting"}
      BY <1>9, AgentAssumption DEF WorkerReturns, WorkerInv
    <2>2. CASE worker.pc = "fetching"
      <3>1. call[t].job \in Jobs \cup {NoJob}
        BY DEF ServerTypeOK, Call
      <3>2. PICK j \in Jobs \cup {NoJob} : j = call[t].job
        BY <3>1
      <3>3. worker' = [worker EXCEPT !.wait = NoThread, !.job = j,
                                     !.pc = IF j = NoJob THEN "flushing" ELSE "thinking"]
        BY <1>9, <2>2, <3>2 DEF WorkerReturns
      <3> QED
        BY <3>3 DEF Worker, WorkerInv
    <2>3. CASE worker.pc = "reposting"
      <3>1. worker' = [worker EXCEPT !.wait = NoThread, !.pc = "flushing", !.queue = Tail(worker.queue)]
        BY <1>9, <2>3 DEF WorkerReturns
      <3>2. worker.queue # <<>>
        BY <2>3 DEF WorkerInv
      <3>3. Tail(worker.queue) \in Seq(Result) /\ Len(Tail(worker.queue)) = Len(worker.queue) - 1
        BY <1>1, <3>2, HeadTailProperties
      <3>4. PICK q \in Seq(Result) : q = Tail(worker.queue)
        BY <3>3
      <3>5. Len(q) <= RetrySize
        BY <1>1, <3>3, <3>4, LenProperties, AgentAssumption
      <3>6. worker' = [worker EXCEPT !.wait = NoThread, !.pc = "flushing", !.queue = q]
        BY <3>1, <3>4
      <3> QED
        BY <3>5, <3>6 DEF Worker, WorkerInv
    <2>4. CASE worker.pc = "posting"
      <3>1. worker' = [worker EXCEPT !.wait = NoThread, !.pc = "flushing", !.job = NoJob]
        BY <1>9, <2>4 DEF WorkerReturns
      <3> QED
        BY <3>1 DEF Worker, WorkerInv
    <2> QED
      BY <2>1, <2>2, <2>3, <2>4
  <1> QED
    BY <1>2, <1>3, <1>4, <1>5, <1>6, <1>7, <1>8, <1>9 DEF WorkerStep

\* The page's variables after a step of the page, and what a poll answers.
AgentTypeOK ==
    /\ message \in [Jobs -> {"unsent", "sent", "taken", "failed"}]
    /\ page \in Page
    /\ handled \in [Said -> Nat]
    /\ faults \subseteq FaultKinds /\ Cardinality(faults) <= MaxFaults

LEMMA NoDataTyped == NoData \in Answered /\ Mounted \in Page
  BY DEF NoData, Answered, Mounted, Page, Cursor

LEMMA FreshFinite ==
    ASSUME Finite
    PROVE  /\ IsFiniteSet(Fresh) /\ Replies(Fresh) \in Nat
           /\ \A s : IsFiniteSet({e \in Fresh : Told(e) = s}) /\ Cardinality({e \in Fresh : Told(e) = s}) \in Nat
  <1>1. Fresh \subseteq page.data.events
    BY DEF Fresh
  <1>2. IsFiniteSet(Fresh)
    BY <1>1, FS_Subset DEF Finite
  <1>3. IsFiniteSet({e \in Fresh : e.kind = "reply"}) /\ \A s : IsFiniteSet({e \in Fresh : Told(e) = s})
    BY <1>2, FS_Subset
  <1> QED
    BY <1>2, <1>3, FS_CardinalityType DEF Replies

LEMMA AskTyped ==
    ASSUME AgentTypeOK, Finite, NEW j \in Jobs, Ask(j) \/ MessageFails(j) \/ MessageArrives(j)
    PROVE  AgentTypeOK' /\ IsFiniteSet(faults') /\ page'.data = page.data
  <1>1. page.pending \in Nat
    BY DEF AgentTypeOK, Page
  <1>2. Less(page.pending, 1) \in Nat
    BY <1>1, LessTyped
  <1>3. CASE Ask(j)
    BY <1>1, <1>3 DEF Ask, AgentTypeOK, Page, Finite
  <1>4. CASE MessageArrives(j)
    BY <1>4 DEF MessageArrives, AgentTypeOK, Finite
  <1>5. CASE MessageFails(j)
    <2>1. PICK n \in Nat : n = Less(page.pending, 1)
      BY <1>2
    <2>2. page' = [page EXCEPT !.pending = n]
      BY <1>5, <2>1 DEF MessageFails
    <2>3. page' \in Page /\ page'.data = page.data
      BY <2>2 DEF AgentTypeOK, Page
    <2>4. faults' \subseteq FaultKinds /\ IsFiniteSet(faults') /\ Cardinality(faults') <= MaxFaults
      BY <1>5, FaultTyped DEF MessageFails, AgentTypeOK, Finite
    <2>5. message' \in [Jobs -> {"unsent", "sent", "taken", "failed"}] /\ handled' = handled
      BY <1>5 DEF MessageFails, AgentTypeOK
    <2> QED
      BY <2>3, <2>4, <2>5 DEF AgentTypeOK
  <1> QED
    BY <1>3, <1>4, <1>5

LEMMA PollTyped ==
    ASSUME AgentTypeOK, ServerTypeOK, Finite,
           Poll \/ PollFails \/ \E t \in Threads : PollReturns(t)
    PROVE  AgentTypeOK' /\ IsFiniteSet(faults') /\ IsFiniteSet(page'.data.events)
  <1>1. CASE Poll
    <2>1. PICK t \in Threads : page' = [page EXCEPT !.poll = t]
      BY <1>1 DEF Poll
    <2>2. page' \in Page /\ page'.data = page.data
      BY <2>1 DEF AgentTypeOK, Page
    <2> QED
      BY <1>1, <2>2 DEF Poll, AgentTypeOK, Finite
  <1>2. ASSUME PollFailed PROVE page' \in Page /\ page'.data = page.data
    BY <1>2 DEF PollFailed, AgentTypeOK, Page
  <1>3. CASE PollFails
    <2>1. faults' \subseteq FaultKinds /\ IsFiniteSet(faults') /\ Cardinality(faults') <= MaxFaults
      BY <1>3, FaultTyped DEF PollFails, AgentTypeOK, Finite
    <2> QED
      BY <1>2, <1>3, <2>1 DEF PollFails, AgentTypeOK, Finite
  <1>4. ASSUME NEW t \in Threads, PollReturns(t)
        PROVE  AgentTypeOK' /\ IsFiniteSet(faults') /\ IsFiniteSet(page'.data.events)
    <2> DEFINE answer == [events |-> call[t].events, cursor |-> call[t].cursor, online |-> call[t].online]
    <2>1. answer \in Answered /\ IsFiniteSet(answer.events)
      BY DEF ServerTypeOK, Call, Answered, Finite
    <2>2. CASE PollSucceeded(answer)
      <3>1. PICK b \in BOOLEAN : b = (page.due \/ answer # page.data)
        <4>1. (page.due \/ answer # page.data) \in BOOLEAN
          BY DEF AgentTypeOK, Page
        <4> QED
          BY <4>1
      <3>2. page' = [page EXCEPT !.poll = NoThread, !.data = answer, !.due = b]
        BY <2>2, <3>1 DEF PollSucceeded
      <3> HIDE DEF answer
      <3>3. page' \in Page /\ page'.data = answer
        BY <2>1, <3>2 DEF AgentTypeOK, Page
      <3> QED
        BY <1>4, <2>1, <3>3 DEF PollReturns, AgentTypeOK, Finite
    <2>3. CASE PollFailed
      BY <1>2, <1>4, <2>3 DEF PollReturns, AgentTypeOK, Finite
    <2> QED
      BY <1>4, <2>2, <2>3 DEF PollReturns
  <1> QED
    BY <1>1, <1>3, <1>4

LEMMA ApplyTyped ==
    ASSUME AgentTypeOK, Finite, Apply \/ Remount
    PROVE  AgentTypeOK' /\ IsFiniteSet(faults') /\ page'.data = page.data
  <1>0. page.data \in Answered /\ page.cursor \in Cursor /\ page.processed \subseteq Nat
        /\ page.pending \in Nat /\ page.poll \in Threads \cup {NoThread}
    BY DEF AgentTypeOK, Page
  <1>1. CASE Apply
    <2>1. Fresh \subseteq Event
      BY <1>0 DEF Fresh, Answered
    <2>2. Known \cup {e.seq : e \in Fresh} \in SUBSET Nat
      BY <1>0, <2>1 DEF Known, Event
    <2>3. Less(page.pending, Replies(Fresh)) \in Nat
      BY <1>0, FreshFinite, LessTyped
    <2>4. PICK known \in SUBSET Nat : known = Known \cup {e.seq : e \in Fresh}
      BY <2>2
    <2>5. PICK left \in Nat : left = Less(page.pending, Replies(Fresh))
      BY <2>3
    <2>6. PICK on \in BOOLEAN, c \in Cursor : on = page.data.online /\ c = page.data.cursor
      BY <1>0 DEF Answered
    <2>7. page' = [page EXCEPT !.due = FALSE, !.online = on, !.cursor = c, !.processed = known, !.pending = left]
      BY <1>1, <2>4, <2>5, <2>6 DEF Apply
    <2>8. page' \in Page /\ page'.data = page.data
      BY <2>7 DEF AgentTypeOK, Page
    <2>9. handled' \in [Said -> Nat]
      <3>1. \A s \in Said : handled[s] + Cardinality({e \in Fresh : Told(e) = s}) \in Nat
        <4> TAKE s \in Said
        <4>1. Cardinality({e \in Fresh : Told(e) = s}) \in Nat
          BY FreshFinite
        <4>2. handled[s] \in Nat
          BY DEF AgentTypeOK
        <4> QED
          BY <4>1, <4>2
      <3> QED
        BY <1>1, <3>1 DEF Apply
    <2> QED
      BY <1>1, <2>8, <2>9 DEF Apply, AgentTypeOK, Finite
  <1>2. CASE Remount
    <2>1. PICK b \in BOOLEAN : b = (page.data # NoData)
      OBVIOUS
    <2>2. page' = [Mounted EXCEPT !.data = page.data, !.due = b, !.poll = page.poll]
      BY <1>2, <2>1 DEF Remount
    <2>3. page' \in Page /\ page'.data = page.data
      BY <1>0, <2>2, NoDataTyped DEF Page
    <2>4. faults' \subseteq FaultKinds /\ IsFiniteSet(faults') /\ Cardinality(faults') <= MaxFaults
      BY <1>2, FaultTyped DEF Remount, AgentTypeOK, Finite
    <2> QED
      BY <1>2, <2>3, <2>4 DEF Remount, AgentTypeOK
  <1> QED
    BY <1>1, <1>2

LEMMA OthersTyped ==
    ASSUME AgentTypeOK, Finite,
           \/ PublishSnapshot \/ WorkerStep \/ WorkerCrash \/ ServerFaults \/ TimeLimits
           \/ \E t \in Threads : ServerRuns(t) \/ WorkerReturns(t) \/ NobodyWaits(t)
           \/ UNCHANGED vars
    PROVE  AgentTypeOK' /\ IsFiniteSet(faults') /\ page' = page
  <1>1. UNCHANGED <<message, page, handled>>
    BY DEF PublishSnapshot, WorkerStep, WorkerCrash, ServerFaults, TimeLimits, ServerRuns, WorkerReturns, NobodyWaits,
           Fetch, Think, Repost, PostResult, Sleep, WorkerFails, agentVars, vars
  <1>2. faults' = faults \/ \E kind : Fault(kind)
    BY DEF PublishSnapshot, WorkerStep, WorkerCrash, ServerFaults, TimeLimits, ServerRuns, WorkerReturns, NobodyWaits,
           Fetch, Think, Repost, PostResult, Sleep, WorkerFails, agentVars, vars
  <1>3. faults' \subseteq FaultKinds /\ IsFiniteSet(faults') /\ Cardinality(faults') <= MaxFaults
    BY <1>2, FaultTyped DEF AgentTypeOK, Finite
  <1> QED
    BY <1>1, <1>3 DEF AgentTypeOK

\* The worker's variable is changed by its own steps only.
LEMMA WorkerAlone ==
    ASSUME [Next]_vars
    PROVE  worker' = worker \/ WorkerStep \/ WorkerCrash \/ \E t \in Threads : WorkerReturns(t)
  BY DEF Next, PageStep, Ask, MessageFails, MessageArrives, PublishSnapshot, Poll, PollFails, Apply, Remount,
         ServerFaults, TimeLimits, ThreadStep, ServerRuns, PollReturns, NobodyWaits, agentVars, vars

TypeInv == ServerTypeOK /\ AgentTypeOK /\ Finite /\ RelayInv
           /\ worker \in Worker /\ Len(worker.queue) <= RetrySize /\ WorkerInv

LEMMA InitTypes == Init => TypeInv
  <1> SUFFICES ASSUME Init PROVE TypeInv
    OBVIOUS
  <1>1. ServerTypeOK
    BY FreeTyped, EmptySeq DEF Init, ServerInit, ServerTypeOK
  <1>2. AgentTypeOK
    BY NoDataTyped, FS_EmptySet, AgentAssumption DEF Init, AgentTypeOK
  <1>3. Finite
    BY FS_EmptySet DEF Init, ServerInit, Finite, Mounted, NoData, Free
  <1>4. worker \in Worker /\ Len(worker.queue) <= RetrySize /\ WorkerInv
    BY EmptySeq, AgentAssumption DEF Init, Started, Worker, WorkerInv
  <1> QED
    BY <1>1, <1>2, <1>3, <1>4, InitRelay DEF Init, TypeInv

LEMMA StepTypes ==
    ASSUME TypeInv, [Next]_vars
    PROVE  TypeInv' /\ [ServerNext]_serverVars
  <1>1. [ServerNext]_serverVars
    BY StepIsRelays DEF TypeInv, AgentTypeOK
  <1>2. AgentTypeOK' /\ IsFiniteSet(faults') /\ IsFiniteSet(page'.data.events)
    <2>1. CASE \E j \in Jobs : Ask(j) \/ MessageFails(j) \/ MessageArrives(j)
      BY <2>1, AskTyped DEF TypeInv, Finite
    <2>2. CASE Poll \/ PollFails \/ \E t \in Threads : PollReturns(t)
      BY <2>2, PollTyped DEF TypeInv
    <2>3. CASE Apply \/ Remount
      BY <2>3, ApplyTyped DEF TypeInv, Finite
    <2>4. CASE \/ PublishSnapshot \/ WorkerStep \/ WorkerCrash \/ ServerFaults \/ TimeLimits
               \/ \E t \in Threads : ServerRuns(t) \/ WorkerReturns(t) \/ NobodyWaits(t)
               \/ UNCHANGED vars
      BY <2>4, OthersTyped DEF TypeInv, Finite
    <2> QED
      BY <2>1, <2>2, <2>3, <2>4 DEF Next, PageStep, ThreadStep
  <1>3. worker' \in Worker /\ Len(worker'.queue) <= RetrySize /\ WorkerInv'
    <2>1. CASE worker' = worker
      BY <2>1 DEF TypeInv, WorkerInv
    <2> QED
      BY <2>1, WorkerTyped, WorkerAlone DEF TypeInv
  <1>4. IsFiniteSet(feed') /\ \A t \in Threads : IsFiniteSet(call'[t].events)
    BY <1>1, RelayFinite DEF TypeInv
  <1>5. ServerTypeOK' /\ RelayInv'
    BY <1>1, ServerTyped, StepRelay DEF TypeInv
  <1> QED
    BY <1>1, <1>2, <1>3, <1>4, <1>5 DEF TypeInv, Finite

(* Type correctness of the whole, with the retry queue of the worker within its *)
(* bound (publish.py _enqueue).                                                 *)
THEOREM TwinTyped == Spec => []TypeOK
  <1>1. TypeInv /\ [Next]_vars => TypeInv'
    BY StepTypes
  <1>2. TypeInv => TypeOK
    BY DEF TypeInv, AgentTypeOK, TypeOK
  <1> QED
    BY <1>1, <1>2, InitTypes, PTL DEF Spec

(* Asked by the page, answered by the worker and with every fault: the relay   *)
(* inside the whole still answers a question at most once.                     *)
THEOREM WholeAnswersOnce == Spec => AnswersOnce
  <1>1. Init => ServerInit
    BY DEF Init
  <1>2. TypeInv /\ [Next]_vars => TypeInv' /\ [ServerNext]_serverVars
    BY StepTypes
  <1>3. Spec => ServerSpec
    BY <1>1, <1>2, InitTypes, PTL DEF Spec, ServerSpec
  <1> QED
    BY <1>3, QuestionsAnsweredOnce

-----------------------------------------------------------------------------
(***************************************************************************)
(* The page and its feed. The relay counts its events from the moment it   *)
(* started, the page from whatever it last saw; what relates the two is    *)
(* which of the events ever posted a number stands for.                    *)
(***************************************************************************)

\* The relay counts its feed from the events posted before it started.
Base == Len(posted) - tail

\* The event e of a feed that was counted from b is the one posted then.
Says(b, e) == e.seq \in Nat \ {0} /\ b + e.seq \in DOMAIN posted /\ posted[b + e.seq] = Told(e)

WasHandled(e) == handled[Told(e)] > 0
Replied == {e \in feed : e.kind = "reply"}

\* Every event is posted once, and the feed holds the last of them.
FeedInv ==
    /\ tail <= Len(posted)
    /\ \A e \in feed : e.seq <= tail /\ Says(Base, e)
    /\ \A i, k \in DOMAIN posted : posted[i] = posted[k] => i = k
    /\ \A s \in Said : handled[s] > 0 => \E i \in DOMAIN posted : posted[i] = s

\* The thread that works on the page's poll, and whether it has the answer.
Asking == page.poll # NoThread /\ call[page.poll].pc \in {"sweep", "announce"}
Answering == page.poll # NoThread /\ call[page.poll].pc = "answer" /\ call[page.poll].code = "ok"

\* A thread that works on a poll does nothing else.
Apart == page.poll # NoThread => page.poll # worker.wait
PollAlone ==
    page.poll # NoThread =>
        /\ call[page.poll].op \in {"free", "updates"}
        /\ call[page.poll].pc \in {"free", "sweep", "announce", "answer"}
        /\ call[page.poll].code # "409"
        /\ call[page.poll].pc = "free" => call[page.poll] = Free
        /\ Asking => call[page.poll].events = {}

\* A poll is answered with what the feed says.
PollAnswers ==
    Answering =>
        /\ call[page.poll].cursor \in 0 .. tail
        /\ \A e \in call[page.poll].events : e.seq <= call[page.poll].cursor /\ Says(Base, e)

\* Who has no answer yet has asked nothing.
NothingAsked ==
    page.data = NoData =>
        /\ issued = {} /\ \A j \in Jobs : message[j] = "unsent"
        /\ ~page.online /\ ~page.due /\ page.cursor = NoCursor

\* The answer the page has was given by this server, or by one before it.
DataFrom(b) ==
    /\ \A e \in page.data.events : e.seq <= page.data.cursor /\ Says(b, e)
    /\ \/ b + page.data.cursor <= Base
       \/ /\ b = Base /\ page.data.cursor <= tail
          /\ Answering => page.data.cursor <= call[page.poll].cursor

DataInv ==
    /\ page.data # NoData => page.data.cursor \in Nat
    /\ page.cursor = NoCursor /\ ~page.due => page.data = NoData
    /\ page.data # NoData => \E b \in Nat : DataFrom(b)

\* What this server said and the page has handled, the page remembers.
Remembered ==
    \A s \in 1 .. tail : handled[posted[Base + s]] > 0 =>
        /\ s \in page.processed
        /\ page.cursor # NoCursor /\ page.cursor <= page.data.cursor
        /\ page.data.cursor <= tail
        /\ Answering => page.data.cursor <= call[page.poll].cursor

OnceInv ==
    /\ NothingRepeated
    /\ Remembered
    /\ page.due => \A e \in page.data.events : WasHandled(e) => e.seq \in Known

\* While the server stays up, a reply up to a cursor is handled or on its way.
DataPassed ==
    page.data # NoData =>
        /\ page.data.cursor <= tail
        /\ \A e \in Replied : e.seq <= page.data.cursor =>
               WasHandled(e) \/ (page.due /\ e \in page.data.events)

CursorPassed ==
    /\ page.cursor # NoCursor =>
         page.cursor <= tail /\ \A e \in Replied : e.seq <= page.cursor => WasHandled(e)
    /\ \A s \in page.processed : s <= tail
    /\ \A e \in Replied : e.seq \in page.processed => WasHandled(e)

PollPassed ==
    /\ Asking =>
         \/ call[page.poll].cursor = NoCursor /\ page.data = NoData
         \/ /\ call[page.poll].cursor \in 0 .. tail
            /\ \A e \in Replied : e.seq <= call[page.poll].cursor => WasHandled(e)
    /\ Answering =>
         \A e \in Replied : e.seq <= call[page.poll].cursor =>
             WasHandled(e) \/ e \in call[page.poll].events

PassedInv == DataPassed /\ CursorPassed /\ PollPassed

PageInv ==
    /\ FeedInv /\ Apart /\ PollAlone /\ PollAnswers /\ NothingAsked /\ DataInv
    /\ "remount" \notin faults => OnceInv
    /\ "restart" \notin faults => PassedInv

-----------------------------------------------------------------------------
(* What a step can be for the feed, the poll and what the page remembers.    *)

Refs == <<page.cursor, page.processed, page.data, page.due, page.poll>>

\* The thread of the poll stays where it is, or starts to announce.
SamePoll ==
    page.poll # NoThread =>
        /\ call'[page.poll].op = call[page.poll].op
        /\ call'[page.poll].cursor = call[page.poll].cursor
        /\ call'[page.poll].events = call[page.poll].events
        /\ call'[page.poll].code = call[page.poll].code
        /\ \/ call'[page.poll].pc = call[page.poll].pc
           \/ call[page.poll].pc = "sweep" /\ call'[page.poll].pc = "announce"
        /\ call'[page.poll].pc = "free" => call'[page.poll] = call[page.poll]

Quiet ==
    /\ UNCHANGED <<tail, feed, posted, handled, Refs>>
    /\ SamePoll
    /\ \A kind \in {"restart", "remount"} : kind \in faults' <=> kind \in faults

Unsaid(kind, j) == \A i \in DOMAIN posted : posted[i] # [kind |-> kind, job |-> j]

Posting(kind, j) ==
    /\ Post(kind, j) /\ Unsaid(kind, j)
    /\ UNCHANGED <<handled, faults, Refs>>
    /\ SamePoll

Collecting == page.poll # NoThread /\ Collect(page.poll) /\ UNCHANGED <<handled, faults, Refs>>

Answers == page.poll # NoThread /\ PollReturns(page.poll)

Restarting == Fault("restart") /\ Restart /\ UNCHANGED <<page, handled>>

LEMMA OthersQuiet ==
    ASSUME TypeInv, NEW t \in Threads, page.poll # t,
           \/ \E c : Begin(t, c)
           \/ Return(t) \/ Sweep(t) \/ Claim(t) \/ Complete(t) \/ Collect(t)
           \/ Announce(t) \/ PostReply(t) \/ PostCommands(t)
    PROVE  SamePoll
  <1>1. page.poll # NoThread => call'[page.poll] = call[page.poll]
    <2>1. DOMAIN call = Threads /\ page.poll \in Threads \cup {NoThread}
      BY DEF TypeInv, ServerTypeOK, AgentTypeOK, Page
    <2>2. CASE (\E c : Begin(t, c)) \/ Return(t)
      BY <2>1, <2>2 DEF Begin, Return
    <2>3. CASE Sweep(t)
      BY <2>1, <2>3 DEF Sweep
    <2>4. CASE Claim(t)
      BY <2>1, <2>4 DEF Claim
    <2>5. CASE Complete(t)
      BY <2>1, <2>5 DEF Complete
    <2>6. CASE Collect(t)
      BY <2>1, <2>6 DEF Collect
    <2>7. CASE Announce(t) \/ PostReply(t) \/ PostCommands(t)
      BY <2>1, <2>7 DEF Announce, PostReply, PostCommands
    <2> QED
      BY <2>2, <2>3, <2>4, <2>5, <2>6, <2>7
  <1> QED
    BY <1>1 DEF SamePoll

\* What the sweep of the poll itself does to it.
LEMMA OwnSweep ==
    ASSUME TypeInv, page.poll \in Threads, Sweep(page.poll) \/ Announce(page.poll)
    PROVE  SamePoll
  <1>1. call[page.poll] \in Call
    BY DEF TypeInv, ServerTypeOK
  <1>2. CASE Sweep(page.poll)
    BY <1>1, <1>2 DEF Sweep, SamePoll, TypeInv, ServerTypeOK, Call
  <1>3. CASE Announce(page.poll)
    <2>1. PICK j : call' = [call EXCEPT ![page.poll].todo = @ \ {j}]
      BY <1>3 DEF Announce
    <2>2. /\ call'[page.poll] = [call[page.poll] EXCEPT !.todo = @ \ {j}]
          /\ call[page.poll].pc = "announce"
      BY <1>3, <2>1 DEF Announce, TypeInv, ServerTypeOK
    <2> QED
      BY <1>1, <2>2 DEF SamePoll, Call
  <1> QED
    BY <1>2, <1>3

LEMMA PostsUnsaid ==
    ASSUME TypeInv, NEW t \in Threads, Announce(t) \/ PostReply(t) \/ PostCommands(t)
    PROVE  \E kind \in Kinds, j \in Jobs : Post(kind, j) /\ Unsaid(kind, j)
  <1>1. RelayTypeOK /\ OneDebtor
    BY DEF TypeInv, RelayInv
  <1>2. CASE Announce(t)
    <2>1. PICK j \in call[t].todo : Post("reply", j)
      BY <1>2 DEF Announce
    <2>2. j \in Jobs /\ OwesReply(t, j)
      BY <1>1, <2>1 DEF RelayTypeOK, OwesReply
    <2>3. Unsaid("reply", j)
      BY <1>1, <2>2 DEF OneDebtor, IsAnswered, Unsaid
    <2> QED
      BY <2>1, <2>2, <2>3 DEF Kinds
  <1>3. CASE PostReply(t)
    <2>1. call[t].job \in Jobs /\ OwesReply(t, call[t].job)
      BY <1>1, <1>3 DEF PostReply, RelayTypeOK, OwesReply
    <2>2. Unsaid("reply", call[t].job)
      BY <1>1, <2>1 DEF OneDebtor, IsAnswered, Unsaid
    <2> QED
      BY <1>3, <2>1, <2>2 DEF PostReply, Kinds
  <1>4. CASE PostCommands(t)
    <2>1. call[t].job \in Jobs /\ OwesCommands(t, call[t].job)
      BY <1>1, <1>4 DEF PostCommands, RelayTypeOK, OwesCommands
    <2>2. Unsaid("commands", call[t].job)
      BY <1>1, <2>1 DEF OneDebtor, IsCommanded, Unsaid
    <2> QED
      BY <1>4, <2>1, <2>2 DEF PostCommands, Kinds
  <1> QED
    BY <1>2, <1>3, <1>4

StepKind ==
    \/ Quiet \/ (\E kind \in Kinds, j \in Jobs : Posting(kind, j)) \/ Collecting
    \/ Poll \/ PollFails \/ Answers \/ Apply \/ Remount \/ Restarting

LEMMA RunsKind ==
    ASSUME TypeInv, PollAlone, NEW t \in Threads, ServerRuns(t)
    PROVE  StepKind
  <1>1. Handle(t) /\ UNCHANGED <<message, page, worker, handled, faults>>
    BY DEF ServerRuns, agentVars
  <1>2. UNCHANGED Refs
    BY <1>1 DEF Refs
  <1>3. CASE Announce(t) \/ PostReply(t) \/ PostCommands(t)
    <2>1. SamePoll
      <3>1. CASE page.poll = t
        <4>1. page.poll \in Threads /\ page.poll # NoThread
          BY <3>1, AgentAssumption
        <4>2. Announce(page.poll)
          BY <1>3, <3>1, <4>1 DEF PollAlone, PostReply, PostCommands
        <4> QED
          BY <4>1, <4>2, OwnSweep
      <3>2. CASE page.poll # t
        BY <1>3, <3>2, OthersQuiet
      <3> QED
        BY <3>1, <3>2
    <2> QED
      BY <1>1, <1>2, <1>3, <2>1, PostsUnsaid DEF Posting, StepKind
  <1>4. CASE Sweep(t) \/ Claim(t) \/ Complete(t) \/ Collect(t)
    <2>1. UNCHANGED <<tail, feed, posted>>
      BY <1>4 DEF Sweep, Claim, Complete, Collect
    <2>2. CASE page.poll # t
      BY <1>1, <1>2, <1>4, <2>1, <2>2, OthersQuiet DEF Quiet, StepKind
    <2>3. CASE page.poll = t
      <3>1. page.poll \in Threads /\ page.poll # NoThread
        BY <2>3, AgentAssumption
      <3>2. Sweep(page.poll) \/ Collect(page.poll)
        BY <1>4, <2>3, <3>1 DEF PollAlone, Claim, Complete
      <3>3. CASE Sweep(page.poll)
        BY <1>1, <1>2, <2>1, <3>1, <3>3, OwnSweep DEF Quiet, StepKind
      <3>4. CASE Collect(page.poll)
        BY <1>1, <1>2, <3>1, <3>4 DEF Collecting, StepKind
      <3> QED
        BY <3>2, <3>3, <3>4
    <2> QED
      BY <2>2, <2>3
  <1> QED
    BY <1>1, <1>3, <1>4 DEF Handle

LEMMA StepKinds ==
    ASSUME TypeInv, PollAlone, Apart, [Next]_vars
    PROVE  StepKind
  <1>1. ASSUME UNCHANGED <<tail, feed, posted, call, handled, faults, Refs>> PROVE StepKind
    BY <1>1 DEF Quiet, SamePoll, StepKind
  <1>2. ASSUME NEW kind \in {"pageLost", "workerLost", "crash", "unseen"}, Fault(kind),
               UNCHANGED <<tail, feed, posted, call, handled, Refs>>
        PROVE  StepKind
    BY <1>2 DEF Fault, Quiet, SamePoll, StepKind
  <1>3. CASE PageStep
    <2>1. ASSUME NEW j \in Jobs, Ask(j) \/ MessageFails(j) PROVE StepKind
      <3>1. UNCHANGED Refs
        BY <2>1 DEF Ask, MessageFails, Refs, TypeInv, AgentTypeOK, Page
      <3>2. faults' = faults \/ Fault("pageLost")
        BY <2>1 DEF Ask, MessageFails
      <3> QED
        BY <1>1, <1>2, <2>1, <3>1, <3>2 DEF Ask, MessageFails, serverVars
    <2>2. CASE PublishSnapshot
      BY <1>1, <2>2 DEF PublishSnapshot, StoreSnapshot, agentVars, Refs
    <2> QED
      BY <1>3, <2>1, <2>2 DEF PageStep, StepKind
  <1>4. ASSUME NEW t \in Threads, page.poll # t, (\E c : Begin(t, c)) \/ Return(t),
               UNCHANGED <<tail, feed, posted, handled, faults, Refs>>
        PROVE  StepKind
    BY <1>4, OthersQuiet DEF Quiet, StepKind
  <1>5. CASE WorkerStep
    <2>1. CASE Fetch \/ Repost \/ PostResult
      <3>1. PICK t \in Threads : page.poll # t /\ \E c : Begin(t, c)
        BY <2>1 DEF Fetch, Repost, PostResult, Unwatched, BeginJobs, BeginResult
      <3>2. UNCHANGED <<tail, feed, posted, handled, faults, Refs>>
        BY <2>1 DEF Fetch, Repost, PostResult, BeginJobs, BeginResult, Begin, Refs
      <3> QED
        BY <1>4, <3>1, <3>2
    <2>2. CASE Think \/ Sleep
      BY <1>1, <2>2 DEF Think, Sleep, serverVars, Refs
    <2>3. CASE WorkerFails
      <3>1. faults' = faults \/ Fault("workerLost")
        BY <2>3 DEF WorkerFails
      <3> QED
        BY <1>1, <1>2, <2>3, <3>1 DEF WorkerFails, serverVars, Refs
    <2> QED
      BY <1>5, <2>1, <2>2, <2>3 DEF WorkerStep
  <1>6. CASE WorkerCrash
    BY <1>2, <1>6 DEF WorkerCrash, serverVars, Refs
  <1>7. CASE ServerFaults
    <2>1. CASE Fault("unseen") /\ WorkerUnseen
      BY <1>2, <1>7, <2>1 DEF ServerFaults, WorkerUnseen, Refs
    <2>2. CASE Fault("restart") /\ Restart
      BY <1>7, <2>2 DEF ServerFaults, Restarting, StepKind
    <2> QED
      BY <1>7, <2>1, <2>2 DEF ServerFaults
  <1>8. CASE TimeLimits \/ UNCHANGED vars
    BY <1>1, <1>8 DEF TimeLimits, PassLimit, agentVars, serverVars, vars, Refs
  <1>9. ASSUME NEW j \in Jobs, MessageArrives(j) PROVE StepKind
    BY <1>1, <1>9 DEF MessageArrives, EnqueueJob, Refs
  <1>10. ASSUME NEW t \in Threads, ThreadStep(t) PROVE StepKind
    <2>1. CASE ServerRuns(t)
      BY <2>1, RunsKind
    <2>2. CASE PollReturns(t)
      <3>1. page.poll = t /\ t # NoThread
        BY <2>2, AgentAssumption DEF PollReturns
      <3> QED
        BY <2>2, <3>1 DEF Answers, StepKind
    <2>3. CASE WorkerReturns(t) \/ NobodyWaits(t)
      <3>1. page.poll # t
        <4>1. CASE WorkerReturns(t)
          BY <4>1, AgentAssumption DEF WorkerReturns, Apart
        <4>2. CASE NobodyWaits(t)
          BY <4>2 DEF NobodyWaits, Unwatched
        <4> QED
          BY <2>3, <4>1, <4>2
      <3>2. Return(t) /\ UNCHANGED <<tail, feed, posted, handled, faults, Refs>>
        BY <2>3 DEF WorkerReturns, NobodyWaits, Return, agentVars, Refs
      <3> QED
        BY <1>4, <3>1, <3>2
    <2> QED
      BY <1>10, <2>1, <2>2, <2>3 DEF ThreadStep
  <1> QED
    BY <1>3, <1>5, <1>6, <1>7, <1>8, <1>9, <1>10 DEF Next

LEMMA StepApart ==
    ASSUME TypeInv, Apart, [Next]_vars
    PROVE  Apart'
  <1>1. page \in Page /\ worker \in Worker
    BY DEF TypeInv, AgentTypeOK
  <1>2. CASE worker'.wait \in {worker.wait, NoThread} /\ page'.poll \in {page.poll, NoThread}
    BY <1>2 DEF Apart
  <1>3. ASSUME NEW t \in Threads, Unwatched(t), \E pc : Calls(pc, t), page' = page PROVE Apart'
    BY <1>1, <1>3 DEF Unwatched, Calls, Apart, Worker
  <1>4. CASE Fetch \/ Repost \/ PostResult
    BY <1>3, <1>4 DEF Fetch, Repost, PostResult
  <1>5. CASE Poll
    <2>1. PICK t \in Threads : Unwatched(t) /\ page' = [page EXCEPT !.poll = t]
      BY <1>5 DEF Poll
    <2> QED
      BY <1>1, <1>5, <2>1 DEF Poll, Unwatched, Apart, Page
  <1>6. CASE WorkerFails
    <2>1. worker.pc \in {"fetching", "reposting", "posting"}
      BY <1>6 DEF TypeInv, WorkerInv, WorkerFails
    <2>2. worker'.wait = NoThread
      BY <1>1, <1>6, <2>1 DEF WorkerFails, Worker
    <2> QED
      BY <1>2, <1>6, <2>2 DEF WorkerFails
  <1>7. ASSUME NEW t \in Threads, WorkerReturns(t) PROVE Apart'
    <2>1. worker.pc \in {"fetching", "reposting", "posting"}
      BY <1>7, AgentAssumption DEF TypeInv, WorkerInv, WorkerReturns
    <2>2. worker'.wait = NoThread
      BY <1>1, <1>7, <2>1 DEF WorkerReturns, Worker
    <2> QED
      BY <1>2, <1>7, <2>2 DEF WorkerReturns
  <1>8. ASSUME NEW t \in Threads, PollReturns(t) PROVE Apart'
    <2>1. page'.poll = NoThread
      BY <1>1, <1>8 DEF PollReturns, PollFailed, PollSucceeded, Page
    <2> QED
      BY <1>2, <1>8, <2>1 DEF PollReturns
  <1>9. CASE Apply \/ Remount \/ PollFails
    BY <1>1, <1>2, <1>9 DEF Apply, Remount, PollFails, PollFailed, Mounted, Page
  <1>10. ASSUME NEW j \in Jobs, Ask(j) \/ MessageFails(j) \/ MessageArrives(j) PROVE Apart'
    BY <1>1, <1>2, <1>10 DEF Ask, MessageFails, MessageArrives, Page
  <1>11. CASE PublishSnapshot \/ TimeLimits \/ ServerFaults \/ UNCHANGED vars
              \/ \E t \in Threads : ServerRuns(t) \/ NobodyWaits(t)
    BY <1>2, <1>11 DEF PublishSnapshot, TimeLimits, ServerFaults, ServerRuns, NobodyWaits, agentVars, vars
  <1>12. CASE Think \/ Sleep \/ WorkerCrash
    <2>1. CASE Think
      <3>1. PICK tools : worker' = [worker EXCEPT !.pc = "flushing", !.tools = tools]
        BY <2>1 DEF Think
      <3> QED
        BY <1>1, <1>2, <2>1, <3>1 DEF Think, Worker
    <2>2. CASE Sleep
      BY <1>1, <1>2, <2>2 DEF Sleep, Worker
    <2>3. CASE WorkerCrash
      BY <1>1, <1>2, <2>3 DEF WorkerCrash, Started
    <2> QED
      BY <1>12, <2>1, <2>2, <2>3
  <1> QED
    BY <1>4, <1>5, <1>6, <1>7, <1>8, <1>9, <1>10, <1>11, <1>12 DEF Next, PageStep, WorkerStep, ThreadStep

-----------------------------------------------------------------------------
(* The feed.                                                                 *)

\* What the types say of the numbers used below.
LEMMA FeedTypes ==
    ASSUME TypeInv, FeedInv
    PROVE  /\ tail \in Nat /\ Len(posted) \in Nat /\ Base \in Nat
           /\ DOMAIN posted = 1 .. Len(posted)
           /\ \A i \in DOMAIN posted : posted[i] \in Said
           /\ \A e \in Event : e.seq \in Nat /\ Told(e) \in Said
           /\ feed \subseteq Event /\ page.data.events \subseteq Event
           /\ \A e \in Event, f \in Event : e.seq = f.seq /\ Told(e) = Told(f) => e = f
  <1>1. posted \in Seq(Said) /\ tail \in Nat /\ feed \subseteq Event
    BY DEF TypeInv, ServerTypeOK, Said
  <1>2. Len(posted) \in Nat /\ DOMAIN posted = 1 .. Len(posted) /\ \A i \in DOMAIN posted : posted[i] \in Said
    BY <1>1, LenProperties, ElementOfSeq
  <1>3. \A e \in Event : e.seq \in Nat /\ Told(e) \in Said
    BY DEF Event, Told, Said
  <1>4. \A e \in Event, f \in Event : e.seq = f.seq /\ Told(e) = Told(f) => e = f
    BY DEF Event, Told
  <1>5. page.data.events \subseteq Event
    BY DEF TypeInv, AgentTypeOK, Page, Answered
  <1> QED
    BY <1>1, <1>2, <1>3, <1>4, <1>5 DEF FeedInv, Base

\* An append: the number of the new event, and what stays as it was.
LEMMA PostingFacts ==
    ASSUME TypeInv, FeedInv, NEW kind \in Kinds, NEW j \in Jobs, Posting(kind, j)
    PROVE  /\ tail' = tail + 1 /\ Base' = Base /\ Len(posted') = Len(posted) + 1
           /\ \A i \in DOMAIN posted : i \in DOMAIN posted' /\ posted'[i] = posted[i]
           /\ DOMAIN posted' = DOMAIN posted \cup {Base + tail + 1}
           /\ Base + tail + 1 \notin DOMAIN posted
           /\ posted'[Base + tail + 1] = [kind |-> kind, job |-> j]
           /\ handled[[kind |-> kind, job |-> j]] = 0
  <1>1. tail \in Nat /\ Len(posted) \in Nat /\ DOMAIN posted = 1 .. Len(posted) /\ posted \in Seq(Said)
    BY FeedTypes DEF TypeInv, ServerTypeOK, Said
  <1>2. [kind |-> kind, job |-> j] \in Said
    BY DEF Said
  <1>3. /\ posted' = Append(posted, [kind |-> kind, job |-> j])
        /\ tail' = tail + 1 /\ Unsaid(kind, j)
    BY DEF Posting, Post
  <1>4. /\ posted' \in Seq(Said) /\ Len(posted') = Len(posted) + 1
        /\ \A i \in 1 .. Len(posted) : posted'[i] = posted[i]
        /\ posted'[Len(posted) + 1] = [kind |-> kind, job |-> j]
    BY <1>1, <1>2, <1>3, AppendProperties
  <1>5. DOMAIN posted' = 1 .. (Len(posted) + 1)
    BY <1>4, LenProperties
  <1>6. Base + tail + 1 = Len(posted) + 1 /\ Base' = Base
    BY <1>1, <1>3, <1>4 DEF Base
  <1>7. handled[[kind |-> kind, job |-> j]] = 0
    <2>1. handled[[kind |-> kind, job |-> j]] \in Nat
      BY <1>2 DEF TypeInv, AgentTypeOK
    <2> QED
      BY <1>2, <1>3, <2>1 DEF FeedInv, Unsaid
  <1> QED
    BY <1>1, <1>3, <1>4, <1>5, <1>6, <1>7

LEMMA PostedEvents ==
    ASSUME NEW kind, NEW j, Posting(kind, j)
    PROVE  \A e \in feed' : e \in feed \/ e = [seq |-> tail + 1, kind |-> kind, job |-> j]
  BY DEF Posting, Post

LEMMA StepFeed ==
    ASSUME TypeInv, FeedInv, DataInv, NothingAsked, StepKind
    PROVE  FeedInv'
  <1>1. ASSUME UNCHANGED <<tail, feed, posted, handled>> PROVE FeedInv'
    BY <1>1 DEF FeedInv, Base, Says
  <1>2. CASE Quiet
    BY <1>1, <1>2 DEF Quiet
  <1>3. ASSUME NEW kind \in Kinds, NEW j \in Jobs, Posting(kind, j) PROVE FeedInv'
    <2> DEFINE said == [kind |-> kind, job |-> j]
    <2>0. /\ tail' = tail + 1 /\ Base' = Base /\ Len(posted') = Len(posted) + 1
          /\ \A i \in DOMAIN posted : i \in DOMAIN posted' /\ posted'[i] = posted[i]
          /\ DOMAIN posted' = DOMAIN posted \cup {Base + tail + 1}
          /\ Base + tail + 1 \notin DOMAIN posted
          /\ posted'[Base + tail + 1] = said
      BY <1>3, PostingFacts
    <2>6. \A e \in feed' : e \in feed \/ e = [seq |-> tail + 1, kind |-> kind, job |-> j]
      BY <1>3, PostedEvents
    <2>1. tail \in Nat /\ Len(posted) \in Nat /\ Base \in Nat
      BY FeedTypes
    <2>2. ASSUME NEW e \in feed' PROVE e.seq <= tail' /\ Says(Base, e)'
      <3>1. CASE e \in feed
        <4>1. e.seq <= tail /\ e.seq \in Nat \ {0} /\ Base + e.seq \in DOMAIN posted /\ posted[Base + e.seq] = Told(e)
          BY <3>1 DEF FeedInv, Says
        <4> QED
          BY <2>0, <2>1, <4>1 DEF Says
      <3>2. CASE e = [seq |-> tail + 1, kind |-> kind, job |-> j]
        <4>1. e.seq = tail + 1 /\ Told(e) = said
          BY <3>2 DEF Told
        <4>2. Base + (tail + 1) = Base + tail + 1
          BY <2>1
        <4>3. Base + e.seq \in DOMAIN posted' /\ posted'[Base + e.seq] = Told(e) /\ e.seq <= tail' /\ e.seq \in Nat \ {0}
          BY <2>0, <2>1, <4>1, <4>2
        <4> QED
          BY <2>0, <4>3 DEF Says
      <3> QED
        BY <2>2, <2>6, <3>1, <3>2
    <2>3. ASSUME NEW i \in DOMAIN posted', NEW k \in DOMAIN posted', posted'[i] = posted'[k] PROVE i = k
      <3>1. \A n \in DOMAIN posted : posted[n] # said
        BY <1>3 DEF Posting, Unsaid
      <3>2. \A n, m \in DOMAIN posted : posted[n] = posted[m] => n = m
        BY DEF FeedInv
      <3>3. CASE i \in DOMAIN posted /\ k \in DOMAIN posted
        BY <2>0, <2>3, <3>2, <3>3
      <3>4. CASE ~(i \in DOMAIN posted /\ k \in DOMAIN posted)
        BY <2>0, <2>3, <3>1, <3>4
      <3> QED
        BY <3>3, <3>4
    <2>4. ASSUME NEW s \in Said, handled'[s] > 0 PROVE \E i \in DOMAIN posted' : posted'[i] = s
      <3>1. PICK i \in DOMAIN posted : posted[i] = s
        BY <1>3, <2>4 DEF Posting, FeedInv
      <3> QED
        BY <2>0, <3>1
    <2>5. tail' <= Len(posted')
      BY <2>0, <2>1 DEF FeedInv
    <2> QED
      BY <2>2, <2>3, <2>4, <2>5 DEF FeedInv
  <1>4. CASE Collecting
    BY <1>1, <1>4 DEF Collecting, Collect
  <1>5. CASE Poll
    BY <1>1, <1>5 DEF Poll, BeginUpdates, Begin
  <1>6. CASE PollFails \/ Remount
    BY <1>1, <1>6 DEF PollFails, Remount, serverVars
  <1>7. CASE Answers
    BY <1>1, <1>7 DEF Answers, PollReturns, Return
  <1>8. CASE Apply
    <2>1. UNCHANGED <<tail, feed, posted>>
      BY <1>8 DEF Apply, serverVars
    <2>2. page.due /\ page.data # NoData
      BY <1>8 DEF Apply, NothingAsked
    <2>3. PICK b \in Nat : DataFrom(b)
      BY <2>2 DEF DataInv
    <2>4. ASSUME NEW s \in Said, handled'[s] > 0 PROVE \E i \in DOMAIN posted : posted[i] = s
      <3>1. handled'[s] = handled[s] + Cardinality({e \in Fresh : Told(e) = s}) /\ handled[s] \in Nat
        BY <1>8 DEF Apply, TypeInv, AgentTypeOK
      <3>2. CASE handled[s] > 0
        BY <3>2 DEF FeedInv
      <3>3. CASE {e \in Fresh : Told(e) = s} # {}
        <4>1. PICK e \in page.data.events : Told(e) = s
          BY <3>3 DEF Fresh
        <4> QED
          BY <2>3, <4>1 DEF DataFrom, Says
      <3>4. CASE {e \in Fresh : Told(e) = s} = {}
        <4>1. Cardinality({e \in Fresh : Told(e) = s}) = 0
          BY <3>4, FS_EmptySet
        <4>2. handled[s] > 0
          BY <2>4, <3>1, <4>1
        <4> QED
          BY <3>2, <4>2
      <3> QED
        BY <3>3, <3>4
    <2>5. (\A e \in feed : e.seq <= tail /\ Says(Base, e))'
      BY <2>1 DEF FeedInv, Says, Base
    <2> QED
      BY <2>1, <2>4, <2>5 DEF FeedInv
  <1>9. CASE Restarting
    <2>1. feed' = {} /\ tail' = 0 /\ posted' = posted /\ handled' = handled
      BY <1>9 DEF Restarting, Restart
    <2> QED
      BY <2>1 DEF FeedInv
  <1> QED
    BY <1>2, <1>3, <1>4, <1>5, <1>6, <1>7, <1>8, <1>9 DEF StepKind

-----------------------------------------------------------------------------
(* The poll.                                                                 *)

LEMMA CollectFacts ==
    ASSUME TypeInv, PollAlone, Collecting
    PROVE  /\ page.poll # NoThread /\ page'.poll = page.poll /\ Asking
           /\ call'[page.poll].op = "updates" /\ call'[page.poll].pc = "answer"
           /\ call'[page.poll].cursor = tail /\ call'[page.poll].code = call[page.poll].code
           /\ \/ ~Readable(call[page.poll].cursor) /\ call'[page.poll].events = {}
              \/ /\ Readable(call[page.poll].cursor)
                 /\ \E stale \in SUBSET CommandEvents :
                        call'[page.poll].events = Unread(call[page.poll].cursor, stale)
           /\ UNCHANGED <<tail, feed, posted, handled, faults, Refs>>
  <1>1. page.poll \in Threads /\ call[page.poll] \in Call /\ DOMAIN call = Threads
    BY DEF Collecting, TypeInv, ServerTypeOK, AgentTypeOK, Page
  <1>2. call[page.poll].op = "updates" /\ Asking
    BY DEF Collecting, Collect, Asking
  <1>3. UNCHANGED <<tail, feed, posted, handled, faults, Refs>> /\ page'.poll = page.poll
    BY DEF Collecting, Collect, Refs
  <1>4. CASE ~Readable(call[page.poll].cursor)
    <2>1. call' = [call EXCEPT ![page.poll].pc = "answer", ![page.poll].cursor = tail, ![page.poll].online = workerSeen]
      BY <1>4 DEF Collecting, Collect
    <2>2. call[page.poll].events = {}
      BY <1>2 DEF PollAlone, Collecting
    <2> QED
      BY <1>1, <1>2, <1>3, <1>4, <2>1, <2>2 DEF Call, Collecting
  <1>5. CASE Readable(call[page.poll].cursor)
    <2>1. PICK stale \in SUBSET CommandEvents :
            call' = [call EXCEPT ![page.poll].pc = "answer", ![page.poll].cursor = tail, ![page.poll].online = workerSeen,
                                 ![page.poll].events = Unread(call[page.poll].cursor, stale)]
      BY <1>5 DEF Collecting, Collect
    <2> DEFINE c == [call[page.poll] EXCEPT !.pc = "answer", !.cursor = tail, !.online = workerSeen,
                                            !.events = Unread(call[page.poll].cursor, stale)]
    <2>2. call'[page.poll] = c
      BY <1>1, <2>1
    <2>3. c.op = "updates" /\ c.pc = "answer" /\ c.cursor = tail /\ c.code = call[page.poll].code
          /\ c.events = Unread(call[page.poll].cursor, stale)
      BY <1>1, <1>2 DEF Call
    <2> HIDE DEF c
    <2> QED
      BY <1>2, <1>3, <1>5, <2>2, <2>3 DEF Collecting
  <1> QED
    BY <1>4, <1>5

LEMMA PollFacts ==
    ASSUME TypeInv, Poll
    PROVE  /\ page.poll = NoThread /\ page'.poll # NoThread /\ (page.due => page.cursor # NoCursor)
           /\ call'[page'.poll] = IF slot
                                  THEN [Free EXCEPT !.op = "updates", !.pc = "sweep", !.cursor = page.cursor]
                                  ELSE [Free EXCEPT !.op = "updates", !.pc = "answer", !.code = "404"]
           /\ page'.cursor = page.cursor /\ page'.processed = page.processed /\ page'.data = page.data
           /\ page'.due = page.due /\ page'.online = page.online
           /\ UNCHANGED <<tail, feed, posted, issued, message, handled, faults>>
  <1>1. page.poll = NoThread /\ (page.due => page.cursor # NoCursor)
    BY DEF Poll
  <1>2. PICK t \in Threads : BeginUpdates(t, page.cursor) /\ page' = [page EXCEPT !.poll = t]
    BY DEF Poll
  <1>3. page'.poll = t /\ t # NoThread
    BY <1>2, AgentAssumption DEF TypeInv, AgentTypeOK, Page
  <1>4. call'[t] = IF slot THEN [Free EXCEPT !.op = "updates", !.pc = "sweep", !.cursor = page.cursor]
                           ELSE [Free EXCEPT !.op = "updates", !.pc = "answer", !.code = "404"]
    BY <1>2 DEF BeginUpdates, Begin, TypeInv, ServerTypeOK
  <1>5. UNCHANGED <<tail, feed, posted, issued, message, handled, faults>>
    BY <1>2 DEF Poll, BeginUpdates, Begin
  <1>6. page'.cursor = page.cursor /\ page'.processed = page.processed /\ page'.data = page.data
        /\ page'.due = page.due /\ page'.online = page.online
    BY <1>2 DEF TypeInv, AgentTypeOK, Page
  <1> QED
    BY <1>1, <1>3, <1>4, <1>5, <1>6

\* The end of a poll, with an answer or without.
LEMMA AnswerFacts ==
    ASSUME TypeInv, PollAlone, Answers \/ PollFails
    PROVE  /\ page'.poll = NoThread
           /\ page'.cursor = page.cursor /\ page'.processed = page.processed
           /\ UNCHANGED <<tail, feed, posted, issued, message, handled>>
           /\ "restart" \in faults' <=> "restart" \in faults
           /\ "remount" \in faults' <=> "remount" \in faults
           /\ \/ page'.data = page.data /\ page'.due = page.due /\ ~page'.online
              \/ /\ Answering
                 /\ page'.data = [events |-> call[page.poll].events, cursor |-> call[page.poll].cursor,
                                  online |-> call[page.poll].online]
                 /\ page'.due = (page.due \/ page'.data # page.data)
                 /\ page'.online = page.online
  <1>1. page \in Page
    BY DEF TypeInv, AgentTypeOK
  <1>2. ASSUME PollFailed
        PROVE  /\ page'.poll = NoThread /\ page'.cursor = page.cursor /\ page'.processed = page.processed
               /\ page'.data = page.data /\ page'.due = page.due /\ ~page'.online
    BY <1>1, <1>2 DEF PollFailed, Page
  <1>3. CASE PollFails
    <2>1. UNCHANGED <<tail, feed, posted, issued, message, handled>>
      BY <1>3 DEF PollFails, serverVars
    <2>2. ("restart" \in faults' <=> "restart" \in faults) /\ ("remount" \in faults' <=> "remount" \in faults)
      BY <1>3 DEF PollFails, Fault
    <2> QED
      BY <1>2, <1>3, <2>1, <2>2 DEF PollFails
  <1>4. CASE Answers
    <2>0. page.poll \in Threads /\ page.poll # NoThread /\ call[page.poll] \in Call /\ call[page.poll].pc = "answer"
      BY <1>1, <1>4 DEF Answers, PollReturns, Return, Page, TypeInv, ServerTypeOK
    <2>1. UNCHANGED <<tail, feed, posted, issued, message, handled, faults>>
      BY <1>4 DEF Answers, PollReturns, Return
    <2>2. CASE call[page.poll].code = "404"
      BY <1>2, <1>4, <2>1, <2>2 DEF Answers, PollReturns
    <2>3. CASE call[page.poll].code # "404"
      <3>1. Answering
        BY <2>0, <2>3 DEF Answering, PollAlone, Call
      <3> DEFINE answer == [events |-> call[page.poll].events, cursor |-> call[page.poll].cursor,
                            online |-> call[page.poll].online]
      <3>2. PollSucceeded(answer)
        BY <1>4, <2>3 DEF Answers, PollReturns
      <3> HIDE DEF answer
      <3>3. PICK b \in BOOLEAN : b = (page.due \/ answer # page.data)
        <4>1. (page.due \/ answer # page.data) \in BOOLEAN
          BY <1>1 DEF Page
        <4> QED
          BY <4>1
      <3>4. page' = [page EXCEPT !.poll = NoThread, !.data = answer, !.due = b]
        BY <3>2, <3>3 DEF PollSucceeded
      <3>5. page'.poll = NoThread /\ page'.data = answer /\ page'.due = b /\ page'.cursor = page.cursor
            /\ page'.processed = page.processed /\ page'.online = page.online
        BY <1>1, <3>4 DEF Page
      <3> QED
        BY <2>1, <3>1, <3>3, <3>5 DEF answer
    <2> QED
      BY <2>2, <2>3
  <1> QED
    BY <1>3, <1>4

\* The effect on the answer, and the workspace entered again.
LEMMA ApplyFacts ==
    ASSUME TypeInv, Apply
    PROVE  /\ page.due /\ ~page'.due /\ page'.data = page.data /\ page'.poll = page.poll
           /\ page'.cursor = page.data.cursor /\ page'.processed = Known \cup {e.seq : e \in Fresh}
           /\ handled' = [s \in Said |-> handled[s] + Cardinality({e \in Fresh : Told(e) = s})]
           /\ UNCHANGED <<tail, feed, posted, call, issued, message, faults>>
  <1>1. page \in Page
    BY DEF TypeInv, AgentTypeOK
  <1>2. PICK known, left : known = Known \cup {e.seq : e \in Fresh} /\ left = Less(page.pending, Replies(Fresh))
    OBVIOUS
  <1>3. page' = [page EXCEPT !.due = FALSE, !.online = page.data.online, !.cursor = page.data.cursor,
                             !.processed = known, !.pending = left]
    BY <1>2 DEF Apply
  <1>4. ~page'.due /\ page'.data = page.data /\ page'.poll = page.poll
        /\ page'.cursor = page.data.cursor /\ page'.processed = known
    BY <1>1, <1>3 DEF Page
  <1>5. page.due /\ UNCHANGED <<tail, feed, posted, call, issued, message, faults>>
        /\ handled' = [s \in Said |-> handled[s] + Cardinality({e \in Fresh : Told(e) = s})]
    BY DEF Apply, serverVars
  <1> QED
    BY <1>2, <1>4, <1>5

LEMMA RemountFacts ==
    ASSUME TypeInv, Remount
    PROVE  /\ page'.data = page.data /\ page'.poll = page.poll /\ page'.due = (page.data # NoData)
           /\ page'.cursor = NoCursor /\ page'.processed = {} /\ ~page'.online
           /\ faults' = faults \cup {"remount"}
           /\ UNCHANGED <<tail, feed, posted, call, issued, message, handled>>
  <1>1. page' = [Mounted EXCEPT !.data = page.data, !.due = (page.data # NoData), !.poll = page.poll]
    BY DEF Remount
  <1>2. PICK b \in BOOLEAN : b = (page.data # NoData)
    OBVIOUS
  <1>3. page' = [Mounted EXCEPT !.data = page.data, !.due = b, !.poll = page.poll]
    BY <1>1, <1>2
  <1>4. page'.data = page.data /\ page'.poll = page.poll /\ page'.due = b
        /\ page'.cursor = NoCursor /\ page'.processed = {} /\ ~page'.online
    BY <1>3 DEF Mounted
  <1> QED
    BY <1>2, <1>4 DEF Remount, Fault, serverVars

LEMMA RestartFacts ==
    ASSUME TypeInv, Restarting
    PROVE  /\ tail' = 0 /\ feed' = {} /\ posted' = posted /\ page' = page /\ handled' = handled
           /\ faults' = faults \cup {"restart"}
           /\ page.poll # NoThread => call'[page.poll] = Free
  BY DEF Restarting, Restart, Fault, TypeInv, AgentTypeOK, Page

\* The poll does what a poll does, and no more.
LEMMA StepAlone ==
    ASSUME TypeInv, PollAlone, StepKind
    PROVE  PollAlone'
  <1>1. ASSUME SamePoll, page'.poll = page.poll PROVE PollAlone'
    <2>1. CASE page.poll = NoThread
      BY <1>1, <2>1 DEF PollAlone
    <2>2. CASE page.poll # NoThread
      <3>1. call'[page.poll].pc \in {"sweep", "announce"} => call[page.poll].pc \in {"sweep", "announce"}
        BY <1>1, <2>2 DEF SamePoll
      <3>2. call'[page.poll].pc = "free" => call'[page.poll] = Free
        BY <1>1, <2>2 DEF SamePoll, PollAlone
      <3> QED
        BY <1>1, <2>2, <3>1, <3>2 DEF SamePoll, PollAlone, Asking
    <2> QED
      BY <2>1, <2>2
  <1>2. CASE Quiet \/ \E kind \in Kinds, j \in Jobs : Posting(kind, j)
    BY <1>1, <1>2 DEF Quiet, Posting, Refs
  <1>3. CASE Collecting
    <2>1. /\ page'.poll = page.poll /\ page.poll # NoThread
          /\ call'[page.poll].op = "updates" /\ call'[page.poll].pc = "answer"
          /\ call'[page.poll].code = call[page.poll].code
      BY <1>3, CollectFacts
    <2> QED
      BY <2>1 DEF PollAlone, Asking
  <1>4. CASE Poll
    <2>1. CASE slot
      <3>1. call'[page'.poll] = [Free EXCEPT !.op = "updates", !.pc = "sweep", !.cursor = page.cursor]
        BY <1>4, <2>1, PollFacts
      <3> QED
        BY <3>1 DEF PollAlone, Asking, Free
    <2>2. CASE ~slot
      <3>1. call'[page'.poll] = [Free EXCEPT !.op = "updates", !.pc = "answer", !.code = "404"]
        BY <1>4, <2>2, PollFacts
      <3> QED
        BY <3>1 DEF PollAlone, Asking, Free
    <2> QED
      BY <2>1, <2>2
  <1>5. CASE Answers \/ PollFails
    BY <1>5, AnswerFacts DEF PollAlone
  <1>6. CASE Apply \/ Remount
    <2>1. page'.poll = page.poll /\ call' = call
      BY <1>6, ApplyFacts, RemountFacts
    <2> QED
      BY <2>1 DEF PollAlone, Asking
  <1>7. CASE Restarting
    BY <1>7, RestartFacts DEF PollAlone, Asking, Free
  <1> QED
    BY <1>2, <1>3, <1>4, <1>5, <1>6, <1>7 DEF StepKind

\* Whether the poll is waiting or answered changes with these steps only.
LEMMA PhaseKept ==
    ASSUME SamePoll, page'.poll = page.poll
    PROVE  /\ Asking' <=> Asking
           /\ Answering' <=> Answering
           /\ Asking \/ Answering => call'[page'.poll].cursor = call[page.poll].cursor
                                     /\ call'[page'.poll].events = call[page.poll].events
  BY DEF SamePoll, Asking, Answering

LEMMA StepAnswers ==
    ASSUME TypeInv, FeedInv, PollAlone, PollAnswers, StepKind
    PROVE  PollAnswers'
  <1>0. tail \in Nat /\ Base \in Nat
    BY FeedTypes
  <1>1. CASE Quiet
    <2>1. UNCHANGED <<tail, posted>> /\ SamePoll /\ page'.poll = page.poll
      BY <1>1 DEF Quiet, Refs
    <2> QED
      BY <2>1, PhaseKept DEF PollAnswers, Base, Says, Answering
  <1>2. ASSUME NEW kind \in Kinds, NEW j \in Jobs, Posting(kind, j) PROVE PollAnswers'
    <2>1. /\ tail' = tail + 1 /\ Base' = Base
          /\ \A i \in DOMAIN posted : i \in DOMAIN posted' /\ posted'[i] = posted[i]
      BY <1>2, PostingFacts
    <2>2. SamePoll /\ page'.poll = page.poll
      BY <1>2 DEF Posting, Refs
    <2>3. CASE Answering
      <3>1. /\ call[page.poll].cursor \in 0 .. tail
            /\ \A e \in call[page.poll].events : e.seq <= call[page.poll].cursor /\ Says(Base, e)
        BY <2>3 DEF PollAnswers
      <3>2. call'[page'.poll].cursor = call[page.poll].cursor /\ call'[page'.poll].events = call[page.poll].events
        BY <2>2, <2>3, PhaseKept
      <3>3. \A e \in call[page.poll].events : Says(Base, e)'
        BY <2>1, <3>1 DEF Says
      <3> QED
        BY <1>0, <2>1, <3>1, <3>2, <3>3 DEF PollAnswers
    <2> QED
      BY <2>2, <2>3, PhaseKept DEF PollAnswers
  <1>3. CASE Collecting
    <2>1. /\ page'.poll = page.poll /\ call'[page.poll].cursor = tail
          /\ call'[page.poll].events \subseteq feed /\ UNCHANGED <<tail, feed, posted>>
      BY <1>3, CollectFacts DEF Unread
    <2>2. \A e \in feed : e.seq <= tail /\ Says(Base, e)
      BY DEF FeedInv
    <2> QED
      BY <1>0, <2>1, <2>2 DEF PollAnswers, Base, Says
  <1>4. CASE Poll
    <2>1. call'[page'.poll].pc = "sweep" \/ call'[page'.poll].code = "404"
      BY <1>4, PollFacts DEF Free
    <2> QED
      BY <2>1 DEF PollAnswers, Answering
  <1>5. CASE Answers \/ PollFails
    BY <1>5, AnswerFacts DEF PollAnswers, Answering
  <1>6. CASE Apply \/ Remount
    <2>1. UNCHANGED <<tail, posted, call>> /\ page'.poll = page.poll
      BY <1>6, ApplyFacts, RemountFacts
    <2> QED
      BY <2>1 DEF PollAnswers, Answering, Base, Says
  <1>7. CASE Restarting
    BY <1>7, RestartFacts DEF PollAnswers, Answering, Free
  <1> QED
    BY <1>1, <1>2, <1>3, <1>4, <1>5, <1>6, <1>7 DEF StepKind

LEMMA StepNothing ==
    ASSUME TypeInv, PollAlone, PollAnswers, NothingAsked, [Next]_vars
    PROVE  NothingAsked'
  <1>0. page \in Page /\ NoCursor \notin Nat
    BY ServerAssumption DEF TypeInv, AgentTypeOK
  <1>1. ASSUME page'.data = page.data, UNCHANGED <<issued, message>>,
               page'.online \in {page.online, FALSE}, page'.due = page.due, page'.cursor = page.cursor
        PROVE  NothingAsked'
    BY <1>1 DEF NothingAsked
  <1>2. ASSUME NEW j \in Jobs, Ask(j) PROVE NothingAsked'
    BY <1>0, <1>2 DEF Ask, NothingAsked, Page
  <1>3. ASSUME NEW j \in Jobs, MessageArrives(j) PROVE NothingAsked'
    BY <1>3 DEF MessageArrives, NothingAsked
  <1>4. ASSUME NEW j \in Jobs, MessageFails(j) PROVE NothingAsked'
    BY <1>0, <1>4 DEF MessageFails, NothingAsked, Page
  <1>5. CASE Poll
    BY <1>1, <1>5, PollFacts
  <1>6. CASE PollFails \/ \E t \in Threads : PollReturns(t)
    <2>1. Answers \/ PollFails
      BY <1>6, AgentAssumption DEF Answers, PollReturns
    <2>2. CASE page'.data = page.data /\ page'.due = page.due /\ ~page'.online
      <3>1. page'.online \in {page.online, FALSE}
        <4>1. page' \in Page
          BY <1>6, PollTyped DEF TypeInv, AgentTypeOK
        <4> QED
          BY <2>2, <4>1 DEF Page
      <3> QED
        BY <1>1, <2>1, <2>2, <3>1, AnswerFacts
    <2>3. CASE Answering /\ page'.data = [events |-> call[page.poll].events, cursor |-> call[page.poll].cursor,
                                          online |-> call[page.poll].online]
      <3>1. page'.data.cursor \in Nat
        BY <2>3 DEF PollAnswers
      <3>2. page'.data # NoData
        BY <1>0, <3>1 DEF NoData
      <3> QED
        BY <3>2 DEF NothingAsked
    <2> QED
      BY <2>1, <2>2, <2>3, AnswerFacts
  <1>7. CASE Apply
    BY <1>7, ApplyFacts DEF NothingAsked
  <1>8. CASE Remount
    BY <1>8, RemountFacts DEF NothingAsked
  <1>9. CASE \/ PublishSnapshot \/ WorkerStep \/ WorkerCrash \/ ServerFaults \/ TimeLimits
             \/ \E t \in Threads : ServerRuns(t) \/ WorkerReturns(t) \/ NobodyWaits(t)
             \/ UNCHANGED vars
    <2>1. page' = page /\ message' = message
      BY <1>9 DEF PublishSnapshot, WorkerStep, WorkerCrash, ServerFaults, TimeLimits, ServerRuns, WorkerReturns, NobodyWaits,
           Fetch, Think, Repost, PostResult, Sleep, WorkerFails, agentVars, vars
    <2>2. issued' = issued
      <3>1. CASE PublishSnapshot \/ WorkerCrash \/ ServerFaults \/ TimeLimits \/ UNCHANGED vars
        BY <3>1 DEF PublishSnapshot, StoreSnapshot, WorkerCrash, ServerFaults, WorkerUnseen, Restart, TimeLimits,
                    PassLimit, serverVars, vars
      <3>2. CASE WorkerStep
        BY <3>2 DEF WorkerStep, Fetch, Think, Repost, PostResult, Sleep, WorkerFails, BeginJobs, BeginResult, Begin, serverVars
      <3>3. ASSUME NEW t \in Threads, WorkerReturns(t) \/ NobodyWaits(t) PROVE issued' = issued
        BY <3>3 DEF WorkerReturns, NobodyWaits, Return
      <3>4. ASSUME NEW t \in Threads, ServerRuns(t) PROVE issued' = issued
        BY <3>4 DEF ServerRuns, Handle, Sweep, Announce, Collect, Claim, Complete, PostReply, PostCommands
      <3> QED
        BY <1>9, <3>1, <3>2, <3>3, <3>4
    <2> QED
      BY <1>1, <2>1, <2>2
  <1> QED
    BY <1>2, <1>3, <1>4, <1>5, <1>6, <1>7, <1>8, <1>9 DEF Next, PageStep, ThreadStep

-----------------------------------------------------------------------------
(* The answer the page has.                                                  *)

LEMMA SaysKept ==
    ASSUME NEW e, NEW b, Says(b, e),
           \A i \in DOMAIN posted : i \in DOMAIN posted' /\ posted'[i] = posted[i]
    PROVE  e.seq \in Nat \ {0} /\ b + e.seq \in DOMAIN posted' /\ posted'[b + e.seq] = Told(e)
  BY DEF Says

LEMMA StepData ==
    ASSUME TypeInv, FeedInv, PollAlone, PollAnswers, NothingAsked, DataInv, StepKind
    PROVE  DataInv'
  <1>0. tail \in Nat /\ Base \in Nat /\ Len(posted) \in Nat /\ Base = Len(posted) - tail
        /\ NoCursor \notin Nat
    BY FeedTypes, ServerAssumption DEF Base
  <1>1. page.data # NoData => page.data.cursor \in Nat
    BY DEF DataInv
  \* Nothing but its relation to the relay changes.
  <1>2. ASSUME page'.data = page.data, page'.cursor = page.cursor, page'.due = page.due,
               \A i \in DOMAIN posted : i \in DOMAIN posted' /\ posted'[i] = posted[i],
               Base' \in Nat,
               page.data # NoData =>
                 \A b \in Nat :
                    \/ b + page.data.cursor <= Base
                    \/ /\ b = Base /\ page.data.cursor <= tail
                       /\ Answering => page.data.cursor <= call[page.poll].cursor
                    => \/ b + page.data.cursor <= Base'
                       \/ /\ b = Base' /\ page.data.cursor <= tail'
                          /\ Answering' => page.data.cursor <= call'[page'.poll].cursor
        PROVE  DataInv'
    <2>1. ASSUME page.data # NoData PROVE \E b \in Nat : DataFrom(b)'
      <3>1. PICK b \in Nat : DataFrom(b)
        BY <2>1 DEF DataInv
      <3>2. \A e \in page.data.events : e.seq <= page.data.cursor /\ Says(b, e)'
        BY <1>2, <3>1, SaysKept DEF DataFrom, Says
      <3>3. \/ b + page.data.cursor <= Base'
            \/ /\ b = Base' /\ page.data.cursor <= tail'
               /\ Answering' => page.data.cursor <= call'[page'.poll].cursor
        BY <1>2, <2>1, <3>1 DEF DataFrom
      <3>4. DataFrom(b)'
        BY <1>2, <3>2, <3>3 DEF DataFrom
      <3> QED
        BY <3>4
    <2> QED
      BY <1>2, <2>1 DEF DataInv
  <1>3. ASSUME UNCHANGED <<tail, posted>>, page'.data = page.data, page'.cursor = page.cursor, page'.due = page.due,
               Answering' => Answering /\ call'[page'.poll].cursor = call[page.poll].cursor
        PROVE  DataInv'
    <2>1. Base' = Base
      BY <1>3 DEF Base
    <2> QED
      BY <1>0, <1>2, <1>3, <2>1
  <1>4. CASE Quiet
    <2>1. /\ UNCHANGED <<tail, posted>> /\ page'.data = page.data /\ page'.cursor = page.cursor
          /\ page'.due = page.due /\ page'.poll = page.poll /\ SamePoll
      BY <1>4 DEF Quiet, Refs
    <2> QED
      BY <1>3, <2>1, PhaseKept
  <1>5. ASSUME NEW kind \in Kinds, NEW j \in Jobs, Posting(kind, j) PROVE DataInv'
    <2>1. /\ page'.data = page.data /\ page'.cursor = page.cursor
          /\ page'.due = page.due /\ page'.poll = page.poll /\ SamePoll
      BY <1>5 DEF Posting, Refs
    <2>2. /\ tail' = tail + 1 /\ Base' = Base
          /\ \A i \in DOMAIN posted : i \in DOMAIN posted' /\ posted'[i] = posted[i]
      BY <1>5, PostingFacts
    <2>3. Answering' => Answering /\ call'[page'.poll].cursor = call[page.poll].cursor
      BY <2>1, PhaseKept
    <2> QED
      BY <1>0, <1>1, <1>2, <2>1, <2>2, <2>3
  <1>6. CASE Collecting
    <2>1. /\ page'.data = page.data /\ page'.cursor = page.cursor
          /\ page'.due = page.due /\ page'.poll = page.poll
          /\ UNCHANGED <<tail, posted>> /\ call'[page.poll].cursor = tail
      BY <1>6, CollectFacts DEF Refs
    <2>2. Base' = Base
      BY <2>1 DEF Base
    <2> QED
      BY <1>0, <1>2, <2>1, <2>2
  <1>7. CASE Poll
    <2>1. call'[page'.poll].pc = "sweep" \/ call'[page'.poll].code = "404"
      BY <1>7, PollFacts DEF Free
    <2>2. ~Answering'
      BY <2>1 DEF Answering
    <2> QED
      BY <1>3, <1>7, <2>2, PollFacts
  <1>8. CASE Answers \/ PollFails
    <2>1. /\ page'.poll = NoThread /\ page'.cursor = page.cursor
          /\ UNCHANGED <<tail, posted>>
      BY <1>8, AnswerFacts
    <2>2. ~Answering'
      BY <2>1 DEF Answering
    <2>3. CASE page'.data = page.data /\ page'.due = page.due
      BY <1>3, <2>1, <2>2, <2>3
    <2>4. CASE /\ Answering
               /\ page'.data = [events |-> call[page.poll].events, cursor |-> call[page.poll].cursor,
                                online |-> call[page.poll].online]
               /\ page'.due = (page.due \/ page'.data # page.data)
      <3>1. /\ page'.data.events = call[page.poll].events /\ page'.data.cursor = call[page.poll].cursor
            /\ page'.data.cursor \in 0 .. tail
            /\ \A e \in page'.data.events : e.seq <= page'.data.cursor /\ Says(Base, e)
        BY <2>4 DEF PollAnswers
      <3>2. Base' = Base /\ \A e : Says(Base, e)' = Says(Base, e)
        BY <2>1 DEF Base, Says
      <3>3. DataFrom(Base)'
        BY <1>0, <2>1, <2>2, <3>1, <3>2 DEF DataFrom
      <3>4. page'.cursor = NoCursor /\ ~page'.due => page'.data = NoData
        BY <2>1, <2>4 DEF DataInv
      <3>5. page'.data.cursor \in Nat /\ \E b \in Nat : DataFrom(b)'
        BY <1>0, <3>1, <3>2, <3>3
      <3> QED
        BY <3>4, <3>5 DEF DataInv
    <2> QED
      BY <1>8, <2>3, <2>4, AnswerFacts
  <1>9. CASE Apply
    <2>1. /\ page.due /\ page'.data = page.data /\ page'.poll = page.poll /\ page'.cursor = page.data.cursor
          /\ UNCHANGED <<tail, posted, call>>
      BY <1>9, ApplyFacts
    <2>2. page.data # NoData /\ page'.cursor # NoCursor
      BY <1>0, <1>1, <2>1 DEF NothingAsked
    <2>3. \A b : DataFrom(b)' = DataFrom(b)
      BY <2>1 DEF DataFrom, Says, Base, Answering
    <2> QED
      BY <2>1, <2>2, <2>3 DEF DataInv
  <1>10. CASE Remount
    <2>1. /\ page'.data = page.data /\ page'.poll = page.poll /\ page'.due = (page.data # NoData)
          /\ UNCHANGED <<tail, posted, call>>
      BY <1>10, RemountFacts
    <2>2. \A b : DataFrom(b)' = DataFrom(b)
      BY <2>1 DEF DataFrom, Says, Base, Answering
    <2> QED
      BY <2>1, <2>2 DEF DataInv
  <1>11. CASE Restarting
    <2>1. tail' = 0 /\ posted' = posted /\ page' = page
      BY <1>11, RestartFacts
    <2>2. Base' = Len(posted)
      BY <1>0, <2>1 DEF Base
    <2> QED
      BY <1>0, <1>1, <1>2, <2>1, <2>2
  <1> QED
    BY <1>4, <1>5, <1>6, <1>7, <1>8, <1>9, <1>10, <1>11 DEF StepKind

-----------------------------------------------------------------------------
(* Handled once.                                                             *)

\* What the page has handled of this server is behind its cursor.
LEMMA OncePassed ==
    ASSUME TypeInv, FeedInv, OnceInv, NEW e, Says(Base, e), e.seq <= tail, WasHandled(e)
    PROVE  /\ e.seq \in page.processed
           /\ page.cursor \in Nat /\ page.cursor <= page.data.cursor /\ page.data.cursor <= tail
           /\ Answering => page.data.cursor <= call[page.poll].cursor
  <1>1. e.seq \in 1 .. tail
    BY FeedTypes DEF Says
  <1>2. handled[posted[Base + e.seq]] > 0
    BY DEF Says, WasHandled
  <1>3. page.cursor \in Cursor
    BY DEF TypeInv, AgentTypeOK, Page
  <1> QED
    BY <1>1, <1>2, <1>3 DEF OnceInv, Remembered, Cursor

LEMMA ApplyOnce ==
    ASSUME TypeInv, FeedInv, NothingAsked, DataInv, OnceInv, Apply
    PROVE  NothingRepeated' /\ Remembered'
  <1>0. tail \in Nat /\ Base \in Nat /\ DOMAIN posted = 1 .. Len(posted) /\ Len(posted) \in Nat
        /\ page.data.events \subseteq Event
        /\ \A e \in Event, f \in Event : e.seq = f.seq /\ Told(e) = Told(f) => e = f
        /\ \A i \in DOMAIN posted : posted[i] \in Said
    BY FeedTypes
  <1>1. /\ page.due /\ page'.data = page.data /\ page'.poll = page.poll
        /\ page'.cursor = page.data.cursor /\ page'.processed = Known \cup {e.seq : e \in Fresh}
        /\ handled' = [s \in Said |-> handled[s] + Cardinality({e \in Fresh : Told(e) = s})]
        /\ UNCHANGED <<tail, feed, posted, call>>
    BY ApplyFacts
  <1>2. page.data # NoData /\ page.data.cursor \in Nat
    BY <1>1 DEF NothingAsked, DataInv
  <1>3. PICK b \in Nat : DataFrom(b)
    BY <1>2 DEF DataInv
  <1>4. \A e \in page.data.events : e.seq \in Nat \ {0} /\ e.seq <= page.data.cursor
                                    /\ b + e.seq \in DOMAIN posted /\ posted[b + e.seq] = Told(e)
    BY <1>3 DEF DataFrom, Says
  <1>5. \A i, k \in DOMAIN posted : posted[i] = posted[k] => i = k
    BY DEF FeedInv
  <1>6. Fresh \subseteq page.data.events /\ \A e \in Fresh : e.seq \notin Known
    BY DEF Fresh
  \* Two events of one answer are not the same thing said.
  <1>7. ASSUME NEW e \in Fresh, NEW f \in Fresh, Told(e) = Told(f) PROVE e = f
    <2>1. b + e.seq = b + f.seq
      BY <1>4, <1>5, <1>6, <1>7
    <2>2. e.seq = f.seq
      BY <1>4, <1>6, <2>1
    <2> QED
      BY <1>0, <1>6, <1>7, <2>2
  \* What is fresh was not handled.
  <1>8. ASSUME NEW e \in Fresh PROVE ~WasHandled(e)
    BY <1>1, <1>6 DEF OnceInv
  <1>9. \A s \in Said : handled[s] \in Nat
    BY DEF TypeInv, AgentTypeOK
  <1>10. ASSUME NEW s \in Said PROVE handled'[s] <= 1
    <2> DEFINE T == {e \in Fresh : Told(e) = s}
    <2>1. handled'[s] = handled[s] + Cardinality(T) /\ handled[s] <= 1
      BY <1>1 DEF OnceInv, NothingRepeated
    <2>2. CASE T = {}
      BY <1>9, <2>1, <2>2, FS_EmptySet
    <2>3. ASSUME NEW e \in T PROVE handled'[s] <= 1
      <3>1. T = {e}
        BY <1>7, <2>3
      <3>2. Cardinality(T) = 1
        BY <3>1, FS_Singleton
      <3>3. ~(handled[s] > 0)
        BY <1>8, <2>3 DEF WasHandled
      <3> HIDE DEF T
      <3> QED
        BY <1>9, <2>1, <3>2, <3>3
    <2> QED
      BY <2>2, <2>3
  <1>11. ASSUME NEW s \in 1 .. tail, handled'[posted[Base + s]] > 0
         PROVE  /\ s \in page'.processed
                /\ page.data.cursor <= tail
                /\ Answering => page.data.cursor <= call[page.poll].cursor
    <2>1. Base + s \in DOMAIN posted
      BY <1>0 DEF FeedInv, Base
    <2>2. CASE handled[posted[Base + s]] > 0
      <3>1. /\ s \in page.processed
            /\ page.cursor # NoCursor /\ page.cursor <= page.data.cursor
            /\ page.data.cursor <= tail
            /\ Answering => page.data.cursor <= call[page.poll].cursor
        BY <2>2 DEF OnceInv, Remembered
      <3>2. page.cursor \in Nat
        BY <3>1 DEF TypeInv, AgentTypeOK, Page, Cursor
      <3>3. ~WentBack
        BY <1>2, <3>1, <3>2 DEF WentBack
      <3> QED
        BY <1>1, <3>1, <3>3 DEF Known
    <2>3. CASE ~(handled[posted[Base + s]] > 0)
      <3>1. PICK said \in Said : said = posted[Base + s]
        <4>1. \A i \in DOMAIN posted : posted[i] \in Said
          BY FeedTypes
        <4>2. posted[Base + s] \in Said
          BY <2>1, <4>1
        <4> QED
          BY <4>2
      <3> DEFINE T == {e \in Fresh : Told(e) = said}
      <3>2. T # {}
        <4>1. handled'[said] = handled[said] + Cardinality(T) /\ handled[said] \in Nat
          BY <1>1, <1>9
        <4>2. handled'[said] > 0 /\ ~(handled[said] > 0)
          BY <1>11, <2>3, <3>1
        <4>3. T = {} => Cardinality(T) = 0
          BY FS_EmptySet
        <4> HIDE DEF T
        <4> QED
          BY <4>1, <4>2, <4>3
      <3>3. PICK e \in Fresh : Told(e) = posted[Base + s]
        BY <3>1, <3>2
      <3>4. b + e.seq \in DOMAIN posted /\ posted[b + e.seq] = posted[Base + s] /\ e.seq \in Nat \ {0}
            /\ e.seq <= page.data.cursor
        BY <1>4, <1>6, <3>3
      <3>5. b + e.seq = Base + s
        BY <1>5, <2>1, <3>4
      <3>6. ~(b + page.data.cursor <= Base)
        BY <1>0, <1>2, <3>4, <3>5
      <3>7. /\ b = Base /\ page.data.cursor <= tail
            /\ Answering => page.data.cursor <= call[page.poll].cursor
        BY <1>3, <3>6 DEF DataFrom
      <3>8. s = e.seq
        BY <1>0, <3>4, <3>5, <3>7
      <3> QED
        BY <1>1, <3>7, <3>8
    <2> QED
      BY <2>2, <2>3
  <1>12. Base' = Base /\ (Answering' <=> Answering)
    BY <1>1 DEF Base, Answering
  <1>13. page'.cursor # NoCursor /\ page'.cursor <= page'.data.cursor
    BY <1>1, <1>2, ServerAssumption
  <1>14. Remembered'
    BY <1>1, <1>11, <1>12, <1>13 DEF Remembered
  <1> QED
    BY <1>10, <1>14 DEF NothingRepeated

LEMMA StepOnce ==
    ASSUME TypeInv, FeedInv, PollAlone, PollAnswers, NothingAsked, DataInv, OnceInv, StepKind,
           "remount" \notin faults'
    PROVE  OnceInv'
  <1>0. tail \in Nat /\ Base \in Nat /\ Len(posted) \in Nat /\ Base + tail = Len(posted)
        /\ DOMAIN posted = 1 .. Len(posted)
        /\ NoCursor \notin Nat
    BY FeedTypes, ServerAssumption DEF Base
  <1>1. ASSUME UNCHANGED <<tail, posted, handled>>,
               page'.data = page.data, page'.cursor = page.cursor, page'.processed = page.processed,
               page'.due = page.due,
               Answering' => call'[page'.poll].cursor = tail \/ (Answering /\ call'[page'.poll].cursor = call[page.poll].cursor)
        PROVE  OnceInv'
    <2>1. Base' = Base /\ Known' = Known /\ \A e : WasHandled(e)' = WasHandled(e)
      BY <1>1 DEF Base, Known, WentBack, WasHandled
    <2>2. Remembered'
      BY <1>1, <2>1 DEF OnceInv, Remembered
    <2> QED
      BY <1>1, <2>1, <2>2 DEF OnceInv, NothingRepeated
  <1>2. CASE Quiet
    <2>1. /\ UNCHANGED <<tail, posted, handled>>
          /\ page'.data = page.data /\ page'.cursor = page.cursor /\ page'.processed = page.processed
          /\ page'.due = page.due /\ page'.poll = page.poll /\ SamePoll
      BY <1>2 DEF Quiet, Refs
    <2>2. Answering' => Answering /\ call'[page'.poll].cursor = call[page.poll].cursor
      BY <2>1, PhaseKept
    <2> QED
      BY <1>1, <2>1, <2>2
  <1>3. ASSUME NEW kind \in Kinds, NEW j \in Jobs, Posting(kind, j) PROVE OnceInv'
    <2>1. /\ handled' = handled
          /\ page'.data = page.data /\ page'.cursor = page.cursor /\ page'.processed = page.processed
          /\ page'.due = page.due /\ page'.poll = page.poll /\ SamePoll
      BY <1>3 DEF Posting, Refs
    <2>2. Answering' => Answering /\ call'[page'.poll].cursor = call[page.poll].cursor
      BY <2>1, PhaseKept
    <2>3. /\ tail' = tail + 1 /\ Base' = Base
          /\ \A i \in DOMAIN posted : i \in DOMAIN posted' /\ posted'[i] = posted[i]
          /\ posted'[Base + tail + 1] = [kind |-> kind, job |-> j]
          /\ handled[[kind |-> kind, job |-> j]] = 0
      BY <1>3, PostingFacts
    <2>4. Known' = Known /\ \A e : WasHandled(e)' = WasHandled(e)
      BY <2>1 DEF Known, WentBack, WasHandled
    <2>5. ASSUME NEW s \in 1 .. tail', handled[posted'[Base + s]] > 0
          PROVE  /\ s \in page.processed
                 /\ page.cursor # NoCursor /\ page.cursor <= page.data.cursor
                 /\ page.data.cursor <= tail
                 /\ Answering => page.data.cursor <= call[page.poll].cursor
      <3>1. s # tail + 1
        <4>1. CASE s = tail + 1
          <5>1. Base + s = Base + tail + 1
            BY <1>0, <4>1
          <5>2. handled[posted'[Base + s]] = 0
            BY <2>3, <5>1
          <5> QED
            BY <2>5, <5>2
        <4> QED
          BY <4>1
      <3>2. s \in 1 .. tail
        BY <1>0, <2>3, <3>1
      <3>3. Base + s \in DOMAIN posted
        BY <1>0, <3>2
      <3>4. handled[posted[Base + s]] > 0
        BY <2>3, <2>5, <3>3
      <3> QED
        BY <3>2, <3>4 DEF OnceInv, Remembered
    <2>6. page.data # NoData => page.data.cursor \in Nat
      BY DEF DataInv
    <2>7. ASSUME NEW s \in 1 .. tail', handled'[posted'[Base' + s]] > 0
          PROVE  /\ s \in page'.processed
                 /\ page'.cursor # NoCursor /\ page'.cursor <= page'.data.cursor
                 /\ page'.data.cursor <= tail'
                 /\ Answering' => page'.data.cursor <= call'[page'.poll].cursor
      <3>1. handled[posted'[Base + s]] > 0
        BY <2>1, <2>3, <2>7
      <3>2. page.data # NoData
        BY <2>5, <3>1 DEF NothingAsked
      <3> QED
        BY <1>0, <2>1, <2>2, <2>3, <2>5, <2>6, <3>1, <3>2
    <2>8. Remembered'
      BY <2>7 DEF Remembered
    <2> QED
      BY <2>1, <2>4, <2>8 DEF OnceInv, NothingRepeated
  <1>4. CASE Collecting
    <2>1. /\ UNCHANGED <<tail, posted, handled>>
          /\ page'.data = page.data /\ page'.cursor = page.cursor /\ page'.processed = page.processed
          /\ page'.due = page.due /\ page'.poll = page.poll /\ call'[page.poll].cursor = tail
      BY <1>4, CollectFacts DEF Refs
    <2> QED
      BY <1>1, <2>1
  <1>5. CASE Poll
    <2>1. call'[page'.poll].pc = "sweep" \/ call'[page'.poll].code = "404"
      BY <1>5, PollFacts DEF Free
    <2>2. ~Answering'
      BY <2>1 DEF Answering
    <2> QED
      BY <1>1, <1>5, <2>2, PollFacts
  <1>6. CASE Answers \/ PollFails
    <2>1. /\ page'.poll = NoThread /\ page'.cursor = page.cursor /\ page'.processed = page.processed
          /\ UNCHANGED <<tail, posted, handled>>
      BY <1>6, AnswerFacts
    <2>2. ~Answering'
      BY <2>1 DEF Answering
    <2>3. CASE page'.data = page.data /\ page'.due = page.due
      BY <1>1, <2>1, <2>2, <2>3
    <2>4. CASE Answering /\ page'.data = [events |-> call[page.poll].events, cursor |-> call[page.poll].cursor,
                                          online |-> call[page.poll].online]
      <3>1. /\ page'.data.events = call[page.poll].events /\ page'.data.cursor = call[page.poll].cursor
            /\ page'.data.cursor \in 0 .. tail
            /\ \A e \in page'.data.events : e.seq <= page'.data.cursor /\ Says(Base, e)
        BY <2>4 DEF PollAnswers
      <3>2. Base' = Base /\ \A e : WasHandled(e)' = WasHandled(e)
        BY <2>1 DEF Base, WasHandled
      <3>3. ASSUME NEW s \in 1 .. tail, handled[posted[Base + s]] > 0
            PROVE  s \in page'.processed /\ page'.cursor # NoCursor /\ page'.cursor <= page'.data.cursor
                   /\ page'.data.cursor <= tail
        <4>1. /\ s \in page.processed
              /\ page.cursor # NoCursor /\ page.cursor <= page.data.cursor
              /\ page.data.cursor <= call[page.poll].cursor
          BY <2>4, <3>3 DEF OnceInv, Remembered
        <4>2. page.cursor \in Nat /\ page.data.cursor \in Nat
          BY <4>1 DEF TypeInv, AgentTypeOK, Page, Cursor, DataInv, NothingAsked
        <4> QED
          BY <1>0, <2>1, <3>1, <4>1, <4>2
      <3>4. Remembered'
        BY <2>1, <2>2, <3>2, <3>3 DEF Remembered
      <3>5. ASSUME NEW e \in page'.data.events, WasHandled(e) PROVE e.seq \in Known'
        <4>1. e.seq \in Nat /\ e.seq <= tail /\ Says(Base, e)
          BY <1>0, <3>1 DEF Says
        <4>2. /\ e.seq \in page.processed
              /\ page.cursor \in Nat /\ page.cursor <= page.data.cursor
              /\ page.data.cursor <= call[page.poll].cursor
          BY <2>4, <3>5, <4>1, OncePassed
        <4>3. page.data.cursor \in Nat
          BY <1>0, <4>2 DEF DataInv, NothingAsked
        <4>4. ~(page'.data.cursor < page'.cursor)
          BY <1>0, <2>1, <3>1, <4>2, <4>3
        <4> QED
          BY <2>1, <4>2, <4>4 DEF Known, WentBack
      <3> QED
        BY <2>1, <3>2, <3>4, <3>5 DEF OnceInv, NothingRepeated
    <2> QED
      BY <1>6, <2>3, <2>4, AnswerFacts
  <1>7. CASE Apply
    <2>1. ~page'.due
      BY <1>7, ApplyFacts
    <2> QED
      BY <1>7, <2>1, ApplyOnce DEF OnceInv
  <1>8. CASE Remount
    BY <1>8, RemountFacts
  <1>9. CASE Restarting
    <2>1. tail' = 0 /\ page' = page /\ handled' = handled
      BY <1>9, RestartFacts
    <2>2. Known' = Known /\ \A e : WasHandled(e)' = WasHandled(e)
      BY <2>1 DEF Known, WentBack, WasHandled
    <2>3. Remembered'
      BY <2>1 DEF Remembered
    <2> QED
      BY <2>1, <2>2, <2>3 DEF OnceInv, NothingRepeated
  <1> QED
    BY <1>2, <1>3, <1>4, <1>5, <1>6, <1>7, <1>8, <1>9 DEF StepKind

-----------------------------------------------------------------------------
(* Nothing skipped.                                                          *)

\* A new reply is beyond whatever the page has passed.
LEMMA PostingReplied ==
    ASSUME TypeInv, FeedInv, NEW kind \in Kinds, NEW j \in Jobs, Posting(kind, j)
    PROVE  \A e \in Replied' : e \in Replied \/ e.seq = tail + 1
  <1> TAKE e \in Replied'
  <1>1. e \in feed' /\ e.kind = "reply"
    BY DEF Replied
  <1>2. e \in feed \/ e = [seq |-> tail + 1, kind |-> kind, job |-> j]
    <2>1. \A f \in feed' : f \in feed \/ f = [seq |-> tail + 1, kind |-> kind, job |-> j]
      BY PostedEvents
    <2> QED
      BY <1>1, <2>1
  <1> QED
    BY <1>1, <1>2 DEF Replied

LEMMA RepliedTyped ==
    ASSUME TypeInv, FeedInv
    PROVE  \A e \in Replied : e \in feed /\ e \in Event /\ e.seq \in Nat /\ e.seq <= tail
  BY FeedTypes DEF Replied, FeedInv

LEMMA PostingPassed ==
    ASSUME TypeInv, FeedInv, PollAnswers, DataInv, PassedInv,
           NEW kind \in Kinds, NEW j \in Jobs, Posting(kind, j)
    PROVE  PassedInv'
  <1>0. tail \in Nat /\ page.processed \subseteq Nat /\ page.cursor \in Cursor
        /\ (page.data # NoData => page.data.cursor \in Nat)
    BY FeedTypes DEF TypeInv, AgentTypeOK, Page, DataInv
  <1>1. /\ handled' = handled /\ page'.data = page.data /\ page'.cursor = page.cursor
        /\ page'.processed = page.processed /\ page'.due = page.due /\ page'.poll = page.poll /\ SamePoll
    BY DEF Posting, Refs
  <1>2. tail' = tail + 1
    BY PostingFacts
  <1>3. \A e \in Replied' : e \in Replied \/ e.seq = tail + 1
    BY PostingReplied
  <1>4. \A e : WasHandled(e)' = WasHandled(e)
    BY <1>1 DEF WasHandled
  <1>5. DataPassed'
    BY <1>0, <1>1, <1>2, <1>3, <1>4 DEF PassedInv, DataPassed
  <1>6. CursorPassed'
    <2>1. page.cursor # NoCursor => page.cursor \in Nat
      BY <1>0 DEF Cursor
    <2> QED
      BY <1>0, <1>1, <1>2, <1>3, <1>4, <2>1 DEF PassedInv, CursorPassed
  <1>7. PollPassed'
    <2>1. CASE Asking
      <3>1. Asking' /\ ~Answering' /\ call'[page'.poll].cursor = call[page.poll].cursor
        BY <1>1, <2>1, PhaseKept DEF Asking, Answering
      <3> QED
        BY <1>0, <1>1, <1>2, <1>3, <1>4, <2>1, <3>1 DEF PassedInv, PollPassed
    <2>2. CASE Answering
      <3>1. /\ Answering' /\ ~Asking' /\ call'[page'.poll].cursor = call[page.poll].cursor
            /\ call'[page'.poll].events = call[page.poll].events
        BY <1>1, <2>2, PhaseKept DEF Asking, Answering
      <3>2. call[page.poll].cursor \in 0 .. tail
        BY <2>2 DEF PollAnswers
      <3> QED
        BY <1>0, <1>1, <1>2, <1>3, <1>4, <2>2, <3>1, <3>2 DEF PassedInv, PollPassed
    <2> QED
      BY <1>1, <2>1, <2>2, PhaseKept DEF PollPassed
  <1> QED
    BY <1>5, <1>6, <1>7 DEF PassedInv

LEMMA CollectPassed ==
    ASSUME TypeInv, FeedInv, PollAlone, NothingAsked, PassedInv, Collecting
    PROVE  PassedInv'
  <1>0. tail \in Nat /\ NoCursor \notin Nat
    BY FeedTypes, ServerAssumption
  <1>1. /\ page.poll # NoThread /\ page'.poll = page.poll /\ Asking
        /\ call'[page.poll].pc = "answer" /\ call'[page.poll].cursor = tail
        /\ UNCHANGED <<tail, feed, handled>>
        /\ page'.data = page.data /\ page'.cursor = page.cursor /\ page'.processed = page.processed
        /\ page'.due = page.due
    BY CollectFacts DEF Refs
  <1>2. Replied' = Replied /\ \A e : WasHandled(e)' = WasHandled(e)
    BY <1>1 DEF Replied, WasHandled
  <1>3. DataPassed' /\ CursorPassed'
    BY <1>1, <1>2 DEF PassedInv, DataPassed, CursorPassed
  <1>4. ASSUME NEW e \in Replied PROVE WasHandled(e) \/ e \in call'[page.poll].events
    <2>0. e \in feed /\ e.kind = "reply" /\ e.seq \in Nat /\ e.seq <= tail /\ Says(Base, e)
      BY RepliedTyped DEF Replied, FeedInv
    <2>1. CASE call[page.poll].cursor = NoCursor /\ page.data = NoData
      <3>1. issued = {}
        BY <2>1 DEF NothingAsked
      <3>2. posted[Base + e.seq].job \in issued
        BY <2>0 DEF TypeInv, RelayInv, OnlyIssued, Says
      <3> QED
        BY <3>1, <3>2
    <2>2. CASE /\ call[page.poll].cursor \in 0 .. tail
               /\ \A f \in Replied : f.seq <= call[page.poll].cursor => WasHandled(f)
      <3>1. Readable(call[page.poll].cursor)
        BY <1>0, <2>2 DEF Readable
      <3>2. PICK stale \in SUBSET CommandEvents : call'[page.poll].events = Unread(call[page.poll].cursor, stale)
        BY <3>1, CollectFacts
      <3>3. e \notin stale
        BY <2>0, <3>2 DEF CommandEvents
      <3>4. CASE e.seq > call[page.poll].cursor
        BY <2>0, <3>2, <3>3, <3>4 DEF Unread
      <3>5. CASE ~(e.seq > call[page.poll].cursor)
        BY <1>0, <2>0, <2>2, <3>5
      <3> QED
        BY <3>4, <3>5
    <2> QED
      BY <1>1, <2>1, <2>2 DEF PassedInv, PollPassed
  <1>5. PollPassed'
    BY <1>1, <1>2, <1>4 DEF PollPassed, Asking
  <1> QED
    BY <1>3, <1>5 DEF PassedInv

LEMMA AnswerPassed ==
    ASSUME TypeInv, FeedInv, PollAlone, PollAnswers, PassedInv, Answers \/ PollFails
    PROVE  PassedInv'
  <1>0. tail \in Nat
    BY FeedTypes
  <1>1. /\ page'.poll = NoThread /\ page'.cursor = page.cursor /\ page'.processed = page.processed
        /\ UNCHANGED <<tail, feed, handled>>
    BY AnswerFacts
  <1>2. Replied' = Replied /\ \A e : WasHandled(e)' = WasHandled(e)
    BY <1>1 DEF Replied, WasHandled
  <1>3. CursorPassed' /\ PollPassed'
    BY <1>1, <1>2 DEF PassedInv, CursorPassed, PollPassed, Asking, Answering
  <1>4. CASE page'.data = page.data /\ page'.due = page.due
    BY <1>1, <1>2, <1>3, <1>4 DEF PassedInv, DataPassed
  <1>5. CASE /\ Answering
             /\ page'.data = [events |-> call[page.poll].events, cursor |-> call[page.poll].cursor,
                              online |-> call[page.poll].online]
             /\ page'.due = (page.due \/ page'.data # page.data)
    <2>1. /\ page'.data.events = call[page.poll].events /\ page'.data.cursor = call[page.poll].cursor
          /\ page'.data.cursor \in 0 .. tail
      BY <1>5 DEF PollAnswers
    <2>2. \A e \in Replied : e.seq <= page'.data.cursor => WasHandled(e) \/ e \in page'.data.events
      BY <1>5, <2>1 DEF PassedInv, PollPassed
    <2>3. CASE page'.due
      BY <1>0, <1>1, <1>2, <1>3, <2>1, <2>2, <2>3 DEF PassedInv, DataPassed
    <2>4. CASE ~page'.due
      <3>1. page'.data = page.data /\ ~page.due
        BY <1>5, <2>4
      <3> QED
        BY <1>1, <1>2, <1>3, <2>4, <3>1 DEF PassedInv, DataPassed
    <2> QED
      BY <2>3, <2>4
  <1> QED
    BY <1>4, <1>5, AnswerFacts

LEMMA ApplyPassed ==
    ASSUME TypeInv, FeedInv, NothingAsked, DataInv, PassedInv, Apply
    PROVE  PassedInv'
  <1>0. tail \in Nat /\ Known \subseteq page.processed
    BY FeedTypes DEF Known
  <1>1. /\ page.due /\ ~page'.due /\ page'.data = page.data /\ page'.poll = page.poll
        /\ page'.cursor = page.data.cursor /\ page'.processed = Known \cup {e.seq : e \in Fresh}
        /\ handled' = [s \in Said |-> handled[s] + Cardinality({e \in Fresh : Told(e) = s})]
        /\ UNCHANGED <<tail, feed, call>>
    BY ApplyFacts
  <1>2. page.data # NoData /\ page.data.cursor \in Nat /\ page.data.cursor <= tail
    BY <1>1 DEF NothingAsked, DataInv, PassedInv, DataPassed
  <1>3. PICK b \in Nat : DataFrom(b)
    BY <1>2 DEF DataInv
  <1>4. \A e \in Fresh : e.seq \in Nat /\ e.seq <= page.data.cursor
    BY <1>3 DEF DataFrom, Says, Fresh
  \* What is handled stays so, and what is fresh is handled now.
  <1>5. ASSUME NEW e \in Event, WasHandled(e) \/ e \in Fresh PROVE WasHandled(e)'
    <2> DEFINE T == {f \in Fresh : Told(f) = Told(e)}
    <2>1. Told(e) \in Said
      BY DEF Event, Told, Said
    <2>2. handled'[Told(e)] = handled[Told(e)] + Cardinality(T) /\ handled[Told(e)] \in Nat
      BY <1>1, <2>1 DEF TypeInv, AgentTypeOK
    <2>3. IsFiniteSet(T) /\ Cardinality(T) \in Nat
      BY FreshFinite DEF TypeInv
    <2>4. e \in Fresh => Cardinality(T) # 0
      <3>1. e \in Fresh => T # {}
        OBVIOUS
      <3> HIDE DEF T
      <3> QED
        BY <2>3, <3>1, FS_EmptySet
    <2> HIDE DEF T
    <2>5. handled'[Told(e)] > 0
      BY <1>5, <2>2, <2>3, <2>4 DEF WasHandled
    <2> QED
      BY <2>5 DEF WasHandled
  <1>6. Replied' = Replied
    BY <1>1 DEF Replied
  <1>7. ASSUME NEW e \in Replied, e.seq <= page.data.cursor PROVE WasHandled(e)'
    <2>1. e \in Event
      BY RepliedTyped
    <2>2. CASE WasHandled(e)
      BY <1>5, <2>1, <2>2
    <2>3. CASE e \in page.data.events
      <3>1. CASE e.seq \in Known
        <4>1. WasHandled(e)
          BY <1>0, <3>1 DEF PassedInv, CursorPassed
        <4> QED
          BY <1>5, <2>1, <4>1
      <3>2. CASE e.seq \notin Known
        BY <1>5, <2>1, <2>3, <3>2 DEF Fresh
      <3> QED
        BY <3>1, <3>2
    <2> QED
      BY <1>2, <1>7, <2>2, <2>3 DEF PassedInv, DataPassed
  <1>8. DataPassed'
    BY <1>1, <1>2, <1>6, <1>7 DEF DataPassed
  <1>9. CursorPassed'
    <2>1. \A s \in page'.processed : s <= tail
      <3>1. \A s \in Known : s <= tail
        BY <1>0 DEF PassedInv, CursorPassed
      <3>2. \A e \in Fresh : e.seq <= tail
        BY <1>0, <1>2, <1>4
      <3> QED
        BY <1>1, <3>1, <3>2
    <2>2. ASSUME NEW e \in Replied, e.seq \in page'.processed PROVE WasHandled(e)'
      <3>1. CASE e.seq \in Known
        <4>1. WasHandled(e) /\ e \in Event
          BY <1>0, <3>1, RepliedTyped DEF PassedInv, CursorPassed
        <4> QED
          BY <1>5, <4>1
      <3>2. CASE e.seq \notin Known
        <4>1. e.seq <= page.data.cursor
          BY <1>1, <1>4, <2>2, <3>2
        <4> QED
          BY <1>7, <4>1
      <3> QED
        BY <3>1, <3>2
    <2> QED
      BY <1>1, <1>2, <1>6, <1>7, <2>1, <2>2 DEF CursorPassed
  <1>10. PollPassed'
    <2>1. \A e \in Replied : WasHandled(e) => WasHandled(e)'
      BY <1>5, RepliedTyped
    <2>2. (Asking' <=> Asking) /\ (Answering' <=> Answering) /\ call'[page'.poll] = call[page.poll]
      BY <1>1 DEF Asking, Answering
    <2> QED
      BY <1>1, <1>6, <2>1, <2>2 DEF PassedInv, PollPassed
  <1> QED
    BY <1>8, <1>9, <1>10 DEF PassedInv

LEMMA StepPassed ==
    ASSUME TypeInv, FeedInv, PollAlone, PollAnswers, NothingAsked, DataInv, PassedInv, StepKind,
           "restart" \notin faults'
    PROVE  PassedInv'
  <1>0. tail \in Nat /\ page.cursor \in Cursor
    BY FeedTypes DEF TypeInv, AgentTypeOK, Page
  <1>1. CASE Quiet
    <2>1. /\ UNCHANGED <<tail, feed, handled>>
          /\ page'.data = page.data /\ page'.cursor = page.cursor /\ page'.processed = page.processed
          /\ page'.due = page.due /\ page'.poll = page.poll /\ SamePoll
      BY <1>1 DEF Quiet, Refs
    <2>2. Replied' = Replied /\ \A e : WasHandled(e)' = WasHandled(e)
      BY <2>1 DEF Replied, WasHandled
    <2>3. DataPassed' /\ CursorPassed'
      BY <2>1, <2>2 DEF PassedInv, DataPassed, CursorPassed
    <2>4. PollPassed'
      BY <2>1, <2>2, PhaseKept DEF PassedInv, PollPassed
    <2> QED
      BY <2>3, <2>4 DEF PassedInv
  <1>2. CASE Poll
    <2>1. /\ page'.data = page.data /\ page'.cursor = page.cursor /\ page'.processed = page.processed
          /\ page'.due = page.due /\ UNCHANGED <<tail, feed, handled>>
          /\ (page.due => page.cursor # NoCursor)
      BY <1>2, PollFacts
    <2>2. Replied' = Replied /\ \A e : WasHandled(e)' = WasHandled(e)
      BY <2>1 DEF Replied, WasHandled
    <2>3. DataPassed' /\ CursorPassed'
      BY <2>1, <2>2 DEF PassedInv, DataPassed, CursorPassed
    <2>4. \/ call'[page'.poll].pc = "sweep" /\ call'[page'.poll].cursor = page.cursor
          \/ call'[page'.poll].pc = "answer" /\ call'[page'.poll].code = "404"
      BY <1>2, PollFacts DEF Free
    <2>5. ~Answering' /\ (Asking' => call'[page'.poll].cursor = page.cursor)
      BY <2>4 DEF Answering, Asking
    <2>6. CASE page.cursor = NoCursor
      <3>1. page.data = NoData
        BY <2>1, <2>6 DEF DataInv
      <3>2. PollPassed'
        BY <2>1, <2>5, <2>6, <3>1 DEF PollPassed
      <3> QED
        BY <2>3, <3>2 DEF PassedInv
    <2>7. CASE page.cursor # NoCursor
      <3>1. page.cursor \in 0 .. tail /\ \A e \in Replied : e.seq <= page.cursor => WasHandled(e)
        BY <1>0, <2>7 DEF Cursor, PassedInv, CursorPassed
      <3>2. PollPassed'
        BY <2>1, <2>2, <2>5, <3>1 DEF PollPassed
      <3> QED
        BY <2>3, <3>2 DEF PassedInv
    <2> QED
      BY <2>6, <2>7
  <1>3. CASE Remount
    <2>1. /\ page'.data = page.data /\ page'.poll = page.poll /\ page'.due = (page.data # NoData)
          /\ page'.cursor = NoCursor /\ page'.processed = {}
          /\ UNCHANGED <<tail, feed, call, handled>>
      BY <1>3, RemountFacts
    <2>2. Replied' = Replied /\ \A e : WasHandled(e)' = WasHandled(e)
      BY <2>1 DEF Replied, WasHandled
    <2>3. DataPassed'
      BY <2>1, <2>2 DEF PassedInv, DataPassed
    <2>4. CursorPassed'
      BY <2>1, <2>2 DEF CursorPassed
    <2>5. PollPassed'
      BY <2>1, <2>2 DEF PassedInv, PollPassed, Asking, Answering
    <2> QED
      BY <2>3, <2>4, <2>5 DEF PassedInv
  <1>4. CASE Restarting
    BY <1>4, RestartFacts
  <1>5. CASE \E kind \in Kinds, j \in Jobs : Posting(kind, j)
    BY <1>5, PostingPassed
  <1> QED
    BY <1>1, <1>2, <1>3, <1>4, <1>5, CollectPassed, AnswerPassed, ApplyPassed DEF StepKind

-----------------------------------------------------------------------------
(* The whole.                                                                *)

TwinInv == TypeInv /\ PageInv

LEMMA InitTwin == Init => TwinInv
  <1> SUFFICES ASSUME Init PROVE PageInv
    BY InitTypes DEF TwinInv
  <1>1. /\ page = Mounted /\ tail = 0 /\ feed = {} /\ posted = <<>> /\ issued = {}
        /\ handled = [s \in Said |-> 0] /\ \A j \in Jobs : message[j] = "unsent"
    BY DEF Init, ServerInit
  <1>2. page.poll = NoThread /\ page.data = NoData /\ page.cursor = NoCursor /\ ~page.due /\ ~page.online
        /\ page.processed = {} /\ page.data.events = {}
    BY <1>1 DEF Mounted, NoData
  <1>3. FeedInv
    BY <1>1 DEF FeedInv
  <1>4. Apart /\ PollAlone /\ PollAnswers /\ NothingAsked /\ DataInv
    BY <1>1, <1>2 DEF Apart, PollAlone, PollAnswers, NothingAsked, DataInv, Answering
  <1>5. OnceInv
    BY <1>1, <1>2 DEF OnceInv, NothingRepeated, Remembered
  <1>6. PassedInv
    BY <1>1, <1>2 DEF PassedInv, DataPassed, CursorPassed, PollPassed, Asking, Answering, Replied
  <1> QED
    BY <1>3, <1>4, <1>5, <1>6 DEF PageInv

LEMMA StepTwin == TwinInv /\ [Next]_vars => TwinInv'
  <1> SUFFICES ASSUME TwinInv, [Next]_vars PROVE TwinInv'
    OBVIOUS
  <1>1. TypeInv' /\ StepKind
    BY StepTypes, StepKinds DEF TwinInv, PageInv
  <1>2. FeedInv' /\ Apart' /\ PollAlone' /\ PollAnswers' /\ NothingAsked' /\ DataInv'
    BY <1>1, StepFeed, StepApart, StepAlone, StepAnswers, StepNothing, StepData DEF TwinInv, PageInv
  <1>3. faults \subseteq faults'
    <2>1. faults' = faults \/ \E kind : Fault(kind)
      BY DEF TwinInv, Next, PageStep, WorkerStep, ThreadStep, Ask, MessageFails, MessageArrives, PublishSnapshot, Poll,
             PollFails, PollReturns, Apply, Remount, Fetch, Think, Repost, PostResult, Sleep, WorkerFails, WorkerCrash,
             WorkerReturns, ServerFaults, ServerRuns, NobodyWaits, TimeLimits, agentVars, vars
    <2> QED
      BY <2>1 DEF Fault
  <1>4. "remount" \notin faults' => OnceInv'
    BY <1>1, <1>3, StepOnce DEF TwinInv, PageInv
  <1>5. "restart" \notin faults' => PassedInv'
    BY <1>1, <1>3, StepPassed DEF TwinInv, PageInv
  <1> QED
    BY <1>1, <1>2, <1>4, <1>5 DEF TwinInv, PageInv

(* The inductive invariant: what the relay, the poll and the page know of the *)
(* feed fit together, whatever the faults (twin_agent.py append_feed_event,   *)
(* collect_feed_events; useTwinAgentBridge.ts).                               *)
THEOREM TwinInvariant == Spec => []TwinInv
  BY InitTwin, StepTwin, PTL DEF Spec

(* No reply is shown twice and no tool call executed twice by a page that stays *)
(* mounted, whatever polls overlap or are lost and however often the relay      *)
(* restarts (useTwinAgentBridge.ts processedSeqsRef).                           *)
THEOREM FeedHandledOnce == Spec => []HandledOnce
  <1>1. TwinInv => HandledOnce
    BY DEF TwinInv, PageInv, OnceInv, HandledOnce
  <1> QED
    BY <1>1, TwinInvariant, PTL

(* As long as the relay stays up, the page has handled every reply in the feed *)
(* that its cursor has passed (collect_feed_events, useTwinAgentBridge.ts).    *)
THEOREM FeedNotSkipped == Spec => []NothingSkipped
  <1>1. ASSUME TwinInv, "restart" \notin faults, page.cursor # NoCursor,
               NEW e \in feed, e.kind = "reply", e.seq <= page.cursor
        PROVE  handled[Promise!Reply(e.job)] > 0
    <2>1. WasHandled(e)
      BY <1>1 DEF TwinInv, PageInv, PassedInv, CursorPassed, Replied
    <2>2. Told(e) = Promise!Reply(e.job)
      BY <1>1 DEF Told, Promise!Reply
    <2> QED
      BY <2>1, <2>2 DEF WasHandled
  <1>2. TwinInv => NothingSkipped
    BY <1>1 DEF NothingSkipped, PassedIsHandled
  <1> QED
    BY <1>2, TwinInvariant, PTL
=============================================================================
