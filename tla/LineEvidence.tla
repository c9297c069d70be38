---------------------------- MODULE LineEvidence ----------------------------
(***************************************************************************)
(* What LINE shows of the machine hall (planner-server, routers/line.py,   *)
(* line_dispatch_ticket.py, line_floorplan/): a camera uploads frames, the *)
(* sheet-and-screen reader and the people counter fetch the newest one and *)
(* post what they saw of it, a question on LINE is answered from the       *)
(* newest observation with pictures cut from its frame, and LINE's servers *)
(* and phones fetch the pictures whenever they like.                       *)
(*                                                                         *)
(* Time is a counter. An observation is what a worker read of one frame at *)
(* one moment; a frame has the moment it was taken and the moment its      *)
(* camera says it was. Lost and late posts, a full disk and restarts take  *)
(* at most MaxFaults[deployed] steps.                                      *)
(***************************************************************************)
EXTENDS Integers, FiniteSets, Sequences, SequencesExt

CONSTANTS
    NFrames,      \* frames the camera uploads
    Drifts,       \* captured_at minus the moment of the upload: late frames, fast clocks
    Readings,     \* what the reader may see on a frame
    Deployments,  \* which workers may run: a set of subsets of {"ocr", "people"}
    MaxAge,       \* DISPATCH_TICKET_MAX_AGE_SECONDS, HMI_FRESH_SECONDS
    FutureSkew,   \* DISPATCH_TICKET_MAX_FUTURE_SKEW_SECONDS
    PersonAge,    \* PERSON_FRESH_SECONDS
    CropTtl,      \* LINE_CROP_TOKEN_TTL_SECONDS
    QueueSize,    \* retry_queue_size
    MaxTime, MaxReplies,
    MaxFaults     \* for each deployment

Kinds == {"ocr", "people"}
Reading == [posted : BOOLEAN, screen : {"lit", "dark", "overexposed"}]

ASSUME EvidenceAssumption ==
    /\ NFrames \in Nat /\ MaxTime \in Nat /\ MaxReplies \in Nat
    /\ Drifts \subseteq Int /\ 0 \in Drifts
    /\ \E ahead \in Drifts : \A drift \in Drifts : drift <= ahead   \* no clock is ahead without bound
    /\ Readings \subseteq Reading /\ Readings # {}
    /\ Deployments \subseteq SUBSET Kinds /\ MaxFaults \in [Deployments -> Nat]
    /\ {MaxAge, FutureSkew, PersonAge, CropTtl} \subseteq Nat
    /\ QueueSize \in Nat \ {0}

VARIABLES
    clock,
    deployed,  \* the workers that run; never changes
    frames,    \* uploaded frames of the detail camera, in the order of their upload
    reader,    \* HmiOcrRunner: where it is, the frame in hand, _last_frame_id
    counter,   \* PersonPresenceRunner: the same, _processed_keys and the retry queue
    seen,      \* rows of camera_ocr_observations and camera_person_observations
    late,      \* posts whose worker gave up waiting, still on their way
    crops,     \* pictures in the artifact storage
    thread,    \* the webhook thread that answers
    sent,      \* replies LINE accepted that show evidence
    bound,     \* the conversation is bound to the site
    faults

workers == <<reader, counter, seen, late>>
line == <<crops, thread, sent>>
evidenceVars == <<clock, deployed, frames, workers, line, bound, faults>>

NoReading == [posted |-> FALSE, screen |-> "dark"]
Ids == 1..NFrames
Times == (0 - MaxTime)..(2 * MaxTime)
Frame == [taken : Times, stamp : Times]
Observation == [frame : Ids, created : 0..MaxTime, reading : Reading]
Crop == [kind : {"ticket", "screen"}, frame : Ids, image : Ids, obs : Nat]

EvidenceTypeOK ==
    /\ clock \in 0..MaxTime
    /\ frames \in Seq(Frame) /\ Len(frames) <= NFrames
    /\ reader \in [at : {"idle", "read"}, frame : {0} \cup Ids, last : {0} \cup Ids]
    /\ counter \in [at : {"idle", "flush", "post", "tail"}, frame : {0} \cup Ids, keys : SUBSET Ids,
                    queue : Seq([frame : Ids, due : BOOLEAN]), dropped : SUBSET Ids]
    /\ seen \in [Kinds -> Seq(Observation)]
    /\ late \subseteq [kind : Kinds, frame : Ids, reading : Reading]
    /\ crops \subseteq Crop
    /\ thread \in [at : {"idle", "cut", "send"}, question : {"none", "ticket", "detail"},
                   obs : Nat, asked : 0..MaxTime, issued : 0..MaxTime]
    /\ bound \in BOOLEAN /\ faults \in 0..MaxFaults[deployed]

IdleReader == [at |-> "idle", frame |-> 0, last |-> 0]
IdleCounter == [at |-> "idle", frame |-> 0, keys |-> {}, queue |-> <<>>, dropped |-> {}]
NoThread == [at |-> "idle", question |-> "none", obs |-> 0, asked |-> 0, issued |-> 0]

EvidenceInit ==
    /\ clock = 0
    /\ deployed \in Deployments
    /\ frames = <<>>
    /\ reader = IdleReader /\ counter = IdleCounter
    /\ seen = [k \in Kinds |-> <<>>] /\ late = {}
    /\ crops = {} /\ thread = NoThread /\ sent = {}
    /\ bound = TRUE
    /\ faults = 0

Fault == faults < MaxFaults[deployed] /\ faults' = faults + 1

-----------------------------------------------------------------------------
(* The camera. CameraFrames models how a frame gets here.                    *)

Upload ==
    /\ Len(frames) < NFrames
    /\ \E drift \in Drifts :
         frames' = Append(frames, [taken |-> IF drift < 0 THEN clock + drift ELSE clock,
                                   stamp |-> clock + drift])
    /\ UNCHANGED <<clock, deployed, workers, line, bound, faults>>

\* _set_camera_latest_frame_pointer refuses only a frame with an earlier captured_at.
Latest ==
    LET Newest(i) == \A j \in 1..Len(frames) :
            frames[j].stamp < frames[i].stamp \/ (frames[j].stamp = frames[i].stamp /\ j <= i)
    IN IF frames = <<>> THEN 0 ELSE CHOOSE i \in 1..Len(frames) : Newest(i)

-----------------------------------------------------------------------------
(* A post to the platform, by either worker.                                 *)

\* submit_camera_ocr_observation and submit_camera_person_observation: a row for each
\* post, also of a frame that has one; captured_at is the frame's.
Row(kind, f, reading) ==
    [seen EXCEPT ![kind] = Append(@, [frame |-> f, created |-> clock, reading |-> reading])]

Heard(kind, f, reading) == seen' = Row(kind, f, reading) /\ UNCHANGED <<late, faults>>

\* A timeout, an error or a lost answer; the server may still do what it was asked.
Unanswered(kind, f, reading) ==
    /\ Fault
    /\ late' \in {late, late \cup {[kind |-> kind, frame |-> f, reading |-> reading]}}
    /\ UNCHANGED seen

LateArrives ==
    /\ \E p \in late : /\ seen' = Row(p.kind, p.frame, p.reading)
                       /\ late' = late \ {p}
    /\ UNCHANGED <<clock, deployed, frames, reader, counter, line, bound, faults>>

-----------------------------------------------------------------------------
(* HmiOcrRunner.run_live                                                     *)

\* The same frame as before is skipped.
Fetch ==
    /\ "ocr" \in deployed
    /\ reader.at = "idle" /\ Latest # 0 /\ Latest # reader.last
    /\ reader' = [reader EXCEPT !.at = "read", !.frame = Latest]
    /\ UNCHANGED <<counter, seen, late, faults>>

\* process_frame: minutes, when a model is asked. The error of a post is printed and
\* the frame counts as done.
Process ==
    /\ reader.at = "read"
    /\ \E r \in Readings :
         Heard("ocr", reader.frame, r) \/ Unanswered("ocr", reader.frame, r)
    /\ reader' = [IdleReader EXCEPT !.last = reader.frame]
    /\ UNCHANGED counter

RestartReader ==
    /\ reader # IdleReader
    /\ Fault
    /\ reader' = IdleReader
    /\ UNCHANGED <<counter, seen, late>>

ReaderStep ==
    /\ Fetch \/ Process
    /\ UNCHANGED <<clock, deployed, frames, line, bound>>

-----------------------------------------------------------------------------
(* PersonPresenceRunner.run_live and its PlatformSink                        *)

GoOn(place) == counter' = [counter EXCEPT !.at = place]

\* A known frame is skipped; the queue is flushed all the same.
Skip == GoOn("tail")

Look ==
    /\ "people" \in deployed
    /\ counter.at = "idle" /\ Latest # 0
    /\ IF Latest \in counter.keys
       THEN Skip
       ELSE counter' = [counter EXCEPT !.at = "flush", !.frame = Latest, !.keys = @ \cup {Latest}]
    /\ UNCHANGED <<seen, late, faults>>

\* flush_pending, before a post and at the end of a round: posts from the head while
\* they succeed; a failure backs off and ends it.
Due == counter.queue # <<>> /\ Head(counter.queue).due

FlushOne ==
    /\ counter.at \in {"flush", "tail"} /\ Due
    /\ LET f == Head(counter.queue).frame IN
       \/ /\ Heard("people", f, NoReading)
          /\ counter' = [counter EXCEPT !.queue = Tail(@)]
       \/ /\ Unanswered("people", f, NoReading)
          /\ counter' = [counter EXCEPT !.queue = [counter.queue EXCEPT ![1].due = FALSE],
                                        !.at = IF counter.at = "flush" THEN "post" ELSE "idle"]

FlushDone ==
    /\ counter.at \in {"flush", "tail"} /\ ~Due
    /\ GoOn(IF counter.at = "flush" THEN "post" ELSE "idle")
    /\ UNCHANGED <<seen, late, faults>>

\* _enqueue: a full queue drops its head.
Enqueued(f) ==
    LET full == Len(counter.queue) = QueueSize
        rest == IF full THEN Tail(counter.queue) ELSE counter.queue
    IN [counter EXCEPT !.at = "tail", !.queue = Append(rest, [frame |-> f, due |-> FALSE]),
                       !.dropped = IF full THEN @ \cup {Head(counter.queue).frame} ELSE @]

PostCount ==
    /\ counter.at = "post"
    /\ \/ Heard("people", counter.frame, NoReading) /\ GoOn("tail")
       \/ Unanswered("people", counter.frame, NoReading) /\ counter' = Enqueued(counter.frame)

\* next_retry_at of the head passes.
BackoffEnds ==
    /\ counter.queue # <<>> /\ ~Due
    /\ counter' = [counter EXCEPT !.queue = [counter.queue EXCEPT ![1].due = TRUE]]
    /\ UNCHANGED <<clock, deployed, frames, reader, seen, late, line, bound, faults>>

RestartCounter ==
    /\ counter # IdleCounter
    /\ Fault
    /\ counter' = IdleCounter
    /\ UNCHANGED <<reader, seen, late>>

CounterStep ==
    /\ Look \/ FlushOne \/ FlushDone \/ PostCount
    /\ UNCHANGED <<clock, deployed, frames, reader, line, bound>>

-----------------------------------------------------------------------------
(* Which observation an answer may use.                                      *)

\* Mutant: only the age of the row is looked at, not the age of the frame.
StaleRow(o, now) == now - o.created > MaxAge \/ now - o.created < 0 - FutureSkew

\* observation_is_stale
Stale(o, now) ==
    \E age \in {now - o.created, now - frames[o.frame].stamp} : age > MaxAge \/ age < 0 - FutureSkew

\* _received_and_captured_are_fresh: nothing from the future.
Fresh(o, now, limit) == {now - o.created, now - frames[o.frame].stamp} \subseteq 0..limit

Newest(kind) == Len(seen[kind])
Ocr(i) == seen["ocr"][i]

\* Mutant: an observation without the sheet is passed over for an older one that has it.
LastPosted == SelectLastInSeq(seen["ocr"], LAMBDA o : o.reading.posted)

\* find_latest_line_crop_capture: the newest row or nothing.
Selected == Newest("ocr")

\* _capture_from_observation
Trusted(i) == i # 0 /\ ~Stale(Ocr(i), clock)

\* The screen is lit, its region lies in the frame, and a field or a line is sure enough to
\* be shown (_hmi_capture_is_valid, _hmi_sections, _hmi_field_view, _reliable_hmi_raw_lines).
Legible(reading) == reading.screen = "lit"

\* build_hmi_screen_view
Readable(i) == i # 0 /\ Fresh(Ocr(i), clock, MaxAge) /\ Legible(Ocr(i).reading)

\* latest_machine_people_count
Countable(i) == i # 0 /\ Fresh(seen["people"][i], clock, PersonAge)

-----------------------------------------------------------------------------
(* The answers. Where there is nothing to show, the reply is a fixed text    *)
(* and changes nothing.                                                      *)

\* The conversation has its site; one thread, and at most MaxReplies answers that show.
MayAsk == bound /\ thread.at = "idle" /\ Cardinality(sent) < MaxReplies

Chosen(question) ==
    thread' = [at |-> "cut", question |-> question, obs |-> Selected, asked |-> clock, issued |-> clock]

\* _reply_dispatch_ticket
AskTicket ==
    /\ MayAsk /\ Trusted(Selected) /\ Ocr(Selected).reading.posted
    /\ Chosen("ticket")
    /\ UNCHANGED <<crops, sent, faults>>

\* _reply_machine_detail
AskDetail ==
    /\ MayAsk /\ Trusted(Selected)
    /\ Chosen("detail")
    /\ UNCHANGED <<crops, sent, faults>>

\* Mutant: the picture is cut from the camera's latest frame.
LatestImage(f) == Latest

\* The frame the observation was made of.
ImageOf(f) == f

\* A picture has one key per frame: a later one replaces it.
Stored(kinds) ==
    LET f == Ocr(thread.obs).frame
        new == {[kind |-> k, frame |-> f, image |-> ImageOf(f), obs |-> thread.obs] : k \in kinds}
    IN {c \in crops : c.frame # f \/ c.kind \notin kinds} \cup new

\* The ticket only when the sheet hangs there; the screen only for the detail.
Pictures ==
    (IF Ocr(thread.obs).reading.posted THEN {"ticket"} ELSE {})
        \cup (IF thread.question = "detail" THEN {"screen"} ELSE {})

\* Each picture is cut, stored and gets its link: create_floorplan_render_token stamps
\* issuedAt now, not when the observation was chosen.
Cut ==
    /\ thread.at = "cut"
    /\ crops' = Stored(Pictures)
    /\ thread' = [thread EXCEPT !.at = "send", !.issued = clock]
    /\ UNCHANGED <<sent, faults>>

\* The frame cannot be read, or a picture cannot be written after the first was.
CutFails ==
    /\ thread.at = "cut"
    /\ Fault
    /\ crops' \in {crops, Stored(Pictures \cap {"ticket"})}
    /\ thread' = NoThread
    /\ UNCHANGED sent

\* hmi_screen_is_overexposed asks for the newest row once more.
Overexposed ==
    LET i == Newest("ocr")
    IN i # 0 /\ Fresh(Ocr(i), clock, MaxAge) /\ Ocr(i).reading.screen = "overexposed"

Reply(question, obs, asked, issued, pictures, warned) ==
    [question |-> question, obs |-> obs, asked |-> asked, issued |-> issued,
     pictures |-> pictures, warned |-> warned]

\* LINE takes the reply, or refuses it and nothing is tried again.
Send ==
    /\ thread.at = "send"
    /\ \/ /\ sent' = sent \cup {Reply(thread.question, thread.obs, thread.asked, thread.issued, Pictures,
                                      thread.question = "detail" /\ Overexposed)}
          /\ UNCHANGED faults
       \/ Fault /\ UNCHANGED sent
    /\ thread' = NoThread
    /\ UNCHANGED crops

\* A text needs no link: one query and one reply.
Tell(question, i) ==
    /\ sent' = sent \cup {Reply(question, i, clock, clock, {}, FALSE)}
    /\ UNCHANGED <<crops, thread, faults>>

AskScreen == MayAsk /\ Readable(Newest("ocr")) /\ Tell("screen", Newest("ocr"))
AskPeople == MayAsk /\ Countable(Newest("people")) /\ Tell("people", Newest("people"))

ServerDies ==
    /\ thread.at # "idle"
    /\ Fault
    /\ thread' = NoThread
    /\ UNCHANGED <<crops, sent>>

AnswerStep ==
    /\ \/ AskTicket \/ AskDetail \/ AskScreen \/ AskPeople
       \/ Cut \/ CutFails \/ Send \/ ServerDies
    /\ UNCHANGED <<clock, deployed, frames, workers, bound>>

-----------------------------------------------------------------------------
(* get_line_dispatch_ticket_image and get_line_hmi_screen_image: a fetch     *)
(* changes nothing, so it is an operator: would the picture be served now.   *)

FrameOf(m) == Ocr(m.obs).frame

\* Mutant: the age of the evidence is measured when the picture is fetched.
FetchTime(m) == clock

\* verify_floorplan_render_token hands on issuedAt.
TokenTime(m) == m.issued

LinkIsGood(m) == clock - m.issued <= CropTtl /\ bound

\* find_line_crop_capture_for_frame: the newest row of that frame.
OfFrame(f) == SelectLastInSeq(seen["ocr"], LAMBDA o : o.frame = f)

Served(m, kind) ==
    /\ LinkIsGood(m)
    /\ ~Stale(Ocr(OfFrame(FrameOf(m))), TokenTime(m))
    /\ \E c \in crops : c.kind = kind /\ c.frame = FrameOf(m)

-----------------------------------------------------------------------------
\* Time counts from the first frame.
Tick ==
    /\ clock < MaxTime /\ frames # <<>>
    /\ clock' = clock + 1
    /\ UNCHANGED <<deployed, frames, workers, line, bound, faults>>

\* The group is bound elsewhere, the user unlinks or loses the site; or comes back.
\* Without a reply this only keeps questions away.
Rebind ==
    /\ sent # {} /\ bound' = ~bound
    /\ UNCHANGED <<clock, deployed, frames, workers, line, faults>>

Restart ==
    /\ RestartReader \/ RestartCounter
    /\ UNCHANGED <<clock, deployed, frames, line, bound>>

EvidenceNext ==
    \/ Upload \/ Tick \/ Rebind \/ LateArrives
    \/ ReaderStep \/ CounterStep \/ BackoffEnds \/ Restart
    \/ AnswerStep

EvidenceSpec == EvidenceInit /\ [][EvidenceNext]_evidenceVars

-----------------------------------------------------------------------------
Ahead == Max(Drifts)
Limit(m) == IF m.question = "people" THEN PersonAge ELSE MaxAge
KindOf(m) == IF m.question = "people" THEN "people" ELSE "ocr"

\* However long the workers took, and whatever was looked at twice: what an answer
\* shows was in front of the camera at most three minutes (a count: one) before the
\* question, give or take what the camera's clock is ahead.
NothingOld ==
    \A m \in sent :
        m.asked - frames[seen[KindOf(m)][m.obs].frame].taken <= Limit(m) + Ahead

\* A sheet that was taken down is not shown again: when the question came, nothing
\* newer than what the reply shows had been received.
NoOlderSheet ==
    \A m \in sent : \A i \in (m.obs + 1)..Newest(KindOf(m)) : seen[KindOf(m)][i].created >= m.asked

\* Under the link of a picture lies a cut of the very frame the reply speaks of, and a
\* ticket is cut only for an observation that saw the sheet.
PicturesTell ==
    \A m \in sent : \A c \in crops :
        c.kind \in m.pictures /\ c.frame = FrameOf(m) =>
            /\ c.image = FrameOf(m) /\ Ocr(c.obs).frame = FrameOf(m)
            /\ c.kind = "ticket" => Ocr(c.obs).reading.posted

NotLate(m) == ~Stale(Ocr(m.obs), m.issued)
SeenAgain(m) == \E i \in 1..Newest("ocr") : Ocr(i).frame = FrameOf(m) /\ Ocr(i).created > m.issued + FutureSkew

\* A picture that was sent opens for as long as its link lives and the conversation is
\* bound, when the evidence was in time for the link and the frame is not read again.
PicturesLast ==
    \A m \in sent : \A k \in m.pictures :
        LinkIsGood(m) /\ NotLate(m) /\ ~SeenAgain(m) => Served(m, k)

-----------------------------------------------------------------------------
\* What the answers do not keep.

\* Every picture that was sent opens while its link lives.
EveryPictureOpens ==
    \A m \in sent : \A k \in m.pictures :
        LinkIsGood(m) /\ ~SeenAgain(m) => Served(m, k)

\* The warning of a reply is about the frame of its pictures.
WarningFits ==
    \A m \in sent : m.warned => Ocr(m.obs).reading.screen = "overexposed"
=============================================================================
