----------------------------- MODULE VoiceIntros -----------------------------
(***************************************************************************)
(* One candidate's voice intros, from the upload to the nightly purge: the *)
(* key that awaits an upload, the recording in storage, its row, the job   *)
(* that transcribes it, and the embedding its words go into.               *)
(*                                                                         *)
(* A completion checks, then writes in a transaction (which replaces the   *)
(* rows it can see), then queues the transcription; the API may die before *)
(* each.  The worker reads a row and writes it after the transcription;    *)
(* the purge, another job of the worker, may come between, and may be cut  *)
(* short.                                                                  *)
(***************************************************************************)
EXTENDS Integers, FiniteSets

CONSTANTS
    MaxIntros,      \* bound on the recordings made
    VoiceAttempts,  \* how often a transcription is tried
    MaxVoiceDeaths  \* bound on the deaths of the API and of the worker

ASSUME VoiceAssumption == {MaxIntros, VoiceAttempts} \subseteq Nat \ {0} /\ MaxVoiceDeaths \in Nat

VARIABLES
    made,        \* how many uploads were started
    upload,      \* voice-upload:<id>: none, pending or expired
    stored,      \* recordings in storage: none, fresh or old (a day and more)
    completing,  \* the completion of each: none, checked, writing, committed
    sees,        \* the current rows its transaction replaces
    intro,       \* voice_intros: none, current, aged (180 days), replaced or gone
    recorded,      \* voice_intros.status
    voiceJob,    \* its transcription: none, queued, running or over
    tries,       \* attempts it has used up
    embedJob,    \* whether an embedding of the candidate is queued
    embedded,    \* the intro whose transcript the embedding was made from (0: none)
    purging,     \* the intro the purge has found and is removing (0: none), and its row's state then
    met,         \* intros completed while another completion was under way
    voiceDeaths

voiceVars == <<made, upload, stored, completing, sees, intro, recorded, voiceJob, tries, embedJob, embedded, purging, met, voiceDeaths>>

Intros == 1..MaxIntros
Current == {i \in Intros : intro[i] \in {"current", "aged"}}
NotPurging == [of |-> 0, was |-> "none", objectGone |-> FALSE]

VoiceInit ==
    /\ made = 0 /\ voiceDeaths = 0 /\ embedJob = FALSE /\ embedded = 0 /\ purging = NotPurging /\ met = {}
    /\ upload = [i \in Intros |-> "none"] /\ stored = [i \in Intros |-> "none"]
    /\ completing = [i \in Intros |-> "none"] /\ sees = [i \in Intros |-> {}]
    /\ intro = [i \in Intros |-> "none"] /\ recorded = [i \in Intros |-> "UPLOADED"]
    /\ voiceJob = [i \in Intros |-> "none"] /\ tries = [i \in Intros |-> 0]

At(f, i, value) == [f EXCEPT ![i] = value]

-----------------------------------------------------------------------------
(* Uploading. *)

StartUpload ==
    /\ made < MaxIntros
    /\ made' = made + 1
    /\ upload' = At(upload, made', "pending")
    /\ UNCHANGED <<stored, completing, sees, intro, recorded, voiceJob, tries, embedJob, embedded, purging, met, voiceDeaths>>

\* The browser sends the recording straight to storage.
StoreRecording(i) ==
    /\ upload[i] = "pending" /\ stored[i] = "none"
    /\ stored' = At(stored, i, "fresh")
    /\ UNCHANGED <<made, upload, completing, sees, intro, recorded, voiceJob, tries, embedJob, embedded, purging, met, voiceDeaths>>

UploadExpires(i) ==
    /\ upload[i] = "pending"
    /\ upload' = At(upload, i, "expired")
    /\ UNCHANGED <<made, stored, completing, sees, intro, recorded, voiceJob, tries, embedJob, embedded, purging, met, voiceDeaths>>

CheckUpload(i) ==
    /\ completing[i] = "none" /\ upload[i] = "pending" /\ stored[i] # "none"
    /\ completing' = At(completing, i, "checked")
    /\ UNCHANGED <<made, upload, stored, sees, intro, recorded, voiceJob, tries, embedJob, embedded, purging, met, voiceDeaths>>

\* Mutant: only an intro with a transcript is replaced.
ToReplaceDone(i) == {j \in Current : recorded[j] = "DONE"}

\* Every row not yet replaced, as far as committed: another completion's is not seen.
ToReplace(i) == Current

ReplaceOthers(i) ==
    /\ completing[i] = "checked"
    /\ completing' = At(completing, i, "writing")
    /\ sees' = At(sees, i, ToReplace(i))
    /\ met' = IF \E j \in Intros : completing[j] = "writing"
              THEN met \cup {i} \cup {j \in Intros : completing[j] = "writing"} ELSE met
    /\ UNCHANGED <<made, upload, stored, intro, recorded, voiceJob, tries, embedJob, embedded, purging, voiceDeaths>>

\* Created by its id, so a second completion of the same upload fails.
CommitIntro(i) ==
    /\ completing[i] = "writing" /\ intro[i] = "none"
    /\ completing' = At(completing, i, "committed")
    /\ intro' = [j \in Intros |-> IF j = i THEN "current"
                                  ELSE IF j \in sees[i] /\ intro[j] # "gone" THEN "replaced" ELSE intro[j]]
    /\ UNCHANGED <<made, upload, stored, sees, recorded, voiceJob, tries, embedJob, embedded, purging, met, voiceDeaths>>

QueueTranscription(i) ==
    /\ completing[i] = "committed"
    /\ completing' = At(completing, i, "none")
    /\ upload' = At(upload, i, "expired")
    /\ voiceJob' = At(voiceJob, i, "queued")
    /\ UNCHANGED <<made, stored, sees, intro, recorded, tries, embedJob, embedded, purging, met, voiceDeaths>>

\* The API dies, or the write or the queue fails; the browser may try again while
\* the upload is awaited, in vain if the row is there.
CompletionDies(i) ==
    /\ completing[i] # "none" /\ voiceDeaths < MaxVoiceDeaths
    /\ completing' = At(completing, i, "none")
    /\ voiceDeaths' = voiceDeaths + 1
    /\ UNCHANGED <<made, upload, stored, sees, intro, recorded, voiceJob, tries, embedJob, embedded, purging, met>>

-----------------------------------------------------------------------------
(* Transcribing: processVoice.  The worker takes one recording at a time. *)

TakeRecording(i) ==
    /\ voiceJob[i] = "queued" /\ \A j \in Intros : voiceJob[j] # "running"
    /\ IF intro[i] \in {"current", "aged"} /\ recorded[i] # "DONE"
         THEN voiceJob' = At(voiceJob, i, "running") /\ recorded' = At(recorded, i, "PROCESSING")
         ELSE voiceJob' = At(voiceJob, i, "over") /\ UNCHANGED recorded
    /\ UNCHANGED <<made, upload, stored, completing, sees, intro, tries, embedJob, embedded, purging, met, voiceDeaths>>

\* The outcome is written whatever has become of the intro, unless its row is
\* gone; a transcript asks for a new embedding.
Transcribe(i) ==
    /\ voiceJob[i] = "running" /\ intro[i] # "gone"
    /\ voiceJob' = At(voiceJob, i, "over")
    /\ \E result \in {"DONE", "FAILED"} :
        /\ result = "DONE" => stored[i] # "none"
        /\ recorded' = At(recorded, i, result)
        /\ embedJob' = (embedJob \/ result = "DONE")
    /\ UNCHANGED <<made, upload, stored, completing, sees, intro, tries, embedded, purging, met, voiceDeaths>>

\* The sidecar is down, or the recording or its row is gone: another attempt, and
\* with the last the intro says that there is no transcript.
TranscriptionFails(i) ==
    /\ voiceJob[i] = "running"
    /\ tries' = At(tries, i, tries[i] + 1)
    /\ voiceJob' = At(voiceJob, i, IF tries'[i] >= VoiceAttempts THEN "over" ELSE "queued")
    /\ recorded' = IF tries'[i] >= VoiceAttempts /\ intro[i] # "gone" THEN At(recorded, i, "FAILED") ELSE recorded
    /\ UNCHANGED <<made, upload, stored, completing, sees, intro, embedJob, embedded, purging, met, voiceDeaths>>

\* The worker dies, and the job is taken up again once it has stalled: after a
\* transcript was written, only to find it there and ask for nothing.
TranscriberDies(i) ==
    /\ voiceJob[i] = "running" /\ voiceDeaths < MaxVoiceDeaths
    /\ voiceDeaths' = voiceDeaths + 1
    /\ voiceJob' = At(voiceJob, i, "queued")
    /\ \/ intro[i] # "gone" /\ stored[i] # "none" /\ recorded' = At(recorded, i, "DONE")
       \/ UNCHANGED recorded
    /\ UNCHANGED <<made, upload, stored, completing, sees, intro, tries, embedJob, embedded, purging, met>>

\* The newest current intro that has a transcript, if there is one.
TranscriptFor == {i \in Current : recorded[i] = "DONE"}

\* One job at a time, so reading the text and writing its vector are one step.
Embed ==
    /\ embedJob
    /\ embedJob' = FALSE
    /\ embedded' = IF TranscriptFor = {} THEN 0 ELSE CHOOSE i \in TranscriptFor : \A j \in TranscriptFor : j <= i
    /\ UNCHANGED <<made, upload, stored, completing, sees, intro, recorded, voiceJob, tries, purging, met, voiceDeaths>>

-----------------------------------------------------------------------------
(* Nightly: purgeVoiceIntros, removeOrphanedRecordings. *)

AgeIntro(i) ==
    /\ intro[i] = "current" /\ completing[i] = "none"
    /\ intro' = At(intro, i, "aged")
    /\ UNCHANGED <<made, upload, stored, completing, sees, recorded, voiceJob, tries, embedJob, embedded, purging, met, voiceDeaths>>

PurgeFinds(i) ==
    /\ purging.of = 0 /\ intro[i] \in {"aged", "replaced"}
    /\ purging' = [of |-> i, was |-> intro[i], objectGone |-> FALSE]
    /\ UNCHANGED <<made, upload, stored, completing, sees, intro, recorded, voiceJob, tries, embedJob, embedded, met, voiceDeaths>>

PurgeObject ==
    /\ purging.of # 0 /\ ~purging.objectGone
    /\ stored' = At(stored, purging.of, "none")
    /\ purging' = [purging EXCEPT !.objectGone = TRUE]
    /\ UNCHANGED <<made, upload, completing, sees, intro, recorded, voiceJob, tries, embedJob, embedded, met, voiceDeaths>>

\* Mutant: no embedding is asked for.
ReembedAfterNever(was) == FALSE

\* A replaced intro leaves the embedding to the one that took its place.
ReembedAfter(was) == was # "replaced"

PurgeRow ==
    /\ purging.objectGone
    /\ intro' = At(intro, purging.of, "gone")
    /\ embedJob' = (embedJob \/ ReembedAfter(purging.was))
    /\ purging' = NotPurging
    /\ UNCHANGED <<made, upload, stored, completing, sees, recorded, voiceJob, tries, embedded, met, voiceDeaths>>

\* The worker dies on the way, at worst with the row gone and nothing queued.
PurgeDies ==
    /\ purging.of # 0 /\ voiceDeaths < MaxVoiceDeaths
    /\ voiceDeaths' = voiceDeaths + 1
    /\ purging' = NotPurging
    /\ \/ purging.objectGone /\ intro' = At(intro, purging.of, "gone")
       \/ UNCHANGED intro
    /\ UNCHANGED <<made, upload, stored, completing, sees, recorded, voiceJob, tries, embedJob, embedded, met>>

\* A day is far beyond the quarter of an hour an upload is awaited.
IsOld(i) == stored[i] = "fresh" /\ upload[i] = "expired" /\ completing[i] = "none"

RecordingAges(i) ==
    /\ IsOld(i)
    /\ stored' = At(stored, i, "old")
    /\ UNCHANGED <<made, upload, completing, sees, intro, recorded, voiceJob, tries, embedJob, embedded, purging, met, voiceDeaths>>

RemoveOrphan(i) ==
    /\ stored[i] = "old" /\ intro[i] \in {"none", "gone"}
    /\ stored' = At(stored, i, "none")
    /\ UNCHANGED <<made, upload, completing, sees, intro, recorded, voiceJob, tries, embedJob, embedded, purging, met, voiceDeaths>>

-----------------------------------------------------------------------------
VoiceNext ==
    \/ StartUpload \/ Embed \/ PurgeObject \/ PurgeRow \/ PurgeDies
    \/ \E i \in Intros :
        \/ StoreRecording(i) \/ UploadExpires(i)
        \/ CheckUpload(i) \/ ReplaceOthers(i) \/ CommitIntro(i) \/ QueueTranscription(i) \/ CompletionDies(i)
        \/ TakeRecording(i) \/ Transcribe(i) \/ TranscriptionFails(i) \/ TranscriberDies(i)
        \/ AgeIntro(i) \/ PurgeFinds(i) \/ RecordingAges(i) \/ RemoveOrphan(i)

VoiceSpec == VoiceInit /\ [][VoiceNext]_voiceVars

-----------------------------------------------------------------------------
(* Properties. *)

\* Every variable has its type.
VoiceTypeOK ==
    /\ made \in 0..MaxIntros /\ voiceDeaths \in 0..MaxVoiceDeaths
    /\ upload \in [Intros -> {"none", "pending", "expired"}] /\ stored \in [Intros -> {"none", "fresh", "old"}]
    /\ completing \in [Intros -> {"none", "checked", "writing", "committed"}] /\ sees \in [Intros -> SUBSET Intros]
    /\ intro \in [Intros -> {"none", "current", "aged", "replaced", "gone"}]
    /\ recorded \in [Intros -> {"UPLOADED", "PROCESSING", "DONE", "FAILED"}]
    /\ voiceJob \in [Intros -> {"none", "queued", "running", "over"}] /\ tries \in [Intros -> 0..VoiceAttempts]
    /\ embedJob \in BOOLEAN /\ embedded \in 0..MaxIntros /\ met \subseteq Intros
    /\ purging \in [of : 0..MaxIntros, was : {"none", "aged", "replaced"}, objectGone : BOOLEAN]

\* A candidate has one current intro, unless two completions wrote at the same
\* time and neither saw the other's; and it can be played: neither the purge nor
\* the search for orphans takes its recording, however an upload, a retry and a
\* night overlap (completeUpload, removeOrphanedRecordings).
OneCurrentIntro ==
    /\ \A i, j \in Current : i = j \/ {i, j} \cap met # {}
    /\ \A i \in Intros : intro[i] = "current" => stored[i] # "none"

\* The words of a recording that is gone leave the embedding, or are about to,
\* unless an intro that has no transcript took its place, or the worker died
\* before it asked for that (purgeVoiceIntros).
WordsLeaveEmbedding ==
    embedded # 0 /\ intro[embedded] = "gone" =>
        \/ embedJob \/ voiceDeaths > 0
        \/ \E i \in Intros : i # embedded /\ intro[i] # "none" /\ recorded[i] # "DONE"

\* A candidate has one intro that can be played, and the words of one that is
\* gone are nowhere.
IntrosKeepTheirWord == OneCurrentIntro /\ WordsLeaveEmbedding
=============================================================================
