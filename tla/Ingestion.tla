------------------------------ MODULE Ingestion ------------------------------
(***************************************************************************)
(* From transcripts to facts: ingest-jsonl reads a transcript part by part *)
(* and emits events, keeping what it denied and which voice messages of the *)
(* owner wait for their transcription; refine-sessions then makes facts of  *)
(* the events.  A transcript may hold any lines in any order, but a result  *)
(* follows its call.                                                       *)
(***************************************************************************)
EXTENDS Integers, Sequences, SequencesExt

CONSTANTS
    Sessions,   \* session ids
    Media,      \* file ids of voice messages
    Frames,     \* how a user part may come: as typed or in a channel frame
    Calls,      \* tool_use ids: 1..n, in the order they are made
    Texts,      \* what may be said and is classified as a fact, scrubbed
    Authority,  \* the texts classified as decision, directive or correction
    KeyOf,      \* normalize_for_dedup
    NoCall,
    MaxLines    \* bound: parts read

(* "allowed": a private message whose sender the markers and the allowlist  *)
(* confirm; "writes", "voice": it holds a text, a voice message.           *)
Frame == [channel : {"none", "telegram", "nockcc", "engine"},
          allowed : BOOLEAN, writes : BOOLEAN, voice : BOOLEAN]

ASSUME IngestAssumption ==
    /\ Frames \subseteq Frame
    /\ Calls \subseteq Nat /\ NoCall \notin Calls
    /\ Authority \subseteq Texts
    /\ MaxLines \in Nat

VARIABLES
    events,     \* the events emitted
    denied,     \* denied_tool_use_ids
    pending,    \* transcribe_tool_use_ids
    voices,     \* voice_media_by_session
    made,       \* history: the calls of this transcript
    log,        \* history: voice messages heard and promoted, in order
    linesRead,
    refined,    \* how many events refine-sessions has seen; -1 while ingesting
    facts, keys \* facts, and the keys seen

ingestVars == <<events, denied, pending, voices, made, log, linesRead, refined, facts, keys>>

Event == [actor : {"user", "other"}, surface : {"text", "tool_result.content"},
          text : Texts, call : Calls \cup {NoCall}]

IngestTypeOK ==
    /\ events \in Seq(Event) /\ facts \in Seq(Event)
    /\ denied \subseteq made /\ made \subseteq Calls
    /\ DOMAIN pending \subseteq made
    /\ \A c \in DOMAIN pending : pending[c] \in Sessions \X Media
    /\ voices \in [Sessions -> SUBSET Media]
    /\ linesRead \in 0..MaxLines
    /\ refined \in -1..Len(events)
    /\ keys \subseteq {KeyOf[t] : t \in Texts}

-----------------------------------------------------------------------------
NoVoices == [s \in Sessions |-> {}]

IngestInit ==
    /\ events = <<>> /\ denied = {} /\ pending = <<>> /\ voices = NoVoices
    /\ made = {} /\ log = <<>> /\ linesRead = 0
    /\ refined = -1 /\ facts = <<>> /\ keys = {}

ReadLine ==
    /\ refined = -1 /\ linesRead < MaxLines
    /\ linesRead' = linesRead + 1
    /\ UNCHANGED <<refined, facts, keys>>

Emit(actor, surface, text, call) ==
    events' = Append(events, [actor |-> actor, surface |-> surface, text |-> text, call |-> call])

(* unwrap_channel_user_text: engine frames and those without a text leave  *)
(* nothing; a Telegram text is the user's, another channel's its sender's.  *)
Unwraps(frame) == frame.writes /\ frame.channel # "engine"

Speaker(frame) == IF frame.channel \in {"none", "telegram"} THEN "user" ELSE "other"

(* allowed_telegram_voice_file_id *)
HeardVoice(frame) == frame.channel = "telegram" /\ frame.allowed /\ frame.voice

(* A voice message is heard whether its frame holds a text or not.         *)
UserPart(s, m, frame, text) ==
    /\ ReadLine
    /\ IF HeardVoice(frame)
       THEN /\ voices' = [voices EXCEPT ![s] = @ \cup {m}]
            /\ log' = Append(log, <<"heard", s, m>>)
       ELSE UNCHANGED <<voices, log>>
    /\ IF Unwraps(frame) THEN Emit(Speaker(frame), "text", text, NoCall)
       ELSE UNCHANGED events
    /\ UNCHANGED <<denied, pending, made>>

AssistantPart(text) ==
    /\ ReadLine
    /\ Emit("other", "text", text, NoCall)
    /\ UNCHANGED <<denied, pending, voices, made, log>>

NextCall(c) ==
    /\ c \notin made /\ \A b \in Calls : b < c => b \in made
    /\ made' = made \cup {c}

(* A path, a tool or an endpoint of the denylists. *)
DeniedCall(c) ==
    /\ ReadLine /\ NextCall(c)
    /\ denied' = denied \cup {c}
    /\ UNCHANGED <<events, pending, voices, log>>

(* A call of the transcriber for a voice message heard in its session is    *)
(* noted; the events of calls are never made facts and left out.           *)
Call(c, s, m) ==
    /\ ReadLine /\ NextCall(c)
    /\ pending' = IF m \in voices[s]
                  THEN [d \in DOMAIN pending \cup {c} |-> IF d = c THEN <<s, m>> ELSE pending[d]]
                  ELSE pending
    /\ UNCHANGED <<events, denied, voices, log>>

-----------------------------------------------------------------------------
(* Results. *)

(* Slip: the result is the user's because its call was a transcription. *)
TranscribesOnce(c, s) == c \in DOMAIN pending /\ pending[c][1] = s

Transcribes(c, s) ==
    /\ c \in DOMAIN pending
    /\ pending[c][1] = s /\ pending[c][2] \in voices[s]

Popped(c) == [d \in DOMAIN pending \ {c} |-> pending[d]]

ResultDenied(c) ==
    /\ ReadLine /\ c \in denied
    /\ UNCHANGED <<events, denied, pending, voices, made, log>>

(* A transcription that failed, is empty or names a denied path leaves its *)
(* voice message to another attempt; a plain result with such a path goes.  *)
ResultDropped(c) ==
    /\ ReadLine /\ c \in made \ denied
    /\ pending' = Popped(c)
    /\ UNCHANGED <<events, denied, voices, made, log>>

Promote(c, s, text) ==
    /\ ReadLine /\ c \in made \ denied
    /\ Transcribes(c, s)
    /\ Emit("user", "text", text, c)
    /\ voices' = [voices EXCEPT ![s] = @ \ {pending[c][2]}]
    /\ log' = Append(log, <<"promoted", s, pending[c][2]>>)
    /\ pending' = Popped(c)
    /\ UNCHANGED <<denied, made>>

Result(c, s, text) ==
    /\ ReadLine /\ c \in made \ denied
    /\ ~Transcribes(c, s)
    /\ Emit("other", "tool_result.content", text, c)
    /\ pending' = Popped(c)
    /\ UNCHANGED <<denied, voices, made, log>>

(* ingest_file starts with empty maps. *)
NextTranscript ==
    /\ refined = -1 /\ made # {}
    /\ denied' = {} /\ pending' = <<>> /\ voices' = NoVoices /\ made' = {}
    /\ log' = Append(log, <<"next">>)
    /\ UNCHANGED <<events, linesRead, refined, facts, keys>>

Ingested ==
    /\ refined = -1 /\ refined' = 0
    /\ UNCHANGED <<events, denied, pending, voices, made, log, linesRead, facts, keys>>

-----------------------------------------------------------------------------
(* refine-sessions: fact_from_event and the deduplication of its facts.    *)

MakesFact(e) ==
    /\ e.surface # "tool_result.content"
    /\ e.text \in Authority => e.actor = "user"

(* Slip: a text counts as seen before it is known to make a fact. *)
RefineSeenFirst ==
    /\ refined \in 0..(Len(events) - 1)
    /\ LET e == events[refined + 1]
       IN  /\ facts' = IF MakesFact(e) /\ KeyOf[e.text] \notin keys THEN Append(facts, e) ELSE facts
           /\ keys' = keys \cup {KeyOf[e.text]}
    /\ refined' = refined + 1
    /\ UNCHANGED <<events, denied, pending, voices, made, log, linesRead>>

Refine ==
    /\ refined \in 0..(Len(events) - 1)
    /\ LET e == events[refined + 1]
           new == MakesFact(e) /\ KeyOf[e.text] \notin keys
       IN  /\ facts' = IF new THEN Append(facts, e) ELSE facts
           /\ keys' = IF new THEN keys \cup {KeyOf[e.text]} ELSE keys
    /\ refined' = refined + 1
    /\ UNCHANGED <<events, denied, pending, voices, made, log, linesRead>>

-----------------------------------------------------------------------------
IngestNext ==
    \/ \E t \in Texts :
          \/ AssistantPart(t)
          \/ \E s \in Sessions, m \in Media, frame \in Frames : UserPart(s, m, frame, t)
    \/ \E c \in Calls :
          \/ DeniedCall(c) \/ ResultDenied(c) \/ ResultDropped(c)
          \/ \E s \in Sessions : \/ \E m \in Media : Call(c, s, m)
                                 \/ \E t \in Texts : Promote(c, s, t) \/ Result(c, s, t)
    \/ NextTranscript \/ Ingested \/ Refine

IngestSpec == IngestInit /\ [][IngestNext]_ingestVars

-----------------------------------------------------------------------------
(* "A paired transcribe.py result becomes a user message only when it      *)
(* matches a preceding voice envelope in the same session", and envelopes   *)
(* are consumed: of the calls that transcribe one voice message, in any     *)
(* order and in any transcript, the result of one becomes the user's words. *)
SpokenOnce ==
    \A k \in DOMAIN log :
        log[k][1] = "promoted" =>
            \E j \in 1..(k - 1) :
                /\ log[j] = <<"heard", log[k][2], log[k][3]>>
                /\ \A i \in (j + 1)..(k - 1) : log[i] # <<"next">> /\ log[i] # log[k]

(* Only what the user wrote or spoke becomes a decision, and what he       *)
(* decided is a fact, whoever said the same words before him and where,    *)
(* unless words that are the same to the deduplication made a fact already. *)
UserDecides ==
    /\ \A k \in DOMAIN facts :
          facts[k].text \in Authority =>
              \E j \in DOMAIN events : /\ events[j].actor = "user"
                                       /\ events[j].text = facts[k].text
    /\ \A k \in 1..refined :
          events[k].actor = "user" =>
              \E n \in DOMAIN facts : KeyOf[facts[n].text] = KeyOf[events[k].text]
    /\ \A m, n \in DOMAIN facts : m # n => KeyOf[facts[m].text] # KeyOf[facts[n].text]

=============================================================================
