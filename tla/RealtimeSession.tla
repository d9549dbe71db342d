--------------------------- MODULE RealtimeSession ---------------------------
(***************************************************************************)
(* One connection of /v1/realtime (serve/realtime): the loop that buffers  *)
(* audio, finds utterances in it (vad.py) and commits them, the queue      *)
(* drainer that runs one turn per utterance, response first, transcription *)
(* second, and the cancellation of turns by the client and by teardown.    *)
(*                                                                         *)
(* All tasks share an event loop.  The buffer and the VAD belong to the    *)
(* receive loop alone, so a client event is handled in one step; turns run *)
(* beside it.  Client.abort does not suspend, so the abort of a request    *)
(* and the cancellation of its task are one step too.  Audio is counted in *)
(* VAD frames, each speech or not, also when the detector hears it again   *)
(* (the real detector has a memory and may differ then); appends are whole *)
(* frames or nothing, so that leftover_pcm is empty between them.          *)
(* session.update changes sampling parameters only and is left out.        *)
(***************************************************************************)
EXTENDS Naturals, Sequences, FiniteSets, SequencesExt

CONSTANTS
  Appends,     \* audio that one event may carry: sequences of frames
  Pad,         \* prefix_padding_ms, in frames
  Silence,     \* silence_duration_ms, in frames
  MaxBuffer,   \* max_bytes of the audio buffer, in frames
  MaxEvents    \* bound of the instance on the client's events

ASSUME AppendsAssumption == Appends \subseteq Seq(BOOLEAN)
ASSUME VadAssumption == Pad \in Nat /\ Silence \in Nat \ {0} /\ MaxBuffer \in Nat
ASSUME EventsAssumption == MaxEvents \in Nat

VARIABLES
  run,        \* the receive loop: "loop", "teardown", "cancelled", "ended"
  left,       \* the client has disconnected
  events,     \* events received so far
  frames,     \* history: every frame received; a frame's name is its index
  origin,     \* frames that were dropped from the buffer
  vad,        \* StreamingVAD
  start,      \* utterance_start_byte, 0 when unset
  turns,      \* committed utterances with their turns, in order of commit
  activeTask, \* active_task: index of a turn, or 0
  drainers,   \* tasks in drain_queue
  talk,       \* self.conversation: <<turn, role>>
  cleared,    \* history: frames that the client cleared
  trailing,   \* history: frames that came behind an utterance in its append
  skewed,     \* history: the detector has heard the buffer again since it was
              \* last dropped, and its offsets are ahead of the buffer's
  garbled,    \* history: frames dropped by a commit while skewed
  abandoned   \* history: turns that died in a send while their request ran

audioVars == <<frames, origin, vad, start, cleared, trailing, skewed, garbled>>
turnVars == <<turns, activeTask, drainers, talk, abandoned>>
sessionVars == <<run, left, events, audioVars, turnVars>>

TurnStates == {"queued", "created", "response", "transcription", "done", "failed", "cancelled"}
Under == {"created", "response", "transcription"}

SessionTypeOK ==
  /\ run \in {"loop", "teardown", "cancelled", "ended"}
  /\ left \in BOOLEAN /\ events \in 0..MaxEvents
  /\ frames \in Seq(BOOLEAN) /\ origin \in 0..Len(frames) /\ start \in Nat
  /\ vad \in [speech : BOOLEAN, silent : 0..Silence, last : Nat, consumed : Nat]
  /\ turns \in Seq([from : Nat, to : Nat, st : TurnStates, held : BOOLEAN,
                    req : {"none", "running", "finished", "failed", "aborted"}])
  /\ activeTask \in 0..Len(turns) /\ drainers \in Nat
  /\ talk \in Seq((1..Len(turns)) \X {"user", "assistant"})
  /\ cleared \subseteq 1..Len(frames) /\ trailing \subseteq 1..Len(frames)
  /\ skewed \in BOOLEAN /\ garbled \subseteq 1..Len(frames)
  /\ abandoned \subseteq 1..Len(turns)

FreshVad == [speech |-> FALSE, silent |-> 0, last |-> 0, consumed |-> 0]

SessionInit ==
  /\ run = "loop" /\ left = FALSE /\ events = 0
  /\ frames = <<>> /\ origin = 0 /\ vad = FreshVad /\ start = 0
  /\ turns = <<>> /\ activeTask = 0 /\ drainers = 0 /\ talk = <<>>
  /\ cleared = {} /\ trailing = {} /\ skewed = FALSE /\ garbled = {} /\ abandoned = {}
-----------------------------------------------------------------------------
(* Audio.                                                                  *)

Least(m, n) == IF m < n THEN m ELSE n

\* one frame of StreamingVAD.process; acc is the VAD and what it has emitted
VadFrame(acc, speech) ==
  LET v == acc.vad
      c == v.consumed + 1
      n == Least(v.silent + 1, Silence)
      ends == ~speech /\ v.speech /\ n = Silence
      begins == speech /\ ~v.speech
      from == IF v.consumed < Pad THEN 0 ELSE v.consumed - Pad
  IN  [vad |-> [speech   |-> speech \/ (v.speech /\ ~ends),
                silent   |-> IF speech THEN 0 ELSE n,
                last     |-> IF speech THEN c ELSE v.last,
                consumed |-> c],
       emits |-> CASE begins -> Append(acc.emits, <<"started", from>>)
                   [] ends   -> Append(acc.emits, <<"stopped", v.last>>)
                   [] OTHER  -> acc.emits]

\* mutant: the detector goes on counting when the buffer is dropped
VadAfterDrop(v) == [v EXCEPT !.speech = FALSE, !.silent = 0]

\* vad.reset()
VadReset(v) == FreshVad

\* handle_vad_emit and auto_commit_utterance; s is the session's audio state,
\* size the length of its buffer
HandleVadEmit(s, emit) ==
  LET end == Least(emit[2], s.size) IN
  CASE emit[1] = "started" -> [s EXCEPT !.start = Least(emit[2], s.size)]
    [] emit[1] = "stopped" /\ (s.size = 0 \/ end <= s.start) -> s
    [] OTHER -> [start |-> 0, size |-> 0, vad |-> VadReset(s.vad),
                 cut |-> Append(s.cut, <<s.start, end>>)]

\* mutant: a drainer for every utterance
DrainersAlways(n) == drainers + n

\* a drainer is created unless there is one already
DrainersFor(n) == IF n > 0 /\ drainers = 0 THEN 1 ELSE drainers

NewTurn(cut) ==
  [from |-> origin + cut[1], to |-> origin + cut[2], st |-> "queued", held |-> FALSE,
   req |-> "none"]

\* tail(decoded_len), which after an append of nothing is buf[-0:], the whole
\* buffer
BufferTail(audio) == IF audio = <<>> THEN SubSeq(frames, origin + 1, Len(frames)) ELSE audio

\* handle_audio_append
AudioAppend(audio) ==
  LET size == Len(frames) - origin + Len(audio)
      again == audio = <<>> /\ size > 0
      heard == FoldLeft(VadFrame, [vad |-> vad, emits |-> <<>>], BufferTail(audio))
      s == FoldLeft(HandleVadEmit,
                    [start |-> start, size |-> size, vad |-> heard.vad, cut |-> <<>>],
                    heard.emits)
  IN  /\ run = "loop" /\ events < MaxEvents /\ events' = events + 1
      /\ size <= MaxBuffer
      /\ frames' = frames \o audio
      /\ vad' = s.vad /\ start' = s.start
      /\ origin' = IF s.cut = <<>> THEN origin ELSE origin + size
      /\ trailing' = IF s.cut = <<>> THEN trailing
                     ELSE trailing \cup ((origin + s.cut[1][2] + 1)..(origin + size))
      /\ skewed' = ((skewed \/ again) /\ s.cut = <<>>)
      /\ garbled' = IF (skewed \/ again) /\ s.cut # <<>>
                    THEN garbled \cup ((origin + 1)..(origin + size)) ELSE garbled
      /\ turns' = turns \o [i \in 1..Len(s.cut) |-> NewTurn(s.cut[i])]
      /\ drainers' = DrainersFor(Len(s.cut))
      /\ UNCHANGED <<run, left, cleared, activeTask, talk, abandoned>>

\* append_b64 raises BufferOverflow: the buffer is dropped by a commit or a
\* clear only, silence counts
AudioOverflow(audio) ==
  /\ run = "loop" /\ events < MaxEvents /\ events' = events + 1
  /\ Len(frames) - origin + Len(audio) > MaxBuffer
  /\ run' = "teardown"
  /\ UNCHANGED <<left, audioVars, turnVars>>

\* handle_audio_clear
AudioClear ==
  /\ run = "loop" /\ events < MaxEvents /\ events' = events + 1
  /\ cleared' = cleared \cup ((origin + 1)..Len(frames))
  /\ origin' = Len(frames) /\ vad' = VadReset(vad) /\ start' = 0 /\ skewed' = FALSE
  /\ UNCHANGED <<run, left, frames, trailing, garbled, turnVars>>
-----------------------------------------------------------------------------
(* Turns.                                                                  *)

SetTurn(i, st, req) == turns' = [turns EXCEPT ![i].st = st, ![i].req = req]

\* drain_queue: a drainer that holds no turn takes the next one
TakeTurn(i) ==
  /\ run = "loop" /\ turns[i].st = "queued"
  /\ \A j \in 1..(i - 1) : turns[j].st # "queued"
  /\ drainers > Cardinality({j \in DOMAIN turns : turns[j].held})
  /\ turns' = [turns EXCEPT ![i].st = "created", ![i].held = TRUE]
  /\ activeTask' = i
  /\ UNCHANGED <<run, left, events, audioVars, drainers, talk, abandoned>>

\* run_turn begins, and with it run_response
TurnStarts(i) ==
  /\ turns[i].st = "created" /\ SetTurn(i, "response", "running")
  /\ UNCHANGED <<run, left, events, audioVars, activeTask, drainers, talk, abandoned>>

\* the response is complete: run_transcription
ResponseEnds(i) ==
  /\ turns[i].st = "response" /\ turns[i].req = "finished"
  /\ SetTurn(i, "transcription", "running")
  /\ UNCHANGED <<run, left, events, audioVars, activeTask, drainers, talk, abandoned>>

Said(i, role, roles) == IF role \in roles THEN <<<<i, role>>>> ELSE <<>>

\* the turn enters the conversation; an empty text is left out
TranscriptionEnds(i, roles) ==
  /\ turns[i].st = "transcription" /\ turns[i].req = "finished"
  /\ SetTurn(i, "done", "finished")
  /\ talk' = talk \o Said(i, "user", roles) \o Said(i, "assistant", roles)
  /\ UNCHANGED <<run, left, events, audioVars, activeTask, drainers, abandoned>>

PassFails(i) ==
  /\ turns[i].st \in {"response", "transcription"} /\ turns[i].req = "failed"
  /\ SetTurn(i, "failed", "failed")
  /\ UNCHANGED <<run, left, events, audioVars, activeTask, drainers, talk, abandoned>>

\* a send to the client that left raises; nobody aborts the request
SendRaises(i) ==
  /\ left /\ turns[i].st \in Under
  /\ SetTurn(i, "failed", turns[i].req)
  /\ abandoned' = IF turns[i].req = "running" THEN abandoned \cup {i} ELSE abandoned
  /\ UNCHANGED <<run, left, events, audioVars, activeTask, drainers, talk>>

\* gather() returns in the drainer, whose loop ends once the session is closed
TurnReaped(i) ==
  /\ turns[i].held /\ turns[i].st \notin Under
  /\ turns' = [turns EXCEPT ![i].held = FALSE]
  /\ activeTask' = 0
  /\ drainers' = IF run = "loop" THEN drainers ELSE drainers - 1
  /\ UNCHANGED <<run, left, events, audioVars, talk, abandoned>>

\* the engine (external): a request finishes or fails in the time it likes
RequestEnds(i, how) ==
  /\ turns[i].req = "running" /\ turns' = [turns EXCEPT ![i].req = how]
  /\ UNCHANGED <<run, left, events, audioVars, activeTask, drainers, talk, abandoned>>
-----------------------------------------------------------------------------
(* Cancellation.                                                           *)

\* mutant: only the task is cancelled
CancelOnly(i) == [turns EXCEPT ![i].st = "cancelled"]

\* client.abort of the active request, then cancel() of the active task
CancelAndAbort(i) ==
  [turns EXCEPT ![i].st = "cancelled", ![i].req = IF @ = "running" THEN "aborted" ELSE @]

CancelActive ==
  turns' = IF activeTask # 0 /\ turns[activeTask].st \in Under THEN CancelAndAbort(activeTask) ELSE turns

\* handle_response_cancel
ResponseCancel ==
  /\ run = "loop" /\ events < MaxEvents /\ events' = events + 1
  /\ CancelActive
  /\ UNCHANGED <<run, left, audioVars, activeTask, drainers, talk, abandoned>>

ClientDisconnects ==
  /\ ~left /\ left' = TRUE
  /\ UNCHANGED <<run, events, audioVars, turnVars>>

\* run() ends: the disconnection arrives or a send raises, or an event is
\* malformed
LoopEnds(malformed) ==
  /\ run = "loop" /\ (left \/ malformed) /\ run' = "teardown"
  /\ UNCHANGED <<left, events, audioVars, turnVars>>

\* teardown up to the end of the active turn
TeardownCancels ==
  /\ run = "teardown" /\ run' = "cancelled"
  /\ CancelActive
  /\ UNCHANGED <<left, events, audioVars, activeTask, drainers, talk, abandoned>>

\* the turn is over: the drainer is cancelled and awaited
TeardownEnds ==
  /\ run = "cancelled" /\ run' = "ended"
  /\ activeTask = 0 \/ (activeTask # 0 /\ turns[activeTask].st \notin Under)
  /\ drainers' = 0 /\ turns' = [i \in DOMAIN turns |-> [turns[i] EXCEPT !.held = FALSE]]
  /\ UNCHANGED <<left, events, audioVars, activeTask, talk, abandoned>>
-----------------------------------------------------------------------------
ClientEvent ==
  \/ \E audio \in Appends : AudioAppend(audio) \/ AudioOverflow(audio)
  \/ AudioClear \/ ResponseCancel

Turn(i) ==
  \/ TakeTurn(i) \/ TurnStarts(i) \/ ResponseEnds(i) \/ PassFails(i) \/ SendRaises(i)
  \/ TurnReaped(i) \/ \E roles \in SUBSET {"user", "assistant"} : TranscriptionEnds(i, roles)

SessionNext ==
  \/ ClientEvent \/ ClientDisconnects \/ TeardownCancels \/ TeardownEnds
  \/ \E malformed \in BOOLEAN : LoopEnds(malformed)
  \/ \E i \in DOMAIN turns : Turn(i) \/ \E how \in {"finished", "failed"} : RequestEnds(i, how)

SessionSpec == SessionInit /\ [][SessionNext]_sessionVars
-----------------------------------------------------------------------------
(* Properties.                                                             *)

\* auto_commit_utterance, drop_buffer_and_reset_vad: offsets of the detector
\* and of the buffer stay in step however audio is cut into events that carry
\* some, so no speech is lost: each frame of speech is in a committed utterance, or in
\* the buffer while the utterance goes on, unless the client cleared it or it
\* came behind the end of an utterance in one append.  An append of nothing
\* breaks the step: the detector hears the buffer again, and until the buffer
\* is dropped, that commit included, nothing is promised.
SpeechCommitted ==
  \A i \in DOMAIN frames : frames[i] =>
    \/ \E t \in DOMAIN turns : turns[t].from < i /\ i <= turns[t].to
    \/ i > origin /\ (vad.speech \/ skewed)
    \/ i \in cleared \cup trailing \cup garbled

\* run_turn: the conversation that the next turn is given holds whole turns
\* in the order they were spoken, what the user said before the answer,
\* whatever is queued, cancelled or failing meanwhile.
HistoryInOrder ==
  /\ \A i \in DOMAIN talk : turns[talk[i][1]].st = "done"
  /\ \A i, j \in DOMAIN talk : i < j =>
       \/ talk[i][1] < talk[j][1]
       \/ talk[i] = <<talk[j][1], "user">> /\ talk[j][2] = "assistant"

\* teardown: a session that has ended leaves no turn under way and no request
\* running in the engine, except for a turn that died in a send to its client.
SessionLeavesNothing ==
  run = "ended" =>
    \A i \in DOMAIN turns :
      turns[i].st \notin Under /\ (turns[i].req = "running" => i \in abandoned)
=============================================================================
