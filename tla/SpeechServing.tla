---------------------------- MODULE SpeechServing ----------------------------
(***************************************************************************)
(* The owners of speech requests in the API server: one connection of the  *)
(* WebSocket session (serve/speech_ws.py, "ws"), or of POST                *)
(* /v1/audio/speech with a streamed body ("stream") or a whole one         *)
(* ("oneshot") (serve/openai_api.py).                                      *)
(*                                                                         *)
(* Each races a generation against the disconnection of its client and has *)
(* to abort what it started.  The engine behind Client is its contract: a  *)
(* request runs until it finishes, fails or is aborted, in the time it     *)
(* likes.  Frames are their kind and the sentences they complete; audio,   *)
(* validation and error texts are left out.                                *)
(***************************************************************************)
EXTENDS Naturals, Sequences, FiniteSets, SequencesExt

CONSTANTS
  Kinds,        \* connections to check, of AllKinds
  Frames,       \* frames the client may send
  MaxFrames,    \* bound of the instance on the frames sent
  MaxBuffered   \* MAX_BUFFERED_RECEIVE_MESSAGES_DURING_GENERATION

AllKinds == {"ws", "stream", "oneshot"}
\* a text frame completes n sentences and may leave an unfinished one
FrameTypes == [t : {"config", "bad", "done", "gone"}, n : {0}, rest : {FALSE}]
              \cup [t : {"text"}, n : Nat, rest : BOOLEAN]

ASSUME KindsAssumption == Kinds \subseteq AllKinds
ASSUME FramesAssumption == Frames \subseteq FrameTypes
ASSUME BoundsAssumption == MaxFrames \in Nat /\ MaxBuffered \in Nat

VARIABLES
  kind,
  sent,       \* frames the client has sent; the number is the frame's name
  socket,     \* names of frames not received yet
  buffered,   \* buffered_receive_messages
  gone,       \* the client has disconnected
  pc,         \* "config", "idle", "generate", "body", "teardown", "ended"
  rest,       \* self.buffer holds an unfinished sentence
  todo,       \* sentences of the frame in hand: <<frame, number>>
  closing,    \* input.done is being handled
  watch,      \* the disconnect watcher: "off", "on", "raised"
  engine,     \* state of each request in the order they were started
  active,     \* active_request_id, as an index of engine, or 0
  doneSent,   \* history: session.done was sent
  spoken,     \* history: the sentence of each request
  unstarted   \* history: a streamed response was dropped before its body began

vars == <<kind, sent, socket, buffered, gone, pc, rest, todo, closing, watch, engine,
          active, doneSent, spoken, unstarted>>

TypeOK ==
  /\ kind \in Kinds /\ sent \in Seq(Frames)
  /\ socket \in Seq(Nat) /\ buffered \in Seq(Nat) /\ Len(buffered) <= MaxBuffered
  /\ pc \in {"config", "idle", "generate", "body", "teardown", "ended"}
  /\ \A x \in {gone, rest, closing, doneSent, unstarted} : x \in BOOLEAN
  /\ todo \in Seq(Nat \X Nat) /\ spoken \in Seq(Nat \X Nat)
  /\ watch \in {"off", "on", "raised"}
  /\ engine \in Seq({"running", "finished", "failed", "aborted"})
  /\ active \in 0..Len(engine)

Init ==
  /\ kind \in Kinds /\ sent = <<>> /\ socket = <<>> /\ buffered = <<>>
  /\ pc = (IF kind = "ws" THEN "config" ELSE "idle")
  /\ todo = <<>> /\ watch = "off" /\ engine = <<>> /\ active = 0 /\ spoken = <<>>
  /\ gone = FALSE /\ rest = FALSE /\ closing = FALSE
  /\ doneSent = FALSE /\ unstarted = FALSE
-----------------------------------------------------------------------------
(* The client and the engine.                                              *)

ClientSends(f) ==
  /\ kind = "ws" /\ ~gone /\ Len(sent) < MaxFrames
  /\ sent' = Append(sent, f) /\ socket' = Append(socket, Len(sent) + 1)
  /\ gone' = (f.t = "gone")
  /\ UNCHANGED <<kind, buffered, pc, rest, todo, closing, watch, engine, active, doneSent,
                 spoken, unstarted>>

\* an HTTP client hangs up; is_disconnected answers True from now on
ClientLeaves ==
  /\ kind # "ws" /\ ~gone /\ gone' = TRUE
  /\ UNCHANGED <<kind, sent, socket, buffered, pc, rest, todo, closing, watch, engine,
                 active, doneSent, spoken, unstarted>>

EngineEnds(i, how) ==
  /\ engine[i] = "running" /\ engine' = [engine EXCEPT ![i] = how]
  /\ UNCHANGED <<kind, sent, socket, buffered, gone, pc, rest, todo, closing, watch,
                 active, doneSent, spoken, unstarted>>

\* Client.abort: without effect on a request that is not running
Aborted(i) ==
  [engine EXCEPT ![i] = IF @ = "running" THEN "aborted" ELSE @]

\* mutant: the owner's task is cancelled and the engine's request forgotten
AbortNothing == engine

\* _abort_request of the active request
AbortActive == IF active = 0 THEN engine ELSE Aborted(active)
-----------------------------------------------------------------------------
(* The WebSocket session.                                                  *)

Frame(x) == sent[x]

Sentences(x) == [k \in 1..Frame(x).n |-> <<x, k>>]

\* mutant: frames are read from the socket first
SocketFirst == IF socket # <<>> THEN socket ELSE buffered

\* _receive_text_frame takes what the watcher put aside first
Waiting == IF buffered # <<>> THEN buffered ELSE socket

Take ==
  /\ Waiting # <<>>
  /\ IF Waiting = buffered /\ buffered # <<>>
     THEN buffered' = Tail(buffered) /\ UNCHANGED socket
     ELSE socket' = Tail(socket) /\ UNCHANGED buffered

\* _receive_config
ReceiveConfig ==
  /\ kind = "ws" /\ pc = "config" /\ Take
  /\ pc' = IF Frame(Head(Waiting)).t = "config" THEN "idle" ELSE "teardown"
  /\ UNCHANGED <<kind, sent, gone, rest, todo, closing, watch, engine, active, doneSent,
                 spoken, unstarted>>

\* _message_loop takes a frame between two sentences
ReceiveFrame ==
  LET f == Frame(Head(Waiting)) IN
  /\ kind = "ws" /\ pc = "idle" /\ todo = <<>> /\ ~closing /\ Take
  /\ \/ /\ f.t = "text" /\ pc' = "idle"
        /\ todo' = Sentences(Head(Waiting))
        /\ rest' = IF f.n > 0 THEN f.rest ELSE rest \/ f.rest
        /\ UNCHANGED closing
     \/ /\ f.t = "text" /\ rest /\ pc' = "teardown"   \* the buffered text is too long
        /\ rest' = FALSE /\ UNCHANGED <<todo, closing>>
     \/ /\ f.t = "done" /\ pc' = "idle" /\ closing' = TRUE /\ rest' = FALSE
        /\ todo' = IF rest THEN <<<<Head(Waiting), 1>>>> ELSE <<>>
     \/ f.t \in {"bad", "config"} /\ UNCHANGED <<pc, todo, rest, closing>>
     \/ f.t = "gone" /\ pc' = "teardown" /\ UNCHANGED <<todo, rest, closing>>
  /\ UNCHANGED <<kind, sent, gone, watch, engine, active, doneSent, spoken, unstarted>>

\* the timeouts of the two receives
ReceiveTimesOut ==
  /\ kind = "ws" /\ pc \in {"config", "idle"} /\ todo = <<>> /\ ~closing
  /\ Waiting = <<>>
  /\ pc' = "teardown"
  /\ UNCHANGED <<kind, sent, socket, buffered, gone, rest, todo, closing, watch, engine,
                 active, doneSent, spoken, unstarted>>

\* session.done, after the last sentence
SendDone ==
  /\ pc = "idle" /\ closing /\ todo = <<>>
  /\ doneSent' = TRUE /\ pc' = "teardown"
  /\ UNCHANGED <<kind, sent, socket, buffered, gone, rest, todo, closing, watch, engine,
                 active, spoken, unstarted>>

\* _generate_sentence starts the request and the watcher
StartSentence ==
  /\ kind = "ws" /\ pc = "idle" /\ todo # <<>>
  /\ engine' = Append(engine, "running") /\ active' = Len(engine) + 1
  /\ spoken' = Append(spoken, Head(todo)) /\ todo' = Tail(todo)
  /\ watch' = "on" /\ pc' = "generate"
  /\ UNCHANGED <<kind, sent, socket, buffered, gone, rest, closing, doneSent, unstarted>>

\* mutant: the watcher puts the disconnection aside like any other frame
WatchBlind ==
  /\ watch = "on" /\ kind = "ws" /\ socket # <<>> /\ socket' = Tail(socket)
  /\ IF Len(buffered) >= MaxBuffered
     THEN watch' = "raised" /\ UNCHANGED buffered
     ELSE buffered' = Append(buffered, Head(socket)) /\ UNCHANGED watch
  /\ UNCHANGED <<kind, sent, gone, pc, rest, todo, closing, engine, active, doneSent,
                 spoken, unstarted>>

\* _watch_client_disconnect; a full buffer ends the session like a disconnect
Watch ==
  /\ watch = "on" /\ kind = "ws" /\ socket # <<>> /\ socket' = Tail(socket)
  /\ IF Frame(Head(socket)).t = "gone" \/ Len(buffered) >= MaxBuffered
     THEN watch' = "raised" /\ UNCHANGED buffered
     ELSE buffered' = Append(buffered, Head(socket)) /\ UNCHANGED watch
  /\ UNCHANGED <<kind, sent, gone, pc, rest, todo, closing, engine, active, doneSent,
                 spoken, unstarted>>

\* the generation ended first and the watcher saw nothing: audio.done and
\* the next sentence, also after an error, which aborts
SentenceEnds ==
  /\ kind = "ws" /\ pc = "generate" /\ watch = "on"
  /\ engine' = AbortActive
  /\ pc' = "idle" /\ watch' = "off" /\ active' = 0
  /\ UNCHANGED <<kind, sent, socket, buffered, gone, rest, todo, closing, doneSent, spoken,
                 unstarted>>

\* the watcher raised, an audio frame could not be sent, or the task was
\* cancelled: abort, and out of the message loop
SentenceInterrupted ==
  /\ kind = "ws" /\ pc = "generate"
  /\ engine' = AbortActive
  /\ pc' = "teardown" /\ watch' = "off" /\ active' = 0
  /\ UNCHANGED <<kind, sent, socket, buffered, gone, rest, todo, closing, doneSent, spoken,
                 unstarted>>

\* a send fails or the task is cancelled between two sentences
SessionInterrupted ==
  /\ kind = "ws" /\ pc \in {"config", "idle"} /\ pc' = "teardown"
  /\ UNCHANGED <<kind, sent, socket, buffered, gone, rest, todo, closing, watch, engine,
                 active, doneSent, spoken, unstarted>>

Teardown ==
  /\ pc = "teardown" /\ pc' = "ended"
  /\ engine' = AbortActive /\ active' = 0
  /\ UNCHANGED <<kind, sent, socket, buffered, gone, rest, todo, closing, watch, doneSent,
                 spoken, unstarted>>
-----------------------------------------------------------------------------
(* POST /v1/audio/speech.                                                  *)

StartRequest ==
  /\ kind # "ws" /\ pc = "idle"
  /\ engine' = <<"running">> /\ active' = 1 /\ watch' = "on" /\ pc' = "generate"
  /\ UNCHANGED <<kind, sent, socket, buffered, gone, rest, todo, closing, doneSent, spoken,
                 unstarted>>

\* _wait_for_request_disconnect polls
PollDisconnect ==
  /\ kind # "ws" /\ watch = "on" /\ gone /\ watch' = "raised"
  /\ UNCHANGED <<kind, sent, socket, buffered, gone, pc, rest, todo, closing, engine,
                 active, doneSent, spoken, unstarted>>

\* the whole audio is there, or no audio at all: an answer, success or error
Respond ==
  /\ kind # "ws" /\ pc = "generate" /\ engine[1] \in {"finished", "failed"}
  /\ kind = "stream" => watch = "on"
  /\ pc' = "ended" /\ watch' = "off" /\ active' = 0
  /\ UNCHANGED <<kind, sent, socket, buffered, gone, rest, todo, closing, engine, doneSent,
                 spoken, unstarted>>

\* the disconnection, the cancellation of the handler, or an exception
RequestInterrupted ==
  /\ kind # "ws" /\ pc = "generate"
  /\ engine' = AbortActive
  /\ pc' = "ended" /\ watch' = "off" /\ active' = 0
  /\ UNCHANGED <<kind, sent, socket, buffered, gone, rest, todo, closing, doneSent, spoken,
                 unstarted>>

\* the first chunk: the watcher is cancelled and StreamingResponse returned
FirstChunk ==
  /\ kind = "stream" /\ pc = "generate" /\ watch = "on" /\ engine[1] # "failed"
  /\ pc' = "body" /\ watch' = "off"
  /\ UNCHANGED <<kind, sent, socket, buffered, gone, rest, todo, closing, engine, active,
                 doneSent, spoken, unstarted>>

\* the client is gone before the body's iterator is started: its finally
\* block never runs
BodyNeverStarts ==
  /\ pc = "body" /\ gone
  /\ pc' = "ended" /\ active' = 0 /\ unstarted' = TRUE
  /\ UNCHANGED <<kind, sent, socket, buffered, gone, rest, todo, closing, watch, engine,
                 doneSent, spoken>>

\* _body's finally block: close, or abort and close
BodyEnds ==
  /\ pc = "body"
  /\ engine' = AbortActive
  /\ pc' = "ended" /\ active' = 0
  /\ UNCHANGED <<kind, sent, socket, buffered, gone, rest, todo, closing, watch, doneSent,
                 spoken, unstarted>>
-----------------------------------------------------------------------------
Owner ==
  \/ ReceiveConfig \/ ReceiveFrame \/ SendDone \/ StartSentence
  \/ Teardown \/ StartRequest \/ Respond \/ FirstChunk
  \/ active # 0 /\ engine[active] # "running" /\ (SentenceEnds \/ BodyEnds)
  \/ gone /\ BodyEnds
  \/ watch = "raised" /\ (SentenceInterrupted \/ RequestInterrupted)

\* a failed send, a cancelled task or an exception, at any time
Interrupted ==
  \/ SentenceEnds \/ SentenceInterrupted \/ RequestInterrupted \/ SessionInterrupted
  \/ BodyEnds

Next ==
  \/ Owner \/ Watch \/ PollDisconnect
  \/ ReceiveTimesOut \/ BodyNeverStarts \/ Interrupted \/ ClientLeaves
  \/ \E f \in Frames : ClientSends(f)
  \/ \E i \in 1..Len(engine), how \in {"finished", "failed"} : EngineEnds(i, how)

Spec == Init /\ [][Next]_vars

\* Runnable tasks run, the poll sees a disconnection; the engine may take for
\* ever.
FairSpec == Spec /\ WF_vars(Owner) /\ WF_vars(Watch) /\ WF_vars(PollDisconnect)
-----------------------------------------------------------------------------
(* Properties.                                                             *)

\* When its owner is gone nothing of a request runs on in the engine, and a
\* session has one request running at most.  Excepted is the streamed
\* response whose body never starts.
NoAbandonedRequest ==
  /\ pc = "ended" => \A i \in 1..Len(engine) : engine[i] # "running" \/ unstarted
  /\ \A i \in 1..Len(engine) : engine[i] = "running" => i = active \/ unstarted

\* text that no frame before x has completed
Unfinished(x) ==
  \E y \in 1..(x - 1) :
    /\ Frame(y).t = "text" /\ Frame(y).rest
    /\ \A z \in (y + 1)..(x - 1) : Frame(z).t = "text" => Frame(z).n = 0

\* the sentences that frame x completes
Completed(x) ==
  CASE Frame(x).t = "text" -> Sentences(x)
    [] Frame(x).t = "done" -> IF Unfinished(x) THEN <<<<x, 1>>>> ELSE <<>>
    [] OTHER -> <<>>

\* the sentences of the first k frames, in their order
Spoken(k) == FlattenSeq([x \in 1..k |-> Completed(x)])

\* A session speaks what it was sent in the order it was sent, whatever was
\* received during a generation and put aside; when it says session.done
\* nothing is missing.
SpokenInOrder ==
  kind = "ws" =>
    /\ IsPrefix(spoken, Spoken(Len(sent)))
    /\ doneSent => \E k \in 1..Len(sent) : Frame(k).t = "done" /\ spoken = Spoken(k)

\* An owner whose client disconnects ends, however long the engine takes.
OwnerEnds == gone ~> pc = "ended"
=============================================================================
