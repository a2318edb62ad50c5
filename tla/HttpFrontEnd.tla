----------------------------- MODULE HttpFrontEnd -----------------------------
(***************************************************************************)
(* The HTTP front end (har-serve/src/http.rs, and BuiltScheduler in        *)
(* server.rs) over ServeScheduler: one connection at a time, one scheduler *)
(* for all of them.  With --spec-type auto the first connection is the     *)
(* probe that calibration looks at before the second is accepted.          *)
(***************************************************************************)
EXTENDS ServeScheduler

CONSTANTS
    SpecTypes,       \* the values of --spec-type to start the server with
    MaxConnections   \* bound: connections accepted

ASSUME HttpAssumption == /\ SpecTypes \subseteq {"none", "draft", "auto"}
                         /\ MaxConnections \in Nat

VARIABLES
    policy,      \* "plain", "draft", "probe" (auto_pending), or "calibrated"
    drafted,     \* the telemetry of the model has seen a draft
    connection,  \* the request being served
    sent,        \* the tokens its events have carried
    answers      \* what the connections were answered, in their order
hvars == <<vars, policy, drafted, connection, sent, answers>>

Request == [prompt : Prompts, max_new : MaxNews, streaming : BOOLEAN]
NoRequest == [prompt |-> <<>>, max_new |-> 0, streaming |-> FALSE]
Serving == connection # NoRequest

(* kind is the policy it was served under, or how else the connection ended. *)
Answer(kind, tokens) == [kind |-> kind, request |-> connection, tokens |-> tokens]

HInit ==
    /\ Init
    /\ policy \in {CASE t = "none" -> "plain" [] t = "draft" -> "draft"
                     [] t = "auto" -> "probe" : t \in SpecTypes}
    /\ drafted = FALSE /\ connection = NoRequest
    /\ sent = <<>> /\ answers = <<>>

CalibrationDue == policy = "probe" /\ ~Serving /\ answers # <<>>
Accepts == ~Serving /\ ~CalibrationDue /\ Len(answers) < MaxConnections

(* No request to serve: an unreadable or malformed one, or no prompt in it. *)
Refuse ==
    /\ Accepts
    /\ answers' = Append(answers, Answer("refused", <<>>))
    /\ UNCHANGED <<vars, policy, drafted, connection, sent>>

Accept(r) ==
    /\ Accepts
    /\ Submit(r.prompt, r.max_new)
    /\ connection' = r
    /\ UNCHANGED <<policy, drafted, sent, answers>>

Horizon == IF policy = "plain" THEN 0 ELSE Block

(* stream_of finds admitted sequences only; the request is the last one.    *)
TokensSince(seqs, from) ==
    SubSeq(Last(seqs).stream, Len(connection.prompt) + from + 1, Len(Last(seqs).stream))

\* Variant: the loop ends when all the tokens asked for are there.
LoopEndsFull == Len(TokensSince(sequences', 0)) = connection.max_new
LoopEnds == report' = "Idle"

(* handle_streaming: one event per token the stream has grown by.           *)
Events(seqs) == TokensSince(seqs, Len(sent))

(***************************************************************************)
(* One turn of run_to_idle or of handle_streaming.  The step that reports  *)
(* Idle ends the loop: a stream is closed with what was sent, the other    *)
(* answer is what the sequence has generated.  A panic ends the server.    *)
(***************************************************************************)
ServeStep ==
    /\ Serving
    /\ StepUpTo(Horizon)
    /\ drafted' = (drafted \/ (Horizon > 0 /\ report' = "Decode"))
    /\ \/ /\ panicked' \/ ~LoopEnds
          /\ sent' = IF connection.streaming /\ ~panicked'
                     THEN sent \o Events(sequences') ELSE sent
          /\ UNCHANGED <<connection, answers>>
       \/ /\ ~panicked' /\ LoopEnds
          /\ answers' = Append(answers, Answer(policy,
                IF connection.streaming THEN sent ELSE TokensSince(sequences', 0)))
          /\ connection' = NoRequest /\ sent' = <<>>
    /\ UNCHANGED policy

\* Variant: the plain scheduler goes on with the states of the probe.
StartAgainWarm == sequences' = <<>> /\ UNCHANGED <<graph, cache, cacheBytes>>

StartAgain == /\ sequences' = <<>> /\ graph' = {<<>>} /\ cache' = <<>>
              /\ cacheBytes' = 0

(* The curve needs two positions with drafts; then it depends on whether    *)
(* any of them was accepted.                                                *)
CurveUsable == drafted /\ Block >= 2

(***************************************************************************)
(* calibrate_auto after the first connection, whatever became of it.       *)
(* Without a usable curve a new scheduler without speculation takes over.  *)
(***************************************************************************)
Calibrate ==
    /\ CalibrationDue
    /\ \/ /\ CurveUsable
          /\ policy' = "calibrated"
          /\ UNCHANGED vars
       \/ /\ policy' = "plain"
          /\ StartAgain
          /\ queue' = <<>> /\ stepIndex' = 0 /\ report' = "None"
          /\ UNCHANGED <<greedy, panicked>>
    /\ UNCHANGED <<drafted, connection, sent, answers>>

HNext == Refuse \/ (\E r \in Request : Accept(r)) \/ ServeStep \/ Calibrate

(* The loops around step and around incoming() do not wait for anything but *)
(* the next connection.                                                     *)
HSpec == HInit /\ [][HNext]_hvars /\ WF_hvars(ServeStep) /\ WF_hvars(Calibrate)

-----------------------------------------------------------------------------
(***************************************************************************)
(* "The token ids match the non-streaming response exactly": a completion  *)
(* served by the plain scheduler, streamed or not, is what the prompt      *)
(* gives alone and cold, whatever was served - or probed - before it.      *)
(***************************************************************************)
AnswersMatchSolo ==
    /\ \A i \in DOMAIN answers :
         LET a == answers[i] IN
         a.kind = "plain" =>
           a.request.prompt \o a.tokens = Solo(a.request.prompt, a.request.max_new)
    /\ policy = "plain" =>
         IsPrefix(connection.prompt \o sent,
                  Solo(connection.prompt, connection.max_new))

(* Every request that is accepted is answered, however its stream ends: no  *)
(* loop waits for a step that never reports Idle, and step panics under a   *)
(* policy with drafts only, for a prompt that ends at a node an earlier     *)
(* draft left without logits (README, section 5).                           *)
EndsAtDraft ==
    /\ policy # "plain"
    /\ connection.prompt \in DOMAIN cache
    /\ cache[connection.prompt].logits = NoLogits
ConnectionsAnswered ==
    /\ Serving ~> (~Serving \/ panicked)
    /\ [](panicked => EndsAtDraft)
=============================================================================
