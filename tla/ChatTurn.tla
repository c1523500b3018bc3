------------------------------ MODULE ChatTurn ------------------------------
(***************************************************************************)
(* POST /chat/conversations/:id/messages: Service.SendMessage, its tool-   *)
(* calling loop, and the SSE handler around it, for concurrent turns of    *)
(* one conversation that its owner may delete at any moment.               *)
(*                                                                         *)
(* The model is free: each call may stream text or not, then ask for any   *)
(* sequence of tools, known or unknown, with arguments that parse or not,  *)
(* in fragments that ToolCalls puts together; or fail.  What a message     *)
(* says is left out; it is known by its turn, role, iteration and call.    *)
(* References (system context only) and the title are left out too.        *)
(* The text deltas of one answer are one frame here, and so are the up to  *)
(* three progress frames of a search_jobs call.                            *)
(***************************************************************************)
EXTENDS Naturals, Sequences, ToolCalls

CONSTANTS Turns,
          MaxIterations, \* maxToolIterations (5 in the code)
          MaxCalls,      \* bound: tool calls in one answer of the model
          Intents,       \* bound: the calls the model may mean
          MaxFaults      \* bound: crashes, time-outs, disconnects, failed writes

ASSUME ChatBoundsAssumption ==
  /\ MaxIterations \in Nat \ {0} /\ MaxCalls \in 0 .. Len(Ids) /\ MaxFaults \in Nat
  /\ Intents \subseteq Call

VARIABLES exists,  \* the conversation is there
          stored,  \* its rows in messages, by created_at
          turn,    \* [Turns -> Turn]
          faults

vars == <<exists, stored, turn, faults>>

---------------------------------------------------------------------------
Message == [turn : Turns, role : {"user", "assistant", "tool"},
            iter : 0 .. MaxIterations, call : 0 .. MaxCalls]

\* A message of the context sent to the model; calls is how many tool calls an
\* assistant message carries.
Context == [msg : Message, calls : 0 .. MaxCalls]

\* "unknown_result" is the tool_result of a tool that does not exist,
\* "orphan_result" that of a call whose tool_call frame could not be sent, and
\* "handler_error" the error frame the HTTP handler adds.
Frame == [kind : {"text", "tool_call", "tool_progress", "tool_result", "unknown_result",
                  "orphan_result", "done", "error", "handler_error"},
          iter : 0 .. MaxIterations, call : 0 .. MaxCalls]

\* What the model may mean, with what StreamChat may make of it.
Answers ==
  LET intents == UNION {[1 .. n -> Intents] : n \in 0 .. MaxCalls} IN
  UNION {{[meant |-> Meant(calls), heard |-> Assemble(stream)] : stream \in Streams(calls)} :
         calls \in intents}

Points == {"idle", "check", "ask", "history", "model", "save", "tool", "execute", "save_tool",
           "finish", "failed", "over"}

\* iter: calls of the model so far, minus one; said: it streamed text; calls:
\* the tools it asked for, as received, and meant, as the model meant them;
\* call: the one being served; live: the context is not done; connected: the
\* writer has seen no error yet.
Turn == [at : Points, iter : 0 .. MaxIterations, said : BOOLEAN, calls : Seq(Part), meant : Seq(Part),
         call : 0 .. MaxCalls, context : Seq(Context), frames : Seq(Frame),
         live : BOOLEAN, connected : BOOLEAN]

NoTurn == [at |-> "idle", iter |-> 0, said |-> FALSE, calls |-> <<>>, meant |-> <<>>,
           call |-> 0, context |-> <<>>, frames |-> <<>>, live |-> TRUE, connected |-> TRUE]

TurnTypeOK ==
  /\ exists \in BOOLEAN
  /\ stored \in Seq(Message)
  /\ turn \in [Turns -> Turn]
  /\ faults \in 0 .. MaxFaults

Init ==
  /\ exists = TRUE
  /\ stored = <<>>
  /\ turn = [t \in Turns |-> NoTurn]
  /\ faults = 0

Fault == faults < MaxFaults /\ faults' = faults + 1
NoFault == UNCHANGED faults

At(t, point) == turn[t].at = point
Become(t, new) == turn' = [turn EXCEPT ![t] = new]
Moved(st, point) == [st EXCEPT !.at = point]

\* The handler returns; nothing of the turn is left but what was sent.
Ended(st) == [NoTurn EXCEPT !.at = "over", !.frames = st.frames, !.connected = st.connected]

\* emit: a failed write cancels the context, and nothing else happens.
Emitted(st, kind) ==
  IF st.connected
    THEN [st EXCEPT !.frames = Append(@, [kind |-> kind, iter |-> st.iter, call |-> st.call])]
    ELSE [st EXCEPT !.live = FALSE]

Row(t, role) == [turn |-> t, role |-> role, iter |-> turn[t].iter,
                 call |-> IF role = "tool" THEN turn[t].call ELSE 0]
Noted(st, m, n) == [st EXCEPT !.context = Append(@, [msg |-> m, calls |-> n])]

\* AddMessage inside the loop: its error is ignored.  The foreign key refuses
\* a row of a deleted conversation, a done context any statement.
MutSaveUserOnly(t, role) == UNCHANGED <<stored, faults>>
Save(t, role) ==
  \/ /\ exists /\ turn[t].live
     /\ stored' = Append(stored, Row(t, role))
     /\ NoFault
  \/ ~ (exists /\ turn[t].live) /\ UNCHANGED stored /\ NoFault
  \/ UNCHANGED stored /\ Fault

---------------------------------------------------------------------------
(***************************************************************************)
(* The handler's ownership check, then SendMessage up to the loop.  A      *)
(* setup error goes to the handler without a frame.                        *)
(***************************************************************************)
Open(t) ==
  /\ At(t, "idle")
  /\ exists
  /\ Become(t, Moved(turn[t], "check"))
  /\ UNCHANGED <<exists, stored, faults>>

Check(t) ==
  /\ At(t, "check")
  /\ \/ exists /\ turn[t].live /\ Become(t, Moved(turn[t], "ask")) /\ NoFault
     \/ ~ (exists /\ turn[t].live) /\ Become(t, Moved(turn[t], "failed")) /\ NoFault
     \/ Become(t, Moved(turn[t], "failed")) /\ Fault
  /\ UNCHANGED <<exists, stored>>

Ask(t) ==
  /\ At(t, "ask")
  /\ \/ /\ exists /\ turn[t].live
        /\ stored' = Append(stored, Row(t, "user"))
        /\ Become(t, Moved(turn[t], "history"))
        /\ NoFault
     \/ /\ ~ (exists /\ turn[t].live)
        /\ Become(t, Moved(turn[t], "failed"))
        /\ UNCHANGED <<stored, faults>>
     \/ Become(t, Moved(turn[t], "failed")) /\ UNCHANGED stored /\ Fault
  /\ UNCHANGED exists

\* buildHistory: user and assistant rows; tool rows are skipped.
MutLastReplayed == IF stored = <<>> THEN <<>> ELSE <<stored[Len(stored)]>>
Replayed == Only(stored, {m \in Message : m.role \in {"user", "assistant"}})

History(t) ==
  LET replay == [i \in 1 .. Len(Replayed) |-> [msg |-> Replayed[i], calls |-> 0]] IN
  /\ At(t, "history")
  /\ \/ turn[t].live /\ Become(t, [turn[t] EXCEPT !.at = "model", !.context = replay]) /\ NoFault
     \/ ~ turn[t].live /\ Become(t, Moved(turn[t], "failed")) /\ NoFault
     \/ Become(t, Moved(turn[t], "failed")) /\ Fault
  /\ UNCHANGED <<exists, stored>>

---------------------------------------------------------------------------
(***************************************************************************)
(* StreamChat.                                                             *)
(***************************************************************************)
StreamText(t) ==
  /\ At(t, "model") /\ turn[t].live /\ ~ turn[t].said
  /\ Become(t, [Emitted(turn[t], "text") EXCEPT !.said = TRUE])
  /\ UNCHANGED <<exists, stored, faults>>

Answer(t, answer) ==
  LET noted == Noted(turn[t], Row(t, "assistant"), Len(answer.heard)) IN
  /\ At(t, "model") /\ turn[t].live
  /\ Become(t, [noted EXCEPT !.at = "save", !.meant = answer.meant,
                             !.calls = answer.heard, !.call = 0])
  /\ UNCHANGED <<exists, stored, faults>>

ModelFails(t) ==
  /\ At(t, "model")
  /\ Become(t, Moved(Emitted(turn[t], "error"), "failed"))
  /\ UNCHANGED <<exists, stored, faults>>

\* The assistant's text is stored if there is any; then the tools it asked
\* for, or, if none, the end of the turn.
SaveText(t) ==
  /\ At(t, "save")
  /\ IF turn[t].said THEN Save(t, "assistant") ELSE UNCHANGED <<stored, faults>>
  /\ Become(t, IF turn[t].calls = <<>> THEN Moved(turn[t], "finish")
               ELSE [turn[t] EXCEPT !.at = "tool", !.call = 1])
  /\ UNCHANGED exists

\* Touch, whose error is ignored, and the done frame.
MutFinishWhenLive(t) ==
  /\ At(t, "finish") /\ turn[t].live
  /\ Become(t, Ended(Emitted(turn[t], "done")))
  /\ UNCHANGED <<exists, stored, faults>>
Finish(t) ==
  /\ At(t, "finish")
  /\ Become(t, Ended(Emitted(turn[t], "done")))
  /\ UNCHANGED <<exists, stored, faults>>

---------------------------------------------------------------------------
(***************************************************************************)
(* The tools of one answer, in order.                                      *)
(***************************************************************************)
\* The next call, the next iteration, or the end of the iteration budget.
MutNoLimit(st) ==
  IF st.call < Len(st.calls) THEN [st EXCEPT !.at = "tool", !.call = @ + 1]
  ELSE [st EXCEPT !.at = "model", !.iter = @ + 1, !.said = FALSE, !.call = 0,
                  !.calls = <<>>, !.meant = <<>>]
MutFirstOnly(st) ==
  IF st.iter + 1 < MaxIterations
    THEN [st EXCEPT !.at = "model", !.iter = @ + 1, !.said = FALSE, !.call = 0,
                  !.calls = <<>>, !.meant = <<>>]
  ELSE Moved(Emitted(st, "error"), "failed")
Advanced(st) ==
  IF st.call < Len(st.calls) THEN [st EXCEPT !.at = "tool", !.call = @ + 1]
  ELSE IF st.iter + 1 < MaxIterations
    THEN [st EXCEPT !.at = "model", !.iter = @ + 1, !.said = FALSE, !.call = 0,
                  !.calls = <<>>, !.meant = <<>>]
  ELSE Moved(Emitted(st, "error"), "failed")

Asked(t) == turn[t].calls[turn[t].call]

\* emit drops a frame that json.Marshal refuses: a tool_call whose raw
\* arguments do not parse.
CallTold(t) == IF Parses(Asked(t).args) THEN Emitted(turn[t], "tool_call") ELSE turn[t]

CallTool(t) ==
  /\ At(t, "tool") /\ Asked(t).name = "known"
  /\ Become(t, Moved(CallTold(t), "execute"))
  /\ UNCHANGED <<exists, stored, faults>>

\* An unknown tool is answered in the stream and in the context; no row.
UnknownTool(t) ==
  /\ At(t, "tool") /\ Asked(t).name = "unknown"
  /\ Become(t, Advanced(Noted(Emitted(CallTold(t), "unknown_result"), Row(t, "tool"), 0)))
  /\ UNCHANGED <<exists, stored, faults>>

\* search_jobs relays the pipeline's progress, once it has parsed its arguments.
Progress(t) ==
  /\ At(t, "execute") /\ turn[t].live /\ Parses(Asked(t).args)
  /\ turn[t].frames # <<>> /\ turn[t].frames[Len(turn[t].frames)].kind = "tool_call"
  /\ Become(t, Emitted(turn[t], "tool_progress"))
  /\ UNCHANGED <<exists, stored, faults>>

\* Execute returns an outcome or an error: both are told to the client and to
\* the model, and both are stored -- unless the arguments are not the JSON that
\* messages.tool_args takes, whose INSERT fails unheard.
MutNoResultFrame(t) ==
  /\ At(t, "execute")
  /\ Become(t, Moved(Noted(turn[t], Row(t, "tool"), 0), "save_tool"))
  /\ UNCHANGED <<exists, stored, faults>>
RunTool(t) ==
  /\ At(t, "execute")
  /\ LET result == IF Parses(Asked(t).args) THEN "tool_result" ELSE "orphan_result" IN
     Become(t, Moved(Noted(Emitted(turn[t], result), Row(t, "tool"), 0), "save_tool"))
  /\ UNCHANGED <<exists, stored, faults>>

SaveTool(t) ==
  /\ At(t, "save_tool")
  /\ IF Parses(Asked(t).args) THEN Save(t, "tool") ELSE UNCHANGED <<stored, faults>>
  /\ Become(t, Advanced(turn[t]))
  /\ UNCHANGED exists

---------------------------------------------------------------------------
\* SendMessage returned an error: the handler writes an error frame, always.
HandlerError(t) ==
  /\ At(t, "failed")
  /\ Become(t, Ended(Emitted(turn[t], "handler_error")))
  /\ UNCHANGED <<exists, stored, faults>>

Active(t) == turn[t].at \notin {"idle", "over"}

\* The client is gone.  A failing Flush is ignored by emit but sticks to the
\* writer: this step is that moment, and only the next write cancels.
Disconnect(t) ==
  /\ Active(t) /\ turn[t].connected /\ Fault
  /\ Become(t, [turn[t] EXCEPT !.connected = FALSE])
  /\ UNCHANGED <<exists, stored>>

\* The five minutes are over.
Timeout(t) ==
  /\ Active(t) /\ turn[t].live /\ Fault
  /\ Become(t, [turn[t] EXCEPT !.live = FALSE])
  /\ UNCHANGED <<exists, stored>>

\* The API process dies.
Crash(t) ==
  /\ Active(t) /\ Fault
  /\ Become(t, Ended([turn[t] EXCEPT !.connected = FALSE]))
  /\ UNCHANGED <<exists, stored>>

\* DELETE /chat/conversations/:id; the messages go with it.
DeleteConversation ==
  /\ exists
  /\ exists' = FALSE
  /\ stored' = <<>>
  /\ UNCHANGED <<turn, faults>>

---------------------------------------------------------------------------
TurnStep(t) ==
  \/ Check(t) \/ Ask(t) \/ History(t)
  \/ StreamText(t) \/ ModelFails(t) \/ SaveText(t)
  \/ \E answer \in Answers : Answer(t, answer)
  \/ CallTool(t) \/ UnknownTool(t) \/ Progress(t) \/ RunTool(t) \/ SaveTool(t)
  \/ Finish(t) \/ HandlerError(t)

Next ==
  \/ \E t \in Turns : Open(t) \/ TurnStep(t) \/ Disconnect(t) \/ Timeout(t) \/ Crash(t)
  \/ DeleteConversation

\* A live handler keeps moving: every remote call ends with the context's five
\* minutes.  The write of a frame has no deadline of its own (no WriteTimeout,
\* routes.go:72-78): that it ends is an assumption about the client, which reads
\* on or breaks its connection.
Spec == Init /\ [][Next]_vars /\ \A t \in Turns : WF_vars(TurnStep(t))

---------------------------------------------------------------------------
(***************************************************************************)
(* Safety.                                                                 *)
(***************************************************************************)
\* What the model is sent is a conversation its API accepts: each assistant
\* message that asks for tools is followed by one tool message per call, in
\* order, and there are no other tool messages.  (buildHistory,
\* service.go:254-256, and every branch of the tool loop.)
ContextWellFormed ==
  \A t \in Turns : At(t, "model") =>
    LET cx == turn[t].context IN
    /\ \A i \in 1 .. Len(cx) : \A k \in 1 .. cx[i].calls :
         i + k <= Len(cx) /\ cx[i + k].msg = [cx[i].msg EXCEPT !.role = "tool", !.call = k]
    /\ \A i \in 1 .. Len(cx) : cx[i].msg.role = "tool" =>
         \E h \in 1 .. i - 1 : i - h <= cx[h].calls

\* The model is asked the question of this turn, even when other turns of the
\* conversation write at the same time, unless the conversation is deleted.
QuestionAsked ==
  \A t \in Turns : At(t, "model") /\ exists =>
    \E i \in 1 .. Len(turn[t].context) :
      turn[t].context[i].msg.turn = t /\ turn[t].context[i].msg.role = "user"

\* The tools that run are the calls the model meant, in its order and with
\* their own arguments, however their fragments were split and interleaved
\* (StreamChat, ai/chat.go:61-118); only nameless calls are dropped.
CallsAsMeant == \A t \in Turns : turn[t].calls = turn[t].meant

\* The grammar a chat client has to parse: a tool call has its result before
\* anything else is said, a result without a call is one whose arguments did
\* not parse, and a turn ends in done or in error.  When the model's stream fails
\* or the tool iterations run out there are two error frames, SendMessage's and
\* the handler's, which is more than the handler's comment says: see
\* HandlerErrorIsFirst.
Said == {"text", "tool_call", "orphan_result", "unknown_result", "done", "error"}
Follows == [text |-> Said \ {"text"},
            tool_call |-> {"tool_progress", "tool_result", "unknown_result"},
            tool_progress |-> {"tool_result"},
            tool_result |-> Said, unknown_result |-> Said, orphan_result |-> Said,
            done |-> {}, error |-> {"handler_error"}, handler_error |-> {}]
FramesInOrder ==
  \A t \in Turns :
    LET f == turn[t].frames IN
    /\ \A i \in 1 .. Len(f) - 1 : f[i + 1].kind \in Follows[f[i].kind]
    /\ At(t, "over") /\ turn[t].connected
         => f # <<>> /\ f[Len(f)].kind \in {"done", "handler_error"}

\* The claim of the handler's comment, "SendMessage already emits an error event
\* for stream failures; this covers setup errors (e.g. context loading) before
\* any frame" (handlers/chat.go:177-178): its error frame is the turn's first.
HandlerErrorIsFirst ==
  \A t \in Turns : \A i \in 1 .. Len(turn[t].frames) :
    turn[t].frames[i].kind = "handler_error" => i = 1

\* Reloading the conversation shows what was streamed: while nothing failed,
\* a turn's stored answer and tool rows are those its client saw, in that
\* order, whatever other turns stored in between.  Unknown tools and calls
\* whose arguments do not parse leave no row.
Streamed(t) ==
  LET shown == Only(turn[t].frames, {f \in Frame : f.kind \in {"text", "tool_result"}})
  IN [i \in 1 .. Len(shown) |->
        [turn |-> t, role |-> IF shown[i].kind = "text" THEN "assistant" ELSE "tool",
         iter |-> shown[i].iter, call |-> shown[i].call]]
Kept(t) == Only(stored, {m \in Message : m.turn = t /\ m.role # "user"})
ReloadShowsStream ==
  faults = 0 /\ exists => \A t \in Turns :
    At(t, "over") /\ turn[t].frames[Len(turn[t].frames)].kind = "done" => Kept(t) = Streamed(t)

---------------------------------------------------------------------------
\* Every turn that was opened is answered and ends.
TurnsEnd == \A t \in Turns : At(t, "check") ~> At(t, "over")
=============================================================================
