----------------------------- MODULE CodexSession -----------------------------
(***************************************************************************)
(* The websocket relay of the Codex adapter.                               *)
(*                                                                         *)
(* handleResponsesWebSocket dials the API, upgrades the provider's         *)
(* connection and starts two pipes.  A pipe reads a frame, lets a hook     *)
(* publish what it says, then writes it to the other side.  The first pipe *)
(* to return makes the handler cancel the hooks' context, close both       *)
(* connections and, unless the end was normal or a response has completed, *)
(* publish agent.error; then it waits for the other pipe.  All frames of a *)
(* connection have one RequestID and share one responseStreamState.        *)
(***************************************************************************)
EXTENDS Naturals, Sequences, FiniteSets, SequencesExt

CONSTANTS
    Conns,        \* connections, each with the RequestID it is given
    ServerScript, \* per connection: the frames the API may send, in order:
                  \* [type, text, calls (number of tool calls)]
    ClientScript, \* per connection: the frames the provider may send:
                  \* [results (number of tool results)]
    MaxFaults     \* bound: failing publications

Blank == 0        \* a text is a sequence of words, and Blank is white space

FrameTypes == {"text.delta", "text.done", "item", "completed", "other"}

ASSUME ScriptAssumption ==
    /\ \A c \in Conns :
         /\ Len(ServerScript[c]) \in Nat /\ Len(ClientScript[c]) \in Nat
         /\ \A i \in 1..Len(ServerScript[c]) :
              /\ ServerScript[c][i].type \in FrameTypes
              /\ ServerScript[c][i].text \in Seq(Nat)
              /\ ServerScript[c][i].calls \in Nat
         /\ \A i \in 1..Len(ClientScript[c]) : ClientScript[c][i].results \in Nat
    /\ MaxFaults \in Nat

VARIABLES
    main,       \* where handleResponsesWebSocket is
    pipe,       \* per direction: "off", "read", "hook" or "ended"
    todo,       \* per direction: events the hook has still to publish
    nread,      \* per direction: frames read
    sent,       \* per direction: frames written to the other side
    state,      \* wsStates: the text so far, and whether a response completed
    errCh,      \* the channel of the pipes' errors
    first,      \* the error that was received first
    cancelled,  \* the pipes' context is over
    closed,     \* both connections are closed
    log,        \* the events published, of all connections
    faults,     \* failing publications so far
    late        \* history: a flush was answered although the context was over

vars == <<main, pipe, todo, nread, sent, state, errCh, first, cancelled,
          closed, log, faults, late>>

-----------------------------------------------------------------------------
Dirs == {"client", "server"}    \* named for the side that is read

(* strings.TrimSpace                                                       *)
Trim(t) ==
    LET words == {i \in 1..Len(t) : t[i] # Blank}
    IN  IF words = {} THEN <<>> ELSE SubSeq(t, Min(words), Max(words))

Script(c, d) == IF d = "server" THEN ServerScript[c] ELSE ClientScript[c]

(* An event: the connection gives the RequestID, the frame its payload.    *)
Event(c, n, kind, text) == [conn |-> c, frame |-> n, kind |-> kind, text |-> text]

NoError == [from |-> "none", how |-> "none"]

(* isNormalClose                                                           *)
NormalClose(err) == err.how \in {"normal", "closed"}

-----------------------------------------------------------------------------
(* What a frame of the API says, summarizeResponseFrame.                   *)

(* Mutant: a delta replaces the text so far.                               *)
TextAfter_Replace(c, f) ==
    LET old == state[c].text
    IN  IF f.type = "text.delta" THEN f.text ELSE old

(* The text of the connection after frame f: deltas add to it, the others  *)
(* set it only if it is empty.                                             *)
TextAfter(c, f) ==
    LET old == state[c].text
    IN  CASE f.type = "text.delta" -> old \o f.text
          [] f.type = "text.done" /\ old = <<>> -> f.text
          [] f.type \in {"item", "completed"} /\ old = <<>> -> Trim(f.text)
          [] OTHER -> old

(* The assistant_text of the frame's event.                                *)
AssistantText(c, f) ==
    CASE f.type = "text.delta" -> f.text
      [] f.type = "text.done" -> Trim(TextAfter(c, f))
      [] f.type = "completed" /\ Trim(f.text) = <<>> -> Trim(state[c].text)
      [] OTHER -> Trim(f.text)

(* ResponseMessageEvents: llm.response, the tool calls, agent.done.        *)
ResponseMessageEvents(c, n) ==
    LET f == ServerScript[c][n]
    IN  <<Event(c, n, "llm.response", AssistantText(c, f))>>
          \o [i \in 1..f.calls |-> Event(c, n, "tool.call", <<>>)]
          \o (IF f.type = "completed"
                THEN <<Event(c, n, "agent.done", <<>>)>> ELSE <<>>)

RequestMessageEvents(c, n) ==
    <<Event(c, n, "llm.request", <<>>)>>
      \o [i \in 1..ClientScript[c][n].results |-> Event(c, n, "tool.result", <<>>)]

-----------------------------------------------------------------------------
Init ==
    /\ main = [c \in Conns |-> "none"]
    /\ pipe = [c \in Conns |-> [d \in Dirs |-> "off"]]
    /\ todo = [c \in Conns |-> [d \in Dirs |-> <<>>]]
    /\ nread = [c \in Conns |-> [d \in Dirs |-> 0]]
    /\ sent = [c \in Conns |-> [d \in Dirs |-> 0]]
    /\ state = [c \in Conns |-> [text |-> <<>>, completed |-> FALSE]]
    /\ errCh = [c \in Conns |-> <<>>]
    /\ first = [c \in Conns |-> NoError]
    /\ cancelled = [c \in Conns |-> FALSE]
    /\ closed = [c \in Conns |-> FALSE]
    /\ log = <<>>
    /\ faults = 0
    /\ late = {}

Goto(c, label) == main' = [main EXCEPT ![c] = label]

(* DialContext answers; the upgrade is to come.                            *)
Dial(c) ==
    /\ main[c] = "none"
    /\ Goto(c, "dialed")
    /\ UNCHANGED <<pipe, todo, nread, sent, state, errCh, first, cancelled,
                   closed, log, faults, late>>

(* Upgrade succeeds, and the two pipes are started.                        *)
Upgrade(c) ==
    /\ main[c] = "dialed"
    /\ Goto(c, "relay")
    /\ pipe' = [pipe EXCEPT ![c] = [d \in Dirs |-> "read"]]
    /\ UNCHANGED <<todo, nread, sent, state, errCh, first, cancelled, closed,
                   log, faults, late>>

(* Either of the two fails: emitWSError, whatever the error is, then the   *)
(* handler returns.                                                        *)
SetupFails(c) ==
    /\ main[c] \in {"none", "dialed"}
    /\ Goto(c, "report")
    /\ first' = [first EXCEPT ![c] = [from |-> "setup", how |-> "abnormal"]]
    /\ UNCHANGED <<pipe, todo, nread, sent, state, errCh, cancelled, closed,
                   log, faults, late>>

(* Mutant: the context outlives the first error.                           *)
FirstError_NoCancel(c) ==
    /\ main[c] = "relay"
    /\ errCh[c] # <<>>
    /\ first' = [first EXCEPT ![c] = Head(errCh[c])]
    /\ errCh' = [errCh EXCEPT ![c] = Tail(@)]
    /\ Goto(c, "close")
    /\ UNCHANGED <<pipe, todo, nread, sent, state, cancelled, closed, log,
                   faults, late>>

(* err = <-errCh; cancel()                                                 *)
FirstError(c) ==
    /\ main[c] = "relay"
    /\ errCh[c] # <<>>
    /\ first' = [first EXCEPT ![c] = Head(errCh[c])]
    /\ errCh' = [errCh EXCEPT ![c] = Tail(@)]
    /\ cancelled' = [cancelled EXCEPT ![c] = TRUE]
    /\ Goto(c, "close")
    /\ UNCHANGED <<pipe, todo, nread, sent, state, closed, log, faults, late>>

(* Mutant: the connections are left to the deferred calls.                 *)
CloseBoth_Deferred(c) ==
    /\ main[c] = "close"
    /\ Goto(c, IF NormalClose(first[c]) THEN "last" ELSE "report")
    /\ UNCHANGED <<pipe, todo, nread, sent, state, errCh, first, cancelled,
                   closed, log, faults, late>>

(* closeBoth, and the look at the error.                                   *)
CloseBoth(c) ==
    /\ main[c] = "close"
    /\ closed' = [closed EXCEPT ![c] = TRUE]
    /\ Goto(c, IF NormalClose(first[c]) THEN "last" ELSE "report")
    /\ UNCHANGED <<pipe, todo, nread, sent, state, errCh, first, cancelled,
                   log, faults, late>>

(* After the report: a relay waits for its other pipe.                     *)
Reported(c) == IF first[c].from = "setup" THEN "returned" ELSE "last"

(* Mutant: a response that has begun counts.                               *)
Completed_Begun(c) == state[c].text # <<>>

Completed(c) == state[c].completed

(* handleWSError asks whether a response has completed.                    *)
HandleWSError(c) ==
    /\ main[c] = "report"
    /\ Goto(c, IF Completed(c) THEN Reported(c) ELSE "emit")
    /\ UNCHANGED <<pipe, todo, nread, sent, state, errCh, first, cancelled,
                   closed, log, faults, late>>

(* js.Publish fails; without an answer the event may be out all the same.  *)
PublishFault(event) ==
    /\ faults < MaxFaults
    /\ faults' = faults + 1
    /\ log' \in {log, Append(log, event)}

(* ... and publishes agent.error, with the context of the request.         *)
PublishError(c) ==
    LET event == Event(c, 0, "agent.error", <<>>)
    IN  /\ main[c] = "emit"
        /\ \/ log' = Append(log, event) /\ UNCHANGED faults
           \/ PublishFault(event)
        /\ Goto(c, Reported(c))
        /\ UNCHANGED <<pipe, todo, nread, sent, state, errCh, first,
                       cancelled, closed, late>>

(* <-errCh                                                                 *)
LastError(c) ==
    /\ main[c] = "last"
    /\ errCh[c] # <<>>
    /\ errCh' = [errCh EXCEPT ![c] = Tail(@)]
    /\ Goto(c, "returned")
    /\ UNCHANGED <<pipe, todo, nread, sent, state, first, cancelled, closed,
                   log, faults, late>>

-----------------------------------------------------------------------------
(* pipeWebSocket.                                                          *)

(* ReadMessage returns a frame, also one that was buffered before the      *)
(* connection was closed; the hook notes what it says and makes events.    *)
ReadMessage(c, d) ==
    /\ pipe[c][d] = "read"
    /\ nread[c][d] < Len(Script(c, d))
    /\ nread' = [nread EXCEPT ![c][d] = @ + 1]
    /\ pipe' = [pipe EXCEPT ![c][d] = "hook"]
    /\ LET n == nread[c][d] + 1
           f == ServerScript[c][n] IN
         \/ /\ d = "server"
            /\ todo' = [todo EXCEPT ![c][d] = ResponseMessageEvents(c, n)]
            /\ state' = [state EXCEPT ![c] =
                           [text |-> TextAfter(c, f),
                            completed |-> @.completed \/ f.type = "completed"]]
         \/ /\ d = "client"
            /\ todo' = [todo EXCEPT ![c][d] = RequestMessageEvents(c, n)]
            /\ UNCHANGED state
    /\ UNCHANGED <<main, sent, errCh, first, cancelled, closed, log, faults, late>>

(* PublishMany, one event: js.Publish does not look at the context, the    *)
(* flush after it does.  When the context is over the flush fails, unless  *)
(* its answer is there already.  An error drops the events that are left.  *)
PublishMany(c, d) ==
    LET event == Head(todo[c][d])
        rest  == Tail(todo[c][d])
        Leave(events) == todo' = [todo EXCEPT ![c][d] = events]
    IN  /\ pipe[c][d] = "hook"
        /\ todo[c][d] # <<>>
        /\ \/ /\ ~cancelled[c]
              /\ log' = Append(log, event)
              /\ Leave(rest)
              /\ UNCHANGED <<faults, late>>
           \/ /\ cancelled[c]
              /\ log' = Append(log, event)
              /\ Leave(<<>>)
              /\ UNCHANGED <<faults, late>>
           \/ /\ cancelled[c]
              /\ log' = Append(log, event)
              /\ Leave(rest)
              /\ late' = late \cup {c}
              /\ UNCHANGED faults
           \/ /\ PublishFault(event)
              /\ Leave(<<>>)
              /\ UNCHANGED late
        /\ UNCHANGED <<main, pipe, nread, sent, state, errCh, first,
                       cancelled, closed>>

(* Mutant: the hook runs in a goroutine of its own.                        *)
WriteMessage_NoWait(c, d) ==
    /\ pipe[c][d] = "hook"
    /\ ~closed[c]
    /\ IF todo[c][d] = <<>>
         THEN /\ pipe' = [pipe EXCEPT ![c][d] = "read"]
              /\ sent' = [sent EXCEPT ![c][d] = nread[c][d]]
         ELSE /\ sent[c][d] < nread[c][d]
              /\ sent' = [sent EXCEPT ![c][d] = nread[c][d]]
              /\ UNCHANGED pipe
    /\ UNCHANGED <<main, todo, nread, state, errCh, first, cancelled, closed,
                   log, faults, late>>

(* The hook has returned: WriteMessage to the other side.                  *)
WriteMessage(c, d) ==
    /\ pipe[c][d] = "hook"
    /\ todo[c][d] = <<>>
    /\ ~closed[c]
    /\ sent' = [sent EXCEPT ![c][d] = @ + 1]
    /\ pipe' = [pipe EXCEPT ![c][d] = "read"]
    /\ UNCHANGED <<main, todo, nread, state, errCh, first, cancelled, closed,
                   log, faults, late>>

(* Mutant: a failing write is reported and the pipe reads on.              *)
PipeEnds_GoesOn(c, d, how) ==
    /\ errCh' = [errCh EXCEPT ![c] = Append(@, [from |-> d, how |-> how])]
    /\ pipe' = [pipe EXCEPT ![c][d] = IF @ = "hook" THEN "read" ELSE "ended"]
    /\ UNCHANGED <<main, todo, nread, sent, state, first, cancelled, closed,
                   log, faults, late>>

(* A pipe returns, and its goroutine sends the error.                      *)
PipeEnds(c, d, how) ==
    /\ errCh' = [errCh EXCEPT ![c] = Append(@, [from |-> d, how |-> how])]
    /\ pipe' = [pipe EXCEPT ![c][d] = "ended"]
    /\ UNCHANGED <<main, todo, nread, sent, state, first, cancelled, closed,
                   log, faults, late>>

(* The side that is read closes normally, or is lost.                      *)
PeerEnds(c, d, how) ==
    /\ pipe[c][d] = "read"
    /\ ~closed[c]
    /\ PipeEnds(c, d, how)

(* The side that is written to is lost, or has sent its close frame.       *)
WriteFails(c, d) ==
    /\ pipe[c][d] = "hook"
    /\ todo[c][d] = <<>>
    /\ ~closed[c]
    /\ PipeEnds(c, d, "abnormal")

(* The connections were closed under the pipe: "use of closed network      *)
(* connection".                                                            *)
ConnectionClosed(c, d) ==
    /\ closed[c]
    /\ pipe[c][d] = "read" \/ (pipe[c][d] = "hook" /\ todo[c][d] = <<>>)
    /\ PipeEnds(c, d, "closed")

-----------------------------------------------------------------------------
Handler(c) ==
    \/ FirstError(c)    \/ CloseBoth(c) \/ HandleWSError(c)
    \/ PublishError(c)  \/ LastError(c)

Pipe(c, d) == PublishMany(c, d) \/ WriteMessage(c, d) \/ ConnectionClosed(c, d)

Next ==
    \E c \in Conns :
        \/ Dial(c)
        \/ Upgrade(c)
        \/ SetupFails(c)
        \/ Handler(c)
        \/ \E d \in Dirs :
             \/ ReadMessage(c, d)
             \/ Pipe(c, d)
             \/ \E how \in {"normal", "abnormal"} : PeerEnds(c, d, how)
             \/ WriteFails(c, d)

Spec == Init /\ [][Next]_vars

(* The handler and the pipes go on when they can: a publication is         *)
(* answered or times out, a write returns, a closed connection fails what  *)
(* reads it.  Nothing obliges a peer to send, to close or to get lost.     *)
FairSpec ==
    /\ Spec
    /\ \A c \in Conns : WF_vars(Handler(c)) /\ \A d \in Dirs : WF_vars(Pipe(c, d))

-----------------------------------------------------------------------------
Published(c, kind) == \E n \in 1..Len(log) : log[n].conn = c /\ log[n].kind = kind

(* Types; the channel never holds more than it has room for, so no pipe    *)
(* ever blocks on it.                                                      *)
TypeOK ==
    /\ main \in [Conns -> {"none", "dialed", "relay", "close", "report",
                           "emit", "last", "returned"}]
    /\ pipe \in [Conns -> [Dirs -> {"off", "read", "hook", "ended"}]]
    /\ \A c \in Conns, d \in Dirs :
         /\ nread[c][d] \in 0..Len(Script(c, d))
         /\ sent[c][d] \in 0..nread[c][d]
         /\ Len(todo[c][d]) > 0 => pipe[c][d] = "hook"
    /\ \A c \in Conns :
         /\ Len(errCh[c]) + (IF first[c].from \in Dirs THEN 1 ELSE 0) <= 2
         /\ state[c].completed \in BOOLEAN
    /\ cancelled \in [Conns -> BOOLEAN]
    /\ closed \in [Conns -> BOOLEAN]
    /\ faults \in 0..MaxFaults
    /\ late \subseteq Conns

(* A connection is reported done or failed, not both: a response that      *)
(* completes silences the error before its agent.done is out, and once the *)
(* error is decided on, the context that agent.done needs is over          *)
(* (proxy.go: cancel before emitWSError; codex.go: handleWSError).  The    *)
(* exception is a flush whose answer arrives although its context is over. *)
DoneOrError ==
    \A c \in Conns \ late : ~(Published(c, "agent.done") /\ Published(c, "agent.error"))

(* No connection ends unaccounted for: its response was reported done or   *)
(* failed, or it was closed normally before a response completed, or the   *)
(* provider's side ended while the completed frame was being published.    *)
(* In that last case the agent.done is lost, and the error is suppressed.  *)
EndIsAccounted ==
    \A c \in Conns : main[c] = "returned" /\ faults = 0 =>
        \/ Published(c, "agent.done")
        \/ Published(c, "agent.error")
        \/ NormalClose(first[c]) /\ ~state[c].completed
        \/ state[c].completed /\ first[c].from = "client"

(* What the provider has received has been published: once it has the      *)
(* completed frame, and may exit, agent.done is on the bus, unless the bus *)
(* failed or the connection had ended (pipeWebSocket: hook, then write).   *)
SeenIsPublished ==
    \A c \in Conns : faults = 0 /\ ~cancelled[c] =>
        LET done == {i \in 1..sent[c]["server"] : ServerScript[c][i].type = "completed"}
        IN  Cardinality({n \in 1..Len(log) : log[n].conn = c /\ log[n].kind = "agent.done"})
              >= Cardinality(done)

(* The first response of a connection as the API means it: its deltas, or  *)
(* if these say nothing what the first frame with a text says.             *)
FirstCompleted(c) ==
    LET frames == {i \in 1..Len(ServerScript[c]) : ServerScript[c][i].type = "completed"}
    IN  IF frames = {} THEN 0 ELSE Min(frames)
DeltaOf(f) == IF f.type = "text.delta" THEN f.text ELSE <<>>
Deltas(c, n) == FlattenSeq([i \in 1..n |-> DeltaOf(ServerScript[c][i])])
Texts(c, n) == {i \in 1..n : /\ ServerScript[c][i].type # "other"
                             /\ Trim(ServerScript[c][i].text) # <<>>}
Whole(c) ==
    LET k == FirstCompleted(c)
    IN  CASE Deltas(c, k) # <<>> -> Trim(Deltas(c, k))
          [] Deltas(c, k) = <<>> /\ Texts(c, k) # {} ->
               Trim(ServerScript[c][Min(Texts(c, k))].text)
          [] OTHER -> <<>>

(* When the agent.done of a connection's first response is on the bus, so  *)
(* is the llm.response of the same frame, before it, with the whole text   *)
(* of the response: what LatestAssistantEvent is there to find, whatever   *)
(* publications failed (messages.go, PublishMany).  Later responses of the *)
(* connection have no such promise: the text is never reset.               *)
WholeTextBeforeDone ==
    \A n \in 1..Len(log) :
        LET c == log[n].conn IN
        log[n].kind = "agent.done" /\ log[n].frame = FirstCompleted(c) =>
            \E k \in 1..(n - 1) :
                log[k] = Event(c, log[n].frame, "llm.response", Whole(c))

(* When one pipe returns, so does the handler: closing both connections    *)
(* frees the other pipe, and no goroutine is left behind.                  *)
HandlerReturns ==
    \A c \in Conns, d \in Dirs : pipe[c][d] = "ended" ~> main[c] = "returned"
=============================================================================
