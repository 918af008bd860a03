------------------------------ MODULE WebBridge ------------------------------
(***************************************************************************)
(* cmd/owonweb and pkg/owonweb: an HTTP server whose handlers turn requests *)
(* of browsers into calls of the daemon, and subscriptions of the daemon   *)
(* into event streams; and how the process stops: it cancels the requests, *)
(* drains for a while, closes what is left by force, joins the serve loop  *)
(* and the handlers, and closes the client of the daemon after them.       *)
(*                                                                         *)
(* A browser opens one connection and sends one request. It may stall,     *)
(* which means that it neither sends nor reads any more, and it may leave. *)
(* A write that the buffer of a stalled browser takes is one made before   *)
(* it stalled, and a stall that ends is a slow write.                      *)
(* The daemon answers what it likes, or never. net/http is external: Serve *)
(* registers a connection and only then accepts the next one; Shutdown and *)
(* Close wait for Serve to return before they look at the connections.     *)
(***************************************************************************)
CONSTANTS
  Browsers,    \* the browsers, and their connections
  Requests,    \* what there is to ask: [path, sameOrigin, rightMethod, valid]
  Asks,        \* what each browser may ask
  NoRequest    \* no request yet

ASSUME WebAssumption ==
  /\ Requests \subseteq [path : {"static", "events", "patch", "read"},
                         sameOrigin : BOOLEAN, rightMethod : BOOLEAN, valid : BOOLEAN]
  /\ NoRequest \notin Requests
  /\ Asks \in [Browsers -> SUBSET Requests]

VARIABLES
  server,     \* where serveHTTP and runServer are
  serve,      \* the loop of http.Server.Serve
  cancelled,  \* the context of the requests has ended
  conn,       \* the state of each connection
  tracked,    \* the connections that net/http would close
  active,     \* httpConnections.active
  open,       \* the connections whose socket is open
  request,    \* what each connection asks
  stage,      \* where its handler is
  deadline,   \* the connections with a deadline for their writes
  noticed,    \* the connections whose end net/http has noticed
  failure,    \* everything that went wrong for each handler, a history
  told,       \* the causes of the terminal frame that its browser was sent
  logged,     \* the causes of the error that it returned, which ServeHTTP logs
  peer        \* what each browser does

connVars == <<conn, tracked, active, open>>
handlerVars == <<request, stage, deadline, failure, told, logged>>
mainVars == <<server, serve, cancelled>>
vars == <<mainVars, connVars, handlerVars, noticed, peer>>

Writing == {"reply", "head", "send", "last", "page"}
Waiting == {"call", "subscribe", "receive"}
Handling == Writing \cup Waiting \cup {"route", "body", "report"}
Stages == Handling \cup {"none", "parsed", "flush", "done"}
Stopping == {"stopping", "draining", "forcing", "joining", "waiting"}

\* The leaves of an error: the end of a stream, the status or the error Canceled,
\* anything else that the daemon may answer with, and a write that failed.
Causes == {"EOF", "Canceled", "other", "delivery"}
DaemonErrors == {{"EOF"}, {"Canceled"}, {"other"}, {"Canceled", "other"}}

Types ==
  /\ server \in {"serving", "returned", "released"} \cup Stopping
  /\ serve \in {"accepting", "registering", "ended", "failed"}
  /\ cancelled \in BOOLEAN
  /\ conn \in [Browsers -> {"none", "accepted", "new", "active", "idle", "closed"}]
  /\ tracked \subseteq Browsers /\ active \subseteq Browsers /\ open \subseteq Browsers
  /\ request \in [Browsers -> Requests \cup {NoRequest}]
  /\ stage \in [Browsers -> Stages]
  /\ deadline \subseteq Browsers /\ noticed \subseteq Browsers
  /\ failure \in [Browsers -> SUBSET Causes]
  /\ told \in [Browsers -> SUBSET Causes] /\ logged \in [Browsers -> SUBSET Causes]
  /\ peer \in [Browsers -> {"responsive", "stalled", "gone"}]

Init ==
  /\ server = "serving" /\ serve = "accepting" /\ cancelled = FALSE
  /\ conn = [c \in Browsers |-> "none"]
  /\ tracked = {} /\ active = {} /\ open = {}
  /\ request = [c \in Browsers |-> NoRequest]
  /\ stage = [c \in Browsers |-> "none"]
  /\ deadline = {} /\ noticed = {}
  /\ failure = [c \in Browsers |-> {}]
  /\ told = [c \in Browsers |-> {}] /\ logged = [c \in Browsers |-> {}]
  /\ peer = [c \in Browsers |-> "responsive"]

-----------------------------------------------------------------------------
(* The browsers, of which nothing is expected. Before its request is read, one  *)
(* that stalls or leaves is one whose request does not come.                  *)

Stall(c) ==
  /\ conn[c] = "active" /\ peer[c] = "responsive"
  /\ peer' = [peer EXCEPT ![c] = "stalled"]
  /\ UNCHANGED <<mainVars, connVars, handlerVars, noticed>>

Leave(c) ==
  /\ conn[c] = "active" /\ peer[c] # "gone"
  /\ peer' = [peer EXCEPT ![c] = "gone"]
  /\ UNCHANGED <<mainVars, connVars, handlerVars, noticed>>

-----------------------------------------------------------------------------
(* httpServeRunner: the loop of Serve, and the hook httpConnections.changed.  *)

Accept(c) ==
  /\ serve = "accepting" /\ server \in {"serving", "stopping"}
  /\ conn[c] = "none"
  /\ conn' = [conn EXCEPT ![c] = "accepted"] /\ open' = open \cup {c}
  /\ serve' = "registering"
  /\ UNCHANGED <<server, cancelled, tracked, active, handlerVars, noticed, peer>>

\* Mutant: a connection counts from its first request on.
ChangedActive(c, state) ==
  active' = CASE state = "active" -> active \cup {c}
              [] state = "closed" -> active \ {c}
              [] OTHER -> active

Changed(c, state) ==
  active' = CASE state = "new" -> active \cup {c}
              [] state = "closed" -> active \ {c}
              [] OTHER -> active

\* http.conn.setState, with its hook.
SetState(c, state) ==
  /\ conn' = [conn EXCEPT ![c] = state]
  /\ Changed(c, state)
  /\ tracked' = CASE state = "new" -> tracked \cup {c}
                  [] state = "closed" -> tracked \ {c}
                  [] OTHER -> tracked

Register(c) ==
  /\ serve = "registering" /\ conn[c] = "accepted"
  /\ SetState(c, "new")
  /\ serve' = "accepting"
  /\ UNCHANGED <<server, cancelled, open, handlerVars, noticed, peer>>

\* The listener was closed, or fails.
ServeEnds ==
  /\ serve = "accepting"
  /\ serve' = IF server \in {"serving", "stopping"} THEN "failed" ELSE "ended"
  /\ UNCHANGED <<server, cancelled, connVars, handlerVars, noticed, peer>>

\* The connection's goroutine ends: no request in time, or none any more.
HangUp(c) ==
  /\ \/ conn[c] = "new" /\ stage[c] = "none"
     \/ conn[c] = "idle"
  /\ SetState(c, "closed") /\ open' = open \ {c}
  /\ UNCHANGED <<mainVars, handlerVars, noticed, peer>>

\* A request whose header was read becomes active, whatever happened to its socket.
ReadRequest(c, r) ==
  /\ conn[c] = "new" /\ stage[c] = "none"
  /\ c \in open /\ peer[c] = "responsive"
  /\ request' = [request EXCEPT ![c] = r]
  /\ stage' = [stage EXCEPT ![c] = "parsed"]
  /\ UNCHANGED <<mainVars, connVars, deadline, failure, told, logged,
                 noticed, peer>>

Activate(c) ==
  /\ stage[c] = "parsed"
  /\ SetState(c, "active")
  /\ stage' = [stage EXCEPT ![c] = "route"]
  /\ UNCHANGED <<mainVars, open, request, deadline, failure, told, logged,
                 noticed, peer>>

\* The background read of net/http ends the context of the request.
NoticeEnd(c) ==
  /\ stage[c] \in Handling \ {"body"} /\ (c \notin open \/ peer[c] = "gone")
  /\ c \notin noticed
  /\ noticed' = noticed \cup {c}
  /\ UNCHANGED <<mainVars, connVars, handlerVars, peer>>

\* request.Context().Err() # nil. It is Canceled then: the context has no deadline.
Ended(c) == cancelled \/ c \in noticed

-----------------------------------------------------------------------------
(* Writes. A write ends: the browser reads, it is gone, or the deadline hits. *)

Written(c) == c \in open /\ peer[c] = "responsive"
Unwritten(c) ==
  \/ c \notin open \/ peer[c] = "gone"
  \/ c \in deadline /\ peer[c] = "stalled"

Go(c, from, to) == stage[c] = from /\ stage' = [stage EXCEPT ![c] = to]

\* The stages that begin with setWriteDeadline, and the end of a handler.
Enter(c, from, to) ==
  /\ Go(c, from, to)
  /\ deadline' = IF to \in Writing \ {"page"} THEN deadline \cup {c} ELSE deadline

\* ServeHTTP logs the error that the handler returns, whatever went wrong before.
Return(c, from, causes) ==
  /\ Go(c, from, "flush")
  /\ logged' = [logged EXCEPT ![c] = causes]

GoesWrong(c, causes) == failure' = [failure EXCEPT ![c] = @ \cup causes]

othersOfWrite == <<mainVars, connVars, request, noticed, peer>>

-----------------------------------------------------------------------------
(* httpHandler.serve. A method that is not allowed ends like another origin.   *)

Rejected(r) == r.path # "static" /\ ~(r.sameOrigin /\ r.rightMethod)

Route(c) ==
  LET r == request[c] IN
  /\ stage[c] = "route"
  /\ CASE Rejected(r) -> Enter(c, "route", "reply")
       [] r.path = "static" -> Enter(c, "route", "page")
       [] r.path = "events" /\ ~Rejected(r) ->
            Enter(c, "route", IF r.valid THEN "head" ELSE "reply")
       [] r.path = "patch" /\ ~Rejected(r) -> Enter(c, "route", "body")
       [] OTHER -> Enter(c, "route", "call")
  /\ UNCHANGED <<failure, told, logged, othersOfWrite>>

\* decodeProtoBody: a body that does not come in time is an error like one that
\* does not decode.
DecodeBody(c) ==
  /\ \/ Enter(c, "body", "call") /\ Written(c) /\ request[c].valid
     \/ Enter(c, "body", "reply")
  /\ UNCHANGED <<failure, told, logged, othersOfWrite>>

\* The daemon answers, or apiTimeout or the end of the request ends the call.
Call(c) ==
  /\ Enter(c, "call", "reply")
  /\ UNCHANGED <<failure, told, logged, othersOfWrite>>

\* A write fails, and the handler returns the given error.
WriteFails(c, from, causes) ==
  /\ Unwritten(c) /\ Return(c, from, causes)
  /\ GoesWrong(c, {"delivery"})

\* writeJSON: a short answer stays in the buffer until the handler has returned.
Reply(c) ==
  /\ \/ c \in open /\ Return(c, "reply", {}) /\ UNCHANGED failure
     \/ WriteFails(c, "reply", {"delivery"})
  /\ UNCHANGED <<deadline, told, othersOfWrite>>

\* A static page is written without a deadline, and its writer keeps the error of
\* a write to itself.
Page(c) ==
  /\ Written(c) \/ Unwritten(c)
  /\ Return(c, "page", {})
  /\ UNCHANGED <<deadline, failure, told, othersOfWrite>>

\* net/http sends what is buffered, and keeps the connection if it may. What was
\* recorded of the handler and its browser goes with it.
Finish(c) ==
  /\ stage[c] = "flush"
  /\ \/ /\ Written(c) /\ server \in {"serving", "stopping"}
        /\ SetState(c, "idle") /\ UNCHANGED open
     \/ /\ Written(c) \/ Unwritten(c)
        /\ SetState(c, "closed") /\ open' = open \ {c}
  /\ stage' = [stage EXCEPT ![c] = "done"]
  /\ failure' = [failure EXCEPT ![c] = {}]
  /\ told' = [told EXCEPT ![c] = {}] /\ logged' = [logged EXCEPT ![c] = {}]
  /\ deadline' = deadline \ {c} /\ noticed' = noticed \ {c}
  /\ request' = [request EXCEPT ![c] = NoRequest]
  /\ peer' = [peer EXCEPT ![c] = "responsive"]
  /\ UNCHANGED mainVars

-----------------------------------------------------------------------------
(* handleEvents                                                               *)

\* Mutant: a join is searched for the expected end, as errors.Is does.
QuietStreamEndJoined(c, causes, receiving) ==
  \/ receiving /\ "EOF" \in causes
  \/ Ended(c) /\ "Canceled" \in causes

\* A single cause, and the one that is expected.
QuietStreamEnd(c, causes, receiving) ==
  \/ receiving /\ causes = {"EOF"}
  \/ Ended(c) /\ causes = {"Canceled"}

\* The head, or an event, was written and flushed: the deadline is cleared.
Flushed(c, from, to) ==
  /\ Written(c) /\ Go(c, from, to)
  /\ deadline' = deadline \ {c}
  /\ UNCHANGED <<failure, logged>>

Head(c) ==
  /\ \/ Flushed(c, "head", "subscribe")
     \/ WriteFails(c, "head", {"delivery"}) /\ UNCHANGED deadline
  /\ UNCHANGED <<told, othersOfWrite>>

\* quietStreamEnd ends the stream without a word; anything else is reported. The
\* context may end between the two, each of which looks at it.
Judge(c, from, causes) ==
  \/ /\ QuietStreamEnd(c, causes, from = "receive")
     /\ Go(c, from, "flush")
     /\ GoesWrong(c, causes)
     /\ UNCHANGED <<deadline, logged>>
  \/ /\ ~QuietStreamEnd(c, causes, from = "receive")
     /\ Go(c, from, "report")
     /\ GoesWrong(c, causes)
     /\ UNCHANGED <<deadline, logged>>

\* client.Subscribe; without an error it may return no stream.
Subscribe(c) ==
  /\ \/ Enter(c, "subscribe", "receive") /\ UNCHANGED <<failure, logged>>
     \/ \E causes \in DaemonErrors : Judge(c, "subscribe", causes)
     \/ /\ Go(c, "subscribe", "report")
        /\ GoesWrong(c, {"other"})
        /\ UNCHANGED <<deadline, logged>>
  /\ UNCHANGED <<told, othersOfWrite>>

\* stream.Recv: an event, one that is malformed or too large, or an error.
Receive(c) ==
  /\ \/ /\ Enter(c, "receive", IF Ended(c) THEN "flush" ELSE "send")
        /\ UNCHANGED <<failure, logged>>
     \/ \E causes \in DaemonErrors : Judge(c, "receive", causes)
     \/ /\ Go(c, "receive", "report")
        /\ GoesWrong(c, {"other"})
        /\ UNCHANGED <<deadline, logged>>
  /\ UNCHANGED <<told, othersOfWrite>>

\* Subscribe and Recv return once their context has ended.
ReturnCanceled(c) ==
  /\ Ended(c)
  /\ \E from \in {"subscribe", "receive"} : Judge(c, from, {"Canceled"})
  /\ UNCHANGED <<told, othersOfWrite>>

Send(c) ==
  /\ \/ Flushed(c, "send", "receive")
     \/ WriteFails(c, "send", {"delivery"}) /\ UNCHANGED deadline
  /\ UNCHANGED <<told, othersOfWrite>>

\* reportStreamFailure, which returns the cause if there is nobody to tell it.
Report(c) ==
  /\ \/ Ended(c) /\ Return(c, "report", failure[c]) /\ UNCHANGED deadline
     \/ ~Ended(c) /\ Enter(c, "report", "last") /\ UNCHANGED logged
  /\ UNCHANGED <<failure, told, othersOfWrite>>

\* Mutant: the error of the delivery hides the cause.
UndeliveredAlone(c) == {"delivery"}

\* finishStream joins the failure of the delivery to the cause.
Undelivered(c) == failure[c] \cup {"delivery"}

Last(c) ==
  /\ \/ /\ Flushed(c, "last", "flush")
        /\ told' = [told EXCEPT ![c] = failure[c]]
     \/ WriteFails(c, "last", Undelivered(c)) /\ UNCHANGED <<deadline, told>>
  /\ UNCHANGED othersOfWrite

-----------------------------------------------------------------------------
(* serveHTTP and the deferred close of runServer                              *)

\* The context of the process ends, and with it that of the requests.
Signal ==
  /\ server = "serving" /\ ~cancelled
  /\ cancelled' = TRUE
  /\ UNCHANGED <<server, serve, connVars, handlerVars, noticed, peer>>

\* Mutant: the deferred cancellation is relied upon.
StopServingUncancelled ==
  /\ server = "serving" /\ (cancelled \/ serve = "failed")
  /\ server' = "stopping"
  /\ UNCHANGED <<serve, cancelled, connVars, handlerVars, noticed, peer>>

StopServing ==
  /\ server = "serving" /\ (cancelled \/ serve = "failed")
  /\ server' = "stopping"
  /\ cancelled' = TRUE
  /\ UNCHANGED <<serve, connVars, handlerVars, noticed, peer>>

\* Shutdown closes the listener, and waits for Serve.
Shutdown ==
  /\ server = "stopping"
  /\ server' = "draining"
  /\ UNCHANGED <<serve, cancelled, connVars, handlerVars, noticed, peer>>

Idle == {c \in tracked : conn[c] = "idle"}

\* It closes the idle connections, again and again, until there are no others.
Drain ==
  /\ server = "draining" /\ serve \in {"ended", "failed"}
  /\ Idle # {} \/ tracked = {}
  /\ open' = open \ Idle /\ tracked' = tracked \ Idle
  /\ server' = IF tracked' = {} THEN "joining" ELSE server
  /\ UNCHANGED <<serve, cancelled, conn, active, handlerVars, noticed, peer>>

\* What a connection can wait for longer than the shutdown may take: a request, a
\* body or a reader, and a daemon if nobody has cancelled the wait.
SilentBrowser(c) ==
  \/ conn[c] = "new" /\ stage[c] = "none"
  \/ peer[c] = "stalled" /\ stage[c] \in Writing \cup {"body", "flush"}
Lasting(c) == SilentBrowser(c) \/ (stage[c] \in Waiting /\ ~Ended(c))

ShutdownExpires ==
  /\ server = "draining" /\ serve \in {"ended", "failed"}
  /\ \E c \in tracked : Lasting(c)
  /\ server' = "forcing"
  /\ UNCHANGED <<serve, cancelled, connVars, handlerVars, noticed, peer>>

\* Mutant: the failed shutdown is reported, and nothing closed.
ForceCloseNothing ==
  /\ server = "forcing"
  /\ server' = "joining"
  /\ UNCHANGED <<serve, cancelled, connVars, handlerVars, noticed, peer>>

ForceClose ==
  /\ server = "forcing"
  /\ open' = open \ tracked /\ tracked' = {}
  /\ server' = "joining"
  /\ UNCHANGED <<serve, cancelled, conn, active, handlerVars, noticed, peer>>

JoinServe ==
  /\ server = "joining" /\ serve \in {"ended", "failed"}
  /\ server' = "waiting"
  /\ UNCHANGED <<serve, cancelled, connVars, handlerVars, noticed, peer>>

\* connections.active.Wait()
WaitForHandlers ==
  /\ server = "waiting" /\ active = {}
  /\ server' = "returned"
  /\ UNCHANGED <<serve, cancelled, connVars, handlerVars, noticed, peer>>

CloseClient ==
  /\ server = "returned"
  /\ server' = "released"
  /\ UNCHANGED <<serve, cancelled, connVars, handlerVars, noticed, peer>>

-----------------------------------------------------------------------------
\* A handler's own step, and what net/http does for its connection.
Step(c) ==
  \/ Activate(c) \/ Route(c) \/ DecodeBody(c) \/ Call(c) \/ Reply(c) \/ Page(c)
  \/ Finish(c) \/ Head(c) \/ ReturnCanceled(c) \/ Send(c) \/ Report(c) \/ Last(c)
Daemon(c) == Subscribe(c) \/ Receive(c)
Browser(c) ==
  \/ Stall(c) \/ Leave(c) \/ Accept(c)
  \/ \E r \in Asks[c] : ReadRequest(c, r)
Connection(c) == Step(c) \/ Register(c) \/ NoticeEnd(c) \/ HangUp(c)
Main ==
  \/ StopServing \/ Shutdown \/ Drain \/ ShutdownExpires \/ ForceClose
  \/ JoinServe \/ WaitForHandlers \/ CloseClient

Next ==
  \/ \E c \in Browsers : Browser(c) \/ Daemon(c) \/ Connection(c)
  \/ ServeEnds \/ Signal \/ Main

Spec == Init /\ [][Next]_vars

\* Goroutines run and timers fire, those of each connection in any order. Nothing is
\* expected of browsers or of the daemon.
FairSpec ==
  /\ Spec /\ WF_vars(Main)
  /\ WF_vars(server \notin {"serving", "stopping"} /\ ServeEnds)
  /\ \A c \in Browsers : WF_vars(Connection(c))

-----------------------------------------------------------------------------
\* A connection is counted from its registration until it is closed, which only the
\* loop of Serve begins, one by one; its handler runs exactly while it is active.
ConnectionsMatch ==
  /\ active = {c \in Browsers : conn[c] \in {"new", "active", "idle"}}
  /\ \A c \in Browsers :
       /\ conn[c] \in {"none", "accepted"} => stage[c] = "none"
       /\ conn[c] = "new" => stage[c] \in {"none", "parsed"}
       /\ conn[c] = "active" => stage[c] \in Handling \cup {"flush"}
       /\ conn[c] \in {"idle", "closed"} => stage[c] \in {"none", "done"}
       /\ conn[c] = "accepted" =>
            serve = "registering" /\ \A d \in Browsers \ {c} : conn[d] # "accepted"

\* The shutdown cancels before it waits, joins the loop of Serve before it counts on
\* the connections that are left, and returns when none is.
ShutdownMatches ==
  /\ server # "serving" => cancelled
  /\ server \in {"forcing", "joining", "waiting", "returned", "released"} =>
       serve \in {"ended", "failed"}
  /\ server \in {"returned", "released"} => active = {}

\* When serveHTTP has returned, and so before the client of the daemon is closed,
\* no handler runs and none can begin, those included whose connection was closed
\* by force while its request was being read.
NothingLeft ==
  server \in {"returned", "released"} =>
    \A c \in Browsers : conn[c] \in {"none", "closed"} /\ stage[c] \in {"none", "done"}

\* Together: how the connections, their handlers and the shutdown keep step.
ClientOutlivesHandlers ==
  Types /\ ConnectionsMatch /\ ShutdownMatches /\ NothingLeft

\* When a handler is over, everything that went wrong for it is in the terminal
\* frame that its browser was sent, or in the error that the log has, together with
\* the failure to deliver that frame: nothing is dropped on the way, nor told to a
\* browser that cannot hear it. Only the expected end of a stream, of the
\* subscription or of its own request, is passed over (stream.go:81-97, 128-217).
Quietly(c) ==
  /\ told[c] = {} /\ logged[c] = {}
  /\ failure[c] = {"EOF"} \/ (failure[c] = {"Canceled"} /\ Ended(c))

EndAccounted(c) ==
  /\ stage[c] # "flush" =>
       told[c] = {} /\ logged[c] = {} /\ "delivery" \notin failure[c]
  /\ failure[c] # {} => stage[c] \in {"report", "last", "flush"}
  /\ stage[c] = "flush" =>
       \/ Quietly(c)
       \/ told[c] = failure[c] /\ "delivery" \notin failure[c] /\ logged[c] = {}
       \/ logged[c] = failure[c] /\ told[c] = {}
EndsAreAccounted == \A c \in Browsers : EndAccounted(c)

\* The shutdown runs out of time, which closes connections by force, only because of
\* a browser: an idle stream or a slow daemon never holds it up, whether a signal
\* stopped the server or its listener failed.
ForcedOnlyByBrowsers ==
  [][ShutdownExpires => \E c \in tracked : SilentBrowser(c)]_vars

\* Once the process is to stop, it stops; and while it serves, no answer, event,
\* call or body takes for ever, whatever the browser and the daemon do.
Bounded == (Writing \ {"page"}) \cup {"call", "body"}
EverythingEnds ==
  /\ cancelled ~> server = "released"
  /\ \A c \in Browsers : stage[c] \in Bounded ~> stage[c] \notin Bounded
=============================================================================
