----------------------------- MODULE NDownloader -----------------------------
(***************************************************************************)
(* The downloader, n_downloader.c.                                         *)
(*                                                                         *)
(* Threads call N_Download, which queues a request.  One worker thread     *)
(* takes the head of the queue through connect, handshake, request and     *)
(* reply, one step per iteration of its loop, and moves it to a second     *)
(* list when it is done.  The main thread reports what is done             *)
(* (N_DownloadStep), starts the worker (N_DownloadInit) and stops it       *)
(* (N_DownloadShutDown).  A mutex guards the lists; what a thread does     *)
(* with the mutex held is one action.  What it does without, the check of  *)
(* the service's state in N_Download and the callback, is a step of its    *)
(* own.                                                                    *)
(*                                                                         *)
(* A reply is a number of octets of which the first ones are the header;   *)
(* sizes are counted in units of some octets.  The network may fail at     *)
(* every step.  The build is the release build, where U_ASSERT is empty.   *)
(***************************************************************************)
EXTENDS Integers, Sequences, SequencesExt

CONSTANTS Clients,      \* threads that call N_Download
          Entries,      \* the memory blocks U_Alloc can hand out
          Requests,     \* the (scheme, maxsize) of the calls
          Replies,      \* what the servers answer
          MaxHandle,    \* INT_MAX: the counter of handles wraps after it
          MaxInits      \* bound: calls of N_DownloadInit

Schemes == {"https", "http", "other"}

Request == [scheme: Schemes, maxsize: Nat]

\* The HTTP status, the size of the header, the value of Content-Length (0 if
\* there is none), and how much the server sends before it closes.
Reply == [code: {200, 404, 500}, header: Nat \ {0}, length: Nat, sent: Nat]

ASSUME ConstantsAssumption ==
  /\ Requests \subseteq Request
  /\ Replies \subseteq Reply
  /\ MaxHandle \in Nat \ {0}
  /\ MaxInits \in Nat

VARIABLES
  state,    \* ndl_.state; N_DL_RUNNING is never assigned
  handle,   \* ndl_.handle, the next handle
  busy,     \* ndl_.busy_list
  done,     \* ndl_.done_list
  entry,    \* the content of each memory block
  socket,   \* ndl_.ssl: "open" while it holds a file descriptor
  worker,   \* the worker thread
  main,     \* where the main thread is
  client,   \* the clients inside N_Download, with their request
  inits     \* bound: calls of N_DownloadInit so far

vars == <<state, handle, busy, done, entry, socket, worker, main, client, inits>>

EntryStates == {"INITIAL", "TCP_CONNECTED", "SSL_HANDSHAKE", "SSL_CONNECTED",
                "WAIT_REPLY", "DONE"}

FinalStatuses == {"Done", "Error", "ErrorNotFound", "ErrorSizeMismatch",
                  "ErrorSendRequest", "ErrorHandshake", "ErrorTooLarge"}

NoReply == [code |-> 0]

\* struct N_DownloadEntry.  `reply` is history: what the server answers.
Entry == [handle: Nat, scheme: Schemes, bufsize: Nat,
          status: {"Starting", "Running"} \cup FinalStatuses,
          state: EntryStates,
          hdr_length: Nat, content_length: Nat, bufpos: Nat,
          reply: Reply \cup {NoReply}]

Unallocated == [state |-> "unallocated"]

TypeOK ==
  /\ state \in {"INITIAL", "SHUTDOWN", "IDLE"}
  /\ handle \in Nat
  /\ busy \in Seq(Entries)
  /\ done \in Seq(Entries)
  /\ entry \in [Entries -> Entry \cup {Unallocated}]
  /\ socket \in {"closed", "open"}
  /\ worker \in {"none", "running", "exited"}
  /\ main \in [pc: {"idle", "joining"}] \cup [pc: {"callback"}, entry: Entries]
  /\ client \in [Clients -> [pc: {"idle"}] \cup [pc: {"checked"}, request: Request]]
  /\ inits \in Nat
  /\ \A e \in Entries : entry[e] # Unallocated =>
       entry[e].bufpos <= entry[e].bufsize /\ entry[e].handle > 0

Init ==
  /\ state = "INITIAL"
  /\ handle = 0
  /\ busy = <<>>
  /\ done = <<>>
  /\ entry = [e \in Entries |-> Unallocated]
  /\ socket = "closed"
  /\ worker = "none"
  /\ main = [pc |-> "idle"]
  /\ client = [c \in Clients |-> [pc |-> "idle"]]
  /\ inits = 0

-----------------------------------------------------------------------------
(* N_Download, on any thread.                                              *)

\* The state is read before the mutex is locked.
N_DownloadCheck(c, request) ==
  /\ client[c].pc = "idle"
  /\ state = "IDLE"
  /\ client' = [client EXCEPT ![c] = [pc |-> "checked", request |-> request]]
  /\ UNCHANGED <<state, handle, busy, done, entry, socket, worker, main, inits>>

\* The counter is not positive after it has wrapped.
NextHandle == IF handle <= 0 THEN 1 ELSE handle

\* handle++ beyond INT_MAX makes the counter negative in the builds there are
\* (0 stands for it), and the next N_Download starts again with 1.
Incremented(h) == IF h = MaxHandle THEN 0 ELSE h + 1

NewEntry(request) ==
  [handle |-> NextHandle, scheme |-> request.scheme, bufsize |-> request.maxsize,
   status |-> "Starting", state |-> "INITIAL",
   hdr_length |-> 0, content_length |-> 0, bufpos |-> 0, reply |-> NoReply]

Heap == {e \in Entries : entry[e] = Unallocated}

\* Mutant: the new entry goes to the front of the list.
EnqueueInFront(e) == busy' = <<e>> \o busy

Enqueue(e) == busy' = Append(busy, e)

\* The locked part.  The state is not looked at again: the worker may have
\* gone since, and U_thread_mutex_lock fails on the destroyed mutex without
\* being noticed.
N_DownloadQueue(c) ==
  /\ client[c].pc = "checked"
  /\ client' = [client EXCEPT ![c] = [pc |-> "idle"]]
  /\ \/ /\ Heap # {}
        /\ LET e == CHOOSE e \in Heap : TRUE IN
           /\ entry' = [entry EXCEPT ![e] = NewEntry(client[c].request)]
           /\ Enqueue(e)
        /\ handle' = Incremented(NextHandle)
     \/ UNCHANGED <<entry, busy, handle>>   \* U_Alloc failed: 0 is appended
  /\ UNCHANGED <<state, done, socket, worker, main, inits>>

-----------------------------------------------------------------------------
(* The worker's steps for the head of the queue.  Each takes the entry and *)
(* the open/closed socket to the ones after the step.                      *)

\* Mutant: the entry keeps its state.
EndedInPlace(x, status) == [x EXCEPT !.status = status]

Ended(x, status) == [x EXCEPT !.state = "DONE", !.status = status]

Move(e, x, s) ==
  /\ entry' = [entry EXCEPT ![e] = x]
  /\ socket' = s
  /\ UNCHANGED <<busy, done>>

ndl_connect(e) ==
  LET x == entry[e] IN
  /\ x.state = "INITIAL"
  /\ \/ /\ x.scheme = "https"
        /\ Move(e, [x EXCEPT !.state = "SSL_HANDSHAKE"], "open")
     \/ /\ x.scheme = "http"
        /\ Move(e, [x EXCEPT !.state = "TCP_CONNECTED"], "open")
     \* Unknown scheme: the socket is not touched.
     \/ /\ x.scheme = "other"
        /\ Move(e, Ended(x, "Error"), socket)
     \* Resolving, connecting or the proxy failed: the socket is closed.
     \/ /\ x.scheme \in {"https", "http"}
        /\ Move(e, Ended(x, "Error"), "closed")

\* A handshake that is still in progress changes nothing.
ndl_ssl_handshake(e) ==
  LET x == entry[e] IN
  /\ x.state = "SSL_HANDSHAKE"
  /\ \/ Move(e, [x EXCEPT !.state = "SSL_CONNECTED"], socket)
     \/ Move(e, Ended(x, "ErrorHandshake"), "closed")
     \/ Move(e, x, socket)

\* The server chooses its reply.  A failed write closes the TCP connection, or
\* leaves it open when the SSL library refused.
ndl_send_request(e) ==
  LET x == entry[e] IN
  /\ x.state \in {"TCP_CONNECTED", "SSL_CONNECTED"}
  /\ \/ \E r \in Replies :
          Move(e, [x EXCEPT !.state = "WAIT_REPLY", !.status = "Running",
                            !.hdr_length = 0, !.reply = r], socket)
     \/ Move(e, Ended(x, "ErrorSendRequest"), "closed")
     \/ Move(e, Ended(x, "ErrorSendRequest"), socket)

\* The header is complete in the buffer with at least one octet behind it:
\* the search for its end leaves the last four octets out.  (The code's other
\* condition, more than 16 octets, holds for every complete header.)
HeaderFound(x) == x.hdr_length = 0 /\ x.reply.header < x.bufpos

\* What the header makes of the entry.
ParseHeader(x) ==
  LET r == x.reply
      n == IF r.code = 200 THEN r.length ELSE 0
  IN [x EXCEPT
        !.hdr_length = r.header,
        !.content_length = n,
        !.status = CASE r.code = 404              -> "ErrorNotFound"
                     [] r.code = 500              -> "Error"
                     [] x.bufsize < r.header + n  -> "ErrorTooLarge"
                     [] OTHER                     -> @]

Received(x, n) ==
  LET y == [x EXCEPT !.bufpos = @ + n]
  IN IF HeaderFound(y) THEN ParseHeader(y) ELSE y

\* Mutant: any end of the connection after a header is a success.
EndStatusUnchecked(x) ==
  IF x.status # "Running" THEN x.status
  ELSE IF x.hdr_length > 0 \/ x.bufpos = 0 THEN "Done"
  ELSE "ErrorSizeMismatch"

EndStatus(x) ==
  IF x.status # "Running" THEN x.status
  ELSE IF x.hdr_length + x.content_length = x.bufpos THEN "Done"
  ELSE "ErrorSizeMismatch"

\* Mutant: the room left in the buffer is not looked at.
ReadableUnbounded(x) == x.reply.sent - x.bufpos

\* The octets the next read may return at most.
Readable(x) == Min({x.bufsize, x.reply.sent}) - x.bufpos

\* A read returns some octets; or it returns nothing because the buffer is
\* full, the server has closed, or the connection broke, and the TLS socket
\* is then closed at once; or there is nothing to read, or only a part of a
\* TLS record.
ndl_read_response(e) ==
  LET x == entry[e] IN
  /\ x.state = "WAIT_REPLY"
  /\ \/ \E n \in 1..Readable(x) : Move(e, Received(x, n), socket)
     \/ Move(e, Ended(x, EndStatus(x)), socket)
     \/ Move(e, Ended(x, EndStatus(x)), "closed")
     \/ Move(e, x, socket)

\* Mutant: the socket stays open.
CloseForgotten(e) == socket' = socket

\* N_SslClose or N_TcpClose.
Close(e) == socket' = "closed"

\* The entry goes to the front of the done list.
Retire(e) ==
  /\ entry[e].state = "DONE"
  /\ Close(e)
  /\ busy' = Tail(busy)
  /\ done' = <<e>> \o done
  /\ UNCHANGED entry

-----------------------------------------------------------------------------
(* The worker's loop.                                                      *)

ndl_thread_exit ==
  /\ worker = "running"
  /\ state = "SHUTDOWN"
  /\ worker' = "exited"
  /\ UNCHANGED <<state, handle, busy, done, entry, socket, main, client, inits>>

ndl_thread ==
  /\ worker = "running"
  /\ state # "SHUTDOWN"
  /\ busy # <<>>
  /\ LET e == Head(busy) IN
     \/ ndl_connect(e)
     \/ ndl_ssl_handshake(e)
     \/ ndl_send_request(e)
     \/ ndl_read_response(e)
     \/ Retire(e)
  /\ UNCHANGED <<state, handle, worker, main, client, inits>>

-----------------------------------------------------------------------------
(* The main thread.                                                        *)

\* The lists and the socket are kept from before a shutdown.
N_DownloadInit ==
  /\ main.pc = "idle"
  /\ state = "INITIAL"
  /\ inits < MaxInits
  /\ inits' = inits + 1
  /\ handle' = 1
  /\ state' = "IDLE"
  /\ worker' = "running"
  /\ UNCHANGED <<busy, done, entry, socket, main, client>>

\* Mutant: the request to stop is not stored.
StopNotRequested == state

\* N_DL_IDLE is the only state above N_DL_RUNNING.
StopRequested == IF state = "IDLE" THEN "SHUTDOWN" ELSE state

N_DownloadShutDown ==
  /\ main.pc = "idle"
  /\ state # "INITIAL"
  /\ state' = StopRequested
  /\ main' = [pc |-> "joining"]
  /\ UNCHANGED <<handle, busy, done, entry, socket, worker, client, inits>>

\* U_thread_join returns.
N_DownloadShutDownJoined ==
  /\ main.pc = "joining"
  /\ worker = "exited"
  /\ worker' = "none"
  /\ state' = "INITIAL"
  /\ main' = [pc |-> "idle"]
  /\ UNCHANGED <<handle, busy, done, entry, socket, client, inits>>

\* Mutant: the last entry is overlooked.
MoreThanOneDone == Len(done) > 1

SomethingDone == done # <<>>

Pop == done' = Tail(done)

\* The locked part takes the head of the done list.
N_DownloadStep ==
  /\ main.pc = "idle"
  /\ state # "INITIAL"
  /\ SomethingDone
  /\ Pop
  /\ main' = [pc |-> "callback", entry |-> Head(done)]
  /\ UNCHANGED <<state, handle, busy, entry, socket, worker, client, inits>>

\* The callback runs, then the entry is freed.
N_DownloadStepReport ==
  /\ main.pc = "callback"
  /\ entry' = [entry EXCEPT ![main.entry] = Unallocated]
  /\ main' = [pc |-> "idle"]
  /\ UNCHANGED <<state, handle, busy, done, socket, worker, client, inits>>

Next ==
  \/ \E c \in Clients, request \in Requests : N_DownloadCheck(c, request)
  \/ \E c \in Clients : N_DownloadQueue(c)
  \/ ndl_thread
  \/ ndl_thread_exit
  \/ N_DownloadInit
  \/ N_DownloadShutDown
  \/ N_DownloadShutDownJoined
  \/ N_DownloadStep
  \/ N_DownloadStepReport

Spec == Init /\ [][Next]_vars

\* The worker's loop and the main loop keep running.  There is no timeout: a
\* step of the worker that changes something comes only if the server sends,
\* closes or refuses at last.
FairSpec ==
  /\ Spec
  /\ WF_vars(ndl_thread)
  /\ WF_vars(ndl_thread_exit)
  /\ WF_vars(N_DownloadShutDownJoined)
  /\ WF_vars(N_DownloadStep)
  /\ WF_vars(N_DownloadStepReport)

-----------------------------------------------------------------------------
(* Properties.                                                             *)

Listed(list) == {list[k] : k \in 1..Len(list)}

InCallback == IF main.pc = "callback" THEN {main.entry} ELSE {}

NoDuplicates(list) ==
  \A i, j \in 1..Len(list) : list[i] = list[j] => i = j

(* Every allocated entry is in one place: once in the queue, once on the   *)
(* done list, or with the main thread; and a free block is nowhere.  So no *)
(* thread works on an entry another one frees, none is lost, and none is   *)
(* reported twice, across shutdowns and restarts too.  The one socket of   *)
(* the service belongs to the head of the queue: nobody else has started,  *)
(* and a connect never finds the socket still open from the download       *)
(* before, which would leak its file descriptor and its TLS session.       *)
NothingLostOrShared ==
  /\ Listed(busy) \cup Listed(done) \cup InCallback = Entries \ Heap
  /\ Listed(busy) \cap Listed(done) = {}
  /\ InCallback \cap (Listed(busy) \cup Listed(done)) = {}
  /\ NoDuplicates(busy) /\ NoDuplicates(done)
  /\ \A k \in 2..Len(busy) : entry[busy[k]].state = "INITIAL"
  /\ socket = "open" => busy # <<>> /\ entry[Head(busy)].state # "INITIAL"

(* Success is reported only for a complete answer: status 200, a header, a *)
(* Content-Length and exactly as many octets behind the header, all inside *)
(* the buffer - however the reply was cut into reads and wherever the      *)
(* connection broke.  The exception is a connection that ended before its  *)
(* first octet (see SomethingWasReceived).                                 *)
DoneMeansComplete ==
  \A e \in Entries \ Heap :
    LET x == entry[e]
        r == x.reply
    IN x.status = "Done" /\ x.bufpos # 0 =>
         /\ r.code = 200
         /\ x.bufpos = r.header + r.length
         /\ x.bufpos <= x.bufsize

(* The assertion at the end of a connection: something was received.       *)
SomethingWasReceived ==
  \A e \in Entries \ Heap :
    entry[e].status \in {"Done", "ErrorSizeMismatch"} => entry[e].bufpos # 0

(* The abstract service: the queue in order, and the results that wait for *)
(* their report.                                                           *)
Job(e) == [id |-> e, handle |-> entry[e].handle]

Service == INSTANCE DownloadService
             WITH Jobs <- [id: Entries, handle: 1..MaxHandle],
                  Statuses <- FinalStatuses,
                  queue <- [k \in 1..Len(busy) |-> Job(busy[k])],
                  finished <- {[job |-> Job(e), status |-> entry[e].status] :
                                 e \in Listed(done) \cup InCallback}

(* Downloads are worked on in the order they were accepted, leave the      *)
(* queue with a final status only, keep it until the report, and are       *)
(* reported once.                                                          *)
ImplementsService == Service!Spec

(* Every queued download is worked off while the service runs, whatever    *)
(* requests come after it, provided that no server stays silent forever.   *)
QueueMoves ==
  \A e \in Entries :
    e \in Listed(busy) ~> e \notin Listed(busy) \/ state # "IDLE"

(* When no more downloads come, all that are done are reported.  (While    *)
(* they do, a result can wait for long: the done list is a stack.)         *)
AllReported ==
  <>[](busy = <<>> /\ state = "IDLE") => <>[](done = <<>> /\ InCallback = {})

(* N_DownloadShutDown returns: the worker sees the request, whatever it is *)
(* doing, and the main thread does not wait for ever.                      *)
ShutDownReturns == main.pc = "joining" ~> main.pc = "idle"
=============================================================================
